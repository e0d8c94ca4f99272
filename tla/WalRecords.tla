---------------------------- MODULE WalRecords -----------------------------
(***************************************************************************)
(* The records of spg-server's write-ahead log and what running them on an *)
(* engine does: at boot (replay_wal_bytes_reporting) and on a follower     *)
(* (apply_replicated) alike, one SQL text after the other on one slot.     *)
(*                                                                         *)
(* A write is an INSERT of one row into a table without a unique key, so a *)
(* database is how often each write is in it.                              *)
(***************************************************************************)
EXTENDS Naturals, Sequences

CONSTANT MaxWrites   \* bound: writes in a behaviour

ASSUME WalRecordsAssumption == MaxWrites \in Nat

Writes == 1..MaxWrites

Databases == [Writes -> Nat]

Nothing == [w \in Writes |-> 0]

Plus(d, ws) == [w \in Writes |-> IF w \in ws THEN d[w] + 1 ELSE d[w]]

\* A record does not name its transaction: tx is a ghost (see ServerWal).
Record(kind, tx, w) == [kind |-> kind, tx |-> tx, w |-> w]

Ends == {"COMMIT", "ROLLBACK"}

\* An engine as far as the log can tell: the committed database, and the one
\* transaction that replayed lines can have open.
Engine(db) == [base |-> db, open |-> FALSE, shadow |-> {}]

\* One record on the one slot replay uses (IMPLICIT_TX): a BEGIN inside a
\* transaction and a COMMIT or ROLLBACK outside one are warnings; a durability
\* marker and the readings of the next statement change nothing.
ReplayRecord(st, r) ==
  CASE r.kind = "BEGIN"    -> IF st.open THEN st
                              ELSE [st EXCEPT !.open = TRUE, !.shadow = {}]
    [] r.kind = "SQL"      -> IF st.open THEN [st EXCEPT !.shadow = @ \cup {r.w}]
                              ELSE [st EXCEPT !.base = Plus(@, {r.w})]
    [] r.kind = "COMMIT"   -> IF st.open
                              THEN [st EXCEPT !.open = FALSE, !.base = Plus(@, st.shadow)]
                              ELSE st
    [] r.kind = "ROLLBACK" -> [st EXCEPT !.open = FALSE]
    [] r.kind \in {"MARK", "INPUTS"} -> st

Replayed(st, lg) ==
  LET upto[i \in 0..Len(lg)] ==
        IF i = 0 THEN st ELSE ReplayRecord(upto[i - 1], lg[i])
  IN  upto[Len(lg)]

\* The database a boot ends up with; a transaction still open at the end of
\* the log is rolled back.
Recovered(snapshot, lg) == Replayed(Engine(snapshot), lg).base
=============================================================================
