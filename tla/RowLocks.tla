------------------------------ MODULE RowLocks ------------------------------
(***************************************************************************)
(* Sessions that lock rows and unique keys: the engine's statements        *)
(* (run_locking_prepass, lock_dml_rows, wait_for_uncommitted_unique_keys)  *)
(* composed with the server's retry loop, which owns every wait.           *)
(*                                                                         *)
(* The engine never parks.  A statement runs to completion under the       *)
(* engine write guard (action Attempt); when a lock is taken it answers    *)
(* LockWouldBlock, the guard drops and the server runs the statement       *)
(* again after a back-off, until it succeeds, fails, or the session's      *)
(* timeout or a cancel stops it (action GiveUp), which the engine is not   *)
(* told of.  Locks a blocked statement of an open transaction took on its  *)
(* way stay held.                                                          *)
(*                                                                         *)
(* An autocommit attempt draws a fresh version and releases everything     *)
(* under the same guard, so its version is never compared with another     *)
(* one's afterwards: the model gives it nextVersion without consuming it.  *)
(***************************************************************************)
EXTENDS LockTable

CONSTANTS Sessions,           \* connections
          Keys,               \* unique-key values writers compete for
          Stmts,              \* the statements clients send
          TimeoutSessions,    \* with a lock_timeout, a statement_timeout or a cancel
          FrozenSessions,     \* that may run REPEATABLE READ, SERIALIZABLE, DDL
          SavepointSessions,  \* that use SAVEPOINT
          MaxVersion          \* bound: BEGINs in one behaviour

ASSUME RowLocksAssumption ==
  /\ MaxVersion \in Nat
  /\ Versions = 1..(MaxVersion + 1)

VARIABLES sess,           \* what the server keeps per connection
          nextVersion,    \* row_header::next_version
          keyOwners,      \* <<key, version>>: live uncommitted rows
          committedKeys,  \* keys of committed rows
          raced,          \* ghost: owners in a race the key wait did not see
          left            \* ghost: wait edges of a wait that is over

vars == <<locks, sess, nextVersion, keyOwners, committedKeys, raced, left>>

NoStmt == [kind |-> "none"]

\* A walk over rows in result order, locking until `limit` of them are taken
\* (SELECT .. FOR, UPDATE, DELETE), after the wait for the keys its new rows
\* claim (INSERT, UPDATE).  An INSERT with ON CONFLICT DO UPDATE moves the row
\* it meets to the keys `to`; `frees` are keys the transaction gives up when
\* the row is its own.
StmtOK(st) ==
  /\ st \in [kind : {"lock", "delete", "insert", "update"}, claims : SUBSET Keys,
             to : SUBSET Keys, frees : SUBSET Keys, rows : Seq(Rows),
             mode : Modes, policy : Policies, limit : Nat]
  /\ st.kind \in {"lock", "delete"} => st.claims = {} /\ st.to = {}

ASSUME StmtsAssumption == \A st \in Stmts : StmtOK(st)

Open(s) == sess[s].v # 0

\* TxState.aborted, with the kind of error that set it.
Aborted(s) == sess[s].aborted # "no"

NoMark == [on |-> FALSE, keys |-> {}, seen |-> {}]

Closed == [v |-> 0, pc |-> "idle", stmt |-> NoStmt, aborted |-> "no",
           frozen |-> FALSE, seen |-> {}, mark |-> NoMark]

SessStates ==
  [v : 0..MaxVersion, pc : {"idle", "pending"}, stmt : Stmts \cup {NoStmt},
   aborted : {"no", "unavailable", "deadlock", "duplicate", "failed"},
   frozen : BOOLEAN, seen : SUBSET Keys,
   mark : [on : BOOLEAN, keys : SUBSET Keys, seen : SUBSET Keys]]

Own(v) == {k \in Keys : <<k, v>> \in keyOwners}

Owners(K, v) == {<<k, v>> : k \in K}

LocksInit ==
  /\ Init
  /\ sess = [s \in Sessions |-> Closed]
  /\ nextVersion = 1
  /\ keyOwners = {}
  /\ committedKeys = {}
  /\ raced = {}
  /\ left = [v \in Versions |-> {}]

---------------------------------------------------------------------------
(* Ghosts: what the code does not keep.                                    *)

Rivals(v, k) == {w \in Versions : w # v /\ <<k, w>> \in keyOwners}

\* v takes the keys K although others may hold them: both sides race.
Races(v, K) ==
  {o \in Keys \X Versions :
     o[1] \in K /\ Rivals(v, o[1]) # {} /\ o[2] \in Rivals(v, o[1]) \cup {v}}

\* Open transactions whose pending statement wants one of the keys K.
Wanting(K) ==
  {sess[s].v : s \in {t \in Sessions : sess[t].pc = "pending" /\ sess[t].stmt.claims \cap K # {}}}

\* Edges nobody waits along any more: those of v itself to `over`, and those to
\* v of the transactions that want a key v has just freed.  An edge the table
\* drops is no longer left over.
Leave(v, over, freed) ==
  left' = [u \in Versions |-> locks'.waitFor[u] \cap
             (left[u] \cup (IF u = v THEN over ELSE {})
                      \cup (IF u \in Wanting(freed) THEN {v} ELSE {}))]

---------------------------------------------------------------------------
(* One attempt of a statement, under the engine guard.                     *)

\* One row of the walk.  A victim named by the detector fails only if it is
\* this transaction; otherwise it waits.
TakeRow(acc, row, v, st) ==
  LET a == Acquire(acc.lt, row, st.mode, v, st.policy)
  IN  CASE a.out.kind = "Granted" -> [lt |-> a.lt, taken |-> acc.taken + 1, out |-> "ok"]
        [] a.out.kind = "Skip" -> acc
        [] a.out.kind = "NotAvailable" -> [acc EXCEPT !.out = "unavailable"]
        [] a.out.kind = "WouldBlock" -> [acc EXCEPT !.lt = a.lt, !.out = "wait"]
        [] a.out.kind = "Deadlock" ->
             [acc EXCEPT !.lt = a.lt,
                         !.out = IF a.out.victim = v THEN "deadlock" ELSE "wait"]

\* The row walk of run_locking_prepass and lock_dml_rows: until a row cannot
\* be had or enough are taken.
Walk(lt, v, st) ==
  LET upto[i \in 0..Len(st.rows)] ==
        IF i = 0 THEN [lt |-> lt, taken |-> 0, out |-> "ok"]
        ELSE IF upto[i - 1].out # "ok" \/ upto[i - 1].taken >= st.limit THEN upto[i - 1]
        ELSE TakeRow(upto[i - 1], st.rows[i], v, st)
  IN  [lt |-> upto[Len(st.rows)].lt, out |-> upto[Len(st.rows)].out]

\* Mutant: only older transactions are waited for.
KeyHoldersMutant(v, K) == {w \in Versions : w < v /\ \E k \in K : <<k, w>> \in keyOwners}

\* uncommitted_unique_holders: the others whose live uncommitted rows claim
\* one of these keys.
KeyHolders(v, K) == {w \in Versions : w # v /\ \E k \in K : <<k, w>> \in keyOwners}

\* wait_for_uncommitted_unique_keys: the first writer of a key owns it until
\* its transaction ends; the others wait for that transaction.
KeyWait(lt, v, K, inTx) ==
  LET holders == KeyHolders(v, K)
      parked  == WaitOnVersions(lt, v, holders)
  IN  CASE holders = {} -> [lt |-> IF inTx THEN ClearWait(lt, v) ELSE lt, out |-> "ok"]
        [] holders # {} /\ ~inTx -> [lt |-> lt, out |-> "wait"]
        [] holders # {} /\ inTx ->
             [lt |-> parked.lt,
              out |-> IF parked.out.kind = "Deadlock" /\ parked.out.victim = v
                      THEN "deadlock" ELSE "wait"]

\* The keys of the catalog a statement reads: the transaction's own shadow,
\* which a READ COMMITTED block has just rebased onto the committed catalog
\* and a frozen one keeps as it was cloned.
Shadow(s) == (IF sess[s].frozen THEN sess[s].seen ELSE committedKeys) \cup Own(sess[s].v)

\* ON CONFLICT DO UPDATE meets its row.
Upserts(st, shadow) == st.to # {} /\ st.claims \cap shadow # {}

\* The keys of the rows the statement adds, which nobody waits for when they
\* come from DO UPDATE SET.
Takes(st, shadow) == IF Upserts(st, shadow) THEN st.to ELSE st.claims

Frees(st, shadow) == st.frees \cup (IF Upserts(st, shadow) THEN st.claims ELSE {})

\* enforce_uniqueness_inserts and its twins, which probe the shadow only.
Duplicate(st, shadow) == Takes(st, shadow) \cap shadow # {}

Execute(lt, v, st, inTx, shadow) ==
  LET key == IF st.kind \in {"insert", "update"} THEN KeyWait(lt, v, st.claims, inTx)
             ELSE [lt |-> lt, out |-> "ok"]
  IN  IF key.out # "ok" THEN key
      ELSE IF Duplicate(st, shadow) THEN [lt |-> key.lt, out |-> "duplicate"]
      ELSE Walk(key.lt, v, st)

\* Mutant: an autocommit statement keeps its locks.
StatementLocksMutant(lt, v, inTx) == lt

\* release_autocommit_stmt_locks: an autocommit statement drops its locks
\* however it ended.
StatementLocks(lt, v, inTx) == IF inTx THEN lt ELSE ReleaseAll(lt, v)

\* Mutant: the block is marked whatever the outcome was.
AbortMarkMutant(out, inTx) == IF inTx THEN out ELSE "no"

\* set_current_tx_aborted.
AbortMark(out, inTx) == IF inTx /\ out # "ok" THEN out ELSE "no"

\* maybe_rc_rebase finds a key of this block in the committed catalog.
Collides(s) == ~sess[s].frozen /\ Own(sess[s].v) \cap committedKeys # {}

\* execute_stmt_with_cancel: LockWouldBlock leaves the block alone, every other
\* error aborts it; a statement that has its locks may still fail.
Attempt(s) ==
  /\ sess[s].pc = "pending" /\ ~Collides(s)
  /\ LET inTx   == Open(s)
         v      == IF inTx THEN sess[s].v ELSE nextVersion
         st     == sess[s].stmt
         shadow == Shadow(s)
     IN  \E r \in {Execute(locks, v, st, inTx, shadow)} :
         \E out \in {r.out} \cup (IF r.out = "ok" THEN {"failed"} ELSE {}) :
         LET takes == IF out = "ok" THEN Takes(st, shadow) ELSE {}
             frees == IF out = "ok" THEN Frees(st, shadow) \cap Own(v) ELSE {}
             jumps == IF Upserts(st, shadow) THEN takes ELSE {}
         IN  /\ locks' = StatementLocks(r.lt, v, inTx)
             /\ sess' = [sess EXCEPT
                   ![s].seen = IF inTx /\ ~sess[s].frozen THEN committedKeys ELSE @,
                   ![s].pc = IF out = "wait" THEN @ ELSE "idle",
                   ![s].stmt = IF out = "wait" THEN @ ELSE NoStmt,
                   ![s].aborted = IF out = "wait" THEN @ ELSE AbortMark(out, inTx)]
             /\ keyOwners' = (keyOwners \ Owners(frees, v))
                               \cup (IF inTx THEN Owners(takes, v) ELSE {})
             /\ committedKeys' = committedKeys \cup (IF inTx THEN {} ELSE takes)
             /\ raced' = (raced \cup Races(v, jumps)) \cap keyOwners'
             /\ Leave(v, IF out = "wait" THEN {} ELSE Versions, frees)
  /\ UNCHANGED nextVersion

\* The rebase in front of the statement fails with 40001, and with `?` before
\* the abort mark.
RebaseFails(s) ==
  /\ sess[s].pc = "pending" /\ Collides(s)
  /\ sess' = [sess EXCEPT ![s].pc = "idle", ![s].stmt = NoStmt]
  /\ UNCHANGED <<locks, nextVersion, keyOwners, committedKeys, raced>>
  /\ Leave(sess[s].v, Versions, {})

---------------------------------------------------------------------------
(* The session around it.                                                  *)

\* exec_begin: the writer version is allocated first; REPEATABLE READ and
\* SERIALIZABLE keep the clone they start from.
Begin(s) ==
  /\ sess[s].pc = "idle" /\ ~Open(s) /\ nextVersion <= MaxVersion
  /\ \E frozen \in BOOLEAN :
       /\ frozen => s \in FrozenSessions
       /\ sess' = [sess EXCEPT ![s] = [Closed EXCEPT !.v = nextVersion, !.frozen = frozen,
                                                     !.seen = committedKeys]]
  /\ nextVersion' = nextVersion + 1
  /\ UNCHANGED <<locks, keyOwners, committedKeys, raced, left>>

\* A client sends a statement.  In an aborted block the engine refuses it
\* before anything happens, so it is not sent here.
Issue(s) ==
  /\ sess[s].pc = "idle" /\ ~Aborted(s)
  /\ \E st \in Stmts :
       sess' = [sess EXCEPT ![s].pc = "pending", ![s].stmt = st]
  /\ UNCHANGED <<locks, nextVersion, keyOwners, committedKeys, raced, left>>

\* What others commit while the statement waits changes the rows its next
\* attempt finds; the edges of the rows it no longer wants stay.
Rechoose(s) ==
  /\ sess[s].pc = "pending" /\ ~sess[s].frozen
  /\ \E st \in Stmts :
       /\ st # sess[s].stmt
       /\ st = [sess[s].stmt EXCEPT !.rows = st.rows]
       /\ sess' = [sess EXCEPT ![s].stmt = st]
  /\ UNCHANGED <<locks, nextVersion, keyOwners, committedKeys, raced>>
  /\ Leave(sess[s].v, Versions, {})

\* The retry loop stops: lock_timeout, statement_timeout or a CancelRequest
\* found between two attempts.  The block is not aborted and the engine keeps
\* the wait.
GiveUp(s) ==
  /\ s \in TimeoutSessions
  /\ sess[s].pc = "pending"
  /\ sess' = [sess EXCEPT ![s].pc = "idle", ![s].stmt = NoStmt]
  /\ UNCHANGED <<locks, nextVersion, keyOwners, committedKeys, raced>>
  /\ Leave(sess[s].v, Versions, {})

\* A statement the rebase cannot fold (DDL, MERGE) poisons it: the block is
\* frozen from here on.
Poison(s) ==
  /\ s \in FrozenSessions /\ Open(s) /\ ~sess[s].frozen
  /\ sess[s].pc = "idle" /\ ~Aborted(s) /\ ~Collides(s)
  /\ sess' = [sess EXCEPT ![s].frozen = TRUE, ![s].seen = committedKeys]
  /\ UNCHANGED <<locks, nextVersion, keyOwners, committedKeys, raced, left>>

\* exec_savepoint clones the shadow; the model keeps the last savepoint.
Savepoint(s) ==
  /\ s \in SavepointSessions /\ Open(s)
  /\ sess[s].pc = "idle" /\ ~Aborted(s)
  /\ sess' = [sess EXCEPT ![s].mark = [on   |-> TRUE, keys |-> Own(sess[s].v),
                                        seen |-> sess[s].seen]]
  /\ UNCHANGED <<locks, nextVersion, keyOwners, committedKeys, raced, left>>

\* exec_rollback_to_savepoint puts the clone back and revives an aborted
\* block.  Locks and wait edges stay; keys freed since are owned again.
RollbackTo(s) ==
  /\ sess[s].pc = "idle" /\ Open(s) /\ sess[s].mark.on
  /\ LET v    == sess[s].v
         back == sess[s].mark.keys \ Own(v)
     IN  /\ sess' = [sess EXCEPT ![s].aborted = "no", ![s].seen = sess[s].mark.seen]
         /\ keyOwners' = {o \in keyOwners : o[2] # v} \cup Owners(sess[s].mark.keys, v)
         /\ raced' = (raced \cup Races(v, back) \cup Owners(back \cap committedKeys, v))
                       \cap keyOwners'
         /\ UNCHANGED <<locks, nextVersion, committedKeys>>
         /\ Leave(v, {}, Own(v) \ sess[s].mark.keys)

\* The end of a transaction: its version leaves the lock table and its keys
\* become committed or free.
EndTx(s, commits) ==
  LET v == sess[s].v
  IN  /\ locks' = ReleaseAll(locks, v)
      /\ keyOwners' = {o \in keyOwners : o[2] # v}
      /\ committedKeys' = committedKeys \cup (IF commits THEN Own(v) ELSE {})
      /\ raced' = raced \cap keyOwners'
      /\ sess' = [sess EXCEPT ![s] = Closed]
      /\ Leave(v, {}, {})
      /\ UNCHANGED nextVersion

\* COMMIT of an aborted block is a ROLLBACK, and so is one that finds a key of
\* its own in the committed catalog (40001).
Commit(s) ==
  /\ sess[s].pc = "idle" /\ Open(s)
  /\ EndTx(s, ~Aborted(s) /\ Own(sess[s].v) \cap committedKeys = {})

Rollback(s) ==
  /\ sess[s].pc = "idle" /\ Open(s)
  /\ EndTx(s, FALSE)

LocksNext == \E s \in Sessions :
  \/ Attempt(s) \/ RebaseFails(s) \/ Rechoose(s) \/ GiveUp(s)
  \/ Begin(s) \/ Issue(s) \/ Poison(s) \/ Savepoint(s) \/ RollbackTo(s)
  \/ Commit(s) \/ Rollback(s)

LocksSpec == LocksInit /\ [][LocksNext]_vars

\* An attempt would be answered LockWouldBlock and leave everything as it is.
Stuck(s) ==
  /\ sess[s].pc = "pending" /\ ~Collides(s)
  /\ LET v == IF Open(s) THEN sess[s].v ELSE nextVersion
         r == Execute(locks, v, sess[s].stmt, Open(s), Shadow(s))
     IN  /\ r.out = "wait"
         /\ Open(s) => r.lt = locks /\ (sess[s].frozen \/ sess[s].seen = committedKeys)

\* The retry loop retries for ever with a bounded back-off: weak fairness of
\* the attempts, with its ENABLED written out as a state predicate.
RetryLoop(s) == \/ []<>(sess[s].pc = "idle" \/ Stuck(s))
                \/ []<><<Attempt(s) \/ RebaseFails(s)>>_vars

\* A client that keeps getting its transaction back eventually ends it.
ClientEnds(s) == SF_vars(Commit(s) \/ Rollback(s))

Fairness == \A s \in Sessions : RetryLoop(s) /\ ClientEnds(s)

FairSpec == LocksSpec /\ Fairness

---------------------------------------------------------------------------
(* Properties.                                                             *)

\* The types of the lock table, of the sessions of the server's retry loop and
\* of the key bookkeeping; a block is only ever aborted by a real error.
LocksTypeOK ==
  /\ locks \in Tables
  /\ nextVersion \in 1..(MaxVersion + 1)
  /\ keyOwners \subseteq Keys \X Versions
  /\ committedKeys \subseteq Keys
  /\ raced \subseteq keyOwners
  /\ left \in [Versions -> SUBSET Versions]
  /\ sess \in [Sessions -> SessStates]

OpenVersions == {sess[s].v : s \in {t \in Sessions : Open(t)}}

\* Nothing in the lock table outlives its owner: every holder, parked waiter
\* and both ends of every wait edge belong to a transaction that is open now.
\* (9.0.3's autocommit FOR UPDATE left a lock nobody would release.)
NoLeakedLocks ==
  /\ \A r \in Rows : /\ {h[1] : h \in locks.holders[r]} \subseteq OpenVersions
                     /\ locks.waiters[r] \subseteq OpenVersions
  /\ \A v \in Versions : /\ locks.waitFor[v] \subseteq OpenVersions
                         /\ locks.waitFor[v] # {} => v \in OpenVersions

FrozenVersions == {sess[s].v : s \in {t \in Sessions : Open(t) /\ sess[t].frozen}}

\* A key belongs to its first writer: while a transaction holds an uncommitted
\* row of a key no other one does, and no other one commits it, so that its own
\* COMMIT is not refused (unique_wait.rs).  Two cases are outside the wait: a
\* race with a key that came from DO UPDATE SET or came back with ROLLBACK TO,
\* and the writer that is frozen on a catalog older than the key.
FirstWriterOwnsKey ==
  \A o \in keyOwners \ raced :
    /\ o[1] \in committedKeys => o[2] \in FrozenVersions
    /\ \A p \in keyOwners : p[1] = o[1] => p = o

\* u's pending statement really cannot proceed while w is open.
ReallyBlocks(u, w) ==
  \E s \in Sessions :
    /\ sess[s].v = u /\ sess[s].pc = "pending" /\ w # u
    /\ LET st == sess[s].stmt
       IN  \/ /\ st.policy = "Wait"
              /\ \E i \in DOMAIN st.rows : \E m \in Modes :
                   <<w, m>> \in locks.holders[st.rows[i]] /\ ConflictsWith(m, st.mode)
           \/ \E k \in st.claims : <<k, w>> \in keyOwners

RealWaits == [u \in Versions |-> {w \in Versions : ReallyBlocks(u, w)}]

Waits == [u \in Versions |-> {w \in Versions : ReallyBlocks(u, w) \/ w \in left[u]}]

\* A transaction is aborted as a deadlock victim only when it stands on a
\* cycle of transactions that really wait for one another, or waited and left
\* their edge behind in one of the ways Leave names: the statement ended
\* (answered, given up, a victim that has not rolled back), it was retried on
\* other rows, or its key was freed.  No other stale edge exists.
OnlyRealDeadlocks ==
  [][\A s \in Sessions :
       sess[s].aborted = "no" /\ sess'[s].aborted = "deadlock"
         => Cycles(Waits, sess[s].v) # {}]_vars

\* The comment of clear_wait: a wait that is over leaves no edge, which "would
\* make the next cycle search abort a transaction that was never at fault".
NoVictimWithoutFault ==
  [][\A s \in Sessions :
       sess[s].aborted = "no" /\ sess'[s].aborted = "deadlock"
         => Cycles(RealWaits, sess[s].v) # {}]_vars

\* Every statement is eventually answered: no cycle of waits, over rows, keys
\* or both, survives the detector, and no released lock is waited for.
EveryWaitEnds == \A s \in Sessions : sess[s].pc = "pending" ~> sess[s].pc = "idle"
=============================================================================
