------------------------ MODULE TransactionsProofs ------------------------
(***************************************************************************)
(* No dirty and no rolled-back write ever reaches the committed catalog,   *)
(* for any number of sessions, tables, keys and savepoints, and at every   *)
(* isolation level.                                                        *)
(*                                                                         *)
(* NoForeignStamps is not inductive: it says nothing of the shadows kept   *)
(* by savepoints, and a stamp from the future would become a foreign one   *)
(* when its version is drawn.  StampInv therefore speaks of the settled    *)
(* versions: drawn, and neither in flight nor aborted.  A version becomes  *)
(* settled at its COMMIT and stays so for ever.                            *)
(*                                                                         *)
(* The invariants of the isolation levels stand on it, one on another:     *)
(* RowInv, KeysInv, FrozenInv, CurrentInv, DirtyInv, SerInv.  The last one,*)
(* EffectInv, compares the committed rows with what clients were told.     *)
(***************************************************************************)
EXTENDS Transactions, SequenceTheorems, FiniteSetTheorems, TLAPS

\* The versions whose effects everybody may see; 0 is Frozen and Alive.
Settled == {v \in Nat : v < nextVersion} \ (active \cup aborted)

\* Rows whose stamps are all in S.
Clean(rows, S) ==
  \A r \in rows :
    /\ r = [rid |-> r.rid, tab |-> r.tab, key |-> r.key, org |-> r.org, by |-> r.by,
            xmin |-> r.xmin, xmax |-> r.xmax]
    /\ r.xmin \in S /\ r.xmax \in S

CleanCat(cat, S) ==
  /\ cat = [rows |-> cat.rows, ddl |-> cat.ddl, dirty |-> cat.dirty]
  /\ Clean(cat.rows, S)

\* A stack of savepoints with clean shadows.
CleanSaves(saves, S) == \E T : saves \in Seq(T) /\ \A e \in T : CleanCat(e.cat, S)

TxFields == {"v", "iso", "cat", "snap", "touched", "reads", "beginSeq", "pairs",
             "saves", "claims", "shadowDirty", "poisoned", "fresh", "aborted"}

\* A transaction record with the fields of Begin.
TxShape(st) == st = [f \in TxFields |-> st[f]]

\* A transaction that stamps rows with its own version only.
CleanTx(st, S) ==
  /\ TxShape(st)
  /\ CleanCat(st.cat, S \cup {st.v})
  /\ CleanSaves(st.saves, S \cup {st.v})

Registers ==
  /\ nextVersion \in Nat \ {0}
  /\ \A v \in active \cup aborted : v \in Nat /\ 0 < v /\ v < nextVersion
  /\ active \cap aborted = {}

StampInv ==
  /\ Registers
  /\ base = [rows |-> base.rows, ddl |-> base.ddl] /\ Clean(base.rows, Settled)
  /\ tx = [s \in Sessions |-> tx[s]]
  /\ \A s \in Sessions : Open(s) => tx[s].v \in active /\ CleanTx(tx[s], Settled)
  /\ \A s, o \in Sessions : Open(s) /\ Open(o) /\ tx[s].v = tx[o].v => s = o

---------------------------------------------------------------------------
(* Sets of rows.                                                           *)

\* More versions may be settled.
LEMMA CleanGrows ==
  ASSUME NEW rows, NEW S, NEW T, Clean(rows, S), S \subseteq T
  PROVE  Clean(rows, T)
BY DEF Clean

\* So may they for the shadows savepoints keep,
LEMMA CleanSavesGrow ==
  ASSUME NEW saves, NEW S, NEW T, CleanSaves(saves, S), S \subseteq T
  PROVE  CleanSaves(saves, T)
<1>1. PICK U : saves \in Seq(U) /\ \A e \in U : CleanCat(e.cat, S)
  BY DEF CleanSaves
<1>2. \A e \in U : CleanCat(e.cat, T)
  BY <1>1, CleanGrows DEF CleanCat
<1> QED BY <1>1, <1>2 DEF CleanSaves

\* and for a whole transaction (TxState).
LEMMA CleanTxGrows ==
  ASSUME NEW st, NEW S, NEW T, CleanTx(st, S), S \subseteq T
  PROVE  CleanTx(st, T)
<1>1. S \cup {st.v} \subseteq T \cup {st.v}
  OBVIOUS
<1>2. CleanCat(st.cat, T \cup {st.v})
  BY <1>1, CleanGrows DEF CleanCat, CleanTx
<1>3. CleanSaves(st.saves, T \cup {st.v})
  BY <1>1, CleanSavesGrow DEF CleanTx
<1> QED BY <1>2, <1>3 DEF CleanTx

Stamped(rows, which, v) ==
  {IF r.rid \in which THEN [r EXCEPT !.xmax = v] ELSE r : r \in rows}

\* Stamping xmax of some of the rows with a version in S keeps them clean.
LEMMA StampClean ==
  ASSUME NEW rows, NEW S, NEW v \in S, NEW which, Clean(rows, S)
  PROVE  Clean(Stamped(rows, which, v), S)
<1>1. \A r \in rows :
        [r EXCEPT !.xmax = v] =
          [rid |-> r.rid, tab |-> r.tab, key |-> r.key, org |-> r.org, by |-> r.by,
           xmin |-> r.xmin, xmax |-> v]
  BY DEF Clean
<1>2. \A r \in rows : LET q == [r EXCEPT !.xmax = v]
                      IN  /\ q = [rid |-> q.rid, tab |-> q.tab, key |-> q.key,
                                  org |-> q.org, by |-> q.by,
                                  xmin |-> q.xmin, xmax |-> q.xmax]
                          /\ q.xmin \in S /\ q.xmax \in S
  BY <1>1 DEF Clean
<1> QED BY <1>2 DEF Clean, Stamped

\* mark_row_deleted stamps with the version of its caller.
LEMMA KillClean ==
  ASSUME NEW rows, NEW S, NEW v \in S, NEW rid, Clean(rows, S)
  PROVE  Clean(Kill(rows, rid, v), S)
<1>1. Kill(rows, rid, v) = Stamped(rows, {rid}, v)
  BY DEF Kill, Stamped
<1> QED BY <1>1, StampClean

\* A new row carries its writer's version and no tombstone.
LEMMA NewRowClean ==
  ASSUME NEW t, NEW k, NEW org, NEW by, NEW S, NEW v \in S, 0 \in S
  PROVE  Clean({NewRow(t, k, org, by, v)}, S)
BY DEF Clean, NewRow, Alive

\* Clean rows added to clean rows are clean.
LEMMA CleanUnion ==
  ASSUME NEW R, NEW Q, NEW S, Clean(R, S), Clean(Q, S)
  PROVE  Clean(R \cup Q, S)
BY DEF Clean

\* Some of a clean set of rows are clean.
LEMMA CleanSubset ==
  ASSUME NEW R, NEW Q, NEW S, Clean(R, S), Q \subseteq R
  PROVE  Clean(Q, S)
BY DEF Clean

---------------------------------------------------------------------------
(* The replay and the rebase.                                              *)

\* Replaying a transaction onto a clean base stamps it with the version of
\* the transaction only, whatever the replay skips.
LEMMA ReplayClean ==
  ASSUME NEW st, NEW S, 0 \in S, st.v \in S,
         Clean(base.rows, S), Clean(st.cat.rows, S)
  PROVE  CleanCat(OntoBase(st), S)
<1> DEFINE which == ReplayTombstones(st) \ OwnRids(st)
           ins   == ReplayInserts(st)
           back  == {[r EXCEPT !.xmax = IF r.rid \in ReplayTombstones(st)
                                        THEN st.v ELSE Alive] : r \in ins}
<1>1. Clean(Phase1(st), S)
  <2>1. Phase1(st) = Stamped(base.rows, which, st.v)
    BY DEF Phase1, Stamped
  <2> HIDE DEF which
  <2> QED BY <2>1, StampClean
<1>2. Clean(back, S)
  <2>1. Clean(ins, S)
    <3>1. ins \subseteq st.cat.rows
      BY DEF ReplayInserts, Inserts, InsertedBy, Written
    <3> QED BY <3>1, CleanSubset
  <2> HIDE DEF ins
  <2>2. \A r \in ins, x \in S :
          LET q == [r EXCEPT !.xmax = x]
          IN  /\ q = [rid |-> q.rid, tab |-> q.tab, key |-> q.key, org |-> q.org,
                      by |-> q.by, xmin |-> q.xmin, xmax |-> q.xmax]
              /\ q.xmin \in S /\ q.xmax \in S
    <3> TAKE r \in ins, x \in S
    <3>1. [r EXCEPT !.xmax = x] =
            [rid |-> r.rid, tab |-> r.tab, key |-> r.key, org |-> r.org, by |-> r.by,
             xmin |-> r.xmin, xmax |-> x]
      BY <2>1 DEF Clean
    <3>2. r.xmin \in S
      BY <2>1 DEF Clean
    <3> QED BY <3>1, <3>2
  <2>3. \A r \in ins : (IF r.rid \in ReplayTombstones(st) THEN st.v ELSE Alive) \in S
    BY DEF Alive
  <2> SUFFICES ASSUME NEW q \in back
               PROVE  /\ q = [rid |-> q.rid, tab |-> q.tab, key |-> q.key, org |-> q.org,
                              by |-> q.by, xmin |-> q.xmin, xmax |-> q.xmax]
                      /\ q.xmin \in S /\ q.xmax \in S
    BY DEF Clean
  <2>4. PICK r \in ins, x \in S : q = [r EXCEPT !.xmax = x]
    BY <2>3
  <2> QED BY <2>2, <2>4
<1>3. Replayed(st) = Phase1(st) \cup back
  BY DEF Replayed
<1>4. Clean(Replayed(st), S)
  <2> HIDE DEF back
  <2> QED BY <1>1, <1>2, <1>3, CleanUnion
<1> QED BY <1>4 DEF OntoBase, CleanCat

\* maybe_rc_rebase keeps a transaction clean, and its version.
LEMMA RebaseClean ==
  ASSUME NEW st, NEW S, 0 \in S, Clean(base.rows, S), CleanTx(st, S)
  PROVE  /\ CleanTx(Rebased(st), S) /\ Rebased(st).v = st.v
<1>1. CASE ~NeedsRebase(st)
  BY <1>1 DEF Rebased
<1>2. CASE NeedsRebase(st)
  <2> DEFINE U  == S \cup {st.v}
             cat == OntoBase(st)
             new == [st EXCEPT !.cat = cat, !.fresh = TRUE]
  <2>1. CleanCat(cat, U)
    <3>1. Clean(base.rows, U) /\ Clean(st.cat.rows, U)
      BY CleanGrows DEF CleanTx, CleanCat
    <3> QED BY <3>1, ReplayClean
  <2>2. Rebased(st) = new
    BY <1>2 DEF Rebased
  <2> HIDE DEF cat
  <2>4. TxShape(new) /\ new.v = st.v /\ new.cat = cat /\ new.saves = st.saves
    BY DEF CleanTx, TxShape, TxFields
  <2> HIDE DEF new
  <2> QED BY <2>1, <2>2, <2>4 DEF CleanTx
<1> QED BY <1>1, <1>2

---------------------------------------------------------------------------
(* The three ways a step changes the state.                                *)

\* 0 is settled from the start, and a version drawn now never was.
LEMMA SettledFacts ==
  ASSUME Registers
  PROVE  0 \in Settled /\ nextVersion \notin active \cup aborted
BY DEF Registers, Settled

\* A session changes its own transaction.
LEMMA OwnTxChanges ==
  ASSUME StampInv, NEW s \in Sessions, Open(s), NEW st,
         tx' = [tx EXCEPT ![s] = st], st.v = tx[s].v, CleanTx(st, Settled),
         UNCHANGED <<base, nextVersion, active, aborted>>
  PROVE  StampInv'
<1>1. Settled' = Settled /\ Registers'
  BY DEF Settled, StampInv, Registers
<1>2. tx' = [o \in Sessions |-> tx'[o]]
  BY DEF StampInv
<1>3. \A o \in Sessions : tx'[o] = IF o = s THEN st ELSE tx[o]
  BY DEF StampInv
<1>4. base' = [rows |-> base'.rows, ddl |-> base'.ddl] /\ Clean(base'.rows, Settled)
  BY DEF StampInv
<1>5. \A o \in Sessions : tx'[o] # NoTx => tx'[o].v \in active /\ CleanTx(tx'[o], Settled)
  BY <1>3 DEF StampInv, Open
<1>6. \A o, q \in Sessions : tx'[o] # NoTx /\ tx'[q] # NoTx /\ tx'[o].v = tx'[q].v => o = q
  BY <1>3 DEF StampInv, Open
<1>7. Clean(base'.rows, Settled')
  BY <1>1, <1>4
<1>8. \A o \in Sessions : tx'[o] # NoTx => tx'[o].v \in active' /\ CleanTx(tx'[o], Settled')
  BY <1>1, <1>5
<1> QED BY <1>1, <1>2, <1>4, <1>7, <1>8, <1>6 DEF StampInv, Open

\* The epoch gate is no part of what a transaction wrote.
LEMMA StaleTx ==
  ASSUME NEW st, NEW S, CleanTx(st, S), NEW new, new = [st EXCEPT !.fresh = FALSE]
  PROVE  CleanTx(new, S) /\ new.v = st.v
<1>1. TxShape(new) /\ new.v = st.v /\ new.cat = st.cat /\ new.saves = st.saves
  BY DEF CleanTx, TxShape, TxFields
<1> QED BY <1>1 DEF CleanTx

\* An autocommit statement writes the committed catalog with a fresh version,
\* which is settled at once.
LEMMA AutocommitWrites ==
  ASSUME StampInv, NEW rows, Clean(rows, Settled \cup {nextVersion}),
         base' = [base EXCEPT !.rows = rows], nextVersion' = nextVersion + 1,
         tx' = Stale(tx), UNCHANGED <<active, aborted>>
  PROVE  StampInv'
<1>1. Settled' = Settled \cup {nextVersion} /\ Registers'
  BY DEF Settled, StampInv, Registers
<1>2. /\ base' = [rows |-> base'.rows, ddl |-> base'.ddl] /\ base'.rows = rows
  BY DEF StampInv
<1>3. Clean(base'.rows, Settled')
  BY <1>1, <1>2
<1>4. /\ tx' = [o \in Sessions |-> tx'[o]]
      /\ \A o \in Sessions : tx'[o] = IF tx[o] = NoTx THEN NoTx ELSE [tx[o] EXCEPT !.fresh = FALSE]
  BY DEF Stale
<1>5. \A o \in Sessions : tx'[o] # NoTx =>
        tx[o] # NoTx /\ tx'[o].v = tx[o].v /\ CleanTx(tx'[o], Settled)
  <2> SUFFICES ASSUME NEW o \in Sessions, tx'[o] # NoTx
               PROVE  tx[o] # NoTx /\ tx'[o].v = tx[o].v /\ CleanTx(tx'[o], Settled)
    OBVIOUS
  <2>1. tx[o] # NoTx /\ tx'[o] = [tx[o] EXCEPT !.fresh = FALSE]
    BY <1>4
  <2>2. CleanTx(tx[o], Settled)
    BY <2>1 DEF StampInv, Open
  <2> QED BY <2>1, <2>2, StaleTx
<1>6. \A o \in Sessions : tx'[o] # NoTx => tx'[o].v \in active' /\ CleanTx(tx'[o], Settled')
  BY <1>1, <1>5, CleanTxGrows DEF StampInv, Open
<1>7. \A o, q \in Sessions : tx'[o] # NoTx /\ tx'[q] # NoTx /\ tx'[o].v = tx'[q].v => o = q
  BY <1>5 DEF StampInv, Open
<1>8. base' = [rows |-> base'.rows, ddl |-> base'.ddl]
  BY <1>2
<1>9. tx' = [o \in Sessions |-> tx'[o]]
  BY <1>4
<1> QED BY <1>1, <1>3, <1>6, <1>7, <1>8, <1>9 DEF StampInv, Open

\* A transaction ends: it is settled with what it installed, or it joins the
\* aborted ones and the committed catalog stays.
LEMMA TxEnds ==
  ASSUME StampInv, NEW s \in Sessions, Open(s), Ends(s),
         \/ /\ aborted' = aborted
            /\ base' = [rows |-> base'.rows, ddl |-> base'.ddl]
            /\ Clean(base'.rows, Settled \cup {tx[s].v})
         \/ aborted' = aborted \cup {tx[s].v} /\ base' = base
  PROVE  StampInv'
<1> DEFINE v == tx[s].v
<1>0. v \in active /\ v \notin aborted /\ v \in Nat /\ v < nextVersion
  BY DEF StampInv, Registers
<1>1. active' = active \ {v} /\ nextVersion' = nextVersion /\ Registers'
  BY <1>0 DEF Ends, StampInv, Registers
<1>2. Settled \subseteq Settled' /\ (aborted' = aborted => Settled' = Settled \cup {v})
  BY <1>0, <1>1 DEF Settled
<1>3. base' = [rows |-> base'.rows, ddl |-> base'.ddl] /\ Clean(base'.rows, Settled')
  BY <1>2, CleanGrows DEF StampInv
<1>4. /\ tx' = [o \in Sessions |-> tx'[o]]
      /\ \A o \in Sessions :
           tx'[o] = IF o = s \/ tx[o] = NoTx THEN NoTx ELSE [tx[o] EXCEPT !.fresh = FALSE]
  BY DEF Ends, Stale, StampInv
<1>5. \A o \in Sessions : tx'[o] # NoTx =>
        o # s /\ tx[o] # NoTx /\ tx'[o].v = tx[o].v /\ CleanTx(tx'[o], Settled)
  <2> SUFFICES ASSUME NEW o \in Sessions, tx'[o] # NoTx
               PROVE  o # s /\ tx[o] # NoTx /\ tx'[o].v = tx[o].v /\ CleanTx(tx'[o], Settled)
    OBVIOUS
  <2>1. o # s /\ tx[o] # NoTx /\ tx'[o] = [tx[o] EXCEPT !.fresh = FALSE]
    BY <1>4
  <2>2. CleanTx(tx[o], Settled)
    BY <2>1 DEF StampInv, Open
  <2> QED BY <2>1, <2>2, StaleTx
<1>6. \A o \in Sessions : tx'[o] # NoTx => tx'[o].v \in active' /\ CleanTx(tx'[o], Settled')
  BY <1>1, <1>2, <1>5, CleanTxGrows DEF StampInv, Open
<1> QED BY <1>1, <1>3, <1>4, <1>5, <1>6 DEF StampInv, Open

---------------------------------------------------------------------------
(* Statements.                                                             *)

\* The rows a statement starts from, rebased or not, are clean but for the
\* stamps of the writer.
LEMMA StatementStart ==
  ASSUME StampInv, NEW s \in Sessions
  PROVE  /\ Clean(Catalog(s), Settled \cup {Version(s)})
         /\ Open(s) => CleanTx(Rebased(tx[s]), Settled) /\ Rebased(tx[s]).v = tx[s].v
<1>1. 0 \in Settled /\ Clean(base.rows, Settled)
  BY SettledFacts DEF StampInv
<1>2. CASE Open(s)
  <2>1. CleanTx(Rebased(tx[s]), Settled) /\ Rebased(tx[s]).v = tx[s].v
    BY <1>1, <1>2, RebaseClean DEF StampInv
  <2> QED BY <1>2, <2>1 DEF Catalog, Version, CleanTx, CleanCat
<1>3. CASE ~Open(s)
  BY <1>1, <1>3, CleanGrows DEF Catalog, Version
<1> QED BY <1>2, <1>3

\* A statement that writes clean rows, in a transaction or not.
LEMMA WroteKeeps ==
  ASSUME StampInv, NEW s \in Sessions, NEW t, NEW rows, NEW reads, NEW pairs, NEW claims,
         Clean(rows, Settled \cup {Version(s)}), Wrote(s, t, rows, reads, pairs, claims),
         UNCHANGED <<active, aborted>>
  PROVE  StampInv'
<1>1. CASE Open(s)
  <2> DEFINE rb == Rebased(tx[s])
             st == [rb EXCEPT
                      !.cat.rows = rows, !.cat.dirty = @ \cup {t},
                      !.touched = @ \cup {t}, !.pairs = @ \cup pairs,
                      !.reads = IF tx[s].iso = "SER" THEN @ \cup reads ELSE @,
                      !.shadowDirty = TRUE, !.claims = @ \cup claims]
  <2>1. CleanTx(rb, Settled) /\ rb.v = tx[s].v
    BY <1>1, StatementStart
  <2>2. tx' = [tx EXCEPT ![s] = st]
    BY <1>1 DEF Wrote
  <2> HIDE DEF rb
  <2>3. DOMAIN rb = TxFields
    BY <2>1 DEF CleanTx, TxShape
  <2>4. TxShape(st) /\ st.v = rb.v /\ st.saves = rb.saves
    BY <2>3 DEF TxShape, TxFields
  <2>5. rb.cat = [rows |-> rb.cat.rows, ddl |-> rb.cat.ddl, dirty |-> rb.cat.dirty]
    BY <2>1 DEF CleanTx, CleanCat
  <2>6. st.cat = [[rb.cat EXCEPT !.rows = rows] EXCEPT !.dirty = @ \cup {t}]
    BY <2>3 DEF TxFields
  <2> HIDE DEF st
  <2>7. CleanCat(st.cat, Settled \cup {rb.v})
    <3>1. DOMAIN rb.cat = {"rows", "ddl", "dirty"}
      BY <2>5
    <3>2. /\ st.cat.rows = rows
          /\ st.cat = [rows |-> st.cat.rows, ddl |-> st.cat.ddl, dirty |-> st.cat.dirty]
      BY <2>6, <3>1
    <3> QED BY <1>1, <2>1, <3>2 DEF CleanCat, Version
  <2>8. CleanTx(st, Settled)
    BY <2>1, <2>4, <2>7 DEF CleanTx
  <2> QED BY <1>1, <2>1, <2>2, <2>4, <2>8, OwnTxChanges DEF Wrote
<1>2. CASE ~Open(s)
  BY <1>2, AutocommitWrites DEF Wrote, Version
<1> QED BY <1>1, <1>2

\* A statement that fails leaves the rebased shadow.
LEMMA FailsKeeps ==
  ASSUME StampInv, NEW s \in Sessions, Fails(s), UNCHANGED <<active, aborted>>
  PROVE  StampInv'
<1> DEFINE rb == Rebased(tx[s])
           st == [rb EXCEPT !.aborted = TRUE]
<1>1. CleanTx(rb, Settled) /\ rb.v = tx[s].v
  BY StatementStart DEF Fails
<1>2. tx' = [tx EXCEPT ![s] = st]
  BY DEF Fails
<1> HIDE DEF rb
<1>3. TxShape(st) /\ st.v = rb.v /\ st.saves = rb.saves /\ st.cat = rb.cat
  BY <1>1 DEF CleanTx, TxShape, TxFields
<1> HIDE DEF st
<1>4. CleanTx(st, Settled)
  BY <1>1, <1>3 DEF CleanTx
<1> QED BY <1>1, <1>2, <1>3, <1>4, OwnTxChanges DEF Fails

\* A statement that only reads: SELECT, with or without FOR UPDATE.
LEMMA ReadKeeps ==
  ASSUME StampInv, NEW s \in Sessions, Open(s), NEW reads,
         tx' = [tx EXCEPT ![s] = [Rebased(tx[s]) EXCEPT !.reads = reads]],
         UNCHANGED <<base, nextVersion, active, aborted>>
  PROVE  StampInv'
<1> DEFINE rb == Rebased(tx[s])
           st == [rb EXCEPT !.reads = reads]
<1>1. CleanTx(rb, Settled) /\ rb.v = tx[s].v
  BY StatementStart
<1>2. tx' = [tx EXCEPT ![s] = st]
  OBVIOUS
<1> HIDE DEF rb
<1>3. TxShape(st) /\ st.v = rb.v /\ st.saves = rb.saves /\ st.cat = rb.cat
  BY <1>1 DEF CleanTx, TxShape, TxFields
<1> HIDE DEF st
<1>4. CleanTx(st, Settled)
  BY <1>1, <1>3 DEF CleanTx
<1> QED BY <1>1, <1>2, <1>3, <1>4, OwnTxChanges

\* A statement that only poisons the rebase.
LEMMA UtilityKeeps ==
  ASSUME StampInv, NEW s \in Sessions, Utility(s)
  PROVE  StampInv'
<1> DEFINE rb == Rebased(tx[s])
           st == [rb EXCEPT !.poisoned = TRUE]
<1>1. /\ Open(s) /\ tx' = [tx EXCEPT ![s] = st]
      /\ UNCHANGED <<base, nextVersion, active, aborted>>
  BY DEF Utility, Quiet
<1>2. CleanTx(rb, Settled) /\ rb.v = tx[s].v
  BY <1>1, StatementStart
<1> HIDE DEF rb
<1>3. TxShape(st) /\ st.v = rb.v /\ st.saves = rb.saves /\ st.cat = rb.cat
  BY <1>2 DEF CleanTx, TxShape, TxFields
<1> HIDE DEF st
<1>4. CleanTx(st, Settled)
  BY <1>2, <1>3 DEF CleanTx
<1> QED BY <1>1, <1>2, <1>3, <1>4, OwnTxChanges

\* The rows of UPDATE and of the update half of an upsert.
LEMMA SuccessorClean ==
  ASSUME StampInv, NEW s \in Sessions, NEW r, NEW k
  PROVE  Clean(Kill(Catalog(s), r.rid, Version(s)) \cup {Successor(s, r, k)},
               Settled \cup {Version(s)})
<1> DEFINE S == Settled \cup {Version(s)}
<1>1. 0 \in S /\ Version(s) \in S
  BY SettledFacts DEF StampInv
<1>2. Clean(Catalog(s), S)
  BY StatementStart
<1> HIDE DEF S
<1>3. Clean(Kill(Catalog(s), r.rid, Version(s)), S)
  BY <1>1, <1>2, KillClean
<1>4. Clean({Successor(s, r, k)}, S)
  BY <1>1, NewRowClean DEF Successor
<1>5. Clean(Kill(Catalog(s), r.rid, Version(s)) \cup {Successor(s, r, k)}, S)
  BY <1>3, <1>4, CleanUnion
<1> QED BY <1>5 DEF S

---------------------------------------------------------------------------
(* Savepoints.                                                             *)

\* A change of a transaction's stack, shadow and flags keeps it clean if the
\* new stack and the new shadow are.
LEMMA BookmarkKeeps ==
  ASSUME StampInv, NEW s \in Sessions, Open(s), NEW st,
         tx' = [tx EXCEPT ![s] = st], TxShape(st), st.v = tx[s].v,
         CleanCat(st.cat, Settled \cup {st.v}), CleanSaves(st.saves, Settled \cup {st.v}),
         UNCHANGED <<base, nextVersion, active, aborted>>
  PROVE  StampInv'
<1>1. CleanTx(st, Settled)
  BY DEF CleanTx
<1> QED BY <1>1, OwnTxChanges

\* A prefix of a clean stack is clean.
LEMMA PrefixClean ==
  ASSUME NEW saves, NEW S, CleanSaves(saves, S), NEW n \in 0..Len(saves)
  PROVE  CleanSaves(SubSeq(saves, 1, n), S)
<1>1. PICK T : saves \in Seq(T) /\ \A e \in T : CleanCat(e.cat, S)
  BY DEF CleanSaves
<1>2. \A i \in 1..n : saves[i] \in T
  BY <1>1
<1>3. SubSeq(saves, 1, n) \in Seq(T)
  BY <1>1, <1>2, SubSeqProperties
<1> QED BY <1>1, <1>3 DEF CleanSaves

\* Where a named savepoint is, and that its shadow is clean.
LEMMA SaveFound ==
  ASSUME StampInv, NEW s \in Sessions, NEW n, HasSave(s, n)
  PROVE  LET i == Position(tx[s].saves, n)
         IN  /\ i \in 1..Len(tx[s].saves) /\ Len(tx[s].saves) \in Nat
             /\ CleanCat(tx[s].saves[i].cat, Settled \cup {tx[s].v})
<1> DEFINE saves == tx[s].saves
           i     == Position(saves, n)
<1>1. CleanSaves(saves, Settled \cup {tx[s].v})
  BY DEF StampInv, HasSave, CleanTx
<1>2. i \in 1..Len(saves)
  BY DEF HasSave, Position
<1> HIDE DEF saves, i
<1>3. PICK T : saves \in Seq(T) /\ \A e \in T : CleanCat(e.cat, Settled \cup {tx[s].v})
  BY <1>1 DEF CleanSaves
<1>4. saves[i] \in T /\ Len(saves) \in Nat
  BY <1>2, <1>3
<1> QED BY <1>2, <1>3, <1>4 DEF saves, i

\* exec_savepoint bookmarks the shadow as it is.
LEMMA SavepointKeeps ==
  ASSUME StampInv, NEW s \in Sessions, NEW n, Savepoint(s, n)
  PROVE  StampInv'
<1> DEFINE S     == Settled \cup {tx[s].v}
           saves == tx[s].saves
           mark  == [name |-> n, cat |-> tx[s].cat, claims |-> tx[s].claims]
           new   == Append(OtherSaves(s, n), mark)
           st    == [tx[s] EXCEPT !.saves = new]
<1>1. Open(s) /\ tx' = [tx EXCEPT ![s] = st] /\ UNCHANGED <<base, nextVersion, active, aborted>>
  BY DEF Savepoint
<1>2. CleanTx(tx[s], Settled) /\ tx[s].v \in active
  BY <1>1 DEF StampInv
<1>3. CleanSaves(new, S)
  <2>1. PICK T : saves \in Seq(T) /\ \A e \in T : CleanCat(e.cat, S)
    BY <1>2 DEF CleanTx, CleanSaves
  <2>2. OtherSaves(s, n) \in Seq(T)
    <3>1. CASE HasSave(s, n)
      <4> DEFINE i == Position(saves, n)
                 L == Len(saves)
      <4>1. i \in 1..L /\ L \in Nat
        BY <3>1, SaveFound
      <4>2. OtherSaves(s, n) = SubSeq(saves, 1, i - 1) \o SubSeq(saves, i + 1, L)
        BY <3>1 DEF OtherSaves
      <4> HIDE DEF i, saves
      <4>3. (\A j \in 1..(i - 1) : saves[j] \in T) /\ (\A j \in (i + 1)..L : saves[j] \in T)
        BY <2>1, <4>1
      <4>4. SubSeq(saves, 1, i - 1) \in Seq(T) /\ SubSeq(saves, i + 1, L) \in Seq(T)
        <5> HIDE DEF L
        <5> QED BY <4>1, <4>3, SubSeqProperties
      <4> QED BY <4>2, <4>4, ConcatProperties
    <3>2. CASE ~HasSave(s, n)
      BY <2>1, <3>2 DEF OtherSaves
    <3> QED BY <3>1, <3>2
  <2> DEFINE U == T \cup {mark}
  <2>3. new \in Seq(U)
    <3>1. OtherSaves(s, n) \in Seq(U)
      <4> HIDE DEF mark
      <4> QED BY <2>2
    <3> HIDE DEF U
    <3>2. mark \in U
      BY DEF U
    <3> HIDE DEF mark
    <3> QED BY <3>1, <3>2
  <2>4. \A e \in U : CleanCat(e.cat, S)
    <3>1. mark.cat = tx[s].cat /\ CleanCat(tx[s].cat, S)
      BY <1>2 DEF CleanTx
    <3> HIDE DEF mark, S
    <3> QED BY <2>1, <3>1
  <2> HIDE DEF new, U
  <2> QED BY <2>3, <2>4 DEF CleanSaves
<1> HIDE DEF new
<1>4. TxShape(st) /\ st.v = tx[s].v /\ st.cat = tx[s].cat /\ st.saves = new
  BY <1>2 DEF CleanTx, TxShape, TxFields
<1> HIDE DEF st
<1> QED BY <1>1, <1>2, <1>3, <1>4, BookmarkKeeps DEF CleanTx

\* exec_rollback_to_savepoint brings back a shadow taken in the same block:
\* its foreign stamps were settled then and still are.
LEMMA RollbackToKeeps ==
  ASSUME StampInv, NEW s \in Sessions, NEW n, RollbackTo(s, n)
  PROVE  StampInv'
<1> DEFINE saves == tx[s].saves
           i     == Position(saves, n)
           new   == SubSeq(saves, 1, i)
           st    == [tx[s] EXCEPT !.cat = saves[i].cat, !.claims = saves[i].claims,
                                  !.saves = new, !.fresh = FALSE, !.aborted = FALSE]
<1>1. Open(s) /\ UNCHANGED <<base, nextVersion, active, aborted>> /\ HasSave(s, n)
  BY DEF RollbackTo, HasSave
<1>2. CleanTx(tx[s], Settled) /\ tx[s].v \in active
  BY <1>1 DEF StampInv
<1>3. /\ i \in 1..Len(saves) /\ Len(saves) \in Nat
      /\ CleanCat(saves[i].cat, Settled \cup {tx[s].v})
  BY <1>1, SaveFound
<1>4. CleanSaves(new, Settled \cup {tx[s].v})
  <2>1. i \in 0..Len(saves)
    BY <1>3
  <2> HIDE DEF i
  <2> QED BY <1>2, <2>1, PrefixClean DEF CleanTx
<1>5. TxShape(st) /\ st.v = tx[s].v /\ st.cat = saves[i].cat /\ st.saves = new
  <2>1. DOMAIN tx[s] = TxFields
    BY <1>2 DEF CleanTx, TxShape
  <2> HIDE DEF new, i
  <2> QED BY <2>1 DEF TxShape, TxFields
<1>6. tx' = [tx EXCEPT ![s] = st]
  BY DEF RollbackTo
<1> HIDE DEF st, new, i, saves
<1> QED BY <1>1, <1>3, <1>4, <1>5, <1>6, BookmarkKeeps

\* exec_release_savepoint only forgets bookmarks.
LEMMA ReleaseKeeps ==
  ASSUME StampInv, NEW s \in Sessions, NEW n, Release(s, n)
  PROVE  StampInv'
<1> DEFINE saves == tx[s].saves
           i     == Position(saves, n)
           new   == SubSeq(saves, 1, i - 1)
           st    == [tx[s] EXCEPT !.saves = new]
<1>1. Open(s) /\ UNCHANGED <<base, nextVersion, active, aborted>> /\ HasSave(s, n)
  BY DEF Release, HasSave
<1>2. CleanTx(tx[s], Settled) /\ tx[s].v \in active
  BY <1>1 DEF StampInv
<1>3. CleanSaves(new, Settled \cup {tx[s].v})
  <2>1. i \in 1..Len(saves) /\ Len(saves) \in Nat
    BY <1>1, SaveFound
  <2> HIDE DEF i
  <2>2. i - 1 \in 0..Len(saves)
    BY <2>1
  <2> QED BY <1>2, <2>2, PrefixClean DEF CleanTx
<1>4. tx' = [tx EXCEPT ![s] = st]
  BY DEF Release
<1>5. TxShape(st) /\ st.v = tx[s].v /\ st.cat = tx[s].cat /\ st.saves = new
  <2> HIDE DEF new
  <2> QED BY <1>2 DEF CleanTx, TxShape, TxFields
<1> HIDE DEF st, new
<1> QED BY <1>1, <1>2, <1>3, <1>4, <1>5, BookmarkKeeps DEF CleanTx

---------------------------------------------------------------------------
(* The inductive step, one lemma per group of actions.                     *)

\* exec_begin clones the committed catalog and draws a version nobody used.
LEMMA BeginKeeps ==
  ASSUME StampInv, NEW s \in Sessions, NEW iso, Begin(s, iso)
  PROVE  StampInv'
<1> DEFINE st == [v |-> nextVersion, iso |-> iso,
                  cat |-> [rows |-> base.rows, ddl |-> base.ddl, dirty |-> {}],
                  snap |-> BeginSnapshot(iso),
                  touched |-> {}, reads |-> {}, beginSeq |-> commitSeq, pairs |-> {},
                  saves |-> <<>>, claims |-> {}, shadowDirty |-> FALSE,
                  poisoned |-> FALSE, fresh |-> TRUE, aborted |-> FALSE]
<1>1. /\ ~Open(s) /\ nextVersion' = nextVersion + 1 /\ active' = active \cup {nextVersion}
      /\ tx' = [tx EXCEPT ![s] = st] /\ UNCHANGED <<base, aborted>>
  BY DEF Begin
<1>2. Registers' /\ Settled' = Settled
  BY <1>1 DEF StampInv, Registers, Settled
<1>3. /\ TxShape(st) /\ st.v = nextVersion /\ st.saves = <<>>
      /\ st.cat = [rows |-> base.rows, ddl |-> base.ddl, dirty |-> {}]
  BY DEF TxShape, TxFields
<1> HIDE DEF st
<1>4. CleanTx(st, Settled)
  <2>1. Clean(base.rows, Settled \cup {st.v})
    BY CleanGrows DEF StampInv
  <2>2. CleanCat(st.cat, Settled \cup {st.v})
    BY <1>3, <2>1 DEF CleanCat
  <2>3. CleanSaves(st.saves, Settled \cup {st.v})
    <3>1. st.saves \in Seq({})
      BY <1>3
    <3> QED BY <3>1 DEF CleanSaves
  <2> QED BY <1>3, <2>2, <2>3 DEF CleanTx
<1>5. /\ tx' = [o \in Sessions |-> tx'[o]]
      /\ \A o \in Sessions : tx'[o] = IF o = s THEN st ELSE tx[o]
  BY <1>1 DEF StampInv
<1>6. \A o \in Sessions : tx'[o] # NoTx => tx'[o].v \in active' /\ CleanTx(tx'[o], Settled')
  BY <1>1, <1>2, <1>3, <1>4, <1>5 DEF StampInv, Open
<1>7. \A o \in Sessions \ {s} : tx'[o] # NoTx => tx'[o].v # nextVersion
  <2>1. nextVersion \notin active
    BY SettledFacts DEF StampInv
  <2> QED BY <1>5, <2>1 DEF StampInv, Open
<1>8. \A o, q \in Sessions : tx'[o] # NoTx /\ tx'[q] # NoTx /\ tx'[o].v = tx'[q].v => o = q
  BY <1>3, <1>5, <1>7 DEF StampInv, Open
<1>9. base' = [rows |-> base'.rows, ddl |-> base'.ddl] /\ Clean(base'.rows, Settled')
  BY <1>1, <1>2 DEF StampInv
<1>10. tx' = [o \in Sessions |-> tx'[o]]
  BY <1>5
<1> QED BY <1>2, <1>6, <1>8, <1>9, <1>10 DEF StampInv, Open

\* DDL stamps no row.
LEMMA AlterKeeps ==
  ASSUME StampInv, NEW s \in Sessions, NEW t, Alter(s, t)
  PROVE  StampInv'
<1> DEFINE rb == Rebased(tx[s])
           st == [rb EXCEPT !.cat.ddl[t] = @ \cup {tx[s].v}, !.cat.dirty = @ \cup {t},
                            !.poisoned = TRUE, !.shadowDirty = TRUE]
<1>1. /\ Open(s) /\ tx' = [tx EXCEPT ![s] = st]
      /\ UNCHANGED <<base, nextVersion, active, aborted>>
  BY DEF Alter, Quiet
<1>2. CleanTx(rb, Settled) /\ rb.v = tx[s].v
  BY <1>1, StatementStart
<1> HIDE DEF rb
<1>3. DOMAIN rb = TxFields
  BY <1>2 DEF CleanTx, TxShape
<1>4. TxShape(st) /\ st.v = rb.v /\ st.saves = rb.saves
  BY <1>3 DEF TxShape, TxFields
<1>5. DOMAIN rb.cat = {"rows", "ddl", "dirty"}
  BY <1>2 DEF CleanTx, CleanCat
<1>6. st.cat = [[rb.cat EXCEPT !.ddl[t] = @ \cup {tx[s].v}] EXCEPT !.dirty = @ \cup {t}]
  BY <1>3 DEF TxFields
<1> HIDE DEF st
<1>7. /\ st.cat.rows = rb.cat.rows
      /\ st.cat = [rows |-> st.cat.rows, ddl |-> st.cat.ddl, dirty |-> st.cat.dirty]
  BY <1>5, <1>6
<1>8. CleanTx(st, Settled)
  BY <1>2, <1>4, <1>7 DEF CleanTx, CleanCat
<1> QED BY <1>1, <1>2, <1>4, <1>8, OwnTxChanges

\* INSERT, UPDATE, DELETE and ON CONFLICT DO UPDATE stamp rows with the
\* version of their writer, and only in its own shadow or, in autocommit,
\* with a version that is settled at once.
LEMMA WriteKeeps ==
  ASSUME StampInv, NEW s \in Sessions, NEW t, NEW r, NEW k,
         Insert(s, t, k) \/ Delete(s, r) \/ Update(s, r, k) \/ Upsert(s, r, k)
  PROVE  StampInv'
<1> DEFINE S == Settled \cup {Version(s)}
<1>1. 0 \in S /\ Version(s) \in S /\ Clean(Catalog(s), S)
  BY SettledFacts, StatementStart DEF StampInv
<1>2. UNCHANGED <<active, aborted>>
  BY DEF Insert, Delete, Update, Upsert, Quiet
<1>3. CASE Fails(s)
  BY <1>2, <1>3, FailsKeeps
<1>4. ASSUME NewVersion(s, r, k, {r.tab}) \/ NewVersion(s, r, k, {})
      PROVE  StampInv'
  BY <1>2, <1>4, SuccessorClean, WroteKeeps DEF NewVersion
<1>5. CASE Insert(s, t, k) /\ ~Fails(s)
  <2> DEFINE new == NewRow(t, k, nextRid, {}, Version(s))
  <2>1. Wrote(s, t, Catalog(s) \cup {new}, {}, {}, {<<"ins", nextRid>>})
    BY <1>5 DEF Insert
  <2>2. Clean({new}, S)
    <3> HIDE DEF S
    <3> QED BY <1>1, NewRowClean
  <2> HIDE DEF new
  <2>3. Clean(Catalog(s) \cup {new}, S)
    <3> HIDE DEF S
    <3> QED BY <1>1, <2>2, CleanUnion
  <2> QED BY <1>2, <2>1, <2>3, WroteKeeps
<1>6. CASE Delete(s, r)
  <2>1. Clean(Kill(Catalog(s), r.rid, Version(s)), S)
    <3> HIDE DEF S
    <3> QED BY <1>1, KillClean
  <2> QED BY <1>2, <1>6, <2>1, WroteKeeps DEF Delete
<1> QED BY <1>3, <1>4, <1>5, <1>6 DEF Update, Upsert

\* What COMMIT installs is clean once the transaction is settled.
LEMMA InstalledClean ==
  ASSUME StampInv, NEW s \in Sessions, Open(s)
  PROVE  /\ Installed(tx[s]) = [rows |-> Installed(tx[s]).rows, ddl |-> Installed(tx[s]).ddl]
         /\ Clean(Installed(tx[s]).rows, Settled \cup {tx[s].v})
<1> DEFINE st == tx[s]
           S  == Settled \cup {st.v}
<1>1. /\ 0 \in S /\ st.v \in S /\ Clean(base.rows, S) /\ Clean(st.cat.rows, S)
      /\ base = [rows |-> base.rows, ddl |-> base.ddl]
  <2>1. 0 \in Settled /\ Settled \subseteq S /\ st.v \in S
    BY SettledFacts DEF StampInv
  <2>2. Clean(base.rows, Settled) /\ base = [rows |-> base.rows, ddl |-> base.ddl]
    BY DEF StampInv
  <2>3. Clean(st.cat.rows, S)
    BY DEF StampInv, CleanTx, CleanCat
  <2> HIDE DEF S
  <2> QED BY <2>1, <2>2, <2>3, CleanGrows
<1>2. Clean(Rebased(st).cat.rows, S)
  BY StatementStart DEF CleanTx, CleanCat
<1> HIDE DEF S, st
<1>3. Clean(Ready(st).rows, S)
  <2>1. Clean(OntoBase(st).rows, S)
    BY <1>1, ReplayClean DEF CleanCat
  <2>2. Ready(st) = OntoBase(st) \/ Ready(st) = Rebased(st).cat
    BY DEF Ready
  <2> QED BY <1>2, <2>1, <2>2
<1>4. Clean(TableMerge(st).rows, S)
  BY <1>1 DEF TableMerge, Clean
<1>5. TableMerge(st) = [rows |-> TableMerge(st).rows, ddl |-> TableMerge(st).ddl]
  BY DEF TableMerge
<1>6. /\ Installed(st) = [rows |-> Installed(st).rows, ddl |-> Installed(st).ddl]
      /\ Clean(Installed(st).rows, S)
  <2> DEFINE ready == [rows |-> Ready(st).rows, ddl |-> Ready(st).ddl]
  <2>1. ready = [rows |-> ready.rows, ddl |-> ready.ddl] /\ Clean(ready.rows, S)
    BY <1>3
  <2>2. Installed(st) \in {base, TableMerge(st), ready}
    BY DEF Installed
  <2> HIDE DEF ready
  <2> QED BY <1>1, <1>4, <1>5, <2>1, <2>2
<1> QED BY <1>6 DEF S, st

\* exec_commit settles the version together with the rows that carry it;
\* exec_rollback and a refused COMMIT leave the committed catalog alone.
LEMMA EndKeeps ==
  ASSUME StampInv, NEW s \in Sessions, Commit(s) \/ CommitRefused(s) \/ Rollback(s)
  PROVE  StampInv'
<1>1. Open(s)
  BY DEF Commit, CommitRefused, Rollback
<1>2. CASE Commit(s)
  <2>1. base' = Installed(tx[s]) /\ aborted' = aborted /\ Ends(s)
    BY <1>2 DEF Commit
  <2> QED BY <1>1, <2>1, InstalledClean, TxEnds
<1>3. CASE CommitRefused(s) \/ Rollback(s)
  <2>1. base' = base /\ aborted' = aborted \cup {tx[s].v} /\ Ends(s)
    BY <1>3 DEF CommitRefused, Rollback, Discard
  <2> QED BY <1>1, <2>1, TxEnds
<1> QED BY <1>2, <1>3

\* StampInv holds of every state the engine reaches: a version is settled
\* together with the rows that carry it, and never before.
LEMMA StampInvariant == TxSpec => []StampInv
<1>1. TxInit => StampInv
  <2> SUFFICES ASSUME TxInit PROVE StampInv
    OBVIOUS
  <2>1. Registers /\ Settled = {0}
    BY DEF TxInit, Registers, Settled
  <2>2. Clean(base.rows, Settled)
    BY <2>1, TransactionsAssumption DEF TxInit, Clean, Row, Frozen, Alive
  <2>3. \A s \in Sessions : ~Open(s)
    BY DEF TxInit, Open
  <2> QED BY <2>1, <2>2, <2>3 DEF TxInit, StampInv
<1>2. StampInv /\ [TxNext]_vars => StampInv'
  <2> SUFFICES ASSUME StampInv, [TxNext]_vars PROVE StampInv'
    OBVIOUS
  <2>1. CASE UNCHANGED vars
    <3>1. base' = base /\ tx' = tx /\ nextVersion' = nextVersion /\ active' = active
          /\ aborted' = aborted
      BY <2>1 DEF vars
    <3>2. Settled' = Settled /\ Registers'
      BY <3>1 DEF Settled, StampInv, Registers
    <3> QED BY <3>1, <3>2 DEF StampInv, Open
  <2>2. ASSUME NEW s \in Sessions, NEW t, Select(s, t) PROVE StampInv'
    <3>1. UNCHANGED <<base, nextVersion, active, aborted>>
      BY <2>2 DEF Select, Quiet
    <3>2. CASE Open(s) /\ tx' # tx
      BY <2>2, <3>1, <3>2, ReadKeeps DEF Select
    <3>3. CASE tx' = tx
      <4>1. Settled' = Settled /\ Registers'
        BY <3>1 DEF Settled, StampInv, Registers
      <4> QED BY <3>1, <3>3, <4>1 DEF StampInv, Open
    <3> QED BY <2>2, <3>2, <3>3 DEF Select
  <2>3. ASSUME NEW s \in Sessions, NEW r, LockRow(s, r) PROVE StampInv'
    BY <2>3, ReadKeeps DEF LockRow, Quiet
  <2> QED
    BY <2>1, <2>2, <2>3, BeginKeeps, AlterKeeps, UtilityKeeps, WriteKeeps, SavepointKeeps,
       RollbackToKeeps, ReleaseKeeps, EndKeeps DEF TxNext
<1> QED BY <1>1, <1>2, PTL DEF TxSpec

\* No dirty write: every stamp in the committed catalog, and every stamp of
\* another in a shadow, belongs to a version that committed, however rebases,
\* merges, savepoints and failed COMMITs interleave.
THEOREM NoDirtyWrites == TxSpec => []NoForeignStamps
<1>1. StampInv => NoForeignStamps
  <2> SUFFICES ASSUME StampInv PROVE NoForeignStamps
    OBVIOUS
  <2>1. \A rows, S : Clean(rows, S) => StampsOf(rows) \subseteq S
    BY DEF Clean, StampsOf
  <2>2. Settled \cap (active \cup aborted) = {}
    BY DEF Settled
  <2>3. StampsOf(base.rows) \subseteq Settled
    BY <2>1 DEF StampInv
  <2>4. \A s \in Sessions : Open(s) =>
          /\ StampsOf(tx[s].cat.rows) \subseteq Settled \cup {tx[s].v}
          /\ tx[s].v \notin aborted
    BY <2>1 DEF StampInv, CleanTx, CleanCat, Registers
  <2> QED BY <2>2, <2>3, <2>4 DEF NoForeignStamps
<1> QED BY <1>1, StampInvariant, PTL

---------------------------------------------------------------------------
(* Types: every row id, version and table name a step stores is one that   *)
(* was drawn, and the bounds on versions and row ids are kept.             *)

Entry == [name : Names, cat : Catalogs, claims : SUBSET Claims]

BaseType == base \in [rows : SUBSET Row, ddl : [Tabs -> SUBSET Versions]]

TxsType == \A s \in Sessions : Open(s) => TxType(tx[s])

\* A row with another tombstone is a row.
LEMMA TombstoneTyped ==
  ASSUME NEW r \in Row, NEW x \in 0..MaxVersion
  PROVE  [r EXCEPT !.xmax = x] \in Row
BY DEF Row

\* A new row is one if its id may still be drawn.
LEMMA NewRowTyped ==
  ASSUME NEW t \in Tabs, NEW k \in Keys, NEW org \in Rids, NEW by \in SUBSET Versions,
         NEW v \in Versions, nextRid \in Rids
  PROVE  NewRow(t, k, org, by, v) \in Row
<1>1. v \in 0..MaxVersion /\ Alive \in 0..MaxVersion
  BY TransactionsAssumption DEF Versions, Alive
<1> QED BY <1>1 DEF NewRow, Row

\* A tombstoned version of each of a set of rows.
LEMMA KillTyped ==
  ASSUME NEW rows \in SUBSET Row, NEW rid, NEW v \in Versions
  PROVE  Kill(rows, rid, v) \subseteq Row
<1>1. v \in 0..MaxVersion
  BY TransactionsAssumption DEF Versions
<1> QED BY <1>1, TombstoneTyped DEF Kill

\* The replay makes rows of rows.
LEMMA ReplayTyped ==
  ASSUME BaseType, NEW st, st.cat.rows \subseteq Row, st.v \in Versions
  PROVE  Replayed(st) \subseteq Row
<1>1. st.v \in 0..MaxVersion /\ Alive \in 0..MaxVersion
  BY TransactionsAssumption DEF Versions, Alive
<1>2. base.rows \subseteq Row /\ ReplayInserts(st) \subseteq Row
  BY DEF BaseType, ReplayInserts, Inserts, InsertedBy, Written
<1>3. Phase1(st) \subseteq Row
  BY <1>1, <1>2, TombstoneTyped DEF Phase1
<1>4. \A r \in ReplayInserts(st) :
        [r EXCEPT !.xmax = IF r.rid \in ReplayTombstones(st) THEN st.v ELSE Alive] \in Row
  BY <1>1, <1>2, TombstoneTyped
<1> QED BY <1>3, <1>4 DEF Replayed

\* So the rebased transaction is a transaction.
LEMMA RebaseTyped ==
  ASSUME BaseType, NEW st, TxShape(st), TxType(st)
  PROVE  /\ TxType(Rebased(st)) /\ TxShape(Rebased(st)) /\ OntoBase(st) \in Catalogs
<1> DEFINE cat == OntoBase(st)
<1>1. cat \in Catalogs
  <2>1. st.cat \in Catalogs /\ st.v \in Versions
    BY DEF TxType
  <2>2. Replayed(st) \subseteq Row
    BY <2>1, ReplayTyped DEF Catalogs
  <2> QED BY <2>1, <2>2 DEF OntoBase, Catalogs, BaseType
<1>2. CASE NeedsRebase(st)
  <2> DEFINE new == [st EXCEPT !.cat = cat, !.fresh = TRUE]
  <2>1. Rebased(st) = new
    BY <1>2 DEF Rebased
  <2> HIDE DEF cat
  <2>2. /\ TxShape(new) /\ new.v = st.v /\ new.iso = st.iso /\ new.cat = cat /\ new.snap = st.snap
        /\ new.touched = st.touched /\ new.reads = st.reads /\ new.beginSeq = st.beginSeq
        /\ new.pairs = st.pairs /\ new.claims = st.claims /\ new.saves = st.saves
        /\ new.shadowDirty = st.shadowDirty /\ new.poisoned = st.poisoned
        /\ new.fresh = TRUE /\ new.aborted = st.aborted
    BY DEF TxShape, TxFields
  <2> HIDE DEF new
  <2>3. TxType(new)
    BY <1>1, <2>2 DEF TxType
  <2> QED BY <1>1, <2>1, <2>2, <2>3 DEF cat
<1>3. CASE ~NeedsRebase(st)
  BY <1>1, <1>3 DEF Rebased
<1> QED BY <1>2, <1>3

\* What a statement of s starts from.
LEMMA StartTyped ==
  ASSUME StampInv, TxTypeOK, NEW s \in Sessions
  PROVE  /\ Catalog(s) \subseteq Row
         /\ Open(s) => TxType(Rebased(tx[s])) /\ TxShape(Rebased(tx[s])) /\ tx[s].v \in Versions
<1>1. BaseType /\ TxsType
  BY DEF TxTypeOK, BaseType, TxsType
<1>2. CASE Open(s)
  <2>1. TxShape(tx[s]) /\ TxType(tx[s])
    BY <1>1, <1>2 DEF StampInv, CleanTx, TxsType
  <2>2. TxType(Rebased(tx[s])) /\ TxShape(Rebased(tx[s]))
    BY <1>1, <2>1, RebaseTyped
  <2> QED BY <1>2, <2>1, <2>2 DEF TxType, Catalogs, Catalog
<1>3. CASE ~Open(s)
  BY <1>1, <1>3 DEF BaseType, Catalog
<1> QED BY <1>2, <1>3

\* A session changes its own transaction.
LEMMA OwnTyped ==
  ASSUME StampInv, TxTypeOK, NEW s \in Sessions, NEW st, tx' = [tx EXCEPT ![s] = st], TxType(st)
  PROVE  TxsType'
<1>1. \A o \in Sessions : tx'[o] = IF o = s THEN st ELSE tx[o]
  BY DEF StampInv
<1> QED BY <1>1 DEF TxTypeOK, TxsType, Open

\* The epoch moves.
LEMMA StaleTyped ==
  ASSUME StampInv, TxTypeOK, NEW o \in Sessions, Open(o)
  PROVE  TxType([tx[o] EXCEPT !.fresh = FALSE])
<1> DEFINE st  == tx[o]
           new == [st EXCEPT !.fresh = FALSE]
<1>1. TxShape(st) /\ TxType(st)
  BY DEF StampInv, CleanTx, TxTypeOK
<1>2. /\ new.v = st.v /\ new.iso = st.iso /\ new.cat = st.cat /\ new.snap = st.snap
      /\ new.touched = st.touched /\ new.reads = st.reads /\ new.beginSeq = st.beginSeq
      /\ new.pairs = st.pairs /\ new.claims = st.claims /\ new.saves = st.saves
      /\ new.shadowDirty = st.shadowDirty /\ new.poisoned = st.poisoned
      /\ new.fresh = FALSE /\ new.aborted = st.aborted
  BY <1>1 DEF TxShape, TxFields
<1> HIDE DEF new
<1>3. TxType(new)
  BY <1>1, <1>2 DEF TxType
<1> QED BY <1>3 DEF new

\* exec_begin.
LEMMA BeginTyped ==
  ASSUME StampInv, TxTypeOK, NEW s \in Sessions, NEW iso \in Isolations, Begin(s, iso)
  PROVE  TxTypeOK'
<1> DEFINE st == [v |-> nextVersion, iso |-> iso,
                  cat |-> [rows |-> base.rows, ddl |-> base.ddl, dirty |-> {}],
                  snap |-> BeginSnapshot(iso),
                  touched |-> {}, reads |-> {}, beginSeq |-> commitSeq, pairs |-> {},
                  saves |-> <<>>, claims |-> {}, shadowDirty |-> FALSE,
                  poisoned |-> FALSE, fresh |-> TRUE, aborted |-> FALSE]
<1>1. nextVersion \in Versions /\ nextVersion' \in 1..(MaxVersion + 1)
  BY TransactionsAssumption DEF Begin, TxTypeOK, Versions
<1>2. /\ tx' = [tx EXCEPT ![s] = st] /\ active' = active \cup {nextVersion}
      /\ UNCHANGED <<base, aborted, rowLocks, nextRid, commitSeq, lastCommit>>
  BY DEF Begin
<1>3. st.cat \in Catalogs
  BY DEF TxTypeOK, Catalogs
<1>4. \/ BeginSnapshot(iso) = NoSnap
      \/ BeginSnapshot(iso) \in [version : Versions, inProgress : SUBSET Versions, tx : Versions]
  BY <1>1 DEF BeginSnapshot, TxTypeOK
<1>5. iso \in Levels /\ commitSeq \in Nat /\ <<>> \in Seq(Entry)
  BY TransactionsAssumption DEF TxTypeOK
<1>6. TxType(st)
  <2>1. /\ st.v = nextVersion /\ st.iso = iso /\ st.snap = BeginSnapshot(iso) /\ st.touched = {}
        /\ st.reads = {} /\ st.beginSeq = commitSeq /\ st.pairs = {} /\ st.saves = <<>>
        /\ st.claims = {} /\ st.shadowDirty = FALSE /\ st.poisoned = FALSE
        /\ st.fresh = TRUE /\ st.aborted = FALSE
    OBVIOUS
  <2> HIDE DEF st
  <2> QED BY <1>1, <1>3, <1>4, <1>5, <2>1 DEF TxType, Entry
<1> HIDE DEF st
<1>7. TxsType'
  BY <1>2, <1>6, OwnTyped
<1> QED BY <1>1, <1>2, <1>7 DEF TxTypeOK, TxsType

\* Statements that change neither rows nor DDL: what they note is read sets
\* and flags.
LEMMA ReadTyped ==
  ASSUME StampInv, TxTypeOK, NEW s \in Sessions, Open(s), NEW f, NEW x,
         tx' = [tx EXCEPT ![s] = [Rebased(tx[s]) EXCEPT ![f] = x]],
         \/ f = "reads" /\ x \subseteq Tabs
         \/ f \in {"poisoned", "aborted"} /\ x \in BOOLEAN
  PROVE  TxsType'
<1> DEFINE rb == Rebased(tx[s])
           st == [rb EXCEPT ![f] = x]
<1>1. TxType(rb) /\ TxShape(rb)
  BY StartTyped
<1> HIDE DEF rb
<1>2. DOMAIN rb = TxFields
  BY <1>1 DEF TxShape
<1>3. /\ st.v = rb.v /\ st.iso = rb.iso /\ st.cat = rb.cat /\ st.snap = rb.snap
      /\ st.touched = rb.touched /\ st.beginSeq = rb.beginSeq
      /\ st.pairs = rb.pairs /\ st.claims = rb.claims /\ st.saves = rb.saves
      /\ st.shadowDirty = rb.shadowDirty /\ st.fresh = rb.fresh
  BY <1>2 DEF TxFields
<1>4. st.reads = rb.reads \/ st.reads \subseteq Tabs
  BY <1>2 DEF TxFields
<1>5. /\ st.poisoned = rb.poisoned \/ st.poisoned \in BOOLEAN
      /\ st.aborted = rb.aborted \/ st.aborted \in BOOLEAN
  BY <1>2 DEF TxFields
<1> HIDE DEF st
<1>6. TxType(st)
  BY <1>1, <1>3, <1>4, <1>5 DEF TxType
<1> QED BY <1>6, OwnTyped DEF st, rb

\* DDL.
LEMMA AlterTyped ==
  ASSUME StampInv, TxTypeOK, NEW s \in Sessions, NEW t \in Tabs, Alter(s, t)
  PROVE  TxsType'
<1> DEFINE rb == Rebased(tx[s])
           st == [rb EXCEPT !.cat.ddl[t] = @ \cup {tx[s].v}, !.cat.dirty = @ \cup {t},
                            !.poisoned = TRUE, !.shadowDirty = TRUE]
<1>1. Open(s) /\ tx' = [tx EXCEPT ![s] = st]
  BY DEF Alter
<1>2. TxType(rb) /\ TxShape(rb) /\ tx[s].v \in Versions
  BY <1>1, StartTyped
<1> HIDE DEF rb
<1>3. DOMAIN rb = TxFields /\ rb.cat \in Catalogs
  BY <1>2 DEF TxShape, TxType
<1>4. /\ st.v = rb.v /\ st.iso = rb.iso /\ st.snap = rb.snap
      /\ st.touched = rb.touched /\ st.reads = rb.reads /\ st.beginSeq = rb.beginSeq
      /\ st.pairs = rb.pairs /\ st.claims = rb.claims /\ st.saves = rb.saves
      /\ st.shadowDirty = TRUE /\ st.poisoned = TRUE
      /\ st.fresh = rb.fresh /\ st.aborted = rb.aborted
  BY <1>3 DEF TxFields
<1>5. st.cat = [[rb.cat EXCEPT !.ddl[t] = @ \cup {tx[s].v}] EXCEPT !.dirty = @ \cup {t}]
  BY <1>3 DEF TxFields
<1> HIDE DEF st
<1>6. st.cat \in Catalogs
  <2> DEFINE ddl == [rb.cat.ddl EXCEPT ![t] = @ \cup {tx[s].v}]
  <2>1. ddl \in [Tabs -> SUBSET Versions]
    BY <1>2, <1>3 DEF Catalogs
  <2>2. st.cat = [[rb.cat EXCEPT !.ddl = ddl] EXCEPT !.dirty = @ \cup {t}]
    BY <1>5
  <2> HIDE DEF ddl
  <2>3. st.cat = [rows |-> rb.cat.rows, ddl |-> ddl, dirty |-> rb.cat.dirty \cup {t}]
    BY <1>3, <2>2 DEF Catalogs
  <2> QED BY <1>3, <2>1, <2>3 DEF Catalogs
<1>7. TxType(st)
  BY <1>2, <1>4, <1>6 DEF TxType
<1> QED BY <1>1, <1>7, OwnTyped

\* record_tx_stmt, record_tx_reads and record_update_pairs; in autocommit the
\* committed catalog and the version counter.
LEMMA WroteTyped ==
  ASSUME StampInv, TxTypeOK, NEW s \in Sessions, NEW op, CanRun(s, op), NEW t \in Tabs,
         NEW rows \in SUBSET Row, NEW reads \in SUBSET Tabs, NEW pairs \in SUBSET (Rids \X Rids),
         NEW claims \in SUBSET Claims, Wrote(s, t, rows, reads, pairs, claims)
  PROVE  TxsType' /\ BaseType' /\ nextVersion' \in 1..(MaxVersion + 1)
<1> DEFINE rb == Rebased(tx[s])
<1>1. CASE Open(s)
  <2> DEFINE st == [rb EXCEPT
                      !.cat.rows = rows, !.cat.dirty = @ \cup {t},
                      !.touched = @ \cup {t}, !.pairs = @ \cup pairs,
                      !.reads = IF tx[s].iso = "SER" THEN @ \cup reads ELSE @,
                      !.shadowDirty = TRUE, !.claims = @ \cup claims]
  <2>1. TxType(rb) /\ TxShape(rb)
    BY <1>1, StartTyped
  <2>2. tx' = [tx EXCEPT ![s] = st] /\ UNCHANGED <<base, nextVersion>>
    BY <1>1 DEF Wrote
  <2> HIDE DEF rb
  <2>3. DOMAIN rb = TxFields /\ rb.cat \in Catalogs
    BY <2>1 DEF TxShape, TxType
  <2>4. /\ st.v = rb.v /\ st.iso = rb.iso /\ st.snap = rb.snap /\ st.saves = rb.saves
        /\ st.touched = rb.touched \cup {t} /\ st.beginSeq = rb.beginSeq
        /\ st.pairs = rb.pairs \cup pairs /\ st.claims = rb.claims \cup claims
        /\ st.shadowDirty = TRUE /\ st.poisoned = rb.poisoned
        /\ st.fresh = rb.fresh /\ st.aborted = rb.aborted
    BY <2>3 DEF TxFields
  <2>5. st.reads \subseteq rb.reads \cup reads
    BY <2>3 DEF TxFields
  <2>6. st.cat = [[rb.cat EXCEPT !.rows = rows] EXCEPT !.dirty = @ \cup {t}]
    BY <2>3 DEF TxFields
  <2> HIDE DEF st
  <2>7. st.cat \in Catalogs
    <3>1. st.cat = [rows |-> rows, ddl |-> rb.cat.ddl, dirty |-> rb.cat.dirty \cup {t}]
      BY <2>3, <2>6 DEF Catalogs
    <3> QED BY <2>3, <3>1 DEF Catalogs
  <2>8. TxType(st)
    BY <2>1, <2>4, <2>5, <2>7 DEF TxType
  <2> QED BY <2>2, <2>8, OwnTyped DEF TxTypeOK, BaseType
<1>2. CASE ~Open(s)
  <2>1. /\ base' = [base EXCEPT !.rows = rows] /\ nextVersion' = nextVersion + 1
        /\ tx' = Stale(tx) /\ nextVersion <= MaxVersion
    BY <1>2 DEF Wrote, CanRun
  <2>2. nextVersion' \in 1..(MaxVersion + 1)
    BY <2>1, TransactionsAssumption DEF TxTypeOK
  <2>3. BaseType'
    BY <2>1 DEF TxTypeOK, BaseType
  <2>4. TxsType'
    <3>1. \A o \in Sessions : tx'[o] = IF tx[o] = NoTx THEN NoTx ELSE [tx[o] EXCEPT !.fresh = FALSE]
      BY <2>1 DEF Stale
    <3> QED BY <3>1, StaleTyped DEF TxsType, Open
  <2> QED BY <2>2, <2>3, <2>4
<1> QED BY <1>1, <1>2

\* Statements that fail.
LEMMA FailsTyped ==
  ASSUME StampInv, TxTypeOK, NEW s \in Sessions, Fails(s)
  PROVE  TxsType' /\ BaseType' /\ nextVersion' \in 1..(MaxVersion + 1)
         /\ nextRid' \in 1..(MaxRid + 1)
<1>1. TxsType'
  BY ReadTyped DEF Fails
<1> QED BY <1>1 DEF Fails, TxTypeOK, BaseType

\* INSERT, UPDATE, DELETE and ON CONFLICT DO UPDATE.
LEMMA WriteTyped ==
  ASSUME StampInv, TxTypeOK, NEW s \in Sessions, NEW t \in Tabs, NEW k \in Keys,
         NEW r, r \in Catalog(s) \/ Insert(s, t, k),
         Insert(s, t, k) \/ Delete(s, r) \/ Update(s, r, k) \/ Upsert(s, r, k)
  PROVE  TxTypeOK'
<1> DEFINE v    == Version(s)
           rows == Catalog(s)
           Done == /\ TxsType' /\ BaseType' /\ nextVersion' \in 1..(MaxVersion + 1)
                   /\ nextRid' \in 1..(MaxRid + 1)
<1>1. UNCHANGED <<active, aborted, commitSeq, lastCommit>>
  BY DEF Insert, Delete, Update, Upsert, Quiet
<1>2. rows \subseteq Row /\ \E op : CanRun(s, op)
  BY StartTyped DEF Insert, Delete, Update, Upsert
<1>3. v \in Versions
  BY <1>2, StartTyped DEF Version, CanRun, TxTypeOK, Versions
<1>4. Insert(s, t, k) \/ Update(s, r, k) \/ Upsert(s, r, k)
        => nextRid \in Rids /\ nextRid + 1 \in 1..(MaxRid + 1)
  BY TransactionsAssumption DEF Insert, Update, Upsert, TxTypeOK, Rids
<1>5. Fails(s) => Done
  BY FailsTyped
<1>6. ASSUME Insert(s, t, k), ~Fails(s) PROVE Done /\ UNCHANGED rowLocks
  <2> DEFINE new == NewRow(t, k, nextRid, {}, v)
  <2>1. /\ Wrote(s, t, rows \cup {new}, {}, {}, {<<"ins", nextRid>>}) /\ nextRid' = nextRid + 1
        /\ CanRun(s, "insert") /\ UNCHANGED rowLocks
    BY <1>6 DEF Insert, Unlocked
  <2>2. new \in Row
    BY <1>3, <1>4, <1>6, NewRowTyped
  <2>3. {<<"ins", nextRid>>} \in SUBSET Claims
    BY <1>4, <1>6 DEF Claims
  <2> HIDE DEF new, rows
  <2>4. TxsType' /\ BaseType' /\ nextVersion' \in 1..(MaxVersion + 1)
    BY <1>2, <2>1, <2>2, <2>3, WroteTyped
  <2> QED BY <1>4, <1>6, <2>1, <2>4
<1>7. ASSUME r \in rows PROVE r \in Row /\ r.tab \in Tabs /\ r.rid \in Rids /\ r.org \in Rids
                               /\ Kill(rows, r.rid, v) \subseteq Row
  BY <1>2, <1>3, <1>7, KillTyped DEF Row
<1>8. ASSUME r \in rows, nextRid \in Rids, nextRid + 1 \in 1..(MaxRid + 1),
             NEW reads \in SUBSET {r.tab}, NewVersion(s, r, k, reads)
      PROVE  Done
  <2> DEFINE new == Successor(s, r, k)
  <2>1. /\ Wrote(s, r.tab, Kill(rows, r.rid, v) \cup {new}, reads, {<<r.rid, nextRid>>},
                 {<<"upd", r.org>>})
        /\ nextRid' = nextRid + 1
    BY <1>8 DEF NewVersion
  <2>2. r.by \cup {v} \in SUBSET Versions
    BY <1>3, <1>7, <1>8 DEF Row
  <2>3. new \in Row
    BY <1>3, <1>7, <1>8, <2>2, NewRowTyped DEF Successor
  <2>4. {<<"upd", r.org>>} \in SUBSET Claims /\ {<<r.rid, nextRid>>} \in SUBSET (Rids \X Rids)
        /\ reads \in SUBSET Tabs
    BY <1>7, <1>8 DEF Claims
  <2> HIDE DEF new, rows
  <2>5. TxsType' /\ BaseType' /\ nextVersion' \in 1..(MaxVersion + 1)
    BY <1>2, <1>7, <1>8, <2>1, <2>3, <2>4, WroteTyped
  <2> QED BY <1>8, <2>1, <2>5
<1>9. ASSUME r \in rows, TakesLock(s, r.rid) PROVE rowLocks' \subseteq Rids \X Versions
  BY <1>7, <1>9, StartTyped DEF TakesLock, TxTypeOK
<1>10. ASSUME Delete(s, r), r \in rows PROVE Done
  <2>1. /\ Wrote(s, r.tab, Kill(rows, r.rid, v), {r.tab}, {}, {<<"del", r.org>>})
        /\ UNCHANGED nextRid
    BY <1>10 DEF Delete
  <2>2. {<<"del", r.org>>} \in SUBSET Claims
    BY <1>7, <1>10 DEF Claims
  <2> HIDE DEF rows
  <2>3. TxsType' /\ BaseType' /\ nextVersion' \in 1..(MaxVersion + 1)
    BY <1>2, <1>7, <1>10, <2>1, <2>2, WroteTyped
  <2> QED BY <2>1, <2>3 DEF TxTypeOK
<1>11. Done /\ rowLocks' \subseteq Rids \X Versions
  <2>1. CASE Insert(s, t, k)
    BY <1>5, <1>6, <2>1 DEF Insert, Unlocked, TxTypeOK
  <2>2. CASE Delete(s, r) /\ r \in rows
    BY <1>9, <1>10, <2>2 DEF Delete
  <2>3. CASE Update(s, r, k) /\ r \in rows
    BY <1>4, <1>5, <1>8, <1>9, <2>3 DEF Update, Unlocked, TxTypeOK
  <2>4. CASE Upsert(s, r, k) /\ r \in rows
    BY <1>4, <1>5, <1>8, <2>4 DEF Upsert, Unlocked, TxTypeOK
  <2> QED BY <2>1, <2>2, <2>3, <2>4
<1> QED BY <1>1, <1>11 DEF TxTypeOK, TxsType, BaseType

\* Savepoints move between the shadow and the stack.
LEMMA BookmarkTyped ==
  ASSUME StampInv, TxTypeOK, NEW s \in Sessions, NEW n \in Names,
         Savepoint(s, n) \/ RollbackTo(s, n) \/ Release(s, n)
  PROVE  TxsType'
<1> DEFINE st    == tx[s]
           saves == st.saves
           i     == Position(saves, n)
<1>1. Open(s)
  BY DEF Savepoint, RollbackTo, Release, HasSave
<1>2. TxShape(st) /\ TxType(st)
  BY <1>1 DEF StampInv, CleanTx, TxTypeOK
<1>3. saves \in Seq(Entry) /\ st.cat \in Catalogs /\ st.claims \in SUBSET Claims
  BY <1>2 DEF TxType, Entry
<1>4. HasSave(s, n) => i \in 1..Len(saves) /\ Len(saves) \in Nat
  BY SaveFound
<1>5. ASSUME NEW cat \in Catalogs, NEW claims \in SUBSET Claims, NEW stack \in Seq(Entry),
             NEW fresh \in BOOLEAN, NEW quit \in BOOLEAN,
             tx' = [tx EXCEPT ![s] = [st EXCEPT !.cat = cat, !.claims = claims, !.saves = stack,
                                                !.fresh = fresh, !.aborted = quit]]
      PROVE  TxsType'
  <2> DEFINE new == [st EXCEPT !.cat = cat, !.claims = claims, !.saves = stack,
                               !.fresh = fresh, !.aborted = quit]
  <2>1. /\ new.v = st.v /\ new.iso = st.iso /\ new.cat = cat /\ new.snap = st.snap
        /\ new.touched = st.touched /\ new.reads = st.reads /\ new.beginSeq = st.beginSeq
        /\ new.pairs = st.pairs /\ new.claims = claims /\ new.saves = stack
        /\ new.shadowDirty = st.shadowDirty /\ new.poisoned = st.poisoned
        /\ new.fresh = fresh /\ new.aborted = quit
    BY <1>2 DEF TxShape, TxFields
  <2> HIDE DEF new
  <2>2. TxType(new)
    BY <1>2, <2>1 DEF TxType, Entry
  <2> QED BY <1>5, <2>2, OwnTyped DEF new
<1>7. ASSUME NEW stack \in Seq(Entry), tx' = [tx EXCEPT ![s] = [st EXCEPT !.saves = stack]]
      PROVE  TxsType'
  <2> DEFINE new == [st EXCEPT !.saves = stack]
  <2>1. /\ new.v = st.v /\ new.iso = st.iso /\ new.cat = st.cat /\ new.snap = st.snap
        /\ new.touched = st.touched /\ new.reads = st.reads /\ new.beginSeq = st.beginSeq
        /\ new.pairs = st.pairs /\ new.claims = st.claims /\ new.saves = stack
        /\ new.shadowDirty = st.shadowDirty /\ new.poisoned = st.poisoned
        /\ new.fresh = st.fresh /\ new.aborted = st.aborted
    BY <1>2 DEF TxShape, TxFields
  <2> HIDE DEF new
  <2>2. TxType(new)
    BY <1>2, <2>1 DEF TxType, Entry
  <2> QED BY <1>7, <2>2, OwnTyped DEF new
<1>8. ASSUME NEW a \in Nat, NEW b \in Nat, 1 <= a, b <= Len(saves)
      PROVE  SubSeq(saves, a, b) \in Seq(Entry)
  <2> HIDE DEF saves
  <2>1. \A j \in a..b : saves[j] \in Entry
    BY <1>3, <1>8
  <2> QED BY <1>3, <1>8, <2>1, SubSeqProperties
<1> HIDE DEF i
<1>9. CASE Savepoint(s, n)
  <2> DEFINE mark == [name |-> n, cat |-> st.cat, claims |-> st.claims]
             kept == OtherSaves(s, n)
  <2>1. kept \in Seq(Entry)
    <3>1. CASE HasSave(s, n)
      <4>1. kept = SubSeq(saves, 1, i - 1) \o SubSeq(saves, i + 1, Len(saves))
        BY <3>1 DEF OtherSaves, i
      <4>2. SubSeq(saves, 1, i - 1) \in Seq(Entry) /\ SubSeq(saves, i + 1, Len(saves)) \in Seq(Entry)
        BY <1>4, <1>8, <3>1
      <4> QED BY <4>1, <4>2, ConcatProperties
    <3>2. CASE ~HasSave(s, n)
      BY <1>3, <3>2 DEF OtherSaves
    <3> QED BY <3>1, <3>2
  <2>2. mark \in Entry
    BY <1>3 DEF Entry
  <2>3. tx' = [tx EXCEPT ![s] = [st EXCEPT !.saves = Append(kept, mark)]]
    BY <1>9 DEF Savepoint
  <2> HIDE DEF mark, kept
  <2>4. Append(kept, mark) \in Seq(Entry)
    BY <2>1, <2>2
  <2> QED BY <1>7, <2>3, <2>4
<1>10. CASE RollbackTo(s, n)
  <2>1. HasSave(s, n) /\ i \in 1..Len(saves) /\ Len(saves) \in Nat
    BY <1>4, <1>10 DEF RollbackTo
  <2>2. saves[i] \in Entry
    BY <1>3, <2>1
  <2>3. saves[i].cat \in Catalogs /\ saves[i].claims \in SUBSET Claims
    BY <2>2 DEF Entry
  <2>4. SubSeq(saves, 1, i) \in Seq(Entry)
    BY <1>8, <2>1
  <2>5. tx' = [tx EXCEPT ![s] = [st EXCEPT !.cat = saves[i].cat, !.claims = saves[i].claims,
                                           !.saves = SubSeq(saves, 1, i),
                                           !.fresh = FALSE, !.aborted = FALSE]]
    BY <1>10 DEF RollbackTo, i
  <2> HIDE DEF saves, st
  <2> QED BY <1>5, <2>3, <2>4, <2>5
<1>11. CASE Release(s, n)
  <2>1. HasSave(s, n) /\ i \in 1..Len(saves) /\ Len(saves) \in Nat
    BY <1>4, <1>11 DEF Release
  <2>2. SubSeq(saves, 1, i - 1) \in Seq(Entry)
    BY <1>8, <2>1
  <2>3. tx' = [tx EXCEPT ![s] = [st EXCEPT !.saves = SubSeq(saves, 1, i - 1)]]
    BY <1>11 DEF Release, i
  <2> QED BY <1>7, <2>2, <2>3
<1> QED BY <1>9, <1>10, <1>11

\* COMMIT, ROLLBACK and a refused COMMIT.
LEMMA EndTyped ==
  ASSUME StampInv, TxTypeOK, NEW s \in Sessions, Commit(s) \/ CommitRefused(s) \/ Rollback(s)
  PROVE  TxTypeOK'
<1> DEFINE st == tx[s]
<1>1. Open(s) /\ Ends(s)
  BY DEF Commit, CommitRefused, Rollback, Discard
<1>2. TxsType'
  <2>1. \A o \in Sessions :
          tx'[o] = IF o = s \/ tx[o] = NoTx THEN NoTx ELSE [tx[o] EXCEPT !.fresh = FALSE]
    BY <1>1 DEF Ends, Stale, StampInv
  <2> QED BY <2>1, StaleTyped DEF TxsType, Open
<1>3. TxShape(st) /\ TxType(st) /\ BaseType
  BY <1>1 DEF StampInv, CleanTx, TxTypeOK, BaseType
<1>4. st.v \in Versions /\ st.cat \in Catalogs /\ st.touched \subseteq Tabs
  BY <1>3 DEF TxType
<1>5. Installed(st) \in [rows : SUBSET Row, ddl : [Tabs -> SUBSET Versions]]
  <2>1. Ready(st) \in Catalogs
    BY <1>3, RebaseTyped DEF Ready, TxType
  <2>2. TableMerge(st) \in [rows : SUBSET Row, ddl : [Tabs -> SUBSET Versions]]
    BY <1>3, <1>4 DEF TableMerge, BaseType, Catalogs
  <2>3. [rows |-> Ready(st).rows, ddl |-> Ready(st).ddl]
          \in [rows : SUBSET Row, ddl : [Tabs -> SUBSET Versions]]
    BY <2>1 DEF Catalogs
  <2> HIDE DEF st
  <2> QED BY <1>3, <2>2, <2>3 DEF Installed, BaseType
<1>6. /\ UNCHANGED <<nextVersion, nextRid>> /\ active' \subseteq Versions
      /\ rowLocks' \subseteq Rids \X Versions
  BY <1>1 DEF Ends, TxTypeOK
<1>7. CASE Commit(s)
  <2>1. /\ base' = Installed(st) /\ aborted' = aborted /\ commitSeq' = commitSeq + 1
        /\ lastCommit' = [t \in Tabs |-> IF t \in st.touched THEN commitSeq + 1 ELSE lastCommit[t]]
    BY <1>7 DEF Commit
  <2>2. commitSeq' \in Nat /\ lastCommit' \in [Tabs -> Nat]
    BY <2>1 DEF TxTypeOK
  <2> HIDE DEF st
  <2> QED BY <1>2, <1>5, <1>6, <2>1, <2>2 DEF TxTypeOK, TxsType
<1>8. CASE CommitRefused(s) \/ Rollback(s)
  <2>1. aborted' = aborted \cup {st.v} /\ UNCHANGED <<base, commitSeq, lastCommit>>
    BY <1>8 DEF CommitRefused, Rollback, Discard
  <2> QED BY <1>2, <1>4, <1>6, <2>1 DEF TxTypeOK, TxsType
<1> QED BY <1>7, <1>8

\* The rest of the statements.
LEMMA QuietTyped ==
  ASSUME TxTypeOK, TxsType', rowLocks' \subseteq Rids \X Versions,
         UNCHANGED <<base, nextVersion, nextRid, active, aborted, commitSeq, lastCommit>>
  PROVE  TxTypeOK'
BY DEF TxTypeOK, TxsType

\* The rows, snapshots, read and write sets and savepoints of every open
\* transaction, and the counters, keep their types.
THEOREM TxTypes == TxSpec => []TxTypeOK
<1>1. TxInit => TxTypeOK
  <2> SUFFICES ASSUME TxInit PROVE TxTypeOK
    OBVIOUS
  <2>1. Cardinality(InitRows) \in Nat /\ Cardinality(InitRows) <= MaxRid
    BY TransactionsAssumption, FS_CardinalityType
  <2>2. nextRid \in 1..(MaxRid + 1) /\ nextVersion \in 1..(MaxVersion + 1)
    BY <2>1, TransactionsAssumption DEF TxInit
  <2>3. base \in [rows : SUBSET Row, ddl : [Tabs -> SUBSET Versions]]
    BY TransactionsAssumption DEF TxInit
  <2>4. \A s \in Sessions : ~Open(s)
    BY DEF TxInit, Open
  <2>5. lastCommit \in [Tabs -> Nat] /\ commitSeq \in Nat
    BY DEF TxInit
  <2> QED BY <2>2, <2>3, <2>4, <2>5 DEF TxInit, TxTypeOK
<1>2. StampInv /\ TxTypeOK /\ [TxNext]_vars => TxTypeOK'
  <2> SUFFICES ASSUME StampInv, TxTypeOK, [TxNext]_vars PROVE TxTypeOK'
    OBVIOUS
  <2>1. CASE UNCHANGED vars
    BY <2>1 DEF vars, TxTypeOK, Open
  <2>2. ASSUME NEW s \in Sessions, NEW t \in Tabs, Select(s, t) PROVE TxTypeOK'
    <3>1. UNCHANGED <<base, nextVersion, nextRid, active, aborted, commitSeq, lastCommit, rowLocks>>
      BY <2>2 DEF Select, Quiet, Unlocked
    <3>2. CASE Open(s)
      <4> DEFINE rb == Rebased(tx[s])
                 reads == IF tx[s].iso = "SER" THEN rb.reads \cup {t} ELSE rb.reads
      <4>1. tx' = [tx EXCEPT ![s] = [rb EXCEPT !["reads"] = reads]]
        BY <2>2, <3>2 DEF Select
      <4>2. reads \subseteq Tabs
        BY <3>2, StartTyped DEF TxType
      <4> HIDE DEF reads
      <4>3. TxsType'
        BY <3>2, <4>1, <4>2, ReadTyped
      <4> QED BY <3>1, <4>3, QuietTyped DEF TxTypeOK
    <3>3. CASE ~Open(s)
      BY <2>2, <3>1, <3>3 DEF Select, TxTypeOK, Open
    <3> QED BY <3>2, <3>3
  <2>3. ASSUME NEW s \in Sessions, NEW r \in Catalog(s), LockRow(s, r) PROVE TxTypeOK'
    <3> DEFINE rb == Rebased(tx[s])
               reads == IF tx[s].iso = "SER" THEN rb.reads \cup {r.tab} ELSE rb.reads
    <3>1. /\ UNCHANGED <<base, nextVersion, nextRid, active, aborted, commitSeq, lastCommit>>
          /\ rowLocks' = rowLocks \cup {<<r.rid, tx[s].v>>} /\ Open(s)
          /\ tx' = [tx EXCEPT ![s] = [rb EXCEPT !["reads"] = reads]]
      BY <2>3 DEF LockRow, Quiet
    <3>2. r \in Row /\ TxType(rb) /\ tx[s].v \in Versions
      BY <3>1, StartTyped
    <3>3. r.tab \in Tabs /\ r.rid \in Rids /\ reads \subseteq Tabs
      BY <3>2 DEF Row, TxType
    <3> HIDE DEF reads
    <3>4. TxsType'
      BY <3>1, <3>3, ReadTyped
    <3>5. rowLocks' \subseteq Rids \X Versions
      BY <3>1, <3>2, <3>3 DEF TxTypeOK
    <3> QED BY <3>1, <3>4, <3>5, QuietTyped
  <2>4. ASSUME NEW s \in Sessions, NEW t \in Tabs, Alter(s, t) PROVE TxTypeOK'
    BY <2>4, AlterTyped, QuietTyped DEF Alter, Quiet, Unlocked, TxTypeOK
  <2>5. ASSUME NEW s \in Sessions, Utility(s) PROVE TxTypeOK'
    <3>1. TxsType'
      BY <2>5, ReadTyped DEF Utility
    <3> QED BY <2>5, <3>1, QuietTyped DEF Utility, Quiet, Unlocked, TxTypeOK
  <2>6. ASSUME NEW s \in Sessions, NEW n \in Names,
               Savepoint(s, n) \/ RollbackTo(s, n) \/ Release(s, n)
        PROVE  TxTypeOK'
    <3>1. UNCHANGED <<base, nextVersion, nextRid, active, aborted, commitSeq, lastCommit, rowLocks>>
      BY <2>6 DEF Savepoint, RollbackTo, Release
    <3> QED BY <2>6, <3>1, BookmarkTyped, QuietTyped DEF TxTypeOK
  <2>7. ASSUME NEW s \in Sessions, NEW t \in Tabs, NEW k \in Keys, Insert(s, t, k) PROVE TxTypeOK'
    BY <2>7, WriteTyped
  <2>8. ASSUME NEW s \in Sessions, NEW r \in Catalog(s), NEW k \in Keys,
               Update(s, r, k) \/ Upsert(s, r, k)
        PROVE  TxTypeOK'
    <3>1. \E t \in Tabs : TRUE
      BY StartTyped DEF Row
    <3> QED BY <2>8, <3>1, WriteTyped
  <2>9. ASSUME NEW s \in Sessions, NEW r \in Catalog(s), Delete(s, r) PROVE TxTypeOK'
    <3>1. \E t \in Tabs, k \in Keys : TRUE
      BY StartTyped DEF Row
    <3> QED BY <2>9, <3>1, WriteTyped
  <2> QED
    BY <2>1, <2>2, <2>3, <2>4, <2>5, <2>6, <2>7, <2>8, <2>9, BeginTyped, EndTyped DEF TxNext
<1> QED BY <1>1, <1>2, StampInvariant, PTL DEF TxSpec

---------------------------------------------------------------------------
(***************************************************************************)
(* What the transaction core of spg-engine promises its clients, for any   *)
(* number of sessions, tables, keys and savepoints: the committed rows of  *)
(* a table have distinct keys, READ COMMITTED reads the committed present, *)
(* REPEATABLE READ and SERIALIZABLE keep the view of their BEGIN, a COMMIT *)
(* changes only the tables its transaction wrote, and a SERIALIZABLE one   *)
(* succeeds only while its reads are still the committed ones.             *)
(*                                                                         *)
(* All the invariants speak of the shadows of a transaction: its catalog   *)
(* and those its savepoints keep, because ROLLBACK TO may put any of them  *)
(* back.  StepCases reduces the actions to seven kinds of step, described  *)
(* by what they do to shadows; the invariants are then proved one on top   *)
(* of the other.                                                           *)
(***************************************************************************)

Shadows(st) == {st.cat} \cup {st.saves[i].cat : i \in 1..Len(st.saves)}

\* The entries of a savepoint stack.
Entries(st) == {st.saves[i] : i \in 1..Len(st.saves)}

\* A shadow with what the client has been told of it.
Stage(e) == [cat |-> e.cat, claims |-> e.claims]

Stages(st) == {Stage(st)} \cup {Stage(e) : e \in Entries(st)}

\* Two versions of one row: all but the tombstone agree.
SameRow(r, q) ==
  /\ r.rid = q.rid /\ r.tab = q.tab /\ r.key = q.key
  /\ r.org = q.org /\ r.by = q.by /\ r.xmin = q.xmin

KeysDistinct(rows) == \A r, q \in Live(rows) : r.tab = q.tab /\ r.key = q.key => r = q

RidsDistinct(rows) == \A r, q \in rows : r.rid = q.rid => r = q

\* Every row in the committed catalog or in some shadow.
Known == base.rows \cup
         UNION {UNION {c.rows : c \in Shadows(tx[s])} : s \in {o \in Sessions : Open(o)}}

\* A transaction tombstones nobody else's tombstone, nobody else tombstones a
\* row of its own, and the tables it wrote are in touched_tables.
OwnRows(rows, st) ==
  \A r \in rows : /\ r.xmin = st.v => r.xmax \in {Alive, st.v}
                  /\ st.v \in {r.xmin, r.xmax} => r.tab \in st.touched

\* The versions a cached snapshot takes for committed.
SnapStamps(st) == {n \in Nat : n <= st.snap.version} \ st.snap.inProgress

\* Only READ COMMITTED has no cached snapshot; what the shadows of the others
\* hold is the transaction's own or committed for its snapshot.
SnapOK(st) ==
  IF st.iso = "RC" THEN st.snap = NoSnap
  ELSE /\ st.snap # NoSnap /\ st.snap.tx = st.v /\ st.v \in st.snap.inProgress
       /\ st.snap.version \in Nat /\ Alive \in SnapStamps(st)
       /\ \A c \in Shadows(st) : \A r \in c.rows :
            r.xmin \in SnapStamps(st) \cup {st.v} /\ r.xmax \in SnapStamps(st) \cup {st.v}

TxRows(st) ==
  /\ SnapOK(st)
  /\ \A c \in Shadows(st) : RidsDistinct(c.rows) /\ OwnRows(c.rows, st)

\* A row id names one row everywhere, and within a catalog one version of it.
RowInv ==
  /\ nextRid \in Nat
  /\ \A r \in Known : r.rid \in Nat /\ r.rid < nextRid
  /\ \A r, q \in Known : r.rid = q.rid => SameRow(r, q)
  /\ RidsDistinct(base.rows)
  /\ \A s \in Sessions : Open(s) => TxRows(tx[s])

\* Keys are distinct in every catalog a COMMIT may install.
KeysInv ==
  /\ KeysDistinct(base.rows)
  /\ \A s \in Sessions : Open(s) => \A c \in Shadows(tx[s]) : KeysDistinct(c.rows)

\* The rows of others that were alive when version v began, and are unless v
\* itself tombstoned them; each with its table.
Begun(rows, v) == {<<r.rid, r.tab>> : r \in {q \in rows : q.xmin # v /\ q.xmax \in {Alive, v}}}

Ids(pairs) == {p[1] : p \in pairs}

\* The shadows of a transaction that froze its view agree on it.
FrozenInv ==
  \A s \in Sessions : Open(s) /\ tx[s].iso # "RC" =>
    \A c, d \in Shadows(tx[s]) : Begun(c.rows, tx[s].v) = Begun(d.rows, tx[s].v)

\* The rows of others a shadow shows alive.
AliveOthers(rows, v) == {r.rid : r \in {q \in rows : q.xmin # v /\ q.xmax = Alive}}

KilledBy(rows, v) == {r.rid : r \in {q \in rows : q.xmax = v}}

\* A shadow the epoch gate calls fresh shows what is committed.
Current(st) ==
  st.iso = "RC" /\ ~st.poisoned /\ st.fresh
    => AliveOthers(st.cat.rows, st.v)
         = {r.rid : r \in Live(base.rows)} \ KilledBy(st.cat.rows, st.v)

CurrentInv == \A s \in Sessions : Open(s) => Current(tx[s])

Outside(rows, tabs) == {r \in rows : r.tab \notin tabs}

\* What version v wrote is in these tables.
WroteIn(rows, v, tabs) == \A r \in rows : v \in {r.xmin, r.xmax} => r.tab \in tabs

\* The dirty window of a shadow covers what the transaction wrote in it, and a
\* fresh shadow is the committed catalog everywhere else.
DirtyTx(st) ==
  /\ \A c \in Shadows(st) : WroteIn(c.rows, st.v, c.dirty)
  /\ st.shadowDirty /\ ~st.poisoned => st.touched # {}
  /\ st.iso = "RC" /\ ~st.poisoned /\ st.fresh
       => /\ Outside(st.cat.rows, st.cat.dirty) = Outside(base.rows, st.cat.dirty)
          /\ st.cat.ddl = base.ddl

DirtyInv == \A s \in Sessions : Open(s) => DirtyTx(tx[s])

\* Every table that was not committed to since a transaction with a frozen view
\* began holds the rows it held then; a COMMIT counts as one to every table it
\* may change.
SerTx(st) ==
  /\ st.beginSeq <= commitSeq
  /\ \A c \in Shadows(st) : c.dirty \subseteq st.touched
  /\ st.iso # "RC" =>
       \A t \in Tabs : lastCommit[t] <= st.beginSeq =>
         BeginRows(st, t) = {r.rid : r \in Live(InTab(base.rows, t))}

SerInv == \A s \in Sessions : Open(s) => SerTx(tx[s])

---------------------------------------------------------------------------
(* The kinds of step.                                                      *)

Others(s) == \A o \in Sessions \ {s} : tx'[o] = tx[o]

\* commit_epoch moved under every open transaction but s.
StaleOthers(s) ==
  \A o \in Sessions \ {s} :
    tx'[o] = IF tx[o] = NoTx THEN NoTx ELSE [tx[o] EXCEPT !.fresh = FALSE]

SameTx(st, new) ==
  new.v = st.v /\ new.iso = st.iso /\ new.snap = st.snap /\ new.beginSeq = st.beginSeq

NoCommit == UNCHANGED <<commitSeq, lastCommit>>

\* BEGIN: the one shadow is the committed catalog.
Began(s) ==
  /\ ~Open(s) /\ Others(s) /\ UNCHANGED <<base, nextRid>> /\ NoCommit
  /\ tx'[s].v = nextVersion /\ tx'[s].snap = BeginSnapshot(tx'[s].iso)
  /\ tx'[s].beginSeq = commitSeq /\ tx'[s].shadowDirty = FALSE
  /\ Shadows(tx'[s]) = {tx'[s].cat} /\ tx'[s].cat.rows = base.rows
  /\ tx'[s].cat.ddl = base.ddl /\ tx'[s].cat.dirty = {}

\* SAVEPOINT, ROLLBACK TO and RELEASE leave only shadows that were there.
Bookmarked(s) ==
  /\ Open(s) /\ Others(s) /\ UNCHANGED <<base, nextRid>> /\ NoCommit
  /\ SameTx(tx[s], tx'[s]) /\ tx'[s].touched = tx[s].touched
  /\ tx'[s].poisoned = tx[s].poisoned /\ tx'[s].shadowDirty = tx[s].shadowDirty
  /\ Shadows(tx'[s]) \subseteq Shadows(tx[s]) /\ Stages(tx'[s]) \subseteq Stages(tx[s])
  /\ tx'[s].fresh => tx[s].fresh /\ tx'[s].cat = tx[s].cat

\* A statement of a transaction starts from its rebased shadow,
Ran(s) ==
  LET rb == Rebased(tx[s])
  IN  /\ Open(s) /\ ~RebaseFails(tx[s]) /\ Others(s) /\ UNCHANGED base /\ NoCommit
      /\ SameTx(rb, tx'[s]) /\ tx'[s].saves = rb.saves /\ tx'[s].fresh = rb.fresh

\* and leaves its rows alone,
ReadOnly(s) ==
  LET rb == Rebased(tx[s])
  IN  /\ Ran(s) /\ UNCHANGED nextRid
      /\ tx'[s].cat.rows = rb.cat.rows /\ tx'[s].touched = rb.touched
      /\ rb.cat.dirty \subseteq tx'[s].cat.dirty
      /\ "alter" \in Ops \/ tx'[s].cat.dirty = rb.cat.dirty
      /\ ~tx'[s].poisoned => /\ ~rb.poisoned /\ tx'[s].cat = rb.cat
                             /\ tx'[s].shadowDirty = rb.shadowDirty

\* or inserts, tombstones or replaces one row of table t.
Change(s, t, rows, new) ==
  LET v == Version(s)
  IN  \/ \E k : LET n == NewRow(t, k, nextRid, {}, v)
                IN  new = rows \cup {n} /\ ~Clash(rows, {n}) /\ nextRid' = nextRid + 1
      \/ \E r \in rows :
           /\ r.tab = t /\ (r \in View(s) \/ r \in Live(rows))
           /\ \/ new = Kill(rows, r.rid, v) /\ nextRid' = nextRid
              \/ \E k : /\ new = Kill(rows, r.rid, v) \cup {Successor(s, r, k)}
                        /\ ~KeyTaken(s, r, k) /\ nextRid' = nextRid + 1

WroteShadow(s) ==
  LET rb == Rebased(tx[s])
  IN  /\ Ran(s) /\ tx'[s].poisoned = rb.poisoned
      /\ tx'[s].cat.ddl = rb.cat.ddl
      /\ \E t : /\ tx'[s].touched = rb.touched \cup {t}
                /\ tx'[s].cat.dirty = rb.cat.dirty \cup {t}
                /\ Change(s, t, rb.cat.rows, tx'[s].cat.rows)

\* Autocommit: the committed catalog itself changes.
WroteBase(s) ==
  /\ ~Open(s) /\ "auto" \in Ops /\ StaleOthers(s) /\ tx'[s] = NoTx /\ NoCommit
  /\ \E t : Change(s, t, base.rows, base'.rows)

\* COMMIT, ROLLBACK and a refused COMMIT.
Ended(s) ==
  /\ Open(s) /\ tx'[s] = NoTx /\ StaleOthers(s) /\ UNCHANGED nextRid
  /\ \/ base' = base /\ NoCommit
     \/ /\ base' = Installed(tx[s]) /\ ~Refused(tx[s])
        /\ commitSeq' = commitSeq + 1
        /\ lastCommit' = [t \in Tabs |-> IF t \in tx[s].touched THEN commitSeq + 1
                                         ELSE lastCommit[t]]

Idle == UNCHANGED <<base, tx, nextRid>> /\ NoCommit

\* The shape of an open transaction's record.
LEMMA OpenShape ==
  ASSUME StampInv, NEW s \in Sessions, Open(s)
  PROVE  /\ tx[s].v \in active /\ tx[s].v \in Nat /\ tx[s].v # 0 /\ tx[s].v \notin Settled
         /\ TxShape(tx[s]) /\ DOMAIN tx[s] = TxFields
         /\ tx = [o \in Sessions |-> tx[o]]
<1>1. tx[s].v \in active /\ CleanTx(tx[s], Settled) /\ Registers
      /\ tx = [o \in Sessions |-> tx[o]]
  BY DEF StampInv
<1>2. tx[s].v \in Nat /\ tx[s].v # 0 /\ tx[s].v \notin Settled
  BY <1>1 DEF Registers, Settled
<1>3. TxShape(tx[s])
  BY <1>1 DEF CleanTx
<1>4. DOMAIN tx[s] = TxFields
  BY <1>3 DEF TxShape
<1> QED BY <1>1, <1>2, <1>3, <1>4

\* A step of s on its own record touches nobody else's.
LEMMA OwnRecord ==
  ASSUME StampInv, NEW s \in Sessions, NEW st, tx' = [tx EXCEPT ![s] = st]
  PROVE  tx'[s] = st /\ Others(s)
<1>1. tx = [o \in Sessions |-> tx[o]]
  BY DEF StampInv
<1> QED BY <1>1 DEF Others

\* exec_begin.
LEMMA BeginCase ==
  ASSUME StampInv, NEW s \in Sessions, NEW iso, Begin(s, iso)
  PROVE  Began(s)
<1> DEFINE st == [v |-> nextVersion, iso |-> iso,
                  cat |-> [rows |-> base.rows, ddl |-> base.ddl, dirty |-> {}],
                  snap |-> BeginSnapshot(iso),
                  touched |-> {}, reads |-> {}, beginSeq |-> commitSeq, pairs |-> {},
                  saves |-> <<>>, claims |-> {}, shadowDirty |-> FALSE,
                  poisoned |-> FALSE, fresh |-> TRUE, aborted |-> FALSE]
<1>1. ~Open(s) /\ tx' = [tx EXCEPT ![s] = st] /\ UNCHANGED <<base, nextRid>> /\ NoCommit
  BY DEF Begin, NoCommit
<1>2. /\ st.v = nextVersion /\ st.iso = iso /\ st.snap = BeginSnapshot(iso)
      /\ st.cat.rows = base.rows /\ st.cat.ddl = base.ddl /\ st.cat.dirty = {}
      /\ st.saves = <<>> /\ st.beginSeq = commitSeq /\ st.shadowDirty = FALSE
  OBVIOUS
<1> HIDE DEF st
<1>3. tx'[s] = st /\ Others(s)
  BY <1>1, OwnRecord
<1>4. Shadows(st) = {st.cat}
  BY <1>2 DEF Shadows
<1> QED BY <1>1, <1>2, <1>3, <1>4 DEF Began

\* maybe_rc_rebase changes the shadow and the epoch, and nothing else.
LEMMA RebaseFields ==
  ASSUME NEW st, TxShape(st)
  PROVE  LET rb == Rebased(st)
         IN  /\ SameTx(st, rb) /\ rb.touched = st.touched /\ rb.saves = st.saves
             /\ rb.poisoned = st.poisoned /\ rb.shadowDirty = st.shadowDirty
             /\ TxShape(rb) /\ DOMAIN rb = TxFields
             /\ \/ ~NeedsRebase(st) /\ rb = st
                \/ NeedsRebase(st) /\ rb.cat = OntoBase(st) /\ rb.fresh = TRUE
<1> DEFINE cat == OntoBase(st)
<1> HIDE DEF cat
<1>1. CASE NeedsRebase(st)
  <2>1. Rebased(st) = [st EXCEPT !.cat = cat, !.fresh = TRUE]
    BY <1>1 DEF Rebased, cat
  <2>2. DOMAIN st = TxFields
    BY DEF TxShape
  <2> QED BY <1>1, <2>1, <2>2 DEF TxShape, TxFields, SameTx, cat
<1>2. CASE ~NeedsRebase(st)
  <2>1. DOMAIN st = TxFields
    BY DEF TxShape
  <2> QED BY <1>2, <2>1 DEF Rebased, SameTx
<1> QED BY <1>1, <1>2

\* A statement that changes flags, read sets or DDL but no row.
LEMMA ReadCase ==
  ASSUME StampInv, NEW s \in Sessions, NEW t, NEW r,
         \/ Open(s) /\ Select(s, t)
         \/ LockRow(s, r) \/ Alter(s, t) \/ Utility(s)
         \/ Fails(s) /\ ~RebaseFails(tx[s]) /\ Quiet
  PROVE  ReadOnly(s)
<1> DEFINE rb == Rebased(tx[s])
<1>1. Open(s)
  BY DEF LockRow, Alter, Utility, Fails
<1>2. ~RebaseFails(tx[s])
  BY <1>1 DEF Select, LockRow, Alter, Utility, Fails, CanRun
<1>3. /\ SameTx(tx[s], rb) /\ DOMAIN rb = TxFields
  BY <1>1, OpenShape, RebaseFields
<1>4. CleanTx(rb, Settled)
  BY <1>1, StatementStart
<1>5. DOMAIN rb.cat = {"rows", "ddl", "dirty"}
  BY <1>4 DEF CleanTx, CleanCat
<1>6. UNCHANGED <<base, nextRid>> /\ NoCommit
  BY <1>1 DEF Select, LockRow, Alter, Utility, Fails, Quiet, NoCommit
<1>7. \/ \E f \in {"reads", "poisoned", "aborted"} : \E x :
           tx' = [tx EXCEPT ![s] = [rb EXCEPT ![f] = x]] /\ (f = "poisoned" => x = TRUE)
      \/ \E x : "alter" \in Ops /\ tx' = [tx EXCEPT ![s] =
                         [rb EXCEPT !.cat.ddl[t] = x, !.cat.dirty = @ \cup {t},
                                    !.poisoned = TRUE, !.shadowDirty = TRUE]]
  <2>1. CASE Open(s) /\ Select(s, t)
    BY <2>1 DEF Select
  <2>2. CASE LockRow(s, r)
    BY <2>2 DEF LockRow
  <2>3. CASE Utility(s)
    BY <2>3 DEF Utility
  <2>4. CASE Fails(s)
    BY <2>4 DEF Fails
  <2>5. CASE Alter(s, t)
    BY <2>5 DEF Alter, CanRun
  <2> QED BY <2>1, <2>2, <2>3, <2>4, <2>5
<1> HIDE DEF rb
<1> DEFINE Keeps(st) ==
             /\ SameTx(rb, st) /\ st.saves = rb.saves /\ st.fresh = rb.fresh
             /\ st.cat.rows = rb.cat.rows /\ st.touched = rb.touched
             /\ rb.cat.dirty \subseteq st.cat.dirty
             /\ "alter" \in Ops \/ st.cat.dirty = rb.cat.dirty
             /\ ~st.poisoned => /\ ~rb.poisoned /\ st.cat = rb.cat
                                /\ st.shadowDirty = rb.shadowDirty
<1>8. Others(s) /\ Keeps(tx'[s])
  <2>1. ASSUME NEW f \in {"reads", "poisoned", "aborted"}, NEW x,
               tx' = [tx EXCEPT ![s] = [rb EXCEPT ![f] = x]], f = "poisoned" => x = TRUE
        PROVE  Others(s) /\ Keeps(tx'[s])
    <3> DEFINE st == [rb EXCEPT ![f] = x]
    <3>1. tx'[s] = st /\ Others(s)
      BY <2>1, OwnRecord
    <3>2. /\ SameTx(rb, st) /\ st.saves = rb.saves /\ st.fresh = rb.fresh
          /\ st.cat = rb.cat /\ st.touched = rb.touched
          /\ st.shadowDirty = rb.shadowDirty
      BY <1>3 DEF TxFields, SameTx
    <3>3. st.poisoned = rb.poisoned \/ st.poisoned = TRUE
      BY <1>3, <2>1 DEF TxFields
    <3> HIDE DEF st
    <3> QED BY <3>1, <3>2, <3>3
  <2>2. ASSUME NEW x, "alter" \in Ops,
               tx' = [tx EXCEPT ![s] =
                        [rb EXCEPT !.cat.ddl[t] = x, !.cat.dirty = @ \cup {t},
                                   !.poisoned = TRUE, !.shadowDirty = TRUE]]
        PROVE  Others(s) /\ Keeps(tx'[s])
    <3> DEFINE st == [rb EXCEPT !.cat.ddl[t] = x, !.cat.dirty = @ \cup {t},
                                !.poisoned = TRUE, !.shadowDirty = TRUE]
    <3>1. tx'[s] = st /\ Others(s)
      BY <2>2, OwnRecord
    <3>2. st.cat = [[rb.cat EXCEPT !.ddl[t] = x] EXCEPT !.dirty = @ \cup {t}]
      BY <1>3 DEF TxFields
    <3>3. st.cat.rows = rb.cat.rows /\ st.cat.dirty = rb.cat.dirty \cup {t}
      <4> HIDE DEF st
      <4> QED BY <1>5, <3>2
    <3>4. /\ SameTx(rb, st) /\ st.saves = rb.saves /\ st.fresh = rb.fresh
          /\ st.touched = rb.touched /\ st.poisoned = TRUE
      BY <1>3 DEF TxFields, SameTx
    <3> HIDE DEF st
    <3> QED BY <2>2, <3>1, <3>3, <3>4
  <2> QED BY <1>7, <2>1, <2>2
<1> QED BY <1>1, <1>2, <1>6, <1>8 DEF ReadOnly, Ran, rb

\* A statement that wrote `rows`, in a transaction or in autocommit.
LEMMA WroteCase ==
  ASSUME StampInv, NEW s \in Sessions, NEW t, NEW rows, NEW reads, NEW pairs, NEW claims,
         NEW op, CanRun(s, op), Wrote(s, t, rows, reads, pairs, claims),
         Change(s, t, Catalog(s), rows), NoCommit
  PROVE  WroteShadow(s) \/ WroteBase(s)
<1> DEFINE rb == Rebased(tx[s])
<1>1. CASE Open(s)
  <2> DEFINE st == [rb EXCEPT
                      !.cat.rows = rows, !.cat.dirty = @ \cup {t},
                      !.touched = @ \cup {t}, !.pairs = @ \cup pairs,
                      !.reads = IF tx[s].iso = "SER" THEN @ \cup reads ELSE @,
                      !.shadowDirty = TRUE, !.claims = @ \cup claims]
  <2>1. DOMAIN rb = TxFields
    BY <1>1, OpenShape, RebaseFields
  <2>2. CleanTx(rb, Settled)
    BY <1>1, StatementStart
  <2>3. DOMAIN rb.cat = {"rows", "ddl", "dirty"}
    BY <2>2 DEF CleanTx, CleanCat
  <2>4. tx' = [tx EXCEPT ![s] = st] /\ UNCHANGED base
    BY <1>1 DEF Wrote
  <2>5. ~RebaseFails(tx[s]) /\ Change(s, t, rb.cat.rows, rows)
    BY <1>1 DEF CanRun, Catalog
  <2> HIDE DEF rb
  <2>6. st.cat = [[rb.cat EXCEPT !.rows = rows] EXCEPT !.dirty = @ \cup {t}]
    BY <2>1 DEF TxFields
  <2>7. /\ SameTx(rb, st) /\ st.saves = rb.saves /\ st.fresh = rb.fresh
        /\ st.touched = rb.touched \cup {t} /\ st.poisoned = rb.poisoned
    BY <2>1 DEF TxFields, SameTx
  <2> HIDE DEF st
  <2>8. st.cat.rows = rows /\ st.cat.ddl = rb.cat.ddl /\ st.cat.dirty = rb.cat.dirty \cup {t}
    BY <2>3, <2>6
  <2>9. tx'[s] = st /\ Others(s)
    BY <2>4, OwnRecord
  <2>10. Ran(s)
    BY <1>1, <2>4, <2>5, <2>7, <2>9 DEF Ran, rb
  <2> QED BY <2>5, <2>7, <2>8, <2>9, <2>10 DEF WroteShadow, rb
<1>2. CASE ~Open(s)
  <2>1. /\ base' = [base EXCEPT !.rows = rows] /\ tx' = Stale(tx)
    BY <1>2 DEF Wrote
  <2>2. base'.rows = rows
    BY <2>1 DEF StampInv
  <2>3. StaleOthers(s) /\ tx'[s] = NoTx
    BY <1>2, <2>1 DEF StaleOthers, Stale, Open
  <2>4. Change(s, t, base.rows, rows)
    BY <1>2 DEF Catalog
  <2> QED BY <1>2, <2>2, <2>3, <2>4 DEF WroteBase, CanRun
<1> QED BY <1>1, <1>2

\* DELETE, UPDATE and ON CONFLICT DO UPDATE.
LEMMA WriteCase ==
  ASSUME StampInv, NEW s \in Sessions, NEW r \in Catalog(s), NEW k,
         Delete(s, r) \/ Update(s, r, k) \/ Upsert(s, r, k)
  PROVE  ReadOnly(s) \/ WroteShadow(s) \/ WroteBase(s)
<1>0. Quiet /\ NoCommit
  BY DEF Delete, Update, Upsert, Quiet, NoCommit
<1>1. ASSUME Fails(s), NEW op, CanRun(s, op) PROVE ReadOnly(s)
  <2>1. ~RebaseFails(tx[s])
    BY <1>1 DEF Fails, CanRun
  <2> QED BY <1>0, <1>1, <2>1, ReadCase
<1>2. ASSUME NEW op, CanRun(s, op), NEW reads, NewVersion(s, r, k, reads), ~KeyTaken(s, r, k),
             r \in View(s) \/ r \in Live(Catalog(s))
      PROVE  WroteShadow(s) \/ WroteBase(s)
  <2> DEFINE rows == Kill(Catalog(s), r.rid, Version(s)) \cup {Successor(s, r, k)}
  <2>1. Wrote(s, r.tab, rows, reads, {<<r.rid, nextRid>>}, {<<"upd", r.org>>})
        /\ nextRid' = nextRid + 1
    BY <1>2 DEF NewVersion
  <2>2. Change(s, r.tab, Catalog(s), rows)
    BY <1>2, <2>1 DEF Change
  <2> HIDE DEF rows
  <2> QED BY <1>0, <1>2, <2>1, <2>2, WroteCase
<1>3. CASE Delete(s, r)
  <2> DEFINE rows == Kill(Catalog(s), r.rid, Version(s))
  <2>1. Wrote(s, r.tab, rows, {r.tab}, {}, {<<"del", r.org>>}) /\ nextRid' = nextRid
        /\ CanRun(s, "delete") /\ r \in View(s)
    BY <1>3 DEF Delete
  <2>2. Change(s, r.tab, Catalog(s), rows)
    BY <2>1 DEF Change
  <2> HIDE DEF rows
  <2> QED BY <1>0, <2>1, <2>2, WroteCase
<1>4. CASE Update(s, r, k)
  <2>1. CanRun(s, IF k = r.key THEN "update" ELSE "rekey") /\ r \in View(s)
    BY <1>4 DEF Update
  <2> QED BY <1>1, <1>2, <1>4, <2>1 DEF Update
<1>5. CASE Upsert(s, r, k)
  <2>1. CanRun(s, "upsert") /\ r \in Live(Catalog(s))
    BY <1>5 DEF Upsert
  <2> QED BY <1>1, <1>2, <1>5, <2>1 DEF Upsert
<1> QED BY <1>3, <1>4, <1>5

\* The savepoint stack is a sequence of entries, each with a shadow.
LEMMA StackOfEntries ==
  ASSUME StampInv, NEW s \in Sessions, Open(s)
  PROVE  /\ tx[s].saves \in Seq(Entries(tx[s])) /\ Len(tx[s].saves) \in Nat
         /\ \A e \in Entries(tx[s]) : e.cat \in Shadows(tx[s]) /\ Stage(e) \in Stages(tx[s])
<1>1. CleanSaves(tx[s].saves, Settled \cup {tx[s].v})
  BY DEF StampInv, CleanTx
<1>2. PICK T : tx[s].saves \in Seq(T)
  BY <1>1 DEF CleanSaves
<1>3. \A e \in Entries(tx[s]) : Stage(e) \in Stages(tx[s])
  BY DEF Stages
<1> QED BY <1>2, <1>3 DEF Entries, Shadows

\* A stack of old entries, and of the current shadow, holds no new shadow.
LEMMA NoNewShadow ==
  ASSUME NEW st, NEW new, NEW U, new.saves \in Seq(U), new.cat \in Shadows(st),
         Stage(new) \in Stages(st),
         \A e \in U : e.cat \in Shadows(st) /\ Stage(e) \in Stages(st)
  PROVE  Shadows(new) \subseteq Shadows(st) /\ Stages(new) \subseteq Stages(st)
<1>1. \A i \in 1..Len(new.saves) : new.saves[i] \in U
  OBVIOUS
<1>2. \A e \in Entries(new) : e \in U
  BY <1>1 DEF Entries
<1>3. Stages(new) = {Stage(new)} \cup {Stage(e) : e \in Entries(new)}
  BY DEF Stages
<1>4. \A p \in Stages(new) : p \in Stages(st)
  BY <1>2, <1>3
<1> QED BY <1>1, <1>4 DEF Shadows

\* SAVEPOINT, ROLLBACK TO and RELEASE.
LEMMA BookmarkCase ==
  ASSUME StampInv, NEW s \in Sessions, NEW n,
         Savepoint(s, n) \/ RollbackTo(s, n) \/ Release(s, n)
  PROVE  Bookmarked(s)
<1> DEFINE st    == tx[s]
           saves == st.saves
           i     == Position(saves, n)
<1>1. Open(s) /\ UNCHANGED <<base, nextRid>> /\ NoCommit
  BY DEF Savepoint, RollbackTo, Release, HasSave, NoCommit
<1>2. /\ saves \in Seq(Entries(st)) /\ Len(saves) \in Nat
      /\ \A e \in Entries(st) : e.cat \in Shadows(st) /\ Stage(e) \in Stages(st)
  BY <1>1, StackOfEntries
<1>3. DOMAIN st = TxFields
  BY <1>1, OpenShape
<1>4. st.cat \in Shadows(st) /\ Stage(st) \in Stages(st)
  BY DEF Shadows, Stages
<1>5. HasSave(s, n) => i \in 1..Len(saves)
  BY DEF HasSave, Position
<1>6. \A j \in 0..Len(saves) : SubSeq(saves, 1, j) \in Seq(Entries(st))
  <2> TAKE j \in 0..Len(saves)
  <2>1. \A m \in 1..j : saves[m] \in Entries(st)
    BY <1>2
  <2> HIDE DEF saves
  <2> QED BY <1>2, <2>1, SubSeqProperties
<1> SUFFICES ASSUME NEW new, tx' = [tx EXCEPT ![s] = new],
                    SameTx(st, new) /\ new.touched = st.touched /\ new.poisoned = st.poisoned,
                    new.shadowDirty = st.shadowDirty,
                    new.cat \in Shadows(st), Stage(new) \in Stages(st),
                    \E U : /\ new.saves \in Seq(U)
                           /\ \A e \in U : e.cat \in Shadows(st) /\ Stage(e) \in Stages(st),
                    new.fresh => st.fresh /\ new.cat = st.cat
             PROVE  Bookmarked(s)
  <2>1. CASE Savepoint(s, n)
    <3> DEFINE mark  == [name |-> n, cat |-> tx[s].cat, claims |-> tx[s].claims]
               stack == Append(OtherSaves(s, n), mark)
               new   == [st EXCEPT !.saves = stack]
    <3>1. tx' = [tx EXCEPT ![s] = new]
      BY <2>1 DEF Savepoint
    <3>2. OtherSaves(s, n) \in Seq(Entries(st))
      <4>1. CASE HasSave(s, n)
        <5> DEFINE L == Len(saves)
        <5>1. OtherSaves(s, n) = SubSeq(saves, 1, i - 1) \o SubSeq(saves, i + 1, L)
          BY <4>1 DEF OtherSaves
        <5>2. i \in 1..L /\ i - 1 \in 0..L /\ L \in Nat
          BY <1>2, <1>5, <4>1
        <5>3. \A j \in (i + 1)..L : saves[j] \in Entries(st)
          BY <1>2, <5>2
        <5> HIDE DEF i
        <5>4. SubSeq(saves, i + 1, L) \in Seq(Entries(st))
          <6> HIDE DEF L, saves
          <6> QED BY <1>2, <5>2, <5>3, SubSeqProperties DEF L
        <5>5. SubSeq(saves, 1, i - 1) \in Seq(Entries(st))
          BY <1>6, <5>2
        <5> QED BY <5>1, <5>4, <5>5, ConcatProperties
      <4>2. CASE ~HasSave(s, n)
        BY <1>2, <4>2 DEF OtherSaves
      <4> QED BY <4>1, <4>2
    <3>3. mark.cat = st.cat /\ Stage(mark) = Stage(st)
      BY DEF Stage
    <3> HIDE DEF mark
    <3>4. stack \in Seq(Entries(st) \cup {mark})
      <4>1. OtherSaves(s, n) \in Seq(Entries(st) \cup {mark})
        BY <3>2
      <4> QED BY <4>1
    <3>5. \A e \in Entries(st) \cup {mark} : e.cat \in Shadows(st) /\ Stage(e) \in Stages(st)
      BY <1>2, <1>4, <3>3
    <3> HIDE DEF stack
    <3>6. /\ SameTx(st, new) /\ new.touched = st.touched /\ new.poisoned = st.poisoned
          /\ new.shadowDirty = st.shadowDirty /\ new.fresh = st.fresh /\ new.cat = st.cat
          /\ new.saves = stack /\ new.claims = st.claims
      BY <1>3 DEF TxFields, SameTx
    <3> HIDE DEF new
    <3>7. Stage(new) = Stage(st)
      BY <3>6 DEF Stage
    <3> QED BY <1>4, <3>1, <3>4, <3>5, <3>6, <3>7
  <2>2. CASE RollbackTo(s, n)
    <3> DEFINE stack == SubSeq(saves, 1, i)
               cat   == saves[i].cat
               said  == saves[i].claims
               new   == [st EXCEPT !.cat = cat, !.claims = said,
                                   !.saves = stack, !.fresh = FALSE, !.aborted = FALSE]
    <3>1. tx' = [tx EXCEPT ![s] = new] /\ HasSave(s, n)
      BY <2>2 DEF RollbackTo
    <3>2. cat \in Shadows(st) /\ Stage(saves[i]) \in Stages(st)
      BY <1>5, <3>1 DEF Shadows, Stages, Entries
    <3>3. stack \in Seq(Entries(st))
      <4>1. i \in 0..Len(saves)
        BY <1>2, <1>5, <3>1
      <4> HIDE DEF i
      <4> QED BY <1>6, <4>1
    <3> HIDE DEF stack, cat, said
    <3>4. /\ SameTx(st, new) /\ new.touched = st.touched /\ new.poisoned = st.poisoned
          /\ new.shadowDirty = st.shadowDirty /\ new.fresh = FALSE /\ new.cat = cat
          /\ new.saves = stack /\ new.claims = said
      <4> HIDE DEF i
      <4> QED BY <1>3 DEF TxFields, SameTx
    <3> HIDE DEF new
    <3>5. Stage(new) = Stage(saves[i])
      BY <3>4 DEF Stage, cat, said
    <3> QED BY <1>2, <3>1, <3>2, <3>3, <3>4, <3>5
  <2>3. CASE Release(s, n)
    <3> DEFINE stack == SubSeq(saves, 1, i - 1)
               new   == [st EXCEPT !.saves = stack]
    <3>1. tx' = [tx EXCEPT ![s] = new] /\ HasSave(s, n)
      BY <2>3 DEF Release
    <3>2. stack \in Seq(Entries(st))
      <4>1. i - 1 \in 0..Len(saves)
        BY <1>2, <1>5, <3>1
      <4> HIDE DEF i
      <4> QED BY <1>6, <4>1
    <3> HIDE DEF stack
    <3>3. /\ SameTx(st, new) /\ new.touched = st.touched /\ new.poisoned = st.poisoned
          /\ new.shadowDirty = st.shadowDirty /\ new.fresh = st.fresh /\ new.cat = st.cat
          /\ new.saves = stack /\ new.claims = st.claims
      BY <1>3 DEF TxFields, SameTx
    <3> HIDE DEF new
    <3>4. Stage(new) = Stage(st)
      BY <3>3 DEF Stage
    <3> QED BY <1>2, <1>4, <3>1, <3>2, <3>3, <3>4
  <2> QED BY <2>1, <2>2, <2>3
<1>7. tx'[s] = new /\ Others(s)
  BY OwnRecord
<1>8. Shadows(new) \subseteq Shadows(st) /\ Stages(new) \subseteq Stages(st)
  BY NoNewShadow
<1> QED BY <1>1, <1>7, <1>8 DEF Bookmarked

\* COMMIT, ROLLBACK, and a COMMIT that is refused.
LEMMA EndCase ==
  ASSUME StampInv, NEW s \in Sessions, Commit(s) \/ CommitRefused(s) \/ Rollback(s)
  PROVE  Ended(s)
<1>1. Open(s) /\ Ends(s)
  BY DEF Commit, CommitRefused, Rollback, Discard
<1>2. tx' = Stale([tx EXCEPT ![s] = NoTx]) /\ nextRid' = nextRid
  BY <1>1 DEF Ends
<1>3. tx'[s] = NoTx /\ StaleOthers(s)
  BY <1>2 DEF Stale, StaleOthers, StampInv
<1>4. \/ base' = base /\ NoCommit
      \/ /\ base' = Installed(tx[s]) /\ ~Refused(tx[s])
         /\ commitSeq' = commitSeq + 1
         /\ lastCommit' = [t \in Tabs |-> IF t \in tx[s].touched THEN commitSeq + 1
                                          ELSE lastCommit[t]]
  BY DEF Commit, CommitRefused, Rollback, Discard, NoCommit
<1> QED BY <1>1, <1>2, <1>3, <1>4 DEF Ended

\* Every step is one of these.
LEMMA StepCases ==
  ASSUME StampInv, [TxNext]_vars
  PROVE  \/ Idle
         \/ \E s \in Sessions : \/ Began(s) \/ Bookmarked(s) \/ ReadOnly(s)
                                \/ WroteShadow(s) \/ WroteBase(s) \/ Ended(s)
<1>1. CASE UNCHANGED vars
  BY <1>1 DEF vars, Idle, NoCommit
<1>2. ASSUME NEW s \in Sessions, NEW t, Select(s, t)
      PROVE  Idle \/ ReadOnly(s)
  <2>1. CASE Open(s)
    BY <1>2, <2>1, ReadCase
  <2>2. CASE ~Open(s)
    BY <1>2, <2>2 DEF Select, Idle, Quiet, NoCommit
  <2> QED BY <2>1, <2>2
<1>3. ASSUME NEW s \in Sessions, NEW t, NEW r, LockRow(s, r) \/ Alter(s, t) \/ Utility(s)
      PROVE  ReadOnly(s)
  BY <1>3, ReadCase
<1>4. ASSUME NEW s \in Sessions, NEW t, NEW k, Insert(s, t, k)
      PROVE  ReadOnly(s) \/ WroteShadow(s) \/ WroteBase(s)
  <2> DEFINE new == NewRow(t, k, nextRid, {}, Version(s))
             rows == Catalog(s) \cup {new}
  <2>0. Quiet /\ NoCommit
    BY <1>4 DEF Insert, Quiet, NoCommit
  <2>1. CASE Clash(Catalog(s), {new})
    <3>1. Fails(s) /\ ~RebaseFails(tx[s])
      BY <1>4, <2>1 DEF Insert, Fails, CanRun
    <3> QED BY <2>0, <3>1, ReadCase
  <2>2. CASE ~Clash(Catalog(s), {new})
    <3>1. Wrote(s, t, rows, {}, {}, {<<"ins", nextRid>>}) /\ nextRid' = nextRid + 1
          /\ CanRun(s, "insert")
      BY <1>4, <2>2 DEF Insert
    <3>2. Change(s, t, Catalog(s), rows)
      BY <2>2, <3>1 DEF Change
    <3> HIDE DEF rows
    <3> QED BY <2>0, <3>1, <3>2, WroteCase
  <2> QED BY <2>1, <2>2
<1> QED
  BY <1>1, <1>2, <1>3, <1>4, BeginCase, WriteCase, BookmarkCase, EndCase DEF TxNext

---------------------------------------------------------------------------
(* Shadows under each kind of step.                                        *)

\* A commit elsewhere only moves the epoch.
LEMMA StaleShadows ==
  ASSUME NEW st, TxShape(st), NEW new, new = [st EXCEPT !.fresh = FALSE]
  PROVE  /\ Shadows(new) = Shadows(st) /\ SameTx(st, new) /\ new.touched = st.touched
         /\ new.poisoned = st.poisoned /\ new.cat = st.cat /\ new.fresh = FALSE
         /\ new.shadowDirty = st.shadowDirty
<1>1. DOMAIN st = TxFields
  BY DEF TxShape
<1>2. /\ SameTx(st, new) /\ new.touched = st.touched /\ new.saves = st.saves
      /\ new.poisoned = st.poisoned /\ new.cat = st.cat /\ new.fresh = FALSE
      /\ new.shadowDirty = st.shadowDirty
  BY <1>1 DEF TxFields, SameTx
<1> QED BY <1>2 DEF Shadows

\* So for the session that wrote or ended, what holds of others held before.
LEMMA StaleTxs ==
  ASSUME StampInv, NEW s \in Sessions, StaleOthers(s), NEW o \in Sessions \ {s}, tx'[o] # NoTx
  PROVE  /\ Open(o) /\ TxShape(tx[o])
         /\ Shadows(tx'[o]) = Shadows(tx[o]) /\ SameTx(tx[o], tx'[o])
         /\ tx'[o].touched = tx[o].touched /\ tx'[o].fresh = FALSE
         /\ tx'[o].cat = tx[o].cat /\ tx'[o].poisoned = tx[o].poisoned
         /\ tx'[o].shadowDirty = tx[o].shadowDirty
<1>1. Open(o) /\ tx'[o] = [tx[o] EXCEPT !.fresh = FALSE]
  BY DEF StaleOthers, Open
<1>2. TxShape(tx[o])
  BY <1>1, OpenShape
<1> QED BY <1>1, <1>2, StaleShadows

\* A statement adds one shadow, its result.
LEMMA RanShadows ==
  ASSUME StampInv, NEW s \in Sessions, Ran(s)
  PROVE  /\ Shadows(tx'[s]) \subseteq Shadows(tx[s]) \cup {tx'[s].cat}
         /\ SameTx(tx[s], tx'[s]) /\ tx'[s] # NoTx
         /\ Rebased(tx[s]).touched = tx[s].touched
<1>1. Open(s) /\ TxShape(tx[s]) /\ tx[s].v # 0
  BY OpenShape DEF Ran
<1>2. /\ SameTx(tx[s], Rebased(tx[s])) /\ Rebased(tx[s]).saves = tx[s].saves
      /\ Rebased(tx[s]).touched = tx[s].touched
  BY <1>1, RebaseFields
<1>3. tx'[s].saves = tx[s].saves /\ SameTx(tx[s], tx'[s])
  BY <1>2 DEF Ran, SameTx
<1>4. tx'[s] # NoTx
  BY <1>1, <1>3 DEF SameTx, NoTx
<1>5. Shadows(tx'[s]) \subseteq Shadows(tx[s]) \cup {tx'[s].cat}
  BY <1>3 DEF Shadows
<1> QED BY <1>2, <1>3, <1>4, <1>5

\* Every shadow is a clean catalog.
LEMMA ShadowClean ==
  ASSUME StampInv, NEW s \in Sessions, Open(s), NEW c \in Shadows(tx[s])
  PROVE  CleanCat(c, Settled \cup {tx[s].v})
<1> DEFINE S == Settled \cup {tx[s].v}
<1>1. CleanTx(tx[s], Settled)
  BY DEF StampInv
<1>2. CleanCat(tx[s].cat, S) /\ CleanSaves(tx[s].saves, S)
  BY <1>1 DEF CleanTx
<1> HIDE DEF S
<1>3. PICK T : tx[s].saves \in Seq(T) /\ \A e \in T : CleanCat(e.cat, S)
  BY <1>2 DEF CleanSaves
<1>4. \A i \in 1..Len(tx[s].saves) : CleanCat(tx[s].saves[i].cat, S)
  BY <1>3
<1>5. CleanCat(c, S)
  BY <1>2, <1>4 DEF Shadows
<1> QED BY <1>5 DEF S

\* Stamping tombstones: every row is an old one, stamped or left alone.
LEMMA StampedRow ==
  ASSUME NEW rows, NEW S, NEW which, NEW v, Clean(rows, S), NEW r \in Stamped(rows, which, v)
  PROVE  \E q \in rows : /\ SameRow(r, q)
                         /\ \/ q.rid \notin which /\ r = q
                            \/ q.rid \in which /\ r.xmax = v
<1>1. PICK q \in rows : r = IF q.rid \in which THEN [q EXCEPT !.xmax = v] ELSE q
  BY DEF Stamped
<1>2. CASE q.rid \notin which
  BY <1>1, <1>2 DEF SameRow
<1>3. CASE q.rid \in which
  <2>1. q = [rid |-> q.rid, tab |-> q.tab, key |-> q.key, org |-> q.org, by |-> q.by,
             xmin |-> q.xmin, xmax |-> q.xmax]
    BY DEF Clean
  <2>2. r = [q EXCEPT !.xmax = v]
    BY <1>1, <1>3
  <2>3. SameRow(r, q) /\ r.xmax = v
    BY <2>1, <2>2 DEF SameRow
  <2> QED BY <1>3, <2>3
<1> QED BY <1>2, <1>3

\* Conversely every old row is there, stamped or left alone.
LEMMA StampedFrom ==
  ASSUME NEW rows, NEW S, NEW which, NEW v, Clean(rows, S), NEW q \in rows
  PROVE  \E r \in Stamped(rows, which, v) : /\ SameRow(r, q)
                                            /\ \/ q.rid \notin which /\ r = q
                                               \/ q.rid \in which /\ r.xmax = v
<1> DEFINE r == IF q.rid \in which THEN [q EXCEPT !.xmax = v] ELSE q
<1>1. r \in Stamped(rows, which, v)
  BY DEF Stamped
<1>2. CASE q.rid \notin which
  BY <1>1, <1>2 DEF SameRow
<1>3. CASE q.rid \in which
  <2>1. q = [rid |-> q.rid, tab |-> q.tab, key |-> q.key, org |-> q.org, by |-> q.by,
             xmin |-> q.xmin, xmax |-> q.xmax]
    BY DEF Clean
  <2>2. r = [q EXCEPT !.xmax = v]
    BY <1>3
  <2> HIDE DEF r
  <2>3. SameRow(r, q) /\ r.xmax = v
    BY <2>1, <2>2 DEF SameRow
  <2> QED BY <1>1, <1>3, <2>3
<1> QED BY <1>2, <1>3

\* mark_row_deleted and phase 1 of the replay stamp a set of row ids.
LEMMA KillIsStamped ==
  ASSUME NEW rows, NEW rid, NEW v
  PROVE  Kill(rows, rid, v) = Stamped(rows, {rid}, v)
BY DEF Kill, Stamped

\* The first phase of the replay stamps committed rows.
LEMMA Phase1IsStamped ==
  ASSUME NEW st
  PROVE  Phase1(st) = Stamped(base.rows, ReplayTombstones(st) \ OwnRids(st), st.v)
BY DEF Phase1, Stamped

\* What is alive after stamping was alive and is not among the stamped.
LEMMA StampedLive ==
  ASSUME NEW rows, NEW S, NEW which, NEW v, v # 0, Clean(rows, S)
  PROVE  Live(Stamped(rows, which, v)) = {r \in Live(rows) : r.rid \notin which}
<1>1. ASSUME NEW r \in Live(Stamped(rows, which, v))
      PROVE  r \in Live(rows) /\ r.rid \notin which
  <2>1. r \in Stamped(rows, which, v) /\ r.xmax = 0
    BY DEF Live, Alive
  <2>2. PICK q \in rows : /\ SameRow(r, q)
                          /\ \/ q.rid \notin which /\ r = q
                             \/ q.rid \in which /\ r.xmax = v
    BY <2>1, StampedRow
  <2> QED BY <2>1, <2>2 DEF Live, Alive
<1>2. ASSUME NEW r \in Live(rows), r.rid \notin which
      PROVE  r \in Live(Stamped(rows, which, v))
  BY <1>2 DEF Live, Stamped
<1> QED BY <1>1, <1>2

---------------------------------------------------------------------------
(* Unique keys.                                                            *)

\* A statement checks the key of the row it adds against all others alive in
\* the catalog it works on.
LEMMA ChangeKeys ==
  ASSUME StampInv, NEW s \in Sessions, NEW t, NEW new, Change(s, t, Catalog(s), new),
         KeysDistinct(Catalog(s))
  PROVE  KeysDistinct(new)
<1> DEFINE rows == Catalog(s)
           v    == Version(s)
           S    == Settled \cup {v}
<1>1. Clean(rows, S)
  BY StatementStart
<1>2. v # 0
  BY OpenShape DEF Version, StampInv, Registers
<1>3. \A rid : Live(Kill(rows, rid, v)) = {r \in Live(rows) : r.rid # rid}
  <2> TAKE rid
  <2> HIDE DEF rows, v, S
  <2>1. Live(Stamped(rows, {rid}, v)) = {r \in Live(rows) : r.rid \notin {rid}}
    BY <1>1, <1>2, StampedLive
  <2> QED BY <2>1, KillIsStamped
<1>4. ASSUME NEW k, NEW n, n = NewRow(t, k, nextRid, {}, v),
             new = rows \cup {n}, ~Clash(rows, {n})
      PROVE  KeysDistinct(new)
  BY <1>4 DEF KeysDistinct, Live, Clash
<1>5. ASSUME NEW r \in rows, new = Kill(rows, r.rid, v)
      PROVE  KeysDistinct(new)
  BY <1>3, <1>5 DEF KeysDistinct
<1>6. ASSUME NEW r \in rows, NEW k, NEW n, n = Successor(s, r, k),
             new = Kill(rows, r.rid, v) \cup {n}, ~Clash(Live(rows) \ {r}, {n})
      PROVE  KeysDistinct(new)
  <2>1. Live(new) \subseteq (Live(rows) \ {r}) \cup {n}
    <3>1. Live(new) \subseteq Live(Kill(rows, r.rid, v)) \cup {n}
      BY <1>6 DEF Live
    <3> QED BY <1>3, <3>1
  <2>2. \A q \in Live(rows) \ {r} : ~(q.tab = n.tab /\ q.key = n.key)
    BY <1>6 DEF Clash, Live
  <2> QED BY <2>1, <2>2 DEF KeysDistinct
<1> QED BY <1>4, <1>5, <1>6 DEF Change, KeyTaken

\* The replay checks the inserts that stay against the committed rows that
\* stay, and against one another.
LEMMA ReplayKeys ==
  ASSUME StampInv, NEW s \in Sessions, Open(s), ~ReplayClash(tx[s]), KeysDistinct(base.rows)
  PROVE  KeysDistinct(Replayed(tx[s]))
<1> DEFINE st   == tx[s]
           dead == ReplayTombstones(st)
           ins  == ReplayInserts(st)
           new  == {r \in ins : r.rid \notin dead}
           back == {[r EXCEPT !.xmax = IF r.rid \in dead THEN st.v ELSE Alive] : r \in ins}
<1>1. st.v # 0
  BY OpenShape
<1>2. Clean(base.rows, Settled)
  BY DEF StampInv
<1>3. Live(Phase1(st)) \subseteq Live(base.rows)
  <2> DEFINE which == dead \ OwnRids(st)
  <2>1. Phase1(st) = Stamped(base.rows, which, st.v)
    BY Phase1IsStamped
  <2> HIDE DEF which, st
  <2>2. Live(Stamped(base.rows, which, st.v)) = {r \in Live(base.rows) : r.rid \notin which}
    BY <1>1, <1>2, StampedLive
  <2> QED BY <2>1, <2>2
<1>4. Clean(st.cat.rows, Settled \cup {st.v})
  BY DEF StampInv, CleanTx, CleanCat
<1>5. ins \subseteq st.cat.rows
  BY DEF ReplayInserts, Inserts, InsertedBy, Written
<1>6. \A q \in Live(back) : \E r \in new : q = [r EXCEPT !.xmax = Alive]
                                           /\ q.tab = r.tab /\ q.key = r.key
  <2> SUFFICES ASSUME NEW q \in Live(back)
               PROVE  \E r \in new : q = [r EXCEPT !.xmax = Alive]
                                     /\ q.tab = r.tab /\ q.key = r.key
    OBVIOUS
  <2>1. PICK r \in ins : q = [r EXCEPT !.xmax = IF r.rid \in dead THEN st.v ELSE Alive]
    BY DEF Live
  <2> HIDE DEF dead, ins, back
  <2>2. r = [rid |-> r.rid, tab |-> r.tab, key |-> r.key, org |-> r.org, by |-> r.by,
             xmin |-> r.xmin, xmax |-> r.xmax]
    BY <1>4, <1>5 DEF Clean
  <2>3. q.tab = r.tab /\ q.key = r.key /\ q.xmax = IF r.rid \in dead THEN st.v ELSE Alive
    BY <2>1, <2>2
  <2>4. r.rid \notin dead
    BY <1>1, <2>3 DEF Live, Alive
  <2> QED BY <2>1, <2>3, <2>4
<1>7. /\ \A r \in Live(Phase1(st)), n \in new : ~(r.tab = n.tab /\ r.key = n.key)
      /\ \A m, n \in new : m.tab = n.tab /\ m.key = n.key => m = n
  BY DEF ReplayClash, Clash
<1>8. Live(Replayed(st)) = Live(Phase1(st)) \cup Live(back)
  BY DEF Replayed, Live
<1> HIDE DEF back, new, dead, ins, st
<1>9. KeysDistinct(Replayed(st))
  <2> SUFFICES ASSUME NEW p \in Live(Phase1(st)) \cup Live(back),
                      NEW q \in Live(Phase1(st)) \cup Live(back),
                      p.tab = q.tab, p.key = q.key
               PROVE  p = q
    BY <1>8 DEF KeysDistinct
  <2>1. CASE p \in Live(Phase1(st)) /\ q \in Live(Phase1(st))
    BY <1>3, <2>1 DEF KeysDistinct
  <2>2. CASE p \in Live(Phase1(st)) /\ q \in Live(back)
    BY <1>6, <1>7, <2>2
  <2>3. CASE p \in Live(back) /\ q \in Live(Phase1(st))
    BY <1>6, <1>7, <2>3
  <2>4. CASE p \in Live(back) /\ q \in Live(back)
    <3>1. PICK m \in new : p = [m EXCEPT !.xmax = Alive] /\ p.tab = m.tab /\ p.key = m.key
      BY <1>6, <2>4
    <3>2. PICK n \in new : q = [n EXCEPT !.xmax = Alive] /\ q.tab = n.tab /\ q.key = n.key
      BY <1>6, <2>4
    <3> QED BY <1>7, <3>1, <3>2
  <2> QED BY <2>1, <2>2, <2>3, <2>4
<1> QED BY <1>9 DEF st

\* The rebase of a transaction whose keys are distinct keeps them distinct.
LEMMA RebaseKeys ==
  ASSUME StampInv, KeysInv, NEW s \in Sessions, Open(s), ~RebaseFails(tx[s])
  PROVE  KeysDistinct(Rebased(tx[s]).cat.rows)
<1>1. TxShape(tx[s])
  BY OpenShape
<1>2. CASE ~NeedsRebase(tx[s])
  BY <1>2 DEF Rebased, KeysInv, Shadows
<1>3. CASE NeedsRebase(tx[s])
  <2>1. Rebased(tx[s]).cat = OntoBase(tx[s])
    BY <1>1, <1>3, RebaseFields
  <2>2. KeysDistinct(Replayed(tx[s]))
    BY <1>3, ReplayKeys DEF RebaseFails, KeysInv
  <2> QED BY <2>1, <2>2 DEF OntoBase
<1> QED BY <1>2, <1>3

\* So does what COMMIT installs, by rows, by tables or as a whole.
LEMMA InstallKeys ==
  ASSUME StampInv, KeysInv, NEW s \in Sessions, Open(s), ~Refused(tx[s])
  PROVE  KeysDistinct(Installed(tx[s]).rows)
<1> DEFINE st == tx[s]
<1>1. KeysDistinct(base.rows) /\ KeysDistinct(st.cat.rows)
  BY DEF KeysInv, Shadows
<1>2. KeysDistinct(Rebased(st).cat.rows)
  BY RebaseKeys DEF Refused
<1>3. KeysDistinct(Ready(st).rows)
  <2>1. CASE Merges(st)
    <3>1. KeysDistinct(Replayed(st))
      BY <1>1, <2>1, ReplayKeys DEF Refused
    <3> QED BY <2>1, <3>1 DEF Ready, OntoBase
  <2>2. CASE ~Merges(st)
    BY <1>2, <2>2 DEF Ready
  <2> QED BY <2>1, <2>2
<1>4. KeysDistinct(TableMerge(st).rows)
  BY <1>1 DEF TableMerge, KeysDistinct, Live
<1> QED BY <1>1, <1>3, <1>4 DEF Installed

\* KeysInv under every kind of step.
LEMMA KeysStep ==
  ASSUME StampInv, KeysInv, [TxNext]_vars
  PROVE  KeysInv'
<1> DEFINE Fine(st) == \A c \in Shadows(st) : KeysDistinct(c.rows)
           Goal == /\ KeysDistinct(base'.rows)
                   /\ \A o \in Sessions : tx'[o] # NoTx => Fine(tx'[o])
<1>0. /\ KeysDistinct(base.rows)
      /\ \A o \in Sessions : Open(o) => Fine(tx[o])
  BY DEF KeysInv
<1> HIDE DEF Fine
<1>1. ASSUME Idle PROVE Goal
  <2>1. base' = base /\ tx' = tx
    BY <1>1 DEF Idle
  <2> QED BY <1>0, <2>1 DEF Open
<1>2. ASSUME NEW s \in Sessions, Began(s) PROVE Goal
  <2>1. Fine(tx'[s])
    BY <1>0, <1>2 DEF Began, Fine
  <2> QED BY <1>0, <1>2, <2>1 DEF Began, Others, Open
<1>3. ASSUME NEW s \in Sessions, Bookmarked(s) PROVE Goal
  <2>1. Fine(tx'[s])
    BY <1>0, <1>3 DEF Bookmarked, Fine
  <2> QED BY <1>0, <1>3, <2>1 DEF Bookmarked, Others, Open
<1>4. ASSUME NEW s \in Sessions, Ran(s), KeysDistinct(tx'[s].cat.rows) PROVE Goal
  <2>1. Open(s) /\ Shadows(tx'[s]) \subseteq Shadows(tx[s]) \cup {tx'[s].cat}
    BY <1>4, RanShadows DEF Ran
  <2>2. Fine(tx'[s])
    BY <1>0, <1>4, <2>1 DEF Fine
  <2> QED BY <1>0, <1>4, <2>2 DEF Ran, Others, Open
<1>5. ASSUME NEW s \in Sessions, ReadOnly(s) PROVE Goal
  <2>1. Ran(s) /\ Open(s) /\ ~RebaseFails(tx[s])
    BY <1>5 DEF ReadOnly, Ran
  <2>2. KeysDistinct(tx'[s].cat.rows)
    BY <1>5, <2>1, RebaseKeys DEF ReadOnly
  <2> QED BY <1>4, <2>1, <2>2
<1>6. ASSUME NEW s \in Sessions, WroteShadow(s) PROVE Goal
  <2>1. Ran(s) /\ Open(s) /\ ~RebaseFails(tx[s])
    BY <1>6 DEF WroteShadow, Ran
  <2>2. Catalog(s) = Rebased(tx[s]).cat.rows /\ KeysDistinct(Catalog(s))
    BY <2>1, RebaseKeys DEF Catalog
  <2>3. \E t : Change(s, t, Catalog(s), tx'[s].cat.rows)
    BY <1>6, <2>2 DEF WroteShadow
  <2>4. KeysDistinct(tx'[s].cat.rows)
    BY <2>2, <2>3, ChangeKeys
  <2> QED BY <1>4, <2>1, <2>4
<1>7. ASSUME NEW s \in Sessions, StaleOthers(s), tx'[s] = NoTx
      PROVE  \A o \in Sessions : tx'[o] # NoTx => Fine(tx'[o])
  <2> SUFFICES ASSUME NEW o \in Sessions \ {s}, tx'[o] # NoTx PROVE Fine(tx'[o])
    BY <1>7
  <2>1. Open(o) /\ Shadows(tx'[o]) = Shadows(tx[o])
    BY <1>7, StaleTxs
  <2> QED BY <1>0, <2>1 DEF Fine
<1>8. ASSUME NEW s \in Sessions, WroteBase(s) PROVE Goal
  <2>1. Catalog(s) = base.rows
    BY <1>8 DEF WroteBase, Catalog
  <2>2. KeysDistinct(base'.rows)
    BY <1>0, <1>8, <2>1, ChangeKeys DEF WroteBase
  <2> QED BY <1>7, <1>8, <2>2 DEF WroteBase
<1>9. ASSUME NEW s \in Sessions, Ended(s) PROVE Goal
  <2>1. KeysDistinct(base'.rows)
    BY <1>0, <1>9, InstallKeys DEF Ended
  <2> QED BY <1>7, <1>9, <2>1 DEF Ended
<1>10. Goal
  <2> HIDE DEF Goal
  <2> QED BY <1>1, <1>2, <1>3, <1>5, <1>6, <1>8, <1>9, StepCases
<1> QED BY <1>10 DEF KeysInv, Open, Fine

\* Whichever way inserts, updates that move keys, upserts, rebases, merges and
\* ROLLBACK TO interleave, a COMMIT never installs two live rows of one table
\* with one key.
THEOREM CommittedKeys == TxSpec => []CommittedKeysUnique
<1>1. TxInit => KeysInv
  <2> SUFFICES ASSUME TxInit PROVE KeysInv
    OBVIOUS
  <2>1. base.rows = InitRows /\ \A s \in Sessions : ~Open(s)
    BY DEF TxInit, Open
  <2>2. KeysDistinct(InitRows)
    BY TransactionsAssumption DEF KeysDistinct, Live
  <2> QED BY <2>1, <2>2 DEF KeysInv
<1>2. StampInv /\ KeysInv /\ [TxNext]_vars => KeysInv'
  BY KeysStep
<1>3. KeysInv => CommittedKeysUnique
  BY DEF KeysInv, KeysDistinct, CommittedKeysUnique
<1> QED BY <1>1, <1>2, <1>3, StampInvariant, PTL DEF TxSpec

---------------------------------------------------------------------------
(* Row ids.                                                                *)

\* The rows known are those of the base and of the shadows.
LEMMA KnownRows ==
  /\ base.rows \subseteq Known
  /\ \A s \in Sessions : Open(s) => \A c \in Shadows(tx[s]) : c.rows \subseteq Known
BY DEF Known

\* r is a version of a row that is already somewhere.
Old(r) == \E q \in Known : SameRow(r, q)

\* SameRow is transitive.
LEMMA SameRowTwice ==
  ASSUME NEW p, NEW q, NEW r, SameRow(p, q), SameRow(q, r)
  PROVE  SameRow(p, r)
BY DEF SameRow

\* The replay creates no row: it stamps committed rows, and puts back the
\* transaction's own with their tombstone recomputed.
LEMMA ReplayedRow ==
  ASSUME StampInv, NEW s \in Sessions, Open(s), NEW r \in Replayed(tx[s])
  PROVE  \/ \E b \in base.rows :
              /\ SameRow(r, b)
              /\ \/ r = b /\ b.rid \notin ReplayTombstones(tx[s]) \ OwnRids(tx[s])
                 \/ r.xmax = tx[s].v /\ b.rid \in ReplayTombstones(tx[s]) \ OwnRids(tx[s])
         \/ \E q \in ReplayInserts(tx[s]) :
              /\ SameRow(r, q)
              /\ r.xmax = IF q.rid \in ReplayTombstones(tx[s]) THEN tx[s].v ELSE Alive
<1> DEFINE st    == tx[s]
           dead  == ReplayTombstones(st)
           which == dead \ OwnRids(st)
           ins   == ReplayInserts(st)
<1>1. Clean(base.rows, Settled) /\ Clean(st.cat.rows, Settled \cup {st.v})
  BY DEF StampInv, CleanTx, CleanCat
<1>2. ins \subseteq st.cat.rows
  BY DEF ReplayInserts, Inserts, InsertedBy, Written
<1>3. Phase1(st) = Stamped(base.rows, which, st.v)
  BY Phase1IsStamped
<1>4. r \in Phase1(st) \/ \E q \in ins : r = [q EXCEPT !.xmax = IF q.rid \in dead THEN st.v ELSE Alive]
  BY DEF Replayed
<1> HIDE DEF dead, which, ins, st
<1>5. CASE r \in Phase1(st)
  <2>1. r \in Stamped(base.rows, which, st.v)
    BY <1>3, <1>5
  <2>2. \E b \in base.rows : /\ SameRow(r, b)
                             /\ \/ b.rid \notin which /\ r = b
                                \/ b.rid \in which /\ r.xmax = st.v
    BY <1>1, <2>1, StampedRow
  <2> QED BY <2>2 DEF st, which, dead
<1>6. ASSUME NEW q \in ins, r = [q EXCEPT !.xmax = IF q.rid \in dead THEN st.v ELSE Alive]
      PROVE  SameRow(r, q) /\ r.xmax = IF q.rid \in dead THEN st.v ELSE Alive
  <2>1. q = [rid |-> q.rid, tab |-> q.tab, key |-> q.key, org |-> q.org, by |-> q.by,
             xmin |-> q.xmin, xmax |-> q.xmax]
    BY <1>1, <1>2 DEF Clean
  <2> QED BY <1>6, <2>1 DEF SameRow
<1> QED BY <1>4, <1>5, <1>6 DEF st, dead, ins

\* What a transaction replays of its own rows.
LEMMA ReplayedOwn ==
  ASSUME NEW st, NEW q \in ReplayInserts(st)
  PROVE  q \in st.cat.rows /\ q.xmin = st.v /\ q.tab \in st.touched
BY DEF ReplayInserts, Inserts, InsertedBy, Written

\* The replay brings in no row that was not known.
LEMMA ReplayedOld ==
  ASSUME StampInv, NEW s \in Sessions, Open(s), NEW r \in Replayed(tx[s])
  PROVE  Old(r)
<1>1. tx[s].cat \in Shadows(tx[s])
  BY DEF Shadows
<1>2. base.rows \subseteq Known /\ tx[s].cat.rows \subseteq Known
  BY <1>1, KnownRows
<1> QED BY <1>2, ReplayedRow, ReplayedOwn DEF Old

\* The rows of the rebased shadow.
LEMMA RebasedRows ==
  ASSUME StampInv, NEW s \in Sessions, Open(s)
  PROVE  \/ /\ ~NeedsRebase(tx[s]) /\ Rebased(tx[s]) = tx[s]
         \/ /\ NeedsRebase(tx[s]) /\ Rebased(tx[s]).cat.rows = Replayed(tx[s])
            /\ Rebased(tx[s]).fresh = TRUE
<1>1. TxShape(tx[s])
  BY OpenShape
<1>2. \/ ~NeedsRebase(tx[s]) /\ Rebased(tx[s]) = tx[s]
      \/ /\ NeedsRebase(tx[s]) /\ Rebased(tx[s]).cat = OntoBase(tx[s])
         /\ Rebased(tx[s]).fresh = TRUE
  BY <1>1, RebaseFields
<1>3. OntoBase(tx[s]).rows = Replayed(tx[s])
  BY DEF OntoBase
<1> QED BY <1>2, <1>3

\* A statement starts from known rows.
LEMMA CatalogOld ==
  ASSUME StampInv, NEW s \in Sessions, NEW r \in Catalog(s)
  PROVE  Old(r)
<1>1. CASE ~Open(s)
  BY <1>1, KnownRows DEF Catalog, Old, SameRow
<1>2. CASE Open(s)
  <2>1. r \in tx[s].cat.rows \/ r \in Replayed(tx[s])
    BY <1>2, RebasedRows DEF Catalog
  <2>2. tx[s].cat.rows \subseteq Known
    BY <1>2, KnownRows DEF Shadows
  <2> QED BY <1>2, <2>1, <2>2, ReplayedOld DEF Old, SameRow
<1> QED BY <1>1, <1>2

\* What COMMIT installs is made of the base, the shadow and the replay.
LEMMA InstalledRows ==
  ASSUME StampInv, NEW s \in Sessions, Open(s)
  PROVE  \/ Installed(tx[s]).rows = base.rows
         \/ Installed(tx[s]).rows = tx[s].cat.rows /\ ~tx[s].poisoned
         \/ Installed(tx[s]).rows = Replayed(tx[s]) /\ ~tx[s].poisoned
         \/ Installed(tx[s]).rows = {r \in tx[s].cat.rows : r.tab \in tx[s].cat.dirty}
                                    \cup {r \in base.rows : r.tab \notin tx[s].cat.dirty}
<1>1. Ready(tx[s]).rows = Replayed(tx[s]) \/ Ready(tx[s]).rows = tx[s].cat.rows
  BY RebasedRows DEF Ready, OntoBase
<1> QED BY <1>1 DEF Installed, TableMerge

\* COMMIT installs known rows.
LEMMA InstalledOld ==
  ASSUME StampInv, NEW s \in Sessions, Open(s), NEW r \in Installed(tx[s]).rows
  PROVE  Old(r)
<1>1. base.rows \subseteq Known /\ tx[s].cat.rows \subseteq Known
  BY KnownRows DEF Shadows
<1>2. r \in Known => Old(r)
  BY DEF Old, SameRow
<1> QED BY <1>1, <1>2, InstalledRows, ReplayedOld

\* The rows after a statement: old ones, and at most one with a fresh row id.
LEMMA ChangeRows ==
  ASSUME StampInv, NEW s \in Sessions, NEW t, NEW new, Change(s, t, Catalog(s), new)
  PROVE  \/ /\ nextRid' = nextRid
            /\ \E r \in Catalog(s) : /\ r.tab = t /\ (r \in View(s) \/ r.xmax = Alive)
                                     /\ new = Kill(Catalog(s), r.rid, Version(s))
         \/ /\ nextRid' = nextRid + 1
            /\ \E n : /\ n.rid = nextRid /\ n.xmin = Version(s) /\ n.xmax = Alive /\ n.tab = t
                      /\ \/ new = Catalog(s) \cup {n}
                         \/ \E r \in Catalog(s) :
                              /\ r.tab = t /\ (r \in View(s) \/ r.xmax = Alive)
                              /\ new = Kill(Catalog(s), r.rid, Version(s)) \cup {n}
<1>1. ASSUME NEW k
      PROVE  LET n == NewRow(t, k, nextRid, {}, Version(s))
             IN  n.rid = nextRid /\ n.xmin = Version(s) /\ n.xmax = Alive /\ n.tab = t
  BY DEF NewRow
<1>2. ASSUME NEW r, NEW k
      PROVE  LET n == Successor(s, r, k)
             IN  n.rid = nextRid /\ n.xmin = Version(s) /\ n.xmax = Alive /\ n.tab = r.tab
  BY DEF NewRow, Successor
<1> QED BY <1>1, <1>2 DEF Change, Live

\* A row after a delete is a row before it, stamped if it is the victim.
LEMMA KillRow ==
  ASSUME StampInv, NEW s \in Sessions, NEW rid, NEW r \in Kill(Catalog(s), rid, Version(s))
  PROVE  \E q \in Catalog(s) : /\ SameRow(r, q)
                               /\ \/ q.rid # rid /\ r = q
                                  \/ q.rid = rid /\ r.xmax = Version(s)
<1>1. Clean(Catalog(s), Settled \cup {Version(s)})
  BY StatementStart
<1>2. r \in Stamped(Catalog(s), {rid}, Version(s))
  BY KillIsStamped
<1>3. \E q \in Catalog(s) : /\ SameRow(r, q)
                            /\ \/ q.rid \notin {rid} /\ r = q
                               \/ q.rid \in {rid} /\ r.xmax = Version(s)
  BY <1>1, <1>2, StampedRow
<1> QED BY <1>3

\* A statement adds at most one row that was not known, with a fresh id.
LEMMA ChangeOld ==
  ASSUME StampInv, NEW s \in Sessions, NEW t, NEW new, Change(s, t, Catalog(s), new)
  PROVE  \E n : /\ nextRid' = nextRid \/ (nextRid' = nextRid + 1 /\ n.rid = nextRid)
                /\ \A r \in new : Old(r) \/ (r = n /\ nextRid' = nextRid + 1)
<1>1. \A rid : \A r \in Kill(Catalog(s), rid, Version(s)) : Old(r)
  BY KillRow, CatalogOld, SameRowTwice DEF Old
<1>2. \A r \in Catalog(s) : Old(r)
  BY CatalogOld
<1>3. CASE nextRid' = nextRid
  BY <1>1, <1>2, <1>3, ChangeRows
<1>4. CASE nextRid' = nextRid + 1 /\ nextRid' # nextRid
  BY <1>1, <1>2, <1>4, ChangeRows
<1> QED BY <1>3, <1>4, ChangeRows

\* A step brings at most one row that was nowhere, with a fresh row id.
LEMMA KnownStep ==
  ASSUME StampInv, [TxNext]_vars
  PROVE  \E n : /\ nextRid' = nextRid \/ (nextRid' = nextRid + 1 /\ n.rid = nextRid)
                /\ \A r \in Known' : Old(r) \/ (r = n /\ nextRid' = nextRid + 1)
<1> DEFINE Goal == \E n : /\ nextRid' = nextRid \/ (nextRid' = nextRid + 1 /\ n.rid = nextRid)
                          /\ \A r \in Known' : Old(r) \/ (r = n /\ nextRid' = nextRid + 1)
<1>0. \A r \in Known : Old(r)
  BY DEF Old, SameRow
<1>1. \A r \in Known' : \/ r \in base'.rows
                        \/ \E o \in Sessions : tx'[o] # NoTx /\ \E c \in Shadows(tx'[o]) : r \in c.rows
  BY DEF Known, Open
<1>2. \A r \in base.rows : Old(r)
  BY <1>0, KnownRows
<1>3. \A o \in Sessions : Open(o) => \A c \in Shadows(tx[o]) : \A r \in c.rows : Old(r)
  BY <1>0, KnownRows
<1>4. ASSUME Idle PROVE Goal
  <2>1. Known' = Known /\ nextRid' = nextRid
    BY <1>4 DEF Idle, Known, Open
  <2> QED BY <1>0, <2>1
<1>5. ASSUME NEW s \in Sessions, Began(s) PROVE Goal
  <2>1. /\ nextRid' = nextRid /\ base' = base /\ \A c \in Shadows(tx'[s]) : c.rows = base.rows
        /\ \A o \in Sessions \ {s} : tx'[o] = tx[o]
    BY <1>5 DEF Began, Others
  <2>2. \A r \in Known' : Old(r)
    BY <1>1, <1>2, <1>3, <2>1 DEF Open
  <2> QED BY <2>1, <2>2
<1>6. ASSUME NEW s \in Sessions, Bookmarked(s) PROVE Goal
  <2>1. /\ nextRid' = nextRid /\ base' = base /\ Shadows(tx'[s]) \subseteq Shadows(tx[s])
        /\ Open(s) /\ \A o \in Sessions \ {s} : tx'[o] = tx[o]
    BY <1>6 DEF Bookmarked, Others
  <2>2. \A r \in Known' : Old(r)
    BY <1>1, <1>2, <1>3, <2>1 DEF Open
  <2> QED BY <2>1, <2>2
<1>7. ASSUME NEW s \in Sessions, Ran(s)
      PROVE  \A r \in Known' : Old(r) \/ r \in tx'[s].cat.rows
  <2>1. /\ base' = base /\ Shadows(tx'[s]) \subseteq Shadows(tx[s]) \cup {tx'[s].cat}
        /\ Open(s) /\ \A o \in Sessions \ {s} : tx'[o] = tx[o]
    BY <1>7, RanShadows DEF Ran, Others
  <2> QED BY <1>1, <1>2, <1>3, <2>1 DEF Open
<1>8. ASSUME NEW s \in Sessions, ReadOnly(s) PROVE Goal
  <2>1. Ran(s) /\ Open(s) /\ nextRid' = nextRid /\ tx'[s].cat.rows = Catalog(s)
    BY <1>8 DEF ReadOnly, Ran, Catalog
  <2>2. \A r \in Known' : Old(r)
    BY <1>7, <2>1, CatalogOld
  <2> QED BY <2>1, <2>2
<1>9. ASSUME NEW s \in Sessions, WroteShadow(s) PROVE Goal
  <2>1. Ran(s) /\ Open(s) /\ \E t : Change(s, t, Catalog(s), tx'[s].cat.rows)
    BY <1>9 DEF WroteShadow, Ran, Catalog
  <2>2. PICK n : /\ nextRid' = nextRid \/ (nextRid' = nextRid + 1 /\ n.rid = nextRid)
                 /\ \A r \in tx'[s].cat.rows : Old(r) \/ (r = n /\ nextRid' = nextRid + 1)
    BY <2>1, ChangeOld
  <2>3. \A r \in Known' : Old(r) \/ (r = n /\ nextRid' = nextRid + 1)
    BY <1>7, <2>1, <2>2
  <2> QED BY <2>2, <2>3
<1>10. ASSUME NEW s \in Sessions, StaleOthers(s), tx'[s] = NoTx
       PROVE  \A r \in Known' : Old(r) \/ r \in base'.rows
  <2>1. \A o \in Sessions : tx'[o] # NoTx => Open(o) /\ Shadows(tx'[o]) = Shadows(tx[o])
    <3> SUFFICES ASSUME NEW o \in Sessions \ {s}, tx'[o] # NoTx
                 PROVE  Open(o) /\ Shadows(tx'[o]) = Shadows(tx[o])
      BY <1>10
    <3> QED BY <1>10, StaleTxs
  <2> QED BY <1>1, <1>3, <2>1
<1>11. ASSUME NEW s \in Sessions, WroteBase(s) PROVE Goal
  <2>1. /\ StaleOthers(s) /\ tx'[s] = NoTx /\ \E t : Change(s, t, Catalog(s), base'.rows)
    BY <1>11 DEF WroteBase, Catalog
  <2>2. PICK n : /\ nextRid' = nextRid \/ (nextRid' = nextRid + 1 /\ n.rid = nextRid)
                 /\ \A r \in base'.rows : Old(r) \/ (r = n /\ nextRid' = nextRid + 1)
    BY <2>1, ChangeOld
  <2>3. \A r \in Known' : Old(r) \/ (r = n /\ nextRid' = nextRid + 1)
    BY <1>10, <2>1, <2>2
  <2> QED BY <2>2, <2>3
<1>12. ASSUME NEW s \in Sessions, Ended(s) PROVE Goal
  <2>1. /\ Open(s) /\ StaleOthers(s) /\ tx'[s] = NoTx /\ nextRid' = nextRid
        /\ base' = base \/ base' = Installed(tx[s])
    BY <1>12 DEF Ended
  <2>2. \A r \in base'.rows : Old(r)
    BY <1>2, <2>1, InstalledOld
  <2>3. \A r \in Known' : Old(r)
    BY <1>10, <2>1, <2>2
  <2> QED BY <2>1, <2>3
<1> HIDE DEF Goal
<1>13. Goal
  BY <1>4, <1>5, <1>6, <1>8, <1>9, <1>11, <1>12, StepCases
<1> QED BY <1>13 DEF Goal

\* A row id keeps naming one row.
LEMMA IdentityStep ==
  ASSUME StampInv, RowInv, [TxNext]_vars
  PROVE  /\ nextRid' \in Nat
         /\ \A r \in Known' : r.rid \in Nat /\ r.rid < nextRid'
         /\ \A r, q \in Known' : r.rid = q.rid => SameRow(r, q)
<1>1. PICK n : /\ nextRid' = nextRid \/ (nextRid' = nextRid + 1 /\ n.rid = nextRid)
               /\ \A r \in Known' : Old(r) \/ (r = n /\ nextRid' = nextRid + 1)
  BY KnownStep
<1>2. /\ nextRid \in Nat /\ \A r \in Known : r.rid \in Nat /\ r.rid < nextRid
      /\ \A r, q \in Known : r.rid = q.rid => SameRow(r, q)
  BY DEF RowInv
<1>3. nextRid' \in Nat /\ nextRid <= nextRid'
  BY <1>1, <1>2
<1>4. \A r : Old(r) => r.rid \in Nat /\ r.rid < nextRid
  BY <1>2 DEF Old, SameRow
<1>5. \A r \in Known' : r.rid \in Nat /\ r.rid < nextRid'
  <2> TAKE r \in Known'
  <2>1. CASE Old(r)
    BY <1>2, <1>3, <1>4, <2>1
  <2>2. CASE r = n /\ nextRid' = nextRid + 1
    BY <1>1, <1>2, <2>2
  <2> QED BY <1>1, <2>1, <2>2
<1>6. \A r, q : Old(r) /\ Old(q) /\ r.rid = q.rid => SameRow(r, q)
  <2> SUFFICES ASSUME NEW r, NEW q, Old(r), Old(q), r.rid = q.rid PROVE SameRow(r, q)
    OBVIOUS
  <2>1. PICK a \in Known : SameRow(r, a)
    BY DEF Old
  <2>2. PICK b \in Known : SameRow(q, b)
    BY DEF Old
  <2>3. SameRow(a, b)
    BY <1>2, <2>1, <2>2 DEF SameRow
  <2> QED BY <2>1, <2>2, <2>3 DEF SameRow
<1>7. \A r, q \in Known' : r.rid = q.rid => SameRow(r, q)
  <2> TAKE r, q \in Known'
  <2> HAVE r.rid = q.rid
  <2>1. CASE Old(r) /\ Old(q)
    BY <1>6, <2>1
  <2>2. CASE r = n /\ q = n
    BY <2>2 DEF SameRow
  <2>3. CASE nextRid' = nextRid + 1 /\ ((r = n /\ Old(q)) \/ (Old(r) /\ q = n))
    <3>1. n.rid = nextRid
      BY <1>1, <1>2, <2>3
    <3> QED BY <1>2, <1>4, <2>3, <3>1
  <2> QED BY <1>1, <2>1, <2>2, <2>3
<1> QED BY <1>3, <1>5, <1>7

\* No committed row carries the version of a transaction still open, and a
\* committed row and a row of a shadow with one id are versions of one row.
LEMMA BaseAndShadow ==
  ASSUME StampInv, RowInv, NEW s \in Sessions, Open(s), NEW b \in base.rows
  PROVE  /\ b.xmin # tx[s].v /\ b.xmax # tx[s].v
         /\ \A q \in tx[s].cat.rows : q.rid = b.rid => SameRow(q, b) /\ q.xmin # tx[s].v
<1>1. b.xmin \in Settled /\ b.xmax \in Settled
  BY DEF StampInv, Clean
<1>2. tx[s].v \notin Settled
  BY OpenShape
<1>3. b \in Known /\ tx[s].cat.rows \subseteq Known
  BY KnownRows DEF Shadows
<1>4. \A q \in tx[s].cat.rows : q.rid = b.rid => SameRow(q, b)
  BY <1>3 DEF RowInv
<1> QED BY <1>1, <1>2, <1>4 DEF SameRow

\* Stamping some ids keeps one version of each row.
LEMMA StampedDistinct ==
  ASSUME NEW rows, NEW S, NEW which, NEW v, Clean(rows, S), RidsDistinct(rows)
  PROVE  RidsDistinct(Stamped(rows, which, v))
<1> SUFFICES ASSUME NEW r \in Stamped(rows, which, v), NEW q \in Stamped(rows, which, v),
                    r.rid = q.rid
             PROVE  r = q
  BY DEF RidsDistinct
<1> DEFINE Image(a) == IF a.rid \in which THEN [a EXCEPT !.xmax = v] ELSE a
<1>1. PICK a \in rows : r = Image(a)
  BY DEF Stamped
<1>2. PICK b \in rows : q = Image(b)
  BY DEF Stamped
<1>3. \A x \in rows : Image(x).rid = x.rid
  <2> TAKE x \in rows
  <2>1. x = [rid |-> x.rid, tab |-> x.tab, key |-> x.key, org |-> x.org, by |-> x.by,
             xmin |-> x.xmin, xmax |-> x.xmax]
    BY DEF Clean
  <2>2. [x EXCEPT !.xmax = v].rid = x.rid
    BY <2>1
  <2> QED BY <2>2
<1> HIDE DEF Image
<1>4. a = b
  BY <1>1, <1>2, <1>3 DEF RidsDistinct
<1> QED BY <1>1, <1>2, <1>4

\* The replay keeps one version of each row: what it puts back is in no other
\* catalog yet.
LEMMA ReplayDistinct ==
  ASSUME StampInv, RowInv, NEW s \in Sessions, Open(s)
  PROVE  RidsDistinct(Replayed(tx[s]))
<1> DEFINE st    == tx[s]
           dead  == ReplayTombstones(st)
           which == dead \ OwnRids(st)
           ins   == ReplayInserts(st)
           Back(a) == [a EXCEPT !.xmax = IF a.rid \in dead THEN st.v ELSE Alive]
           back  == {Back(a) : a \in ins}
<1>1. Clean(base.rows, Settled) /\ Clean(st.cat.rows, Settled \cup {st.v})
  BY DEF StampInv, CleanTx, CleanCat
<1>2. \A a \in ins : a \in st.cat.rows /\ a.xmin = st.v
  BY ReplayedOwn
<1>3. RidsDistinct(Phase1(st))
  <2>1. RidsDistinct(base.rows)
    BY DEF RowInv
  <2>2. Phase1(st) = Stamped(base.rows, which, st.v)
    BY Phase1IsStamped
  <2> HIDE DEF which, st
  <2> QED BY <1>1, <2>1, <2>2, StampedDistinct
<1>4. \A r \in Phase1(st) : \E b \in base.rows : r.rid = b.rid
  <2> SUFFICES ASSUME NEW r \in Phase1(st) PROVE \E b \in base.rows : r.rid = b.rid
    OBVIOUS
  <2>1. Phase1(st) = Stamped(base.rows, which, st.v)
    BY Phase1IsStamped
  <2> HIDE DEF which, st
  <2> QED BY <1>1, <2>1, StampedRow DEF SameRow
<1>5. \A a \in ins : Back(a).rid = a.rid
  <2> TAKE a \in ins
  <2>1. a = [rid |-> a.rid, tab |-> a.tab, key |-> a.key, org |-> a.org, by |-> a.by,
             xmin |-> a.xmin, xmax |-> a.xmax]
    BY <1>1, <1>2 DEF Clean
  <2> HIDE DEF dead
  <2> QED BY <2>1
<1>6. RidsDistinct(st.cat.rows)
  BY DEF RowInv, TxRows, Shadows
<1>7. Replayed(st) = Phase1(st) \cup back
  BY DEF Replayed
<1>8. \A a \in ins, b \in base.rows : a.rid # b.rid
  BY <1>2, BaseAndShadow
<1> HIDE DEF st, dead, which, ins, Back
<1>9. RidsDistinct(back)
  <2> SUFFICES ASSUME NEW a \in ins, NEW b \in ins, Back(a).rid = Back(b).rid
               PROVE  Back(a) = Back(b)
    BY DEF RidsDistinct
  <2>1. a.rid = b.rid
    BY <1>5
  <2>2. a = b
    BY <1>2, <1>6, <2>1 DEF RidsDistinct
  <2> QED BY <2>2
<1>10. \A r \in Phase1(st), q \in back : r.rid # q.rid
  BY <1>4, <1>5, <1>8
<1> HIDE DEF back
<1>11. RidsDistinct(Replayed(st))
  BY <1>3, <1>7, <1>9, <1>10 DEF RidsDistinct
<1> QED BY <1>11 DEF st

\* The tombstones the replay sets are those of rows the transaction killed.
LEMMA ReplayOwnRows ==
  ASSUME StampInv, RowInv, NEW s \in Sessions, Open(s)
  PROVE  OwnRows(Replayed(tx[s]), tx[s])
<1> DEFINE st == tx[s]
<1> SUFFICES ASSUME NEW r \in Replayed(st)
             PROVE  /\ r.xmin = st.v => r.xmax \in {Alive, st.v}
                    /\ st.v \in {r.xmin, r.xmax} => r.tab \in st.touched
  BY DEF OwnRows
<1>1. ASSUME NEW b \in base.rows, SameRow(r, b), r = b
      PROVE  r.xmin # st.v /\ r.xmax # st.v
  BY <1>1, BaseAndShadow
<1>2. ASSUME NEW b \in base.rows, SameRow(r, b), b.rid \in ReplayTombstones(st)
      PROVE  r.xmin # st.v /\ r.tab \in st.touched
  <2>1. PICK q \in st.cat.rows : q.rid = b.rid /\ q.tab \in st.touched
    BY <1>2 DEF ReplayTombstones, Tombstones, TombstonedBy, Written
  <2>2. SameRow(q, b) /\ b.xmin # st.v
    BY <2>1, BaseAndShadow
  <2> QED BY <1>2, <2>1, <2>2 DEF SameRow
<1>3. ASSUME NEW q \in ReplayInserts(st), SameRow(r, q)
      PROVE  r.xmin = st.v /\ r.tab \in st.touched
  BY <1>3, ReplayedOwn DEF SameRow
<1> QED BY <1>1, <1>2, <1>3, ReplayedRow

\* The rows a statement starts from keep what RowInv says of a shadow.
LEMMA CatalogRows ==
  ASSUME StampInv, RowInv, NEW s \in Sessions
  PROVE  /\ RidsDistinct(Catalog(s))
         /\ \A r \in Catalog(s) : r.rid \in Nat /\ r.rid < nextRid
         /\ Open(s) => OwnRows(Catalog(s), tx[s])
         /\ Open(s) /\ tx[s].iso # "RC" => Rebased(tx[s]) = tx[s] /\ Catalog(s) = tx[s].cat.rows
<1>1. \A r \in Catalog(s) : r.rid \in Nat /\ r.rid < nextRid
  BY CatalogOld DEF RowInv, Old, SameRow
<1>2. CASE ~Open(s)
  BY <1>1, <1>2 DEF Catalog, RowInv
<1>3. CASE Open(s)
  <2>1. TxRows(tx[s]) /\ tx[s].cat \in Shadows(tx[s])
    BY <1>3 DEF RowInv, Shadows
  <2>2. tx[s].iso # "RC" => ~NeedsRebase(tx[s])
    BY <2>1 DEF TxRows, SnapOK, NeedsRebase
  <2>3. Catalog(s) = tx[s].cat.rows \/ Catalog(s) = Replayed(tx[s])
    BY <1>3, RebasedRows DEF Catalog
  <2>4. RidsDistinct(Catalog(s)) /\ OwnRows(Catalog(s), tx[s])
    BY <1>3, <2>1, <2>3, ReplayDistinct, ReplayOwnRows DEF TxRows
  <2> QED BY <1>1, <1>3, <2>2, <2>4, RebasedRows DEF Catalog
<1> QED BY <1>2, <1>3

\* A statement keeps one version of each row, and stamps with its writer's
\* version in tables it records as touched.
LEMMA ChangeDistinct ==
  ASSUME StampInv, RowInv, NEW s \in Sessions, NEW t, NEW new, Change(s, t, Catalog(s), new)
  PROVE  RidsDistinct(new)
<1> DEFINE rows == Catalog(s)
<1>1. RidsDistinct(rows) /\ \A r \in rows : r.rid \in Nat /\ r.rid < nextRid
  BY CatalogRows
<1>2. nextRid \in Nat
  BY DEF RowInv
<1>3. \A rid : RidsDistinct(Kill(rows, rid, Version(s)))
  <2> TAKE rid
  <2> DEFINE S == Settled \cup {Version(s)}
  <2>1. Clean(rows, S)
    BY StatementStart
  <2> HIDE DEF S, rows
  <2>2. RidsDistinct(Stamped(rows, {rid}, Version(s)))
    BY <1>1, <2>1, StampedDistinct
  <2> QED BY <2>2, KillIsStamped
<1>4. \A rid : \A r \in Kill(rows, rid, Version(s)) : r.rid \in Nat /\ r.rid < nextRid
  BY <1>1, KillRow DEF SameRow
<1>5. ASSUME NEW kept, RidsDistinct(kept), \A r \in kept : r.rid \in Nat /\ r.rid < nextRid,
             NEW n, n.rid = nextRid
      PROVE  RidsDistinct(kept \cup {n})
  BY <1>2, <1>5 DEF RidsDistinct
<1> HIDE DEF rows
<1> QED BY <1>1, <1>3, <1>4, <1>5, ChangeRows DEF rows

\* A statement writes only its own version, and only to the table it touches.
LEMMA ChangeOwn ==
  ASSUME StampInv, RowInv, NEW s \in Sessions, Open(s), NEW t, NEW new,
         Change(s, t, Catalog(s), new), NEW st, st.v = tx[s].v, st.touched = tx[s].touched \cup {t}
  PROVE  OwnRows(new, st)
<1> DEFINE rows == Catalog(s)
           v    == Version(s)
<1>1. v = tx[s].v /\ OwnRows(rows, tx[s]) /\ RidsDistinct(rows)
  BY CatalogRows DEF Version
<1>2. \A r \in rows : /\ r.xmin = v => r.xmax \in {Alive, v}
                      /\ v \in {r.xmin, r.xmax} => r.tab \in st.touched
  BY <1>1 DEF OwnRows
<1>3. ASSUME NEW k \in rows, k.tab = t, NEW r \in Kill(rows, k.rid, v)
      PROVE  /\ r.xmin = v => r.xmax \in {Alive, v}
             /\ v \in {r.xmin, r.xmax} => r.tab \in st.touched
  <2>1. PICK q \in rows : /\ SameRow(r, q)
                          /\ \/ q.rid # k.rid /\ r = q
                             \/ q.rid = k.rid /\ r.xmax = v
    BY KillRow
  <2>2. CASE q.rid # k.rid
    BY <1>2, <2>1, <2>2
  <2>3. CASE q.rid = k.rid
    <3>1. q = k /\ r.xmax = v /\ r.tab = t
      BY <1>1, <1>3, <2>1, <2>3 DEF RidsDistinct, SameRow
    <3> QED BY <3>1
  <2> QED BY <2>2, <2>3
<1>4. t \in st.touched
  OBVIOUS
<1> HIDE DEF rows, v
<1>5. \A r \in new : /\ r.xmin = v => r.xmax \in {Alive, v}
                     /\ v \in {r.xmin, r.xmax} => r.tab \in st.touched
  BY <1>2, <1>3, <1>4, ChangeRows DEF rows, v
<1> QED BY <1>1, <1>5 DEF OwnRows

\* A frozen transaction adds no stamp but its own.
LEMMA ChangeSnap ==
  ASSUME StampInv, RowInv, NEW s \in Sessions, Open(s), tx[s].iso # "RC", NEW t, NEW new,
         Change(s, t, Catalog(s), new)
  PROVE  \A r \in new : /\ r.xmin \in SnapStamps(tx[s]) \cup {tx[s].v}
                        /\ r.xmax \in SnapStamps(tx[s]) \cup {tx[s].v}
<1> DEFINE S == SnapStamps(tx[s]) \cup {tx[s].v}
<1>1. Catalog(s) = tx[s].cat.rows /\ Version(s) = tx[s].v
  BY CatalogRows DEF Version
<1>2. Alive \in S /\ Version(s) \in S /\ \A r \in Catalog(s) : r.xmin \in S /\ r.xmax \in S
  BY <1>1 DEF RowInv, TxRows, SnapOK, Shadows
<1> HIDE DEF S
<1>3. \A rid : \A r \in Kill(Catalog(s), rid, Version(s)) : r.xmin \in S /\ r.xmax \in S
  BY <1>2, KillRow DEF SameRow
<1>4. \A r \in new : r.xmin \in S /\ r.xmax \in S
  BY <1>2, <1>3, ChangeRows
<1> QED BY <1>4 DEF S

\* The snapshot BEGIN caches takes every committed stamp for committed.
LEMMA BeginRowsKept ==
  ASSUME StampInv, RowInv, NEW s \in Sessions, Began(s)
  PROVE  TxRows(tx'[s])
<1> DEFINE st == tx'[s]
<1>1. /\ st.v = nextVersion /\ st.snap = BeginSnapshot(st.iso)
      /\ Shadows(st) = {st.cat} /\ st.cat.rows = base.rows
  BY DEF Began
<1>2. /\ nextVersion \in Nat \ {0} /\ \A r \in base.rows : r.xmin \in Settled /\ r.xmax \in Settled
      /\ RidsDistinct(base.rows) /\ 0 \in Settled
  BY SettledFacts DEF StampInv, Clean, Registers, RowInv
<1>3. nextVersion \notin Settled
  BY <1>2 DEF Settled
<1> HIDE DEF st
<1>4. OwnRows(base.rows, st)
  BY <1>1, <1>2, <1>3 DEF OwnRows
<1>5. SnapOK(st)
  <2>1. CASE st.iso = "RC"
    BY <1>1, <2>1 DEF SnapOK, BeginSnapshot
  <2>2. CASE st.iso # "RC"
    <3>1. st.snap = [version |-> nextVersion, inProgress |-> active \cup {nextVersion},
                     tx |-> nextVersion]
      BY <1>1, <2>2 DEF BeginSnapshot
    <3>2. st.snap.version = nextVersion /\ st.snap.inProgress = active \cup {nextVersion}
          /\ st.snap.tx = nextVersion /\ st.snap # NoSnap
      BY <1>2, <3>1 DEF NoSnap
    <3>3. Settled \subseteq SnapStamps(st)
      BY <1>2, <3>2 DEF Settled, SnapStamps
    <3> QED BY <1>1, <1>2, <2>2, <3>2, <3>3 DEF SnapOK, Alive
  <2> QED BY <2>1, <2>2
<1>6. TxRows(st)
  BY <1>1, <1>2, <1>4, <1>5 DEF TxRows
<1> QED BY <1>6 DEF st

\* TxRows depends on the shadows, the version, the level and the snapshot, and
\* survives if touched_tables grows.
LEMMA TxRowsFrom ==
  ASSUME NEW st, TxRows(st), NEW new, SameTx(st, new), st.touched \subseteq new.touched,
         NEW C, Shadows(new) \subseteq Shadows(st) \cup {C},
         RidsDistinct(C.rows), OwnRows(C.rows, new),
         st.iso # "RC" => \A r \in C.rows : /\ r.xmin \in SnapStamps(st) \cup {st.v}
                                            /\ r.xmax \in SnapStamps(st) \cup {st.v}
  PROVE  TxRows(new)
<1>1. SnapStamps(new) = SnapStamps(st)
  BY DEF SnapStamps, SameTx
<1>2. SnapOK(new)
  BY <1>1 DEF SnapOK, TxRows, SameTx
<1>3. \A c \in Shadows(st) : OwnRows(c.rows, new)
  BY DEF OwnRows, TxRows, SameTx
<1> QED BY <1>2, <1>3 DEF TxRows

\* RowInv under every kind of step.
LEMMA RowStep ==
  ASSUME StampInv, RowInv, [TxNext]_vars
  PROVE  RowInv'
<1> DEFINE Goal == /\ RidsDistinct(base'.rows)
                   /\ \A o \in Sessions : tx'[o] # NoTx => TxRows(tx'[o])
<1>0. RidsDistinct(base.rows) /\ \A o \in Sessions : Open(o) => TxRows(tx[o])
  BY DEF RowInv
<1>1. ASSUME Idle PROVE Goal
  <2>1. base' = base /\ tx' = tx
    BY <1>1 DEF Idle
  <2> QED BY <1>0, <2>1 DEF Open
<1>2. ASSUME NEW s \in Sessions, Began(s) PROVE Goal
  BY <1>0, <1>2, BeginRowsKept DEF Began, Others, Open
<1>3. ASSUME NEW s \in Sessions, Bookmarked(s) PROVE Goal
  <2>1. TxRows(tx[s]) /\ tx[s].cat \in Shadows(tx[s])
    BY <1>0, <1>3 DEF Bookmarked, Shadows
  <2>2. OwnRows(tx[s].cat.rows, tx'[s])
    BY <1>3, <2>1 DEF Bookmarked, OwnRows, TxRows, SameTx
  <2>3. tx[s].iso # "RC" => \A r \in tx[s].cat.rows :
          r.xmin \in SnapStamps(tx[s]) \cup {tx[s].v} /\ r.xmax \in SnapStamps(tx[s]) \cup {tx[s].v}
    BY <2>1 DEF TxRows, SnapOK
  <2>4. TxRows(tx'[s])
    BY <1>3, <2>1, <2>2, <2>3, TxRowsFrom DEF Bookmarked, TxRows
  <2> QED BY <1>0, <1>3, <2>4 DEF Bookmarked, Others, Open
<1>4. ASSUME NEW s \in Sessions, Ran(s), tx[s].touched \subseteq tx'[s].touched,
             RidsDistinct(tx'[s].cat.rows), OwnRows(tx'[s].cat.rows, tx'[s]),
             tx[s].iso # "RC" => \A r \in tx'[s].cat.rows :
               /\ r.xmin \in SnapStamps(tx[s]) \cup {tx[s].v}
               /\ r.xmax \in SnapStamps(tx[s]) \cup {tx[s].v}
      PROVE  Goal
  <2>1. /\ Open(s) /\ Shadows(tx'[s]) \subseteq Shadows(tx[s]) \cup {tx'[s].cat}
        /\ SameTx(tx[s], tx'[s])
    BY <1>4, RanShadows DEF Ran
  <2>2. TxRows(tx'[s])
    BY <1>0, <1>4, <2>1, TxRowsFrom
  <2> QED BY <1>0, <1>4, <2>2 DEF Ran, Others, Open
<1>5. ASSUME NEW s \in Sessions, ReadOnly(s) PROVE Goal
  <2>1. /\ Ran(s) /\ Open(s) /\ tx'[s].cat.rows = Catalog(s)
        /\ tx'[s].touched = tx[s].touched /\ SameTx(tx[s], tx'[s])
    BY <1>5, RanShadows DEF ReadOnly, Ran, Catalog
  <2>2. RidsDistinct(tx'[s].cat.rows) /\ OwnRows(tx'[s].cat.rows, tx'[s])
    BY <2>1, CatalogRows DEF OwnRows, SameTx
  <2>3. tx[s].iso # "RC" => \A r \in tx'[s].cat.rows :
          r.xmin \in SnapStamps(tx[s]) \cup {tx[s].v} /\ r.xmax \in SnapStamps(tx[s]) \cup {tx[s].v}
    <3>1. tx[s].cat \in Shadows(tx[s])
      BY DEF Shadows
    <3> QED BY <1>0, <2>1, <3>1, CatalogRows DEF TxRows, SnapOK
  <2> QED BY <1>4, <2>1, <2>2, <2>3
<1>6. ASSUME NEW s \in Sessions, WroteShadow(s) PROVE Goal
  <2>1. Ran(s) /\ Open(s) /\ SameTx(tx[s], tx'[s]) /\ Rebased(tx[s]).touched = tx[s].touched
    BY <1>6, RanShadows DEF WroteShadow, Ran
  <2>2. PICK t : /\ tx'[s].touched = tx[s].touched \cup {t}
                 /\ Change(s, t, Catalog(s), tx'[s].cat.rows)
    BY <1>6, <2>1 DEF WroteShadow, Catalog
  <2>3. RidsDistinct(tx'[s].cat.rows)
    BY <2>2, ChangeDistinct
  <2>4. OwnRows(tx'[s].cat.rows, tx'[s])
    BY <2>1, <2>2, ChangeOwn DEF SameTx
  <2>5. tx[s].iso # "RC" => \A r \in tx'[s].cat.rows :
          r.xmin \in SnapStamps(tx[s]) \cup {tx[s].v} /\ r.xmax \in SnapStamps(tx[s]) \cup {tx[s].v}
    BY <2>1, <2>2, ChangeSnap
  <2> QED BY <1>4, <2>1, <2>2, <2>3, <2>4, <2>5
<1>7. ASSUME NEW s \in Sessions, StaleOthers(s), tx'[s] = NoTx
      PROVE  \A o \in Sessions : tx'[o] # NoTx => TxRows(tx'[o])
  <2> SUFFICES ASSUME NEW o \in Sessions \ {s}, tx'[o] # NoTx PROVE TxRows(tx'[o])
    BY <1>7
  <2>1. /\ Open(o) /\ Shadows(tx'[o]) = Shadows(tx[o]) /\ SameTx(tx[o], tx'[o])
        /\ tx'[o].touched = tx[o].touched
    BY <1>7, StaleTxs
  <2>2. TxRows(tx[o])
    BY <1>0, <2>1
  <2>3. SnapStamps(tx'[o]) = SnapStamps(tx[o])
    BY <2>1 DEF SnapStamps, SameTx
  <2> QED BY <2>1, <2>2, <2>3 DEF TxRows, SnapOK, OwnRows, SameTx
<1>8. ASSUME NEW s \in Sessions, WroteBase(s) PROVE Goal
  <2>1. Catalog(s) = base.rows
    BY <1>8 DEF WroteBase, Catalog
  <2>2. RidsDistinct(base'.rows)
    BY <1>8, <2>1, ChangeDistinct DEF WroteBase
  <2> QED BY <1>7, <1>8, <2>2 DEF WroteBase
<1>9. ASSUME NEW s \in Sessions, Ended(s) PROVE Goal
  <2>1. Open(s) /\ RidsDistinct(tx[s].cat.rows)
    BY <1>0, <1>9 DEF Ended, TxRows, Shadows
  <2>2. RidsDistinct({r \in tx[s].cat.rows : r.tab \in tx[s].cat.dirty}
                     \cup {r \in base.rows : r.tab \notin tx[s].cat.dirty})
    BY <1>0, <2>1, BaseAndShadow DEF RidsDistinct, SameRow
  <2>3. RidsDistinct(base'.rows)
    <3>1. RidsDistinct(Installed(tx[s]).rows)
      BY <1>0, <2>1, <2>2, InstalledRows, ReplayDistinct
    <3> QED BY <1>0, <1>9, <3>1 DEF Ended
  <2> QED BY <1>7, <1>9, <2>3 DEF Ended
<1>10. Goal
  <2> HIDE DEF Goal
  <2> QED BY <1>1, <1>2, <1>3, <1>5, <1>6, <1>8, <1>9, StepCases
<1> QED BY <1>10, IdentityStep DEF RowInv, Open

\* A row id never comes to name two rows, whatever is replayed, merged or
\* brought back by ROLLBACK TO.
LEMMA RowInvariant == TxSpec => []RowInv
<1>1. TxInit => RowInv
  <2> SUFFICES ASSUME TxInit PROVE RowInv
    OBVIOUS
  <2>1. base.rows = InitRows /\ \A s \in Sessions : ~Open(s)
    BY DEF TxInit, Open
  <2>2. Known = InitRows
    BY <2>1 DEF Known
  <2>3. Cardinality(InitRows) \in Nat /\ nextRid = Cardinality(InitRows) + 1
    BY TransactionsAssumption, FS_CardinalityType DEF TxInit
  <2>4. \A r \in InitRows : r.rid \in Nat /\ r.rid <= Cardinality(InitRows)
    BY TransactionsAssumption DEF Row, Rids
  <2>5. \A r, q \in InitRows : r.rid = q.rid => r = q
    BY TransactionsAssumption
  <2>6. nextRid \in Nat /\ \A r \in Known : r.rid \in Nat /\ r.rid < nextRid
    BY <2>2, <2>3, <2>4
  <2> QED BY <2>1, <2>2, <2>5, <2>6 DEF RowInv, SameRow, RidsDistinct
<1>2. StampInv /\ RowInv /\ [TxNext]_vars => RowInv'
  BY RowStep
<1> QED BY <1>1, <1>2, StampInvariant, PTL DEF TxSpec

---------------------------------------------------------------------------
(* What statements see.                                                    *)

\* The stamps a statement of s meets, against its snapshot: its own, or
\* committed and not after the snapshot.
LEMMA StampsMet ==
  ASSUME StampInv, RowInv, NEW s \in Sessions, NEW r \in Catalog(s), NEW n \in {r.xmin, r.xmax},
         ~Open(s) \/ n # tx[s].v
  PROVE  LET snap == Snapshot(s)
         IN  n \in Nat /\ n <= snap.version /\ n \notin snap.inProgress /\ ~(n > snap.version)
<1>1. nextVersion \in Nat \ {0}
  BY DEF StampInv, Registers
<1>2. Clean(Catalog(s), Settled \cup {Version(s)})
  BY StatementStart
<1>3. CASE ~Open(s)
  <2>1. Catalog(s) = base.rows /\ Snapshot(s) = SnapNow(0)
    BY <1>3 DEF Catalog, Snapshot
  <2>2. n \in Settled
    BY <2>1 DEF StampInv, Clean
  <2> QED BY <1>1, <2>1, <2>2 DEF Settled, SnapNow
<1>4. CASE Open(s) /\ tx[s].iso = "RC"
  <2>1. Snapshot(s) = SnapNow(tx[s].v) /\ Version(s) = tx[s].v
    BY <1>4 DEF Snapshot, Version, RowInv, TxRows, SnapOK
  <2>2. n \in Settled
    BY <1>2, <1>4, <2>1 DEF Clean
  <2> QED BY <1>1, <2>1, <2>2 DEF Settled, SnapNow
<1>5. CASE Open(s) /\ tx[s].iso # "RC"
  <2>1. Catalog(s) = tx[s].cat.rows
    BY <1>5, CatalogRows
  <2>2. SnapOK(tx[s]) /\ tx[s].cat \in Shadows(tx[s])
    BY <1>5 DEF RowInv, TxRows, Shadows
  <2>3. Snapshot(s) = tx[s].snap /\ n \in SnapStamps(tx[s])
    BY <1>5, <2>1, <2>2 DEF Snapshot, SnapOK
  <2>4. n \in Nat /\ n <= tx[s].snap.version /\ n \notin tx[s].snap.inProgress
    BY <2>3 DEF SnapStamps
  <2>5. ~(n > tx[s].snap.version)
    BY <2>2, <2>4, <1>5 DEF SnapOK
  <2> QED BY <2>3, <2>4, <2>5
<1> QED BY <1>3, <1>4, <1>5

\* Of the rows of others, a statement sees exactly those not tombstoned.
LEMMA VisibleOthers ==
  ASSUME StampInv, RowInv, NEW s \in Sessions, Open(s), NEW r \in Catalog(s), r.xmin # tx[s].v
  PROVE  Visible(r, Snapshot(s)) <=> r.xmax = Alive
<1> DEFINE snap == Snapshot(s)
<1>1. snap.tx = tx[s].v /\ snap.tx # 0
  <2>1. SnapOK(tx[s]) /\ tx[s].v # 0
    BY OpenShape DEF RowInv, TxRows
  <2>2. CASE tx[s].iso = "RC"
    <3>1. snap = SnapNow(tx[s].v)
      BY <2>1, <2>2 DEF Snapshot, SnapOK
    <3> QED BY <2>1, <3>1 DEF SnapNow
  <2>3. CASE tx[s].iso # "RC"
    BY <2>1, <2>3 DEF Snapshot, SnapOK
  <2> QED BY <2>2, <2>3
<1>2. r.xmin <= snap.version /\ r.xmin \notin snap.inProgress
  BY StampsMet
<1>3. r.xmax # tx[s].v => ~(r.xmax > snap.version) /\ r.xmax \notin snap.inProgress
  BY StampsMet
<1> HIDE DEF snap
<1>4. Visible(r, snap) <=> r.xmax = Alive
  BY <1>1, <1>2, <1>3 DEF Visible, Alive
<1> QED BY <1>4 DEF snap

\* Whatever a statement sees or locks, it is not tombstoned yet.
LEMMA ViewAlive ==
  ASSUME StampInv, RowInv, NEW s \in Sessions, NEW r \in View(s)
  PROVE  r.xmax = Alive
<1>1. r \in Catalog(s) /\ Visible(r, Snapshot(s))
  BY DEF View
<1>2. CASE ~Open(s)
  <2>1. Snapshot(s).tx = 0
    BY <1>2 DEF Snapshot, SnapNow
  <2>2. ~(r.xmax > Snapshot(s).version) /\ r.xmax \notin Snapshot(s).inProgress
    BY <1>1, <1>2, StampsMet
  <2> QED BY <1>1, <2>1, <2>2 DEF Visible
<1>3. CASE Open(s) /\ r.xmin # tx[s].v
  BY <1>1, <1>3, VisibleOthers
<1>4. CASE Open(s) /\ r.xmin = tx[s].v
  <2>1. r.xmax \in {Alive, tx[s].v}
    BY <1>1, <1>4, CatalogRows DEF OwnRows
  <2>2. SnapOK(tx[s]) /\ tx[s].v # 0
    BY <1>4, OpenShape DEF RowInv, TxRows
  <2>3. Snapshot(s).tx = tx[s].v
    <3>1. CASE tx[s].iso = "RC"
      <4>1. Snapshot(s) = SnapNow(tx[s].v)
        BY <1>4, <2>2, <3>1 DEF Snapshot, SnapOK
      <4> QED BY <4>1 DEF SnapNow
    <3>2. CASE tx[s].iso # "RC"
      BY <1>4, <2>2, <3>2 DEF Snapshot, SnapOK
    <3> QED BY <3>1, <3>2
  <2> QED BY <1>1, <1>4, <2>1, <2>2, <2>3 DEF Visible
<1> QED BY <1>2, <1>3, <1>4

\* The rows a statement tombstones were alive, and there is one of each.
LEMMA KillAlive ==
  ASSUME StampInv, RowInv, NEW s \in Sessions, NEW k \in Catalog(s),
         k \in View(s) \/ k.xmax = Alive
  PROVE  /\ k.xmax = Alive
         /\ \A r \in Kill(Catalog(s), k.rid, Version(s)) :
              \/ r \in Catalog(s) /\ r.rid # k.rid
              \/ SameRow(r, k) /\ r.xmax = Version(s)
         /\ \A q \in Catalog(s) \ {k} : q \in Kill(Catalog(s), k.rid, Version(s)) /\ q.rid # k.rid
         /\ \E r \in Kill(Catalog(s), k.rid, Version(s)) : SameRow(r, k) /\ r.xmax = Version(s)
<1> DEFINE rows == Catalog(s)
           S    == Settled \cup {Version(s)}
<1>1. RidsDistinct(rows) /\ Clean(rows, S)
  BY CatalogRows, StatementStart
<1>2. k.xmax = Alive
  BY ViewAlive
<1>3. \A r \in Kill(rows, k.rid, Version(s)) :
        \/ r \in rows /\ r.rid # k.rid
        \/ SameRow(r, k) /\ r.xmax = Version(s)
  BY <1>1, KillRow DEF RidsDistinct
<1> HIDE DEF S, rows
<1>4. \A q \in rows : \E r \in Stamped(rows, {k.rid}, Version(s)) :
        /\ SameRow(r, q)
        /\ \/ q.rid \notin {k.rid} /\ r = q
           \/ q.rid \in {k.rid} /\ r.xmax = Version(s)
  BY <1>1, StampedFrom
<1>5. \A q \in rows \ {k} : q \in Kill(rows, k.rid, Version(s)) /\ q.rid # k.rid
  <2> TAKE q \in rows \ {k}
  <2>1. q.rid # k.rid
    BY <1>1 DEF RidsDistinct, rows
  <2> QED BY <1>4, <2>1, KillIsStamped
<1>6. \E r \in Kill(rows, k.rid, Version(s)) : SameRow(r, k) /\ r.xmax = Version(s)
  BY <1>4, KillIsStamped DEF rows
<1> QED BY <1>2, <1>3, <1>5, <1>6 DEF rows

---------------------------------------------------------------------------
(* The frozen view.                                                        *)

\* A statement leaves the rows its transaction began with where they are,
\* alive or tombstoned by itself.
LEMMA ChangeBegun ==
  ASSUME StampInv, RowInv, NEW s \in Sessions, Open(s), NEW t, NEW new,
         Change(s, t, Catalog(s), new)
  PROVE  Begun(new, tx[s].v) = Begun(Catalog(s), tx[s].v)
<1> DEFINE rows == Catalog(s)
           v    == tx[s].v
<1>1. Version(s) = v
  BY DEF Version
<1>2. ASSUME NEW kept, NEW n, n.xmin = v
      PROVE  Begun(kept \cup {n}, v) = Begun(kept, v)
  BY <1>2 DEF Begun
<1>3. ASSUME NEW k \in rows, k \in View(s) \/ k.xmax = Alive
      PROVE  Begun(Kill(rows, k.rid, v), v) = Begun(rows, v)
  <2> DEFINE dead == Kill(rows, k.rid, v)
  <2>1. /\ k.xmax = Alive
        /\ \A r \in dead : (r \in rows /\ r.rid # k.rid) \/ (SameRow(r, k) /\ r.xmax = v)
        /\ \A q \in rows \ {k} : q \in dead
        /\ \E r \in dead : SameRow(r, k) /\ r.xmax = v
    BY <1>1, <1>3, KillAlive
  <2> HIDE DEF rows, v, dead
  <2>2. ASSUME NEW r \in dead, r.xmin # v, r.xmax \in {Alive, v}
        PROVE  \E q \in rows : q.xmin # v /\ q.xmax \in {Alive, v} /\ <<q.rid, q.tab>> = <<r.rid, r.tab>>
    BY <1>3, <2>1, <2>2 DEF SameRow
  <2>3. ASSUME NEW q \in rows, q.xmin # v, q.xmax \in {Alive, v}
        PROVE  \E r \in dead : r.xmin # v /\ r.xmax \in {Alive, v} /\ <<r.rid, r.tab>> = <<q.rid, q.tab>>
    BY <2>1, <2>3 DEF SameRow
  <2> QED BY <2>2, <2>3 DEF Begun, dead
<1> HIDE DEF rows, v
<1>4. Begun(new, v) = Begun(rows, v)
  BY <1>1, <1>2, <1>3, ChangeRows DEF rows
<1> QED BY <1>4 DEF rows, v

\* Every shadow a frozen transaction has after a step shows what its catalog
\* showed before.
LEMMA FrozenStep ==
  ASSUME StampInv, RowInv, FrozenInv, [TxNext]_vars, NEW o \in Sessions,
         Open(o), tx[o].iso # "RC", tx'[o] # NoTx
  PROVE  /\ SameTx(tx[o], tx'[o])
         /\ \A c \in Shadows(tx'[o]) : Begun(c.rows, tx[o].v) = Begun(tx[o].cat.rows, tx[o].v)
<1> DEFINE Same(c) == Begun(c.rows, tx[o].v) = Begun(tx[o].cat.rows, tx[o].v)
           Goal == SameTx(tx[o], tx'[o]) /\ \A c \in Shadows(tx'[o]) : Same(c)
<1>0. \A c \in Shadows(tx[o]) : Same(c)
  BY DEF FrozenInv, Shadows
<1>1. tx'[o] = tx[o] => Goal
  BY <1>0 DEF SameTx
<1>2. ASSUME NEW s \in Sessions, Bookmarked(s) PROVE Goal
  BY <1>0, <1>1, <1>2 DEF Bookmarked, Others
<1>3. ASSUME NEW s \in Sessions, Ran(s), o = s, Same(tx'[s].cat) PROVE Goal
  BY <1>0, <1>3, RanShadows
<1>4. ASSUME NEW s \in Sessions, Ran(s), o # s PROVE Goal
  BY <1>1, <1>4 DEF Ran, Others
<1>5. Catalog(o) = tx[o].cat.rows
  BY CatalogRows
<1>6. ASSUME NEW s \in Sessions, ReadOnly(s) PROVE Goal
  <2>1. Ran(s) /\ tx'[s].cat.rows = Rebased(tx[s]).cat.rows /\ Open(s)
    BY <1>6 DEF ReadOnly, Ran
  <2>2. o = s => Same(tx'[s].cat)
    BY <1>5, <2>1 DEF Catalog
  <2> QED BY <1>3, <1>4, <2>1, <2>2
<1>7. ASSUME NEW s \in Sessions, WroteShadow(s) PROVE Goal
  <2>1. Ran(s) /\ Open(s) /\ \E t : Change(s, t, Catalog(s), tx'[s].cat.rows)
    BY <1>7 DEF WroteShadow, Ran, Catalog
  <2>2. o = s => Same(tx'[s].cat)
    BY <1>5, <2>1, ChangeBegun
  <2> QED BY <1>3, <1>4, <2>1, <2>2
<1>8. ASSUME NEW s \in Sessions, WroteBase(s) \/ Ended(s) PROVE Goal
  <2>1. StaleOthers(s) /\ o # s
    BY <1>8 DEF WroteBase, Ended
  <2>2. Shadows(tx'[o]) = Shadows(tx[o]) /\ SameTx(tx[o], tx'[o])
    BY <2>1, StaleTxs
  <2> QED BY <1>0, <2>2
<1>9. ASSUME NEW s \in Sessions, Began(s) PROVE Goal
  BY <1>1, <1>9 DEF Began, Others
<1>10. Goal
  <2>1. Idle => tx'[o] = tx[o]
    BY DEF Idle
  <2> HIDE DEF Goal
  <2> QED BY <1>1, <1>2, <1>6, <1>7, <1>8, <1>9, <2>1, StepCases
<1> QED BY <1>10

\* FrozenInv holds: the shadows of a frozen transaction agree on the others' rows.
LEMMA FrozenInvariant == TxSpec => []FrozenInv
<1>1. TxInit => FrozenInv
  BY DEF TxInit, FrozenInv, Open
<1>2. StampInv /\ RowInv /\ FrozenInv /\ [TxNext]_vars => FrozenInv'
  <2> SUFFICES ASSUME StampInv, RowInv, FrozenInv, [TxNext]_vars,
                      NEW o \in Sessions, tx'[o] # NoTx, tx'[o].iso # "RC",
                      NEW c \in Shadows(tx'[o]), NEW d \in Shadows(tx'[o])
               PROVE  Begun(c.rows, tx'[o].v) = Begun(d.rows, tx'[o].v)
    BY DEF FrozenInv, Open
  <2>1. CASE Open(o) /\ tx[o].iso # "RC"
    BY <2>1, FrozenStep DEF SameTx
  <2>2. CASE \E s \in Sessions : Began(s) /\ s = o
    BY <2>2 DEF Began
  <2>3. CASE ~Open(o) /\ ~\E s \in Sessions : Began(s) /\ s = o
    <3>1. tx'[o] = tx[o]
      <4>1. ASSUME NEW s \in Sessions, WroteBase(s) \/ Ended(s) PROVE tx'[o] = NoTx
        BY <2>3, <4>1 DEF WroteBase, Ended, StaleOthers, Open
      <4>2. ASSUME NEW s \in Sessions,
                   Began(s) \/ Bookmarked(s) \/ ReadOnly(s) \/ WroteShadow(s)
            PROVE  tx'[o] = tx[o]
        BY <2>3, <4>2 DEF Began, Bookmarked, ReadOnly, WroteShadow, Ran, Others
      <4>3. Idle => tx'[o] = tx[o]
        BY DEF Idle
      <4> QED BY <4>1, <4>2, <4>3, StepCases
    <3> QED BY <2>3, <3>1 DEF Open
  <2>4. CASE Open(o) /\ tx[o].iso = "RC"
    <3>1. tx'[o].iso = "RC"
      <4>1. ASSUME NEW s \in Sessions, WroteBase(s) \/ Ended(s) PROVE SameTx(tx[o], tx'[o])
        <5>1. StaleOthers(s) /\ o # s
          BY <2>4, <4>1 DEF WroteBase, Ended
        <5> QED BY <5>1, StaleTxs
      <4>2. ASSUME NEW s \in Sessions,
                   Began(s) \/ Bookmarked(s) \/ ReadOnly(s) \/ WroteShadow(s)
            PROVE  SameTx(tx[o], tx'[o])
        BY <2>4, <4>2, RanShadows DEF Began, Bookmarked, ReadOnly, WroteShadow, Ran, Others, SameTx
      <4>3. Idle => SameTx(tx[o], tx'[o])
        BY DEF Idle, SameTx
      <4> QED BY <2>4, <4>1, <4>2, <4>3, StepCases DEF SameTx
    <3> QED BY <3>1
  <2> QED BY <2>1, <2>2, <2>3, <2>4
<1> QED BY <1>1, <1>2, StampInvariant, RowInvariant, PTL DEF TxSpec

\* What FrozenView calls the view of a transaction is what its catalog holds of
\* the rows it began with.
ViewIsBegun ==
  \A s \in Sessions : Open(s) /\ tx[s].iso # "RC"
    => BeginView(s) = Ids(Begun(tx[s].cat.rows, tx[s].v))

\* What a frozen transaction sees of the others is read off its shadow.
LEMMA BeginViewIs ==
  ASSUME StampInv, RowInv
  PROVE  ViewIsBegun
<1> SUFFICES ASSUME NEW s \in Sessions, Open(s), tx[s].iso # "RC"
             PROVE  BeginView(s) = Ids(Begun(tx[s].cat.rows, tx[s].v))
  BY DEF ViewIsBegun
<1>1. Catalog(s) = tx[s].cat.rows
  BY CatalogRows
<1>2. \A r \in Catalog(s) : r.xmin # tx[s].v =>
        ((r.xmax = tx[s].v \/ Visible(r, Snapshot(s))) <=> r.xmax \in {Alive, tx[s].v})
  BY VisibleOthers
<1>3. {q \in Catalog(s) : q.xmin # tx[s].v /\ (q.xmax = tx[s].v \/ Visible(q, Snapshot(s)))}
        = {q \in tx[s].cat.rows : q.xmin # tx[s].v /\ q.xmax \in {Alive, tx[s].v}}
  BY <1>1, <1>2
<1>4. BeginView(s) = {r.rid : r \in {q \in tx[s].cat.rows : q.xmin # tx[s].v
                                                   /\ q.xmax \in {Alive, tx[s].v}}}
  BY <1>3 DEF BeginView
<1>5. ASSUME NEW rows
      PROVE  Ids({<<r.rid, r.tab>> : r \in rows}) = {r.rid : r \in rows}
  <2> DEFINE pairs == {<<r.rid, r.tab>> : r \in rows}
  <2>1. \A r \in rows : <<r.rid, r.tab>> \in pairs /\ <<r.rid, r.tab>>[1] = r.rid
    OBVIOUS
  <2>2. \A p \in pairs : \E r \in rows : p[1] = r.rid
    OBVIOUS
  <2> HIDE DEF pairs
  <2>3. Ids(pairs) = {r.rid : r \in rows}
    BY <2>1, <2>2 DEF Ids
  <2> QED BY <2>3 DEF pairs
<1> QED BY <1>4, <1>5 DEF Begun

\* REPEATABLE READ and SERIALIZABLE: from BEGIN to the end of the block, no
\* step of anybody changes which rows of others the transaction sees; commits
\* and autocommit writes elsewhere, its own statements and its own ROLLBACK TO
\* included.
THEOREM ViewStaysFrozen == TxSpec => FrozenView
<1>1. StampInv /\ RowInv => ViewIsBegun
  BY BeginViewIs
<1>2. ASSUME StampInv, RowInv, FrozenInv, ViewIsBegun, ViewIsBegun', [TxNext]_vars
      PROVE  [\A s \in Sessions :
                Open(s) /\ tx[s].iso # "RC" /\ tx'[s].v = tx[s].v
                  => BeginView(s)' = BeginView(s)]_vars
  <2> SUFFICES ASSUME NEW s \in Sessions, Open(s), tx[s].iso # "RC", tx'[s].v = tx[s].v
               PROVE  BeginView(s)' = BeginView(s)
    OBVIOUS
  <2>1. tx'[s] # NoTx
    BY <1>2, OpenShape DEF NoTx
  <2>2. /\ SameTx(tx[s], tx'[s]) /\ tx'[s].cat \in Shadows(tx'[s])
        /\ \A c \in Shadows(tx'[s]) : Begun(c.rows, tx[s].v) = Begun(tx[s].cat.rows, tx[s].v)
    BY <1>2, <2>1, FrozenStep DEF Shadows
  <2>3. BeginView(s) = Ids(Begun(tx[s].cat.rows, tx[s].v))
    BY <1>2 DEF ViewIsBegun
  <2>4. BeginView(s)' = Ids(Begun(tx'[s].cat.rows, tx'[s].v))
    BY <1>2, <2>1, <2>2 DEF ViewIsBegun, Open, SameTx
  <2> QED BY <2>2, <2>3, <2>4 DEF SameTx
<1> QED BY <1>1, <1>2, StampInvariant, RowInvariant, FrozenInvariant, PTL DEF TxSpec, FrozenView

---------------------------------------------------------------------------
(* READ COMMITTED reads the present.                                       *)

LiveRids == {r.rid : r \in Live(base.rows)}

\* touched_tables covers everything the transaction tombstoned.
LEMMA TombstonesAre ==
  ASSUME RowInv, NEW s \in Sessions, Open(s)
  PROVE  Tombstones(tx[s]) = KilledBy(tx[s].cat.rows, tx[s].v)
<1>1. \A r \in tx[s].cat.rows : r.xmax = tx[s].v => r.tab \in tx[s].touched
  BY DEF RowInv, TxRows, OwnRows, Shadows
<1>2. {q \in Written(tx[s]) : q.xmax = tx[s].v} = {q \in tx[s].cat.rows : q.xmax = tx[s].v}
  BY <1>1 DEF Written
<1> QED BY <1>2 DEF Tombstones, TombstonedBy, KilledBy

\* The replay onto the committed rows shows those that live, without those the
\* transaction tombstoned before; and it tombstones no other live one.
LEMMA ReplayCurrent ==
  ASSUME StampInv, RowInv, NEW s \in Sessions, Open(s)
  PROVE  /\ AliveOthers(Replayed(tx[s]), tx[s].v) = LiveRids \ Tombstones(tx[s])
         /\ \A rid \in LiveRids :
              rid \in KilledBy(Replayed(tx[s]), tx[s].v) <=> rid \in Tombstones(tx[s])
<1> DEFINE st    == tx[s]
           v     == st.v
           dead  == ReplayTombstones(st)
           which == dead \ OwnRids(st)
           R     == Replayed(st)
<1>0. v # 0
  BY OpenShape
<1>1. \A b \in base.rows : b.xmin # v /\ b.xmax # v
  BY BaseAndShadow
<1>2. Clean(base.rows, Settled)
  BY DEF StampInv
<1>3. \A b \in Live(base.rows) : b.rid \in which <=> b.rid \in Tombstones(st)
  <2> TAKE b \in Live(base.rows)
  <2>1. b \in base.rows /\ b.xmax = Alive
    BY DEF Live
  <2>2. b.rid \notin OwnRids(st)
    <3>1. \A q \in st.cat.rows : q.rid = b.rid => q.xmin # v
      BY <2>1, BaseAndShadow
    <3> QED BY <3>1 DEF OwnRids, Inserts, InsertedBy, Written
  <2>3. b.rid \notin Conflicted(st)
    BY <2>1 DEF Conflicted
  <2> QED BY <2>2, <2>3 DEF ReplayTombstones
<1>4. \A b \in base.rows : \E r \in R : /\ SameRow(r, b)
                                        /\ \/ b.rid \notin which /\ r = b
                                           \/ b.rid \in which /\ r.xmax = v
  <2> TAKE b \in base.rows
  <2>1. Phase1(st) = Stamped(base.rows, which, v) /\ Phase1(st) \subseteq R
    BY Phase1IsStamped DEF Replayed
  <2> HIDE DEF which, v, R, st
  <2> QED BY <1>2, <2>1, StampedFrom
<1>5. \A r \in R : \/ \E b \in base.rows : SameRow(r, b) /\ r = b /\ b.rid \notin which
                   \/ \E b \in base.rows : SameRow(r, b) /\ r.xmax = v /\ b.rid \in which
                   \/ /\ r.xmin = v
                      /\ \E q \in st.cat.rows : q.xmin = v /\ q.rid = r.rid
                      /\ r.xmax = v => r.rid \in dead
  <2> SUFFICES ASSUME NEW r \in R, NEW q \in ReplayInserts(st), SameRow(r, q),
                      r.xmax = IF q.rid \in dead THEN v ELSE Alive
               PROVE  /\ r.xmin = v
                      /\ \E p \in st.cat.rows : p.xmin = v /\ p.rid = r.rid
                      /\ r.xmax = v => r.rid \in dead
    BY ReplayedRow
  <2>1. q \in st.cat.rows /\ q.xmin = v
    BY ReplayedOwn
  <2> HIDE DEF dead, v, R, st
  <2> QED BY <1>0, <2>1 DEF SameRow, Alive
<1>6. \A b \in base.rows : \A q \in st.cat.rows : q.rid = b.rid => q.xmin # v
  BY BaseAndShadow
<1> HIDE DEF st, v, dead, which, R
<1>7. ASSUME NEW r \in R, r.xmin # v, r.xmax = Alive
      PROVE  r.rid \in LiveRids /\ r.rid \notin Tombstones(st)
  <2>1. PICK b \in base.rows : r = b /\ b.rid \notin which
    BY <1>0, <1>5, <1>7 DEF Alive
  <2>2. b \in Live(base.rows)
    BY <1>7, <2>1 DEF Live
  <2> QED BY <1>3, <2>1, <2>2 DEF LiveRids
<1>8. ASSUME NEW b \in Live(base.rows), b.rid \notin Tombstones(st)
      PROVE  \E r \in R : r.xmin # v /\ r.xmax = Alive /\ r.rid = b.rid
  <2>1. b \in base.rows /\ b.xmax = Alive /\ b.rid \notin which
    BY <1>3, <1>8 DEF Live
  <2> QED BY <1>1, <1>4, <2>1
<1>9. AliveOthers(R, v) = LiveRids \ Tombstones(st)
  BY <1>7, <1>8 DEF AliveOthers, LiveRids
<1>10. ASSUME NEW b \in Live(base.rows)
       PROVE  (\E r \in R : r.xmax = v /\ r.rid = b.rid) <=> b.rid \in Tombstones(st)
  <2>1. b \in base.rows
    BY DEF Live
  <2>2. ASSUME NEW r \in R, r.xmax = v, r.rid = b.rid PROVE b.rid \in which
    <3>1. ~\E q \in st.cat.rows : q.xmin = v /\ q.rid = r.rid
      BY <1>6, <2>1, <2>2
    <3>2. ~\E a \in base.rows : r = a
      BY <1>1, <2>2
    <3> QED BY <1>5, <2>2, <3>1, <3>2 DEF SameRow
  <2>3. ASSUME b.rid \in which PROVE \E r \in R : r.xmax = v /\ r.rid = b.rid
    BY <1>4, <2>1, <2>3 DEF SameRow
  <2> QED BY <1>3, <2>2, <2>3
<1>11. \A rid \in LiveRids : rid \in KilledBy(R, v) <=> rid \in Tombstones(st)
  BY <1>10 DEF LiveRids, KilledBy
<1> QED BY <1>9, <1>11 DEF st, v, R

\* The rebased shadow of a READ COMMITTED transaction is current.
LEMMA CatalogCurrent ==
  ASSUME StampInv, RowInv, CurrentInv, NEW s \in Sessions, Open(s),
         tx[s].iso = "RC", ~tx[s].poisoned
  PROVE  /\ AliveOthers(Catalog(s), tx[s].v) = LiveRids \ KilledBy(Catalog(s), tx[s].v)
         /\ AliveOthers(Catalog(s), tx[s].v) = LiveRids \ Tombstones(tx[s])
<1>1. CASE NeedsRebase(tx[s])
  <2>1. Catalog(s) = Replayed(tx[s])
    BY <1>1, RebasedRows DEF Catalog
  <2> QED BY <2>1, ReplayCurrent
<1>2. CASE ~NeedsRebase(tx[s])
  <2>1. Catalog(s) = tx[s].cat.rows
    BY <1>2, RebasedRows DEF Catalog
  <2>2. tx[s].snap = NoSnap
    BY DEF RowInv, TxRows, SnapOK
  <2>3. tx[s].fresh
    BY <1>2, <2>2 DEF NeedsRebase
  <2>4. AliveOthers(tx[s].cat.rows, tx[s].v) = LiveRids \ KilledBy(tx[s].cat.rows, tx[s].v)
    BY <2>3 DEF CurrentInv, Current, LiveRids
  <2> QED BY <2>1, <2>4, TombstonesAre
<1> QED BY <1>1, <1>2

\* A statement hides from itself what it tombstones, and nothing else.
LEMMA ChangeCurrent ==
  ASSUME StampInv, RowInv, NEW s \in Sessions, Open(s), NEW t, NEW new,
         Change(s, t, Catalog(s), new),
         AliveOthers(Catalog(s), tx[s].v) = LiveRids \ KilledBy(Catalog(s), tx[s].v)
  PROVE  AliveOthers(new, tx[s].v) = LiveRids \ KilledBy(new, tx[s].v)
<1> DEFINE rows == Catalog(s)
           v    == tx[s].v
<1>1. Version(s) = v /\ v # 0
  BY OpenShape DEF Version
<1>2. ASSUME NEW kept, NEW n, n.xmin = v, n.xmax = Alive
      PROVE  AliveOthers(kept \cup {n}, v) = AliveOthers(kept, v)
             /\ KilledBy(kept \cup {n}, v) = KilledBy(kept, v)
  BY <1>1, <1>2 DEF AliveOthers, KilledBy, Alive
<1>3. ASSUME NEW k \in rows, k \in View(s) \/ k.xmax = Alive
      PROVE  /\ AliveOthers(Kill(rows, k.rid, v), v) = AliveOthers(rows, v) \ {k.rid}
             /\ KilledBy(Kill(rows, k.rid, v), v) = KilledBy(rows, v) \cup {k.rid}
  <2> DEFINE dead == Kill(rows, k.rid, v)
  <2>1. /\ k.xmax = Alive
        /\ \A r \in dead : (r \in rows /\ r.rid # k.rid) \/ (SameRow(r, k) /\ r.xmax = v)
        /\ \A q \in rows \ {k} : q \in dead /\ q.rid # k.rid
        /\ \E r \in dead : SameRow(r, k) /\ r.xmax = v
    BY <1>1, <1>3, KillAlive
  <2> HIDE DEF rows, v, dead
  <2>2. ASSUME NEW r \in dead, r.xmin # v, r.xmax = Alive
        PROVE  r \in rows /\ r.rid # k.rid
    BY <1>1, <2>1, <2>2 DEF Alive
  <2>3. ASSUME NEW q \in rows, q.rid # k.rid PROVE q \in dead
    BY <2>1, <2>3
  <2>4. AliveOthers(dead, v) = AliveOthers(rows, v) \ {k.rid}
    BY <2>2, <2>3 DEF AliveOthers
  <2>5. ASSUME NEW r \in dead, r.xmax = v
        PROVE  r.rid = k.rid \/ r \in rows
    BY <2>1 DEF SameRow
  <2>6. ASSUME NEW q \in rows, q.xmax = v PROVE q \in dead
    BY <1>1, <2>1, <2>6 DEF Alive
  <2>7. \E r \in dead : r.rid = k.rid /\ r.xmax = v
    BY <2>1 DEF SameRow
  <2>8. KilledBy(dead, v) = KilledBy(rows, v) \cup {k.rid}
    BY <2>5, <2>6, <2>7 DEF KilledBy
  <2> QED BY <2>4, <2>8 DEF dead
<1>4. AliveOthers(rows, v) = LiveRids \ KilledBy(rows, v)
  OBVIOUS
<1> HIDE DEF rows, v
<1>5. AliveOthers(new, v) = LiveRids \ KilledBy(new, v)
  <2>1. ASSUME NEW k \in rows, k \in View(s) \/ k.xmax = Alive
        PROVE  AliveOthers(Kill(rows, k.rid, v), v) = LiveRids \ KilledBy(Kill(rows, k.rid, v), v)
    BY <1>3, <1>4, <2>1
  <2>2. ASSUME NEW kept, AliveOthers(kept, v) = LiveRids \ KilledBy(kept, v),
               NEW n, n.xmin = v, n.xmax = Alive
        PROVE  AliveOthers(kept \cup {n}, v) = LiveRids \ KilledBy(kept \cup {n}, v)
    BY <1>2, <2>2
  <2> QED BY <1>1, <1>4, <2>1, <2>2, ChangeRows DEF rows
<1> QED BY <1>5 DEF v

\* CurrentInv under every kind of step.
LEMMA CurrentStep ==
  ASSUME StampInv, RowInv, CurrentInv, [TxNext]_vars
  PROVE  CurrentInv'
<1> DEFINE Shows(st, rids) ==
             st.iso = "RC" /\ ~st.poisoned /\ st.fresh
               => AliveOthers(st.cat.rows, st.v) = rids \ KilledBy(st.cat.rows, st.v)
           rids == {r.rid : r \in Live(base'.rows)}
           Goal == \A o \in Sessions : tx'[o] # NoTx => Shows(tx'[o], rids)
<1>0. \A o \in Sessions : Open(o) => Shows(tx[o], LiveRids)
  BY DEF CurrentInv, Current, LiveRids
<1>1. base' = base => rids = LiveRids
  BY DEF LiveRids
<1> HIDE DEF Shows, rids
<1>2. ASSUME Idle PROVE Goal
  <2>1. base' = base /\ tx' = tx
    BY <1>2 DEF Idle
  <2> QED BY <1>0, <1>1, <2>1 DEF Open
<1>3. ASSUME NEW s \in Sessions, Others(s), base' = base, Shows(tx'[s], LiveRids) PROVE Goal
  BY <1>0, <1>1, <1>3 DEF Others, Open
<1>4. ASSUME NEW s \in Sessions, Began(s) PROVE Goal
  <2>1. nextVersion \notin Settled /\ nextVersion # 0
    BY DEF StampInv, Registers, Settled
  <2>2. \A r \in base.rows : r.xmin # nextVersion /\ r.xmax # nextVersion
    BY <2>1 DEF StampInv, Clean
  <2>3. AliveOthers(base.rows, nextVersion) = LiveRids /\ KilledBy(base.rows, nextVersion) = {}
    BY <2>2 DEF AliveOthers, KilledBy, LiveRids, Live
  <2>4. Shows(tx'[s], LiveRids)
    BY <1>4, <2>3 DEF Began, Shows
  <2> QED BY <1>3, <1>4, <2>4 DEF Began
<1>5. ASSUME NEW s \in Sessions, Bookmarked(s) PROVE Goal
  <2>1. Shows(tx'[s], LiveRids)
    BY <1>0, <1>5 DEF Bookmarked, Shows, SameTx
  <2> QED BY <1>3, <1>5, <2>1 DEF Bookmarked
<1>6. ASSUME NEW s \in Sessions, ReadOnly(s) PROVE Goal
  <2>1. /\ Ran(s) /\ Open(s) /\ SameTx(tx[s], tx'[s]) /\ tx'[s].cat.rows = Catalog(s)
        /\ ~tx'[s].poisoned => ~tx[s].poisoned
    BY <1>6, RanShadows, OpenShape, RebaseFields DEF ReadOnly, Ran, Catalog
  <2>2. Shows(tx'[s], LiveRids)
    BY <2>1, CatalogCurrent DEF Shows, SameTx
  <2> QED BY <1>3, <2>1, <2>2 DEF Ran
<1>7. ASSUME NEW s \in Sessions, WroteShadow(s) PROVE Goal
  <2>1. /\ Ran(s) /\ Open(s) /\ SameTx(tx[s], tx'[s]) /\ tx'[s].poisoned = tx[s].poisoned
        /\ \E t : Change(s, t, Catalog(s), tx'[s].cat.rows)
    BY <1>7, RanShadows, OpenShape, RebaseFields DEF WroteShadow, Ran, Catalog
  <2>2. Shows(tx'[s], LiveRids)
    BY <2>1, CatalogCurrent, ChangeCurrent DEF Shows, SameTx
  <2> QED BY <1>3, <2>1, <2>2 DEF Ran
<1>8. ASSUME NEW s \in Sessions, WroteBase(s) \/ Ended(s) PROVE Goal
  <2>1. StaleOthers(s) /\ tx'[s] = NoTx
    BY <1>8 DEF WroteBase, Ended
  <2>2. \A o \in Sessions : tx'[o] # NoTx => tx'[o].fresh = FALSE
    <3> SUFFICES ASSUME NEW o \in Sessions \ {s}, tx'[o] # NoTx PROVE tx'[o].fresh = FALSE
      BY <2>1
    <3> QED BY <2>1, StaleTxs
  <2> QED BY <2>2 DEF Shows
<1>9. Goal
  <2> HIDE DEF Goal
  <2> QED BY <1>2, <1>4, <1>5, <1>6, <1>7, <1>8, StepCases
<1> QED BY <1>9 DEF CurrentInv, Current, Open, Shows, rids

\* The shadows of READ COMMITTED are current.
LEMMA CurrentInvariant == TxSpec => []CurrentInv
<1>1. TxInit => CurrentInv
  BY DEF TxInit, CurrentInv, Open
<1>2. StampInv /\ RowInv /\ CurrentInv /\ [TxNext]_vars => CurrentInv'
  BY CurrentStep
<1> QED BY <1>1, <1>2, StampInvariant, RowInvariant, PTL DEF TxSpec

\* READ COMMITTED: whatever the epoch gate skipped, the rebase dropped or a
\* savepoint restored, the next statement sees the committed rows, but for
\* those its own transaction replaced or deleted.
THEOREM ReadsThePresent == TxSpec => []ReadCommittedIsCurrent
<1>1. StampInv /\ RowInv /\ CurrentInv => ReadCommittedIsCurrent
  <2> SUFFICES ASSUME StampInv, RowInv, CurrentInv, NEW s \in Sessions,
                      Open(s), tx[s].iso = "RC", ~tx[s].poisoned
               PROVE  OthersSeen(s) = {r.rid : r \in Live(base.rows)} \ Tombstones(tx[s])
    BY DEF ReadCommittedIsCurrent
  <2>1. {q \in View(s) : q.xmin # tx[s].v} = {q \in Catalog(s) : q.xmin # tx[s].v /\ q.xmax = Alive}
    BY VisibleOthers DEF View
  <2>2. OthersSeen(s) = AliveOthers(Catalog(s), tx[s].v)
    BY <2>1 DEF OthersSeen, AliveOthers
  <2> QED BY <2>2, CatalogCurrent DEF LiveRids
<1> QED BY <1>1, StampInvariant, RowInvariant, CurrentInvariant, PTL

---------------------------------------------------------------------------
(* A COMMIT leaves alone the tables its transaction did not write.         *)

\* Outside the tables a transaction wrote, the replay is the committed catalog.
LEMMA ReplayOutside ==
  ASSUME StampInv, RowInv, NEW s \in Sessions, Open(s), NEW D, WroteIn(tx[s].cat.rows, tx[s].v, D)
  PROVE  /\ Outside(Replayed(tx[s]), D) = Outside(base.rows, D)
         /\ WroteIn(Replayed(tx[s]), tx[s].v, D)
<1> DEFINE st    == tx[s]
           v     == st.v
           dead  == ReplayTombstones(st)
           which == dead \ OwnRids(st)
           R     == Replayed(st)
<1>1. \A b \in base.rows : b.xmin # v /\ b.xmax # v
  BY BaseAndShadow
<1>2. Clean(base.rows, Settled)
  BY DEF StampInv
<1>3. \A b \in base.rows : b.rid \in which => b.tab \in D
  <2> SUFFICES ASSUME NEW b \in base.rows, b.rid \in which PROVE b.tab \in D
    OBVIOUS
  <2>1. PICK q \in st.cat.rows : q.xmax = v /\ q.rid = b.rid
    BY DEF ReplayTombstones, Tombstones, TombstonedBy, Written
  <2>2. b \in Known /\ q \in Known
    BY KnownRows DEF Shadows
  <2>3. SameRow(q, b)
    BY <2>1, <2>2 DEF RowInv
  <2> QED BY <2>1, <2>3 DEF WroteIn, SameRow
<1>4. \A b \in base.rows : b.rid \notin which => b \in R
  <2> TAKE b \in base.rows
  <2>1. Phase1(st) = Stamped(base.rows, which, v) /\ Phase1(st) \subseteq R
    BY Phase1IsStamped DEF Replayed
  <2> HIDE DEF which, v, R, st
  <2> QED BY <2>1 DEF Stamped
<1>5. \A r \in R : r \in base.rows \/ r.tab \in D
  <2> TAKE r \in R
  <2>1. CASE \E b \in base.rows : SameRow(r, b) /\ b.rid \in which
    BY <1>3, <2>1 DEF SameRow
  <2>2. CASE \E q \in ReplayInserts(st) : SameRow(r, q)
    BY <2>2, ReplayedOwn DEF SameRow, WroteIn
  <2> QED BY <2>1, <2>2, ReplayedRow
<1> HIDE DEF st, v, which, R
<1>6. Outside(R, D) = Outside(base.rows, D)
  BY <1>3, <1>4, <1>5 DEF Outside
<1>7. WroteIn(R, v, D)
  BY <1>1, <1>5 DEF WroteIn
<1> QED BY <1>6, <1>7 DEF R, st, v

\* A statement writes the one table it adds to the dirty window.
LEMMA ChangeOutside ==
  ASSUME StampInv, RowInv, NEW s \in Sessions, Open(s), NEW t, NEW new,
         Change(s, t, Catalog(s), new), NEW D, WroteIn(Catalog(s), tx[s].v, D)
  PROVE  /\ Outside(new, D \cup {t}) = Outside(Catalog(s), D \cup {t})
         /\ WroteIn(new, tx[s].v, D \cup {t})
<1> DEFINE rows == Catalog(s)
           v    == tx[s].v
           E    == D \cup {t}
           Good(R) == Outside(R, E) = Outside(rows, E) /\ WroteIn(R, v, E)
<1>1. Version(s) = v
  BY DEF Version
<1>2. Good(rows)
  BY DEF WroteIn
<1>3. ASSUME NEW k \in rows, k.tab = t, k \in View(s) \/ k.xmax = Alive
      PROVE  Good(Kill(rows, k.rid, v))
  <2> DEFINE dead == Kill(rows, k.rid, v)
  <2>1. /\ \A r \in dead : (r \in rows /\ r.rid # k.rid) \/ (SameRow(r, k) /\ r.xmax = v)
        /\ \A q \in rows \ {k} : q \in dead
    BY <1>1, <1>3, KillAlive
  <2>2. WroteIn(rows, v, E)
    BY <1>2
  <2> HIDE DEF rows, v, dead, E
  <2>3. t \in E
    BY DEF E
  <2>4. \A r \in dead : r \in rows \/ r.tab \in E
    BY <1>3, <2>1, <2>3 DEF SameRow
  <2>5. \A q \in rows : q \in dead \/ q.tab \in E
    BY <1>3, <2>1, <2>3
  <2> QED BY <2>2, <2>4, <2>5 DEF Outside, WroteIn, dead
<1>4. ASSUME NEW R, Good(R), NEW n, n.tab = t
      PROVE  Good(R \cup {n})
  BY <1>4 DEF Outside, WroteIn
<1> HIDE DEF Good, rows
<1>5. Good(new)
  BY <1>1, <1>2, <1>3, <1>4, ChangeRows DEF rows
<1> QED BY <1>5 DEF Good, rows

\* The dirty window and the epoch gate of a rebased shadow.
LEMMA RebasedDirty ==
  ASSUME StampInv, RowInv, DirtyInv, NEW s \in Sessions, Open(s)
  PROVE  LET rb == Rebased(tx[s])
         IN  /\ WroteIn(rb.cat.rows, tx[s].v, rb.cat.dirty)
             /\ rb.cat.dirty = tx[s].cat.dirty
             /\ tx[s].iso = "RC" /\ ~tx[s].poisoned
                  => /\ Outside(rb.cat.rows, rb.cat.dirty) = Outside(base.rows, rb.cat.dirty)
                     /\ rb.cat.ddl = base.ddl
<1> DEFINE st == tx[s]
<1>1. DirtyTx(st) /\ TxShape(st) /\ st.cat \in Shadows(st)
  BY OpenShape DEF DirtyInv, Shadows
<1>2. WroteIn(st.cat.rows, st.v, st.cat.dirty)
  BY <1>1 DEF DirtyTx
<1>3. CASE NeedsRebase(st)
  <2>1. Rebased(st).cat = OntoBase(st)
    BY <1>1, <1>3, RebaseFields
  <2>2. /\ OntoBase(st).rows = Replayed(st) /\ OntoBase(st).ddl = base.ddl
        /\ OntoBase(st).dirty = st.cat.dirty
    BY DEF OntoBase
  <2> QED BY <1>2, <2>1, <2>2, ReplayOutside
<1>4. CASE ~NeedsRebase(st)
  <2>1. Rebased(st) = st
    BY <1>4 DEF Rebased
  <2>2. st.iso = "RC" /\ ~st.poisoned => st.fresh
    BY <1>4 DEF NeedsRebase, RowInv, TxRows, SnapOK
  <2> QED BY <1>1, <1>2, <2>1, <2>2 DEF DirtyTx
<1> QED BY <1>3, <1>4

\* DirtyInv under every kind of step.
LEMMA DirtyStep ==
  ASSUME StampInv, RowInv, DirtyInv, [TxNext]_vars
  PROVE  DirtyInv'
<1> DEFINE Shows(st, cat) ==
             st.iso = "RC" /\ ~st.poisoned /\ st.fresh
               => /\ Outside(st.cat.rows, st.cat.dirty) = Outside(cat.rows, st.cat.dirty)
                  /\ st.cat.ddl = cat.ddl
           Covered(st) == \A c \in Shadows(st) : WroteIn(c.rows, st.v, c.dirty)
           Used(st) == st.shadowDirty /\ ~st.poisoned => st.touched # {}
           Good(st) == Covered(st) /\ Used(st)
           Goal == \A o \in Sessions : tx'[o] # NoTx => Good(tx'[o]) /\ Shows(tx'[o], base')
<1>0. \A o \in Sessions : Open(o) => Good(tx[o]) /\ Shows(tx[o], base)
  BY DEF DirtyInv, DirtyTx
<1> HIDE DEF Shows, Covered, Used
<1>1. ASSUME NEW s \in Sessions, Others(s), base' = base,
             Covered(tx'[s]), Used(tx'[s]), Shows(tx'[s], base)
      PROVE  Goal
  BY <1>0, <1>1 DEF Others, Open
<1>2. ASSUME Idle PROVE Goal
  <2>1. base' = base /\ tx' = tx
    BY <1>2 DEF Idle
  <2> QED BY <1>0, <2>1 DEF Open
<1>3. ASSUME NEW s \in Sessions, Began(s) PROVE Goal
  <2>1. nextVersion \notin Settled
    BY DEF StampInv, Registers, Settled
  <2>2. \A r \in base.rows : r.xmin # nextVersion /\ r.xmax # nextVersion
    BY <2>1 DEF StampInv, Clean
  <2>3. Covered(tx'[s]) /\ Used(tx'[s])
    BY <1>3, <2>2 DEF Began, Covered, Used, WroteIn
  <2>4. Shows(tx'[s], base)
    BY <1>3 DEF Began, Shows
  <2> QED BY <1>1, <1>3, <2>3, <2>4 DEF Began
<1>4. ASSUME NEW s \in Sessions, Bookmarked(s) PROVE Goal
  <2>1. Covered(tx'[s])
    BY <1>0, <1>4 DEF Bookmarked, Covered, SameTx
  <2>2. Used(tx'[s])
    BY <1>0, <1>4 DEF Bookmarked, Used
  <2>3. Shows(tx'[s], base)
    BY <1>0, <1>4 DEF Bookmarked, Shows, SameTx
  <2> QED BY <1>1, <1>4, <2>1, <2>2, <2>3 DEF Bookmarked
<1>5. ASSUME NEW s \in Sessions, Ran(s), WroteIn(tx'[s].cat.rows, tx[s].v, tx'[s].cat.dirty)
      PROVE  Covered(tx'[s])
  <2>1. Open(s) /\ SameTx(tx[s], tx'[s])
        /\ Shadows(tx'[s]) \subseteq Shadows(tx[s]) \cup {tx'[s].cat}
    BY <1>5, RanShadows DEF Ran
  <2> QED BY <1>0, <1>5, <2>1 DEF Covered, SameTx
<1>6. ASSUME NEW s \in Sessions, ReadOnly(s) PROVE Goal
  <2> DEFINE rb == Rebased(tx[s])
  <2>1. /\ Ran(s) /\ Open(s) /\ SameTx(tx[s], tx'[s])
        /\ tx'[s].cat.rows = rb.cat.rows /\ rb.cat.dirty \subseteq tx'[s].cat.dirty
        /\ tx'[s].touched = tx[s].touched
        /\ ~tx'[s].poisoned => /\ ~tx[s].poisoned /\ tx'[s].cat = rb.cat
                               /\ tx'[s].shadowDirty = tx[s].shadowDirty
    BY <1>6, RanShadows, OpenShape, RebaseFields DEF ReadOnly, Ran
  <2>2. /\ WroteIn(rb.cat.rows, tx[s].v, rb.cat.dirty)
        /\ tx[s].iso = "RC" /\ ~tx[s].poisoned
             => /\ Outside(rb.cat.rows, rb.cat.dirty) = Outside(base.rows, rb.cat.dirty)
                /\ rb.cat.ddl = base.ddl
    BY <2>1, RebasedDirty
  <2> HIDE DEF rb
  <2>3. Covered(tx'[s])
    BY <1>5, <2>1, <2>2 DEF WroteIn
  <2>4. Used(tx'[s])
    BY <1>0, <2>1 DEF Used
  <2>5. Shows(tx'[s], base)
    BY <2>1, <2>2 DEF Shows, SameTx
  <2> QED BY <1>1, <2>1, <2>3, <2>4, <2>5 DEF Ran
<1>7. ASSUME NEW s \in Sessions, WroteShadow(s) PROVE Goal
  <2> DEFINE rb == Rebased(tx[s])
  <2>1. /\ Ran(s) /\ Open(s) /\ SameTx(tx[s], tx'[s]) /\ rb.cat.rows = Catalog(s)
        /\ tx'[s].poisoned = tx[s].poisoned /\ tx'[s].cat.ddl = rb.cat.ddl
    BY <1>7, RanShadows, OpenShape, RebaseFields DEF WroteShadow, Ran, Catalog
  <2>2. PICK t : /\ tx'[s].touched = rb.touched \cup {t}
                 /\ tx'[s].cat.dirty = rb.cat.dirty \cup {t}
                 /\ Change(s, t, Catalog(s), tx'[s].cat.rows)
    BY <1>7, <2>1 DEF WroteShadow
  <2>3. /\ WroteIn(Catalog(s), tx[s].v, rb.cat.dirty)
        /\ tx[s].iso = "RC" /\ ~tx[s].poisoned
             => /\ Outside(Catalog(s), rb.cat.dirty) = Outside(base.rows, rb.cat.dirty)
                /\ rb.cat.ddl = base.ddl
    BY <2>1, RebasedDirty
  <2>4. /\ Outside(tx'[s].cat.rows, tx'[s].cat.dirty) = Outside(Catalog(s), tx'[s].cat.dirty)
        /\ WroteIn(tx'[s].cat.rows, tx[s].v, tx'[s].cat.dirty)
    BY <2>1, <2>2, <2>3, ChangeOutside
  <2> HIDE DEF rb
  <2>5. \A R, Q : Outside(R, rb.cat.dirty) = Outside(Q, rb.cat.dirty)
                    => Outside(R, rb.cat.dirty \cup {t}) = Outside(Q, rb.cat.dirty \cup {t})
    BY DEF Outside
  <2>6. Covered(tx'[s])
    BY <1>5, <2>1, <2>4
  <2>7. Used(tx'[s])
    BY <2>2 DEF Used
  <2>8. Shows(tx'[s], base)
    BY <2>1, <2>2, <2>3, <2>4, <2>5 DEF Shows, SameTx
  <2> QED BY <1>1, <2>1, <2>6, <2>7, <2>8 DEF Ran
<1>8. ASSUME NEW s \in Sessions, WroteBase(s) \/ Ended(s) PROVE Goal
  <2>1. StaleOthers(s) /\ tx'[s] = NoTx
    BY <1>8 DEF WroteBase, Ended
  <2> SUFFICES ASSUME NEW o \in Sessions \ {s}, tx'[o] # NoTx
               PROVE  Good(tx'[o]) /\ Shows(tx'[o], base')
    BY <2>1
  <2>2. /\ Open(o) /\ Shadows(tx'[o]) = Shadows(tx[o]) /\ SameTx(tx[o], tx'[o])
        /\ tx'[o].touched = tx[o].touched /\ tx'[o].fresh = FALSE
        /\ tx'[o].poisoned = tx[o].poisoned /\ tx'[o].shadowDirty = tx[o].shadowDirty
    BY <2>1, StaleTxs
  <2>3. Covered(tx'[o])
    BY <1>0, <2>2 DEF Covered, SameTx
  <2>4. Used(tx'[o])
    BY <1>0, <2>2 DEF Used
  <2>5. Shows(tx'[o], base')
    BY <2>2 DEF Shows
  <2> QED BY <2>3, <2>4, <2>5
<1>9. Goal
  <2> HIDE DEF Goal
  <2> QED BY <1>2, <1>3, <1>4, <1>6, <1>7, <1>8, StepCases
<1> QED BY <1>9 DEF DirtyInv, DirtyTx, Open, Shows, Covered, Used

\* The dirty window is exact enough for every merge a COMMIT may do.
LEMMA DirtyInvariant == TxSpec => []DirtyInv
<1>1. TxInit => DirtyInv
  BY DEF TxInit, DirtyInv, Open
<1>2. StampInv /\ RowInv /\ DirtyInv /\ [TxNext]_vars => DirtyInv'
  BY DirtyStep
<1> QED BY <1>1, <1>2, StampInvariant, RowInvariant, PTL DEF TxSpec

\* Whichever way a COMMIT merges, it installs the committed catalog outside the
\* dirty window; unless redo capture makes it install a shadow nobody wrote.
LEMMA InstalledOutside ==
  ASSUME StampInv, RowInv, DirtyInv, NEW s \in Sessions, Open(s), RedoCapture = FALSE
  PROVE  /\ Outside(Installed(tx[s]).rows, tx[s].cat.dirty) = Outside(base.rows, tx[s].cat.dirty)
         /\ \A t \in Tabs \ tx[s].cat.dirty : Installed(tx[s]).ddl[t] = base.ddl[t]
<1> DEFINE st == tx[s]
           D  == st.cat.dirty
           Kept(cat) == /\ Outside(cat.rows, D) = Outside(base.rows, D)
                        /\ \A t \in Tabs \ D : cat.ddl[t] = base.ddl[t]
<1>1. DirtyTx(st) /\ SnapOK(st) /\ st.cat \in Shadows(st)
  BY DEF DirtyInv, RowInv, TxRows, Shadows
<1>2. WroteIn(st.cat.rows, st.v, D)
  BY <1>1 DEF DirtyTx
<1>3. Kept(OntoBase(st))
  BY <1>2, ReplayOutside DEF OntoBase
<1>4. Kept(TableMerge(st))
  BY DEF TableMerge, Outside
<1>5. ~st.poisoned /\ st.shadowDirty => Kept(Ready(st))
  <2> SUFFICES ASSUME ~st.poisoned, st.shadowDirty, ~Merges(st) PROVE Kept(Rebased(st).cat)
    BY <1>3 DEF Ready
  <2>1. st.snap = NoSnap
    BY <1>1 DEF Merges, DirtyTx
  <2>2. st.iso = "RC"
    BY <1>1, <2>1 DEF SnapOK
  <2>3. /\ Rebased(st).cat.dirty = D
        /\ Outside(Rebased(st).cat.rows, Rebased(st).cat.dirty)
             = Outside(base.rows, Rebased(st).cat.dirty)
        /\ Rebased(st).cat.ddl = base.ddl
    BY <2>2, RebasedDirty
  <2> QED BY <2>3
<1>6. Kept(base)
  OBVIOUS
<1> HIDE DEF st, D
<1> QED BY <1>4, <1>5, <1>6 DEF Installed, st, D

\* COMMIT changes no table its transaction did not write: be it merged by rows
\* or by tables, rebased, restored by ROLLBACK TO or never written at all.
THEOREM CommitKeepsOtherTables ==
  ASSUME RedoCapture = FALSE
  PROVE  TxSpec => OtherTablesKept
<1>1. ASSUME StampInv, RowInv, DirtyInv, [TxNext]_vars
      PROVE  [\A s \in Sessions :
                Open(s) /\ tx'[s] = NoTx /\ Commit(s)
                  => \A t \in Tabs \ tx[s].cat.dirty :
                       /\ InTab(base'.rows, t) = InTab(base.rows, t)
                       /\ base'.ddl[t] = base.ddl[t]]_vars
  <2> SUFFICES ASSUME NEW s \in Sessions, Open(s), Commit(s),
                      NEW t \in Tabs \ tx[s].cat.dirty
               PROVE  /\ InTab(base'.rows, t) = InTab(base.rows, t)
                      /\ base'.ddl[t] = base.ddl[t]
    OBVIOUS
  <2>1. base' = Installed(tx[s])
    BY DEF Commit
  <2>2. /\ Outside(base'.rows, tx[s].cat.dirty) = Outside(base.rows, tx[s].cat.dirty)
        /\ base'.ddl[t] = base.ddl[t]
    BY <1>1, <2>1, InstalledOutside
  <2>3. \A R, Q : Outside(R, tx[s].cat.dirty) = Outside(Q, tx[s].cat.dirty)
                    => InTab(R, t) = InTab(Q, t)
    BY DEF Outside, InTab
  <2> QED BY <2>2, <2>3
<1> QED BY <1>1, StampInvariant, RowInvariant, DirtyInvariant, PTL DEF TxSpec, OtherTablesKept

---------------------------------------------------------------------------
(* Serializable reads.                                                     *)

\* The rows of one table a transaction began with.
LEMMA BeginRowsOf ==
  ASSUME NEW st, NEW t
  PROVE  BeginRows(st, t) = Ids({p \in Begun(st.cat.rows, st.v) : p[2] = t})
<1> DEFINE rows  == {q \in st.cat.rows : q.xmin # st.v /\ q.xmax \in {Alive, st.v}}
           pairs == {<<r.rid, r.tab>> : r \in rows}
<1>1. {q \in InTab(st.cat.rows, t) : q.xmin # st.v /\ q.xmax \in {Alive, st.v}}
        = {q \in rows : q.tab = t}
  BY DEF InTab
<1>2. BeginRows(st, t) = {r.rid : r \in {q \in rows : q.tab = t}}
  BY <1>1 DEF BeginRows
<1>3. Begun(st.cat.rows, st.v) = pairs
  BY DEF Begun
<1> HIDE DEF rows
<1>4. \A r \in rows : \E p \in pairs : p[1] = r.rid /\ p[2] = r.tab
  <2> TAKE r \in rows
  <2> WITNESS <<r.rid, r.tab>> \in pairs
  <2> QED OBVIOUS
<1>5. \A p \in pairs : \E r \in rows : p[1] = r.rid /\ p[2] = r.tab
  OBVIOUS
<1> HIDE DEF pairs
<1>6. Ids({p \in pairs : p[2] = t}) = {r.rid : r \in {q \in rows : q.tab = t}}
  BY <1>4, <1>5 DEF Ids
<1> QED BY <1>2, <1>3, <1>6

\* Of a catalog cloned a moment ago these are the committed rows alive.
LEMMA BeginRowsNow ==
  ASSUME StampInv, NEW st, st.cat.rows = base.rows, st.v = nextVersion, NEW t
  PROVE  BeginRows(st, t) = {r.rid : r \in Live(InTab(base.rows, t))}
<1>1. nextVersion \notin Settled
  BY DEF StampInv, Registers, Settled
<1>2. \A r \in base.rows : r.xmin # nextVersion /\ r.xmax # nextVersion
  BY <1>1 DEF StampInv, Clean
<1>3. {q \in InTab(st.cat.rows, t) : q.xmin # st.v /\ q.xmax \in {Alive, st.v}}
        = Live(InTab(base.rows, t))
  BY <1>2 DEF InTab, Live
<1> QED BY <1>3 DEF BeginRows

\* SerInv under every kind of step.
LEMMA SerStep ==
  ASSUME StampInv, RowInv, FrozenInv, DirtyInv, TxTypeOK, SerInv, [TxNext]_vars,
         RedoCapture = FALSE, Ops \cap {"auto", "alter"} = {}
  PROVE  SerInv'
<1> DEFINE Counted(st) == \A c \in Shadows(st) : c.dirty \subseteq st.touched
           Rows(t) == {r.rid : r \in Live(InTab(base.rows, t))}
           Kept == /\ base' = base /\ NoCommit
           Goal == \A o \in Sessions : tx'[o] # NoTx =>
                     /\ tx'[o].beginSeq <= commitSeq' /\ Counted(tx'[o])
                     /\ tx'[o].iso # "RC" =>
                          \A t \in Tabs : lastCommit'[t] <= tx'[o].beginSeq =>
                            BeginRows(tx'[o], t) = {r.rid : r \in Live(InTab(base'.rows, t))}
<1>0. /\ \A o \in Sessions : Open(o) =>
           /\ tx[o].beginSeq <= commitSeq /\ Counted(tx[o]) /\ tx[o].beginSeq \in Nat
           /\ tx[o].iso # "RC" => \A t \in Tabs : lastCommit[t] <= tx[o].beginSeq
                                                    => BeginRows(tx[o], t) = Rows(t)
      /\ commitSeq \in Nat
  BY DEF SerInv, SerTx, TxTypeOK, TxType
<1>1. ASSUME NEW o \in Sessions, Open(o), tx[o].iso # "RC", tx'[o] # NoTx, NEW t
      PROVE  BeginRows(tx'[o], t) = BeginRows(tx[o], t)
  <2>1. tx'[o].cat \in Shadows(tx'[o]) /\ SameTx(tx[o], tx'[o])
    BY <1>1, FrozenStep DEF Shadows
  <2>2. Begun(tx'[o].cat.rows, tx'[o].v) = Begun(tx[o].cat.rows, tx[o].v)
    BY <1>1, <2>1, FrozenStep DEF SameTx
  <2> QED BY <2>2, BeginRowsOf
<1> HIDE DEF Counted, Rows
<1>2. ASSUME NEW s \in Sessions, Others(s), Kept, Open(s), tx'[s] # NoTx => Counted(tx'[s]),
             SameTx(tx[s], tx'[s])
      PROVE  Goal
  <2>1. \A t : Rows(t) = {r.rid : r \in Live(InTab(base'.rows, t))}
    BY <1>2 DEF Rows
  <2>2. \A o \in Sessions \ {s} : tx'[o] = tx[o]
    BY <1>2 DEF Others
  <2> QED BY <1>0, <1>1, <1>2, <2>1, <2>2 DEF NoCommit, Open, SameTx
<1>3. ASSUME Idle PROVE Goal
  <2>1. base' = base /\ tx' = tx /\ commitSeq' = commitSeq /\ lastCommit' = lastCommit
    BY <1>3 DEF Idle, NoCommit
  <2> QED BY <1>0, <2>1 DEF Open, Rows
<1>4. ASSUME NEW s \in Sessions, Began(s) PROVE Goal
  <2>1. /\ \A o \in Sessions \ {s} : tx'[o] = tx[o]
        /\ base' = base /\ commitSeq' = commitSeq /\ lastCommit' = lastCommit
    BY <1>4 DEF Began, Others, NoCommit
  <2>2. tx'[s].beginSeq <= commitSeq /\ Counted(tx'[s])
    BY <1>0, <1>4 DEF Began, Counted
  <2>3. \A t : BeginRows(tx'[s], t) = Rows(t)
    BY <1>4, BeginRowsNow DEF Began, Rows
  <2> QED BY <1>0, <2>1, <2>2, <2>3 DEF Open, Rows
<1>5. ASSUME NEW s \in Sessions, Bookmarked(s) PROVE Goal
  <2>1. Counted(tx'[s])
    BY <1>0, <1>5 DEF Bookmarked, Counted
  <2> QED BY <1>2, <1>5, <2>1 DEF Bookmarked
<1>6. ASSUME NEW s \in Sessions, Ran(s), tx[s].touched \subseteq tx'[s].touched,
             tx'[s].cat.dirty \subseteq tx'[s].touched
      PROVE  Goal
  <2>1. /\ Open(s) /\ SameTx(tx[s], tx'[s]) /\ Others(s) /\ Kept
        /\ Shadows(tx'[s]) \subseteq Shadows(tx[s]) \cup {tx'[s].cat}
    BY <1>6, RanShadows DEF Ran
  <2>2. Counted(tx'[s])
    BY <1>0, <1>6, <2>1 DEF Counted
  <2> QED BY <1>2, <2>1, <2>2
<1>7. ASSUME NEW s \in Sessions, Open(s)
      PROVE  /\ Rebased(tx[s]).cat.dirty \subseteq tx[s].touched
             /\ Rebased(tx[s]).touched = tx[s].touched
  <2>1. tx[s].cat.dirty \subseteq tx[s].touched
    BY <1>0, <1>7 DEF Counted, Shadows
  <2> QED BY <1>7, <2>1, RebasedDirty, OpenShape, RebaseFields
<1>8. ASSUME NEW s \in Sessions, ReadOnly(s) PROVE Goal
  <2>1. /\ Ran(s) /\ Open(s) /\ tx'[s].touched = Rebased(tx[s]).touched
        /\ tx'[s].cat.dirty = Rebased(tx[s]).cat.dirty
    BY <1>8 DEF ReadOnly, Ran
  <2> QED BY <1>6, <1>7, <2>1
<1>9. ASSUME NEW s \in Sessions, WroteShadow(s) PROVE Goal
  <2>1. /\ Ran(s) /\ Open(s)
        /\ \E t : /\ tx'[s].touched = Rebased(tx[s]).touched \cup {t}
                  /\ tx'[s].cat.dirty = Rebased(tx[s]).cat.dirty \cup {t}
    BY <1>9 DEF WroteShadow, Ran
  <2>2. tx[s].touched \subseteq tx'[s].touched /\ tx'[s].cat.dirty \subseteq tx'[s].touched
    BY <1>7, <2>1
  <2> QED BY <1>6, <2>1, <2>2
<1>10. ASSUME NEW s \in Sessions, Ended(s) PROVE Goal
  <2>1. StaleOthers(s) /\ tx'[s] = NoTx /\ Open(s)
    BY <1>10 DEF Ended
  <2> SUFFICES ASSUME NEW o \in Sessions \ {s}, tx'[o] # NoTx
               PROVE  /\ tx'[o].beginSeq <= commitSeq' /\ Counted(tx'[o])
                      /\ tx'[o].iso # "RC" =>
                           \A t \in Tabs : lastCommit'[t] <= tx'[o].beginSeq =>
                             BeginRows(tx'[o], t) = {r.rid : r \in Live(InTab(base'.rows, t))}
    BY <2>1
  <2>2. /\ Open(o) /\ Shadows(tx'[o]) = Shadows(tx[o]) /\ SameTx(tx[o], tx'[o])
        /\ tx'[o].touched = tx[o].touched
    BY <2>1, StaleTxs
  <2>3. Counted(tx'[o])
    BY <1>0, <2>2 DEF Counted
  <2>4. tx'[o].beginSeq = tx[o].beginSeq /\ tx'[o].iso = tx[o].iso
    BY <2>2 DEF SameTx
  <2>5. ASSUME base' = base, NoCommit
        PROVE  /\ tx'[o].beginSeq <= commitSeq'
               /\ tx'[o].iso # "RC" =>
                    \A t \in Tabs : lastCommit'[t] <= tx'[o].beginSeq =>
                      BeginRows(tx'[o], t) = {r.rid : r \in Live(InTab(base'.rows, t))}
    BY <1>0, <1>1, <2>2, <2>4, <2>5 DEF NoCommit, Rows
  <2>6. ASSUME base' = Installed(tx[s]), commitSeq' = commitSeq + 1,
               lastCommit' = [t \in Tabs |-> IF t \in tx[s].touched THEN commitSeq + 1
                                             ELSE lastCommit[t]]
        PROVE  /\ tx'[o].beginSeq <= commitSeq'
               /\ tx'[o].iso # "RC" =>
                    \A t \in Tabs : lastCommit'[t] <= tx'[o].beginSeq =>
                      BeginRows(tx'[o], t) = {r.rid : r \in Live(InTab(base'.rows, t))}
    <3>1. tx'[o].beginSeq <= commitSeq'
      BY <1>0, <2>2, <2>4, <2>6
    <3> SUFFICES ASSUME tx[o].iso # "RC", NEW t \in Tabs, lastCommit'[t] <= tx[o].beginSeq
                 PROVE  BeginRows(tx'[o], t) = {r.rid : r \in Live(InTab(base'.rows, t))}
      BY <2>4, <3>1
    <3>2. t \notin tx[s].touched /\ lastCommit'[t] = lastCommit[t]
      BY <1>0, <2>2, <2>6
    <3>3. t \notin tx[s].cat.dirty
      BY <1>0, <2>1, <3>2 DEF Counted, Shadows
    <3>4. Outside(base'.rows, tx[s].cat.dirty) = Outside(base.rows, tx[s].cat.dirty)
      BY <2>1, <2>6, InstalledOutside
    <3>5. InTab(base'.rows, t) = InTab(base.rows, t)
      <4>1. \A R : InTab(R, t) = InTab(Outside(R, tx[s].cat.dirty), t)
        BY <3>3 DEF InTab, Outside
      <4> QED BY <3>4, <4>1
    <3> QED BY <1>0, <1>1, <2>2, <3>2, <3>5 DEF Rows
  <2> QED BY <1>10, <2>3, <2>5, <2>6 DEF Ended
<1>11. ASSUME NEW s \in Sessions PROVE ~WroteBase(s)
  BY DEF WroteBase
<1>12. Goal
  <2> HIDE DEF Goal
  <2> QED BY <1>3, <1>4, <1>5, <1>8, <1>9, <1>10, <1>11, StepCases
<1> QED BY <1>12 DEF SerInv, SerTx, Open, Counted

\* A SERIALIZABLE transaction commits only while what it read is still what is
\* committed.  The theorem needs every writer to be a transaction that counts
\* its writes in table_last_commit: an autocommit statement does not, ALTER
\* does not, and with redo capture a COMMIT may install a shadow it never wrote.
THEOREM SerializableIsSerial ==
  ASSUME RedoCapture = FALSE, Ops \cap {"auto", "alter"} = {}
  PROVE  TxSpec => SerializableReads
<1>1. TxInit => SerInv
  BY DEF TxInit, SerInv, Open
<1>2. /\ StampInv /\ RowInv /\ FrozenInv /\ DirtyInv /\ TxTypeOK /\ SerInv /\ [TxNext]_vars
      => SerInv'
  BY SerStep
<1>3. ASSUME SerInv, TxTypeOK, [TxNext]_vars
      PROVE  [\A s \in Sessions :
                Open(s) /\ tx[s].iso = "SER" /\ tx'[s] = NoTx /\ Commit(s)
                  => \A t \in tx[s].reads :
                       BeginRows(tx[s], t) = {r.rid : r \in Live(InTab(base.rows, t))}]_vars
  <2> SUFFICES ASSUME NEW s \in Sessions, Open(s), tx[s].iso = "SER", Commit(s),
                      NEW t \in tx[s].reads
               PROVE  BeginRows(tx[s], t) = {r.rid : r \in Live(InTab(base.rows, t))}
    OBVIOUS
  <2>1. t \in Tabs /\ tx[s].beginSeq \in Nat /\ lastCommit[t] \in Nat
    BY <1>3 DEF TxTypeOK, TxType
  <2>2. ~(lastCommit[t] > tx[s].beginSeq)
    BY DEF Commit, Refused, ReadConflict
  <2>3. lastCommit[t] <= tx[s].beginSeq
    BY <2>1, <2>2
  <2> QED BY <1>3, <2>1, <2>3 DEF SerInv, SerTx
<1> QED
  BY <1>1, <1>2, <1>3, StampInvariant, RowInvariant, FrozenInvariant, DirtyInvariant, TxTypes, PTL
     DEF TxSpec, SerializableReads

---------------------------------------------------------------------------
(* What clients were told is what the committed catalog holds.             *)

\* The live rows that descend from one INSERT.
Now(rows, o) == {r \in Live(rows) : r.org = o}

\* Those a transaction found when it began, or at its last rebase: alive, or
\* tombstoned by itself.
Theirs(rows, v, o) == {r \in rows : r.org = o /\ r.xmin # v /\ r.xmax \in {Alive, v}}

Sole(r, rows) == rows = {r}

\* Nothing, or one row that carries these updates.
Only(now, gone, by) ==
  IF gone THEN now = {} ELSE \E r \in now : r.by = by /\ \A q \in now : q = r

\* What is left of a row that carried `by`, after the changes claimed of it.
Fate(rows, K, v, o, by) ==
  Only(Now(rows, o), <<"del", o>> \in K, IF <<"upd", o>> \in K THEN by \cup {v} ELSE by)

Lineage(rows, K, v, o) ==
  /\ \A r, q \in Theirs(rows, v, o) : r = q
  /\ \A r \in Theirs(rows, v, o) :
       /\ <<"ins", o>> \notin K
       /\ r.xmax = Alive => <<"upd", o>> \notin K /\ <<"del", o>> \notin K
       /\ Fate(rows, K, v, o, r.by)
  /\ <<"ins", o>> \in K => Fate(rows, K, v, o, {})
  /\ Theirs(rows, v, o) = {} /\ <<"ins", o>> \notin K
       => Now(rows, o) = {} /\ <<"upd", o>> \notin K /\ <<"del", o>> \notin K

\* A shadow of version v is what it started from with the changes K that its
\* client was told of, and no others.
Delta(rows, K, v) == \A o : Lineage(rows, K, v, o)

\* The rows of others in a shadow are the rows of B that live.
Based(B, rows, v) ==
  /\ \A b \in Live(B) : \E r \in rows : SameRow(r, b) /\ r.xmax \in {Alive, v}
  /\ \A r \in rows : r.xmin # v /\ r.xmax \in {Alive, v} => \E b \in Live(B) : SameRow(r, b)

\* The versions that told a client of such a change, by the history T.
Said(T, kind, o) == {c[3] : c \in {d \in T : d[1] = kind /\ d[2] = o}}

\* The rows are what the history says they are.
Effects(rows, T) ==
  \A o : IF Said(T, "ins", o) = {} THEN Now(rows, o) = {}
         ELSE Only(Now(rows, o), Said(T, "del", o) # {}, Said(T, "upd", o))

---------------------------------------------------------------------------
(* One statement.                                                          *)

\* A lineage depends on the rows of its origin and on the claims about it.
LEMMA LineageElsewhere ==
  ASSUME NEW rows, NEW new, NEW K, NEW J, NEW v, NEW o, Lineage(rows, K, v, o),
         Theirs(new, v, o) = Theirs(rows, v, o), Now(new, o) = Now(rows, o),
         \A kind : <<kind, o>> \in J <=> <<kind, o>> \in K
  PROVE  Lineage(new, J, v, o)
<1>1. \A by : Fate(rows, K, v, o, by) => Fate(new, J, v, o, by)
  BY DEF Fate
<1>2. <<"ins", o>> \in J <=> <<"ins", o>> \in K
  OBVIOUS
<1>3. <<"upd", o>> \in J <=> <<"upd", o>> \in K
  OBVIOUS
<1>4. <<"del", o>> \in J <=> <<"del", o>> \in K
  OBVIOUS
<1> QED BY <1>1, <1>2, <1>3, <1>4 DEF Lineage

\* INSERT starts a lineage.
LEMMA InsertDelta ==
  ASSUME NEW rows, NEW K, NEW v, v # 0, Delta(rows, K, v), NEW n,
         n.xmin = v, n.xmax = Alive, n.by = {},
         \A r \in rows : r.org # n.org, \A kind : <<kind, n.org>> \notin K
  PROVE  Delta(rows \cup {n}, K \cup {<<"ins", n.org>>}, v)
<1> DEFINE new == rows \cup {n}
           J   == K \cup {<<"ins", n.org>>}
<1> SUFFICES ASSUME NEW o PROVE Lineage(new, J, v, o)
  BY DEF Delta
<1>1. Lineage(rows, K, v, o)
  BY DEF Delta
<1>2. CASE o # n.org
  <2>1. Theirs(new, v, o) = Theirs(rows, v, o) /\ Now(new, o) = Now(rows, o)
    BY <1>2 DEF Theirs, Now, Live
  <2>2. \A kind : <<kind, o>> \in J <=> <<kind, o>> \in K
    BY <1>2
  <2> HIDE DEF new, J
  <2> QED BY <1>1, <2>1, <2>2, LineageElsewhere
<1>3. CASE o = n.org
  <2>1. Theirs(new, v, o) = {} /\ Now(new, o) = {n}
    BY <1>3 DEF Theirs, Now, Live
  <2>2. <<"ins", o>> \in J /\ <<"upd", o>> \notin J /\ <<"del", o>> \notin J
    BY <1>3
  <2> HIDE DEF new, J
  <2>3. Fate(new, J, v, o, {})
    BY <2>1, <2>2 DEF Fate, Only
  <2> QED BY <2>1, <2>2, <2>3 DEF Lineage
<1> QED BY <1>2, <1>3

\* k stems from a row of others, is that row, or from an INSERT of v itself.
Root(rows, K, v, o, k) ==
  \/ Sole(k, Theirs(rows, v, o)) /\ k.xmin # v /\ <<"ins", o>> \notin K
  \/ /\ k.xmin = v /\ <<"ins", o>> \notin K
     /\ \E r : Sole(r, Theirs(rows, v, o)) /\ r.xmax = v /\ k.by \cup {v} = r.by \cup {v}
  \/ k.xmin = v /\ <<"ins", o>> \in K /\ Theirs(rows, v, o) = {} /\ k.by \cup {v} = {v}

\* What a statement tombstones was the one row of its lineage.
LEMMA Victim ==
  ASSUME NEW rows, NEW K, NEW v, v # 0, Delta(rows, K, v), NEW k \in rows, k.xmax = Alive,
         NEW o, o = k.org
  PROVE  /\ Sole(k, Now(rows, o)) /\ <<"del", o>> \notin K
         /\ Root(rows, K, v, o, k)
<1> DEFINE now == Now(rows, o)
           theirs == Theirs(rows, v, o)
           upd == <<"upd", o>> \in K
           ins == <<"ins", o>> \in K
           del == <<"del", o>> \in K
<1>1. k \in now
  BY DEF Now, Live
<1>2. /\ \A r, q \in theirs : r = q
      /\ \A r \in theirs : ~ins /\ Fate(rows, K, v, o, r.by)
      /\ ins => Fate(rows, K, v, o, {})
      /\ theirs = {} /\ ~ins => now = {}
  BY DEF Delta, Lineage
<1>3. ASSUME NEW by, Fate(rows, K, v, o, by)
      PROVE  now = {k} /\ ~del /\ k.by \cup {v} = by \cup {v}
  <2>1. Only(now, del, IF upd THEN by \cup {v} ELSE by)
    BY <1>3 DEF Fate
  <2>2. ~del /\ \E r \in now : /\ r.by = by \/ r.by = by \cup {v}
                               /\ \A q \in now : q = r
    BY <1>1, <2>1 DEF Only
  <2> HIDE DEF now, del
  <2>3. k.by = by \/ k.by = by \cup {v}
    BY <1>1, <2>2
  <2>4. now = {k}
    BY <1>1, <2>2
  <2>5. k.by \cup {v} = by \cup {v}
    BY <2>3
  <2> QED BY <2>2, <2>4, <2>5
<1>4. \A r \in now : r \in rows /\ r.xmax = Alive
  BY DEF Now, Live
<1>5. \A r \in theirs : r \in rows /\ r.org = o /\ r.xmin # v /\ r.xmax \in {Alive, v}
  BY DEF Theirs
<1>6. k.xmin # v => k \in theirs
  BY DEF Theirs
<1>7. \A r \in theirs : r.xmax = Alive => r \in now
  BY DEF Theirs, Now, Live
<1>8. ASSUME theirs = {}
      PROVE  now = {k} /\ ~del /\ k.xmin = v /\ ins /\ k.by \cup {v} = {v}
  <2>1. k.xmin = v /\ ins
    BY <1>1, <1>2, <1>6, <1>8
  <2>2. now = {k} /\ ~del /\ k.by \cup {v} = {} \cup {v}
    BY <1>2, <1>3, <2>1
  <2>3. k.by \cup {v} = {v}
    BY <2>2
  <2> QED BY <1>8, <2>1, <2>2, <2>3
<1>9. ASSUME NEW r \in theirs
      PROVE  /\ now = {k} /\ ~del /\ ~ins /\ theirs = {r}
             /\ k.by \cup {v} = r.by \cup {v}
             /\ k.xmin # v => r = k
             /\ k.xmin = v => r.xmax = v
  <2>1. /\ now = {k} /\ ~del /\ ~ins /\ theirs = {r} /\ k.by \cup {v} = r.by \cup {v}
    BY <1>2, <1>3
  <2>2. k.xmin # v => r = k
    BY <1>6, <2>1
  <2>3. k.xmin = v => r.xmax = v
    BY <1>5, <1>7, <2>1
  <2> QED BY <2>1, <2>2, <2>3
<1> HIDE DEF now, theirs, ins, del
<1>10. ASSUME NEW r \in theirs
       PROVE  /\ now = {k} /\ ~del
              /\ \/ theirs = {k} /\ k.xmin # v /\ ~ins
                 \/ /\ k.xmin = v /\ ~ins
                    /\ \E x \in theirs : theirs = {x} /\ x.xmax = v /\ k.by \cup {v} = x.by \cup {v}
  BY <1>9, <1>10
<1>11. /\ Sole(k, now) /\ ~del
       /\ \/ Sole(k, theirs) /\ k.xmin # v /\ ~ins
          \/ /\ k.xmin = v /\ ~ins
             /\ \E x : Sole(x, theirs) /\ x.xmax = v /\ k.by \cup {v} = x.by \cup {v}
          \/ k.xmin = v /\ ins /\ theirs = {} /\ k.by \cup {v} = {v}
  BY <1>8, <1>10 DEF Sole
<1> QED BY <1>11 DEF Root, now, theirs, ins, del

\* k is tombstoned by v, and nothing else changes.
Tombstoned(rows, dead, k, v) ==
  /\ \A r \in dead : (r \in rows /\ r.rid # k.rid) \/ (SameRow(r, k) /\ r.xmax = v)
  /\ \A q \in rows \ {k} : q \in dead /\ q.rid # k.rid
  /\ \E r \in dead : SameRow(r, k) /\ r.xmax = v
  /\ RidsDistinct(dead)

\* The tombstoned version of k, and the rest.
LEMMA TombstonedRows ==
  ASSUME NEW rows, NEW dead, NEW v, v # 0, NEW k \in rows, Tombstoned(rows, dead, k, v)
  PROVE  \E d \in dead :
           /\ d.org = k.org /\ d.by = k.by /\ d.xmin = k.xmin /\ d.xmax = v /\ d.xmax # Alive
           /\ \A r \in dead : (r \in rows /\ r # k) \/ r = d
           /\ \A q \in rows : q # k => q \in dead
<1>1. PICK d \in dead : SameRow(d, k) /\ d.xmax = v
  BY DEF Tombstoned
<1>2. \A r \in dead : (r \in rows /\ r # k) \/ r = d
  BY <1>1 DEF Tombstoned, RidsDistinct, SameRow
<1>3. \A q \in rows : q # k => q \in dead
  BY DEF Tombstoned
<1>4. d.org = k.org /\ d.by = k.by /\ d.xmin = k.xmin /\ d.xmax = v /\ d.xmax # Alive
  BY <1>1 DEF SameRow, Alive
<1> QED BY <1>2, <1>3, <1>4

\* Other lineages are as they were,
LEMMA TombstonedElsewhere ==
  ASSUME NEW rows, NEW dead, NEW v, v # 0, NEW k \in rows, Tombstoned(rows, dead, k, v),
         NEW o, o # k.org
  PROVE  Theirs(dead, v, o) = Theirs(rows, v, o) /\ Now(dead, o) = Now(rows, o)
<1>1. PICK d \in dead :
           /\ d.org = k.org
           /\ \A r \in dead : (r \in rows /\ r # k) \/ r = d
           /\ \A q \in rows : q # k => q \in dead
  BY TombstonedRows
<1>2. Theirs(dead, v, o) = Theirs(rows, v, o)
  BY <1>1 DEF Theirs
<1>3. Now(dead, o) = Now(rows, o)
  BY <1>1 DEF Now, Live
<1> QED BY <1>2, <1>3

\* and the victim's has no live row left.
Emptied(rows, dead, k, v, o) ==
  /\ Now(dead, o) = {}
  /\ k.xmin = v => Theirs(dead, v, o) = Theirs(rows, v, o)
  /\ k.xmin # v /\ Sole(k, Theirs(rows, v, o))
       => \E r : Sole(r, Theirs(dead, v, o)) /\ r.by = k.by /\ r.xmax = v

\* That is what DELETE and UPDATE leave behind.
LEMMA TombstonedHere ==
  ASSUME NEW rows, NEW dead, NEW v, v # 0, NEW k \in rows, Tombstoned(rows, dead, k, v),
         NEW o, o = k.org, Sole(k, Now(rows, o))
  PROVE  Emptied(rows, dead, k, v, o)
<1>1. PICK d \in dead :
           /\ d.org = k.org /\ d.by = k.by /\ d.xmin = k.xmin /\ d.xmax = v /\ d.xmax # Alive
           /\ \A r \in dead : (r \in rows /\ r # k) \/ r = d
           /\ \A q \in rows : q # k => q \in dead
  BY TombstonedRows
<1>2. Now(dead, o) = {}
  <2> SUFFICES ASSUME NEW r \in dead, r.xmax = Alive, r.org = o PROVE FALSE
    BY DEF Now, Live
  <2>1. r \in rows /\ r # k
    BY <1>1
  <2>2. r \in Now(rows, o)
    BY <2>1 DEF Now, Live
  <2> QED BY <2>1, <2>2 DEF Sole
<1>3. k.xmin = v => Theirs(dead, v, o) = Theirs(rows, v, o)
  BY <1>1 DEF Theirs
<1>4. ASSUME k.xmin # v, Sole(k, Theirs(rows, v, o))
      PROVE  Theirs(dead, v, o) = {d}
  <2>1. d \in Theirs(dead, v, o)
    BY <1>1, <1>4 DEF Theirs
  <2>2. \A r \in Theirs(dead, v, o) : r = d \/ r \in Theirs(rows, v, o) \ {k}
    BY <1>1 DEF Theirs
  <2> QED BY <1>4, <2>1, <2>2 DEF Sole
<1>5. k.xmin # v /\ Sole(k, Theirs(rows, v, o))
       => \E r : Sole(r, Theirs(dead, v, o)) /\ r.by = k.by /\ r.xmax = v
  BY <1>1, <1>4 DEF Sole
<1> QED BY <1>2, <1>3, <1>5 DEF Emptied

\* DELETE ends a lineage.
LEMMA DeleteDelta ==
  ASSUME NEW rows, NEW dead, NEW K, NEW v, v # 0, Delta(rows, K, v), NEW k \in rows,
         k.xmax = Alive, Tombstoned(rows, dead, k, v)
  PROVE  Delta(dead, K \cup {<<"del", k.org>>}, v)
<1> DEFINE J == K \cup {<<"del", k.org>>}
<1> SUFFICES ASSUME NEW o PROVE Lineage(dead, J, v, o)
  BY DEF Delta
<1>0. Lineage(rows, K, v, o)
  BY DEF Delta
<1>1. Sole(k, Now(rows, k.org))
  BY Victim
<1>2. CASE o # k.org
  <2>1. Theirs(dead, v, o) = Theirs(rows, v, o) /\ Now(dead, o) = Now(rows, o)
    BY <1>1, <1>2, TombstonedElsewhere
  <2>2. \A kind : <<kind, o>> \in J <=> <<kind, o>> \in K
    BY <1>2
  <2> HIDE DEF J
  <2> QED BY <1>0, <2>1, <2>2, LineageElsewhere
<1>3. CASE o = k.org
  <2>0. Emptied(rows, dead, k, v, o)
    BY <1>1, <1>3, TombstonedHere
  <2>1. Now(dead, o) = {} /\ <<"del", o>> \in J
    BY <1>3, <2>0 DEF Emptied
  <2>2. \A by : Fate(dead, J, v, o, by)
    <3> HIDE DEF J
    <3> QED BY <2>1 DEF Fate, Only
  <2>3. <<"ins", o>> \in J <=> <<"ins", o>> \in K
    OBVIOUS
  <2>4. /\ \A r, q \in Theirs(dead, v, o) : r = q
        /\ \A r \in Theirs(dead, v, o) : <<"ins", o>> \notin K /\ r.xmax # Alive
        /\ Theirs(dead, v, o) = {} => <<"ins", o>> \in K
    <3>1. \/ k.xmin # v /\ Sole(k, Theirs(rows, v, o)) /\ <<"ins", o>> \notin K
          \/ /\ k.xmin = v /\ <<"ins", o>> \notin K
             /\ \E r : Sole(r, Theirs(rows, v, o)) /\ r.xmax = v
          \/ k.xmin = v /\ <<"ins", o>> \in K /\ Theirs(rows, v, o) = {}
      <4>1. Root(rows, K, v, o, k)
        BY <1>3, Victim
      <4> QED BY <4>1 DEF Root
    <3>2. \/ \E r : Sole(r, Theirs(dead, v, o)) /\ r.xmax = v /\ <<"ins", o>> \notin K
          \/ Theirs(dead, v, o) = {} /\ <<"ins", o>> \in K
      BY <2>0, <3>1 DEF Emptied
    <3> QED BY <3>2 DEF Alive, Sole
  <2> HIDE DEF J
  <2> QED BY <2>1, <2>2, <2>3, <2>4 DEF Lineage
<1> QED BY <1>2, <1>3

\* UPDATE carries a lineage on: its one row has one update more.
LEMMA UpdateDelta ==
  ASSUME NEW rows, NEW dead, NEW K, NEW v, v # 0, Delta(rows, K, v), NEW k \in rows,
         k.xmax = Alive, Tombstoned(rows, dead, k, v),
         NEW n, n.org = k.org, n.by = k.by \cup {v}, n.xmin = v, n.xmax = Alive
  PROVE  Delta(dead \cup {n}, K \cup {<<"upd", k.org>>}, v)
<1> DEFINE J   == K \cup {<<"upd", k.org>>}
           new == dead \cup {n}
<1> SUFFICES ASSUME NEW o PROVE Lineage(new, J, v, o)
  BY DEF Delta
<1>0. Lineage(rows, K, v, o)
  BY DEF Delta
<1>1. Sole(k, Now(rows, k.org)) /\ <<"del", k.org>> \notin K
  BY Victim
<1>2. Theirs(new, v, o) = Theirs(dead, v, o)
  BY DEF Theirs
<1>3. CASE o # k.org
  <2>1. Theirs(dead, v, o) = Theirs(rows, v, o) /\ Now(dead, o) = Now(rows, o)
    BY <1>1, <1>3, TombstonedElsewhere
  <2>2. Now(new, o) = Now(dead, o)
    BY <1>3 DEF Now, Live
  <2>3. \A kind : <<kind, o>> \in J <=> <<kind, o>> \in K
    BY <1>3
  <2> HIDE DEF J, new
  <2> QED BY <1>0, <1>2, <2>1, <2>2, <2>3, LineageElsewhere
<1>4. CASE o = k.org
  <2>0. Emptied(rows, dead, k, v, o)
    BY <1>1, <1>4, TombstonedHere
  <2>1. Now(dead, o) = {}
    BY <2>0 DEF Emptied
  <2>2. Now(new, o) = {n}
    BY <1>4, <2>1 DEF Now, Live
  <2>3. <<"upd", o>> \in J /\ <<"del", o>> \notin J /\ (<<"ins", o>> \in J <=> <<"ins", o>> \in K)
    BY <1>1, <1>4
  <2> HIDE DEF J, new
  <2>4. ASSUME NEW by, k.by \cup {v} = by \cup {v} PROVE Fate(new, J, v, o, by)
    BY <2>2, <2>3, <2>4 DEF Fate, Only
  <2>5. \/ \E r : /\ Sole(r, Theirs(new, v, o)) /\ r.xmax = v /\ <<"ins", o>> \notin K
                  /\ k.by \cup {v} = r.by \cup {v}
        \/ Theirs(new, v, o) = {} /\ <<"ins", o>> \in K /\ k.by \cup {v} = {} \cup {v}
    <3>1. \/ k.xmin # v /\ Sole(k, Theirs(rows, v, o)) /\ <<"ins", o>> \notin K
          \/ /\ k.xmin = v /\ <<"ins", o>> \notin K
             /\ \E r : /\ Sole(r, Theirs(rows, v, o)) /\ r.xmax = v
                       /\ k.by \cup {v} = r.by \cup {v}
          \/ /\ k.xmin = v /\ <<"ins", o>> \in K /\ Theirs(rows, v, o) = {}
             /\ k.by \cup {v} = {v}
      <4>1. Root(rows, K, v, o, k)
        BY <1>4, Victim
      <4> QED BY <4>1 DEF Root
    <3>2. CASE k.xmin # v /\ Sole(k, Theirs(rows, v, o)) /\ <<"ins", o>> \notin K
      <4>1. \E r : Sole(r, Theirs(dead, v, o)) /\ r.by = k.by /\ r.xmax = v
        BY <2>0, <3>2 DEF Emptied
      <4> QED BY <1>2, <3>2, <4>1
    <3>3. k.xmin = v => Theirs(dead, v, o) = Theirs(rows, v, o)
      BY <2>0 DEF Emptied
    <3> QED BY <1>2, <3>1, <3>2, <3>3
  <2>6. CASE Theirs(new, v, o) = {} /\ <<"ins", o>> \in K /\ k.by \cup {v} = {} \cup {v}
    <3>1. Fate(new, J, v, o, {})
      BY <2>4, <2>6
    <3> QED BY <2>3, <2>6, <3>1 DEF Lineage
  <2>7. ASSUME NEW r, Sole(r, Theirs(new, v, o)), r.xmax = v, <<"ins", o>> \notin K,
               k.by \cup {v} = r.by \cup {v}
        PROVE  Lineage(new, J, v, o)
    <3>1. Fate(new, J, v, o, r.by)
      BY <2>4, <2>7
    <3> QED BY <2>3, <2>7, <3>1 DEF Lineage, Alive, Sole
  <2> QED BY <2>5, <2>6, <2>7
<1> QED BY <1>3, <1>4

---------------------------------------------------------------------------
(* The replay.                                                             *)

\* R is what rows becomes when it is replayed onto the live rows L: those in T
\* are tombstoned, the own rows are put back.
Replays(rows, R, L, T, K, v) ==
  /\ RidsDistinct(R)
  /\ \A b \in L : \E r \in R : SameRow(r, b) /\ r.xmax = IF b.rid \in T THEN v ELSE Alive
  /\ \A r \in R : r.xmin # v /\ r.xmax \in {Alive, v} => \E b \in L : SameRow(r, b)
  /\ \A r \in R : r.xmin = v /\ r.xmax = Alive => r \in rows
  /\ \A r \in rows : r.xmin = v /\ r.xmax = Alive => r \in R
  /\ \A x \in rows : x.xmin # v /\ x.xmax = v => x.rid \in T /\ \E b \in L : SameRow(x, b)
  /\ \A b \in L : b.rid \in T => \E x \in rows : SameRow(x, b) /\ x.xmax = v
  /\ \A a, b \in L : a.org = b.org => a = b
  /\ \A b \in L : <<"ins", b.org>> \notin K /\ b.xmin # v

\* The replay keeps every change that was claimed, and makes no other.
LEMMA ReplaysDelta ==
  ASSUME NEW rows, NEW R, NEW L, NEW T, NEW K, NEW v, v # 0, Delta(rows, K, v),
         Replays(rows, R, L, T, K, v)
  PROVE  Delta(R, K, v)
<1> SUFFICES ASSUME NEW o PROVE Lineage(R, K, v, o)
  BY DEF Delta
<1> DEFINE ins == <<"ins", o>> \in K
           upd == <<"upd", o>> \in K
           del == <<"del", o>> \in K
           mine == {r \in rows : r.org = o /\ r.xmin = v /\ r.xmax = Alive}
           before == Theirs(rows, v, o)
           after  == Theirs(R, v, o)
<1>1. /\ \A r, q \in before : r = q
      /\ \A r \in before : ~ins /\ (r.xmax = Alive => ~upd /\ ~del) /\ Fate(rows, K, v, o, r.by)
      /\ ins => Fate(rows, K, v, o, {})
      /\ before = {} /\ ~ins => Now(rows, o) = {} /\ ~upd /\ ~del
  BY DEF Delta, Lineage
<1>2. /\ \A r \in before : r \in rows /\ r.org = o /\ r.xmin # v /\ r.xmax \in {Alive, v}
      /\ \A r \in after : r \in R /\ r.org = o /\ r.xmin # v /\ r.xmax \in {Alive, v}
      /\ \A r \in R : r.org = o /\ r.xmin # v /\ r.xmax \in {Alive, v} => r \in after
      /\ \A r \in rows : r.org = o /\ r.xmin # v /\ r.xmax \in {Alive, v} => r \in before
  BY DEF Theirs
<1>3. Now(rows, o) = mine \cup {r \in before : r.xmax = Alive}
  BY DEF Now, Live, Theirs
<1>4. Now(R, o) = mine \cup {r \in after : r.xmax = Alive}
  BY DEF Now, Live, Theirs, Replays
<1>5. \A r \in before : r.xmax = Alive => Now(rows, o) = {r} /\ mine = {}
  <2> SUFFICES ASSUME NEW r \in before, r.xmax = Alive PROVE Now(rows, o) = {r} /\ mine = {}
    OBVIOUS
  <2>1. Fate(rows, K, v, o, r.by) /\ ~del
    BY <1>1
  <2>2. r \in Now(rows, o)
    BY <1>3
  <2>3. Now(rows, o) = {r}
    <3> HIDE DEF before, mine, upd
    <3> QED BY <2>1, <2>2 DEF Fate, Only
  <2>4. \A q \in mine : q = r /\ q.xmin = v
    BY <1>3, <2>3
  <2> QED BY <1>2, <2>3, <2>4
<1> HIDE DEF before, after, mine, ins, upd, del
<1>6. ASSUME NEW b \in L, b.org = o, NEW r \in R, SameRow(r, b), r.xmax \in {Alive, v}
      PROVE  r \in after /\ \A q \in after : q = r
  <2>1. r.org = o /\ r.xmin # v
    BY <1>6 DEF Replays, SameRow
  <2>2. r \in after
    BY <1>2, <1>6, <2>1
  <2> SUFFICES ASSUME NEW q \in after PROVE q = r
    BY <2>2
  <2>3. q \in R /\ q.org = o /\ q.xmin # v /\ q.xmax \in {Alive, v}
    BY <1>2
  <2>4. PICK c \in L : SameRow(q, c)
    BY <2>3 DEF Replays
  <2>5. c = b
    BY <1>6, <2>3, <2>4 DEF Replays, SameRow
  <2> QED BY <1>6, <2>3, <2>4, <2>5 DEF Replays, RidsDistinct, SameRow
<1>7. ASSUME NEW b \in L, b.org = o, b.rid \notin T PROVE Lineage(R, K, v, o)
  <2>1. PICK r \in R : SameRow(r, b) /\ r.xmax = Alive
    BY <1>7 DEF Replays
  <2>2. r \in after /\ \A q \in after : q = r
    BY <1>6, <1>7, <2>1
  <2>3. ~ins
    BY <1>7 DEF Replays, ins
  <2>4. \A x \in before : x.xmax = Alive
    <3> SUFFICES ASSUME NEW x \in before, x.xmax = v, x.xmax # Alive PROVE FALSE
      BY <1>2
    <3>1. x \in rows /\ x.org = o /\ x.xmin # v
      BY <1>2
    <3>2. x.rid \in T /\ \E c \in L : SameRow(x, c)
      BY <3>1 DEF Replays
    <3>3. PICK c \in L : SameRow(x, c)
      BY <3>2
    <3>4. c = b
      BY <1>7, <3>1, <3>3 DEF Replays, SameRow
    <3> QED BY <1>7, <3>2, <3>3, <3>4 DEF SameRow
  <2>5. mine = {} /\ ~upd /\ ~del
    <3>1. CASE before = {}
      BY <1>1, <1>3, <2>3, <3>1
    <3>2. CASE before # {}
      BY <1>1, <1>5, <2>4, <3>2
    <3> QED BY <3>1, <3>2
  <2>6. r \in Now(R, o) /\ \A q \in Now(R, o) : q = r
    BY <1>4, <2>1, <2>2, <2>5
  <2>7. Fate(R, K, v, o, r.by)
    BY <2>5, <2>6 DEF Fate, Only, upd, del
  <2> QED BY <2>2, <2>3, <2>5, <2>7 DEF Lineage, after, ins, upd, del
<1>8. ASSUME NEW b \in L, b.org = o, b.rid \in T PROVE Lineage(R, K, v, o)
  <2>1. PICK r \in R : SameRow(r, b) /\ r.xmax = v
    BY <1>8 DEF Replays
  <2>2. r \in after /\ (\A q \in after : q = r) /\ r.xmax # Alive
    BY <1>6, <1>8, <2>1 DEF Alive
  <2>3. ~ins
    BY <1>8 DEF Replays, ins
  <2>4. PICK x \in rows : SameRow(x, b) /\ x.xmax = v
    BY <1>8 DEF Replays
  <2>5. x \in before /\ x.by = r.by
    <3>1. x.org = o /\ x.xmin # v /\ x.by = r.by
      BY <1>8, <2>1, <2>4 DEF Replays, SameRow
    <3> QED BY <1>2, <2>4, <3>1
  <2>6. Now(R, o) = Now(rows, o)
    BY <1>1, <1>3, <1>4, <2>2, <2>4, <2>5 DEF Alive
  <2>7. Fate(R, K, v, o, r.by)
    <3>1. Fate(rows, K, v, o, x.by)
      BY <1>1, <2>5
    <3> QED BY <2>5, <2>6, <3>1 DEF Fate
  <2> QED BY <2>2, <2>3, <2>7 DEF Lineage, after, ins
<1>9. ASSUME \A b \in L : b.org # o PROVE Lineage(R, K, v, o)
  <2>1. after = {}
    <3> SUFFICES ASSUME NEW q \in after PROVE FALSE
      OBVIOUS
    <3>1. q \in R /\ q.org = o /\ q.xmin # v /\ q.xmax \in {Alive, v}
      BY <1>2
    <3>2. PICK c \in L : SameRow(q, c)
      BY <3>1 DEF Replays
    <3> QED BY <1>9, <3>1, <3>2 DEF SameRow
  <2>2. \A x \in before : x.xmax = Alive
    <3> SUFFICES ASSUME NEW x \in before, x.xmax = v PROVE FALSE
      BY <1>2
    <3>1. x \in rows /\ x.org = o /\ x.xmin # v
      BY <1>2
    <3>2. PICK c \in L : SameRow(x, c)
      BY <3>1 DEF Replays
    <3> QED BY <1>9, <3>1, <3>2 DEF SameRow
  <2>3. Now(R, o) = mine
    BY <1>4, <2>1
  <2>4. CASE before = {} /\ ins
    <3>1. Now(R, o) = Now(rows, o) /\ Fate(rows, K, v, o, {})
      BY <1>1, <1>3, <2>3, <2>4
    <3>2. Fate(R, K, v, o, {})
      BY <3>1 DEF Fate
    <3> QED BY <2>1, <2>4, <3>2 DEF Lineage, after, ins
  <2>5. CASE ~ins
    <3>1. mine = {} /\ ~upd /\ ~del
      BY <1>1, <1>3, <1>5, <2>2, <2>5
    <3> QED BY <2>1, <2>3, <2>5, <3>1 DEF Lineage, after, ins, upd, del
  <2> QED BY <1>1, <2>4, <2>5
<1> QED BY <1>7, <1>8, <1>9

---------------------------------------------------------------------------
(* A commit.                                                               *)

\* U says what T says, and that version v made the change if it is among K.
Grown(T, U, K, v, kind, o) ==
  Said(U, kind, o) = Said(T, kind, o) \cup {x \in {v} : <<kind, o>> \in K}

\* So a history grows when version v tells of the changes K.
LEMMA SaidGrows ==
  ASSUME NEW T, NEW K, NEW v, NEW kind, NEW o, \A c \in K : c = <<c[1], c[2]>>,
         NEW U, U = T \cup {<<c[1], c[2], v>> : c \in K}
  PROVE  Grown(T, U, K, v, kind, o)
<1> DEFINE New == {<<c[1], c[2], v>> : c \in K}
<1>1. {d \in T \cup New : d[1] = kind /\ d[2] = o}
        = {d \in T : d[1] = kind /\ d[2] = o} \cup {d \in New : d[1] = kind /\ d[2] = o}
  OBVIOUS
<1>2. \A d \in New : d[1] = kind /\ d[2] = o => d[3] = v /\ <<kind, o>> \in K
  OBVIOUS
<1>3. <<kind, o>> \in K => <<kind, o, v>> \in New
  <2> SUFFICES ASSUME <<kind, o>> \in K PROVE \E c \in K : <<kind, o, v>> = <<c[1], c[2], v>>
    OBVIOUS
  <2>1. <<kind, o>>[1] = kind /\ <<kind, o>>[2] = o
    OBVIOUS
  <2> QED BY <2>1
<1>4. <<kind, o, v>>[1] = kind /\ <<kind, o, v>>[2] = o /\ <<kind, o, v>>[3] = v
  OBVIOUS
<1> HIDE DEF New
<1>5. Said(New, kind, o) = {x \in {v} : <<kind, o>> \in K}
  <2>1. \A x \in Said(New, kind, o) : x = v /\ <<kind, o>> \in K
    BY <1>2 DEF Said
  <2>2. <<kind, o>> \in K => v \in Said(New, kind, o)
    BY <1>3, <1>4 DEF Said
  <2> QED BY <2>1, <2>2
<1>6. Said(T \cup New, kind, o) = Said(T, kind, o) \cup Said(New, kind, o)
  BY <1>1 DEF Said
<1> QED BY <1>5, <1>6 DEF New, Grown

\* A lineage of B after a commit of version v: it is what the longer history
\* says of it.
LEMMA InstallEffects ==
  ASSUME NEW B, NEW T, Effects(B, T), NEW C, NEW K, NEW v, Delta(C, K, v), Based(B, C, v),
         \A b \in B : b.xmin # v,
         \A c \in K : c = <<c[1], c[2]>>,
         \A o : <<"ins", o>> \in K => \A c \in T : c[2] # o,
         NEW U, U = T \cup {<<c[1], c[2], v>> : c \in K}
  PROVE  Effects(C, U)
<1> SUFFICES ASSUME NEW o
             PROVE  IF Said(U, "ins", o) = {} THEN Now(C, o) = {}
                    ELSE Only(Now(C, o), Said(U, "del", o) # {}, Said(U, "upd", o))
  BY DEF Effects
<1> DEFINE ins == <<"ins", o>> \in K
           upd == <<"upd", o>> \in K
           del == <<"del", o>> \in K
           now == Now(C, o)
           was == Now(B, o)
<1>1. /\ Said(U, "ins", o) = Said(T, "ins", o) \cup {x \in {v} : ins}
      /\ Said(U, "upd", o) = Said(T, "upd", o) \cup {x \in {v} : upd}
      /\ Said(U, "del", o) = Said(T, "del", o) \cup {x \in {v} : del}
  <2>1. Grown(T, U, K, v, "ins", o) /\ Grown(T, U, K, v, "upd", o) /\ Grown(T, U, K, v, "del", o)
    BY SaidGrows
  <2> QED BY <2>1 DEF Grown
<1>2. IF Said(T, "ins", o) = {} THEN was = {}
      ELSE Only(was, Said(T, "del", o) # {}, Said(T, "upd", o))
  BY DEF Effects
<1>3. /\ \A r \in Theirs(C, v, o) : ~ins /\ Fate(C, K, v, o, r.by)
      /\ ins => Fate(C, K, v, o, {})
      /\ Theirs(C, v, o) = {} /\ ~ins => now = {} /\ ~upd /\ ~del
  BY DEF Delta, Lineage
<1>4. \A by : Fate(C, K, v, o, by) => Only(now, del, IF upd THEN by \cup {v} ELSE by)
  BY DEF Fate
<1>5. ASSUME NEW r \in Theirs(C, v, o) PROVE \E b \in was : b.by = r.by
  <2>1. r \in C /\ r.org = o /\ r.xmin # v /\ r.xmax \in {Alive, v}
    BY DEF Theirs
  <2>2. PICK b \in Live(B) : SameRow(r, b)
    BY <2>1 DEF Based
  <2> QED BY <2>1, <2>2 DEF Now, SameRow
<1>6. Theirs(C, v, o) = {} => was = {}
  <2> SUFFICES ASSUME NEW b \in Live(B), b.org = o PROVE \E r : r \in Theirs(C, v, o)
    BY DEF Now
  <2>1. PICK r \in C : SameRow(r, b) /\ r.xmax \in {Alive, v}
    BY DEF Based
  <2>2. b.xmin # v
    BY DEF Live
  <2>3. r.org = o /\ r.xmin # v
    BY <2>1, <2>2 DEF SameRow
  <2> QED BY <2>1, <2>3 DEF Theirs
<1>7. ins => Said(T, "ins", o) = {} /\ Said(T, "upd", o) = {} /\ Said(T, "del", o) = {}
  BY DEF Said
<1> HIDE DEF now, was, ins, upd, del
<1>8. ASSUME NEW r \in Theirs(C, v, o)
      PROVE  Only(now, Said(U, "del", o) # {}, Said(U, "upd", o)) /\ Said(U, "ins", o) # {}
  <2>1. PICK b \in was : b.by = r.by
    BY <1>5
  <2>2. Said(T, "ins", o) # {} /\ Said(T, "del", o) = {} /\ r.by = Said(T, "upd", o)
    BY <1>2, <2>1 DEF Only
  <2>3. Only(now, del, IF upd THEN r.by \cup {v} ELSE r.by)
    BY <1>3, <1>4
  <2>4. Said(U, "del", o) # {} <=> del
    BY <1>1, <2>2
  <2>5. Said(U, "upd", o) = IF upd THEN r.by \cup {v} ELSE r.by
    BY <1>1, <2>2
  <2>6. Said(U, "ins", o) # {}
    BY <1>1, <2>2
  <2> QED BY <2>3, <2>4, <2>5, <2>6 DEF Only
<1>9. CASE ins
  <2>1. Only(now, del, IF upd THEN {} \cup {v} ELSE {})
    BY <1>3, <1>4, <1>9
  <2>2. Said(U, "del", o) # {} <=> del
    BY <1>1, <1>7, <1>9
  <2>3. Said(U, "upd", o) = IF upd THEN {} \cup {v} ELSE {}
    BY <1>1, <1>7, <1>9
  <2>4. Said(U, "ins", o) # {}
    BY <1>1, <1>9
  <2> QED BY <2>1, <2>2, <2>3, <2>4 DEF Only, now
<1>10. CASE Theirs(C, v, o) = {} /\ ~ins
  <2>1. now = {} /\ was = {}
    BY <1>3, <1>6, <1>10
  <2>2. /\ Said(U, "ins", o) = Said(T, "ins", o) /\ Said(U, "upd", o) = Said(T, "upd", o)
        /\ Said(U, "del", o) = Said(T, "del", o)
    BY <1>1, <1>3, <1>10
  <2> QED BY <1>2, <2>1, <2>2 DEF now
<1> QED BY <1>8, <1>9, <1>10 DEF now

\* A transaction that begins has the committed rows, and has changed none.
LEMMA BaseDelta ==
  ASSUME NEW B, NEW T, Effects(B, T), NEW v, \A b \in B : b.xmin # v /\ b.xmax # v
  PROVE  Delta(B, {}, v) /\ Based(B, B, v)
<1>1. Based(B, B, v)
  BY DEF Based, SameRow, Live
<1> SUFFICES ASSUME NEW o PROVE Lineage(B, {}, v, o)
  BY <1>1 DEF Delta
<1>2. Theirs(B, v, o) = Now(B, o)
  BY DEF Theirs, Now, Live
<1>3. \A r, q \in Now(B, o) : r = q
  BY DEF Effects, Only
<1>4. \A r \in Now(B, o) : Fate(B, {}, v, o, r.by)
  BY <1>3 DEF Fate, Only
<1> QED BY <1>2, <1>3, <1>4 DEF Lineage

---------------------------------------------------------------------------
(* What a statement of session s does to its catalog.                      *)

Told(T, o) == \E c \in T : c[1] = "ins" /\ c[2] = o

\* Every row and every claim goes back to an INSERT that committed, or that is
\* claimed itself.
Rooted(rows, K, T) ==
  /\ \A r \in rows : Told(T, r.org) \/ <<"ins", r.org>> \in K
  /\ \A c \in K : Told(T, c[2]) \/ <<"ins", c[2]>> \in K

\* INSERT, with its claim.
EditInsert(s, new, K) ==
  /\ K = {<<"ins", nextRid>>} /\ nextRid' = nextRid + 1 /\ rowLocks' = rowLocks
  /\ \E n : /\ n.org = nextRid /\ n.by = {} /\ n.xmin = Version(s) /\ n.xmax = Alive
            /\ new = Catalog(s) \cup {n}

\* DELETE or UPDATE of row k, with its claim; nobody else holds its lock.
EditRow(s, k, new, K) ==
  /\ k \in View(s) /\ ~LockWaits(s, k.rid) /\ TakesLock(s, k.rid)
  /\ \/ /\ new = Kill(Catalog(s), k.rid, Version(s))
        /\ K = {<<"del", k.org>>} /\ nextRid' = nextRid
     \/ /\ K = {<<"upd", k.org>>} /\ nextRid' = nextRid + 1
        /\ \E n : /\ n.org = k.org /\ n.by = k.by \cup {Version(s)}
                  /\ n.xmin = Version(s) /\ n.xmax = Alive
                  /\ new = Kill(Catalog(s), k.rid, Version(s)) \cup {n}

Edit(s, new, K) == EditInsert(s, new, K) \/ \E k \in Catalog(s) : EditRow(s, k, new, K)

\* No statement writes with version 0.
LEMMA VersionIs ==
  ASSUME StampInv, NEW s \in Sessions
  PROVE  Version(s) # 0 /\ Version(s) \in Nat
BY OpenShape DEF Version, StampInv, Registers

\* A row of a statement's view is tombstoned alone.
LEMMA KillTombstones ==
  ASSUME StampInv, RowInv, NEW s \in Sessions, NEW k \in Catalog(s), k \in View(s),
         NEW dead, dead = Kill(Catalog(s), k.rid, Version(s))
  PROVE  k.xmax = Alive /\ Tombstoned(Catalog(s), dead, k, Version(s))
<1>1. /\ k.xmax = Alive
      /\ \A r \in dead : (r \in Catalog(s) /\ r.rid # k.rid)
                           \/ (SameRow(r, k) /\ r.xmax = Version(s))
      /\ \A q \in Catalog(s) \ {k} : q \in dead /\ q.rid # k.rid
      /\ \E r \in dead : SameRow(r, k) /\ r.xmax = Version(s)
  BY KillAlive
<1>2. RidsDistinct(Catalog(s)) /\ Clean(Catalog(s), Settled \cup {Version(s)})
  BY CatalogRows, StatementStart
<1>3. RidsDistinct(Stamped(Catalog(s), {k.rid}, Version(s)))
  BY <1>2, StampedDistinct
<1>4. RidsDistinct(dead)
  BY <1>3, KillIsStamped
<1> QED BY <1>1, <1>4 DEF Tombstoned

\* The claim of a statement is what it did,
LEMMA EditDelta ==
  ASSUME StampInv, RowInv, NEW s \in Sessions, NEW new, NEW K, Edit(s, new, K),
         NEW J, Delta(Catalog(s), J, Version(s)),
         \A r \in Catalog(s) : r.org # nextRid, \A kind : <<kind, nextRid>> \notin J
  PROVE  Delta(new, J \cup K, Version(s))
<1> DEFINE rows == Catalog(s)
           v    == Version(s)
<1>0. v # 0
  BY VersionIs
<1>1. CASE EditInsert(s, new, K)
  <2>1. PICK n : /\ n.org = nextRid /\ n.by = {} /\ n.xmin = v /\ n.xmax = Alive
                 /\ new = rows \cup {n}
    BY <1>1 DEF EditInsert
  <2>2. K = {<<"ins", n.org>>}
    BY <1>1, <2>1 DEF EditInsert
  <2>3. (\A r \in rows : r.org # n.org) /\ \A kind : <<kind, n.org>> \notin J
    BY <2>1
  <2> HIDE DEF rows, v
  <2>4. Delta(rows \cup {n}, J \cup {<<"ins", n.org>>}, v)
    BY <1>0, <2>1, <2>3, InsertDelta DEF rows, v
  <2> QED BY <2>1, <2>2, <2>4 DEF v
<1>2. ASSUME NEW k \in rows, EditRow(s, k, new, K) PROVE Delta(new, J \cup K, v)
  <2> DEFINE dead == Kill(rows, k.rid, v)
  <2>1. k \in View(s)
    BY <1>2 DEF EditRow
  <2>2. k.xmax = Alive /\ Tombstoned(rows, dead, k, v)
    BY <2>1, KillTombstones
  <2>3. \/ new = dead /\ K = {<<"del", k.org>>}
        \/ /\ K = {<<"upd", k.org>>}
           /\ \E n : /\ n.org = k.org /\ n.by = k.by \cup {v} /\ n.xmin = v /\ n.xmax = Alive
                     /\ new = dead \cup {n}
    BY <1>2 DEF EditRow
  <2>4. Delta(rows, J, v)
    OBVIOUS
  <2> HIDE DEF rows, v, dead
  <2>5. Delta(dead, J \cup {<<"del", k.org>>}, v)
    BY <1>0, <2>2, <2>4, DeleteDelta
  <2>6. ASSUME NEW n, n.org = k.org, n.by = k.by \cup {v}, n.xmin = v, n.xmax = Alive
        PROVE  Delta(dead \cup {n}, J \cup {<<"upd", k.org>>}, v)
    BY <1>0, <2>2, <2>4, <2>6, UpdateDelta
  <2> QED BY <2>3, <2>5, <2>6
<1> QED BY <1>1, <1>2 DEF Edit

\* it starts from the same rows of others,
LEMMA EditBased ==
  ASSUME StampInv, RowInv, NEW s \in Sessions, NEW new, NEW K, Edit(s, new, K),
         NEW B, Based(B, Catalog(s), Version(s))
  PROVE  Based(B, new, Version(s))
<1> DEFINE rows == Catalog(s)
           v    == Version(s)
<1>0. v # 0 /\ Based(B, rows, v)
  BY VersionIs
<1>1. ASSUME NEW kept, Based(B, kept, v), NEW n, n.xmin = v PROVE Based(B, kept \cup {n}, v)
  BY <1>1 DEF Based
<1>2. CASE EditInsert(s, new, K)
  <2>1. PICK n : n.xmin = v /\ new = rows \cup {n}
    BY <1>2 DEF EditInsert
  <2> HIDE DEF rows, v
  <2> QED BY <1>0, <1>1, <2>1 DEF v
<1>3. ASSUME NEW k \in rows, EditRow(s, k, new, K) PROVE Based(B, new, v)
  <2> DEFINE dead == Kill(rows, k.rid, v)
  <2>1. k \in View(s)
    BY <1>3 DEF EditRow
  <2>2. k.xmax = Alive /\ Tombstoned(rows, dead, k, v)
    BY <2>1, KillTombstones
  <2>3. new = dead \/ \E n : n.xmin = v /\ new = dead \cup {n}
    BY <1>3 DEF EditRow
  <2> HIDE DEF rows, v, dead
  <2>4. Based(B, dead, v)
    <3>1. ASSUME NEW b \in Live(B) PROVE \E r \in dead : SameRow(r, b) /\ r.xmax \in {Alive, v}
      <4>1. PICK q \in rows : SameRow(q, b) /\ q.xmax \in {Alive, v}
        BY <1>0 DEF Based
      <4>2. CASE q = k
        <5>1. PICK d \in dead : SameRow(d, k) /\ d.xmax = v
          BY <2>2 DEF Tombstoned
        <5> QED BY <4>1, <4>2, <5>1 DEF SameRow
      <4>3. CASE q # k
        BY <2>2, <4>1, <4>3 DEF Tombstoned
      <4> QED BY <4>2, <4>3
    <3>2. ASSUME NEW r \in dead, r.xmin # v, r.xmax \in {Alive, v}
          PROVE  \E b \in Live(B) : SameRow(r, b)
      <4>1. CASE r \in rows
        BY <1>0, <3>2, <4>1 DEF Based
      <4>2. CASE SameRow(r, k)
        <5>1. k.xmin # v
          BY <3>2, <4>2 DEF SameRow
        <5>2. PICK b \in Live(B) : SameRow(k, b)
          BY <1>0, <2>2, <5>1 DEF Based
        <5> QED BY <4>2, <5>2, SameRowTwice
      <4> QED BY <2>2, <4>1, <4>2 DEF Tombstoned
    <3> QED BY <3>1, <3>2 DEF Based
  <2> QED BY <1>1, <2>3, <2>4
<1> QED BY <1>2, <1>3 DEF Edit

\* and it starts a lineage only where it claims to.
LEMMA EditRooted ==
  ASSUME StampInv, RowInv, NEW s \in Sessions, NEW new, NEW K, Edit(s, new, K),
         NEW J, NEW T, Rooted(Catalog(s), J, T)
  PROVE  /\ Rooted(new, J \cup K, T)
         /\ \A c \in K : c = <<c[1], c[2]>>
         /\ \A o : <<"ins", o>> \in K => o = nextRid /\ nextRid' = nextRid + 1
         /\ nextRid' = nextRid \/ nextRid' = nextRid + 1
<1> DEFINE rows == Catalog(s)
           v    == Version(s)
<1>1. CASE EditInsert(s, new, K)
  <2>1. PICK n : n.org = nextRid /\ new = rows \cup {n}
    BY <1>1 DEF EditInsert
  <2>2. K = {<<"ins", nextRid>>} /\ nextRid' = nextRid + 1
    BY <1>1 DEF EditInsert
  <2>3. Rooted(new, J \cup K, T)
    BY <2>1, <2>2 DEF Rooted
  <2> QED BY <2>2, <2>3
<1>2. ASSUME NEW k \in rows, EditRow(s, k, new, K)
      PROVE  /\ Rooted(new, J \cup K, T) /\ K \in {{<<"del", k.org>>}, {<<"upd", k.org>>}}
             /\ nextRid' = nextRid \/ nextRid' = nextRid + 1
  <2> DEFINE dead == Kill(rows, k.rid, v)
  <2>1. k \in View(s)
    BY <1>2 DEF EditRow
  <2>2. Tombstoned(rows, dead, k, v)
    BY <2>1, KillTombstones
  <2>3. /\ K \in {{<<"del", k.org>>}, {<<"upd", k.org>>}}
        /\ new = dead \/ \E n : n.org = k.org /\ new = dead \cup {n}
        /\ nextRid' = nextRid \/ nextRid' = nextRid + 1
    BY <1>2 DEF EditRow
  <2>4. \A r \in new : \E q \in rows : r.org = q.org
    BY <2>2, <2>3 DEF Tombstoned, SameRow
  <2>5. \A c \in K : c[2] = k.org
    BY <2>3
  <2>6. Rooted(new, J \cup K, T)
    BY <2>4, <2>5 DEF Rooted
  <2> QED BY <2>3, <2>6
<1>3. CASE \E k \in rows : EditRow(s, k, new, K)
  BY <1>2, <1>3
<1> QED BY <1>1, <1>2, <1>3 DEF Edit, EditInsert

---------------------------------------------------------------------------
(* Tuple locks.                                                            *)

\* What v tombstoned of others' rows it holds the lock of; and at READ
\* COMMITTED the committed row still lives.
Locked(rows, v, iso, L, live) ==
  \A r \in rows : r.xmax = v /\ r.xmin # v => /\ <<r.rid, v>> \in L
                                              /\ iso = "RC" => r.rid \in live

\* Nobody else holds the lock of what v tombstoned.
Free(rows, v, L) ==
  \A r \in rows : r.xmax = v /\ r.xmin # v => \A l \in L : l[1] = r.rid => l[2] = v

OneHolder(L) == \A l, m \in L : l[1] = m[1] => l = m

\* A lock is taken when no other holds it.
LEMMA LockTaken ==
  ASSUME NEW s \in Sessions, OneHolder(rowLocks), \A l \in rowLocks : l = <<l[1], l[2]>>,
         NEW rid, ~LockWaits(s, rid)
  PROVE  OneHolder(rowLocks \cup {<<rid, Version(s)>>})
<1>1. \A l \in rowLocks : l[1] = rid => l = <<rid, Version(s)>>
  BY DEF LockWaits
<1> QED BY <1>1 DEF OneHolder

\* An UPDATE or DELETE of a transaction takes the lock of its row.
LEMMA EditLocks ==
  ASSUME StampInv, RowInv, NEW s \in Sessions, Open(s), NEW new, NEW K, Edit(s, new, K),
         OneHolder(rowLocks), \A l \in rowLocks : l = <<l[1], l[2]>>,
         NEW iso, Locked(Catalog(s), Version(s), iso, rowLocks, LiveRids),
         iso = "RC" => Based(base.rows, Catalog(s), Version(s))
  PROVE  /\ Locked(new, Version(s), iso, rowLocks', LiveRids)
         /\ OneHolder(rowLocks') /\ rowLocks \subseteq rowLocks'
<1> DEFINE rows == Catalog(s)
           v    == Version(s)
<1>0. v # 0
  BY VersionIs
<1>1. CASE EditInsert(s, new, K)
  <2>1. rowLocks' = rowLocks /\ \E n : n.xmin = v /\ new = rows \cup {n}
    BY <1>1 DEF EditInsert
  <2> QED BY <2>1 DEF Locked
<1>2. ASSUME NEW k \in rows, EditRow(s, k, new, K)
      PROVE  /\ Locked(new, v, iso, rowLocks', LiveRids)
             /\ OneHolder(rowLocks') /\ rowLocks \subseteq rowLocks'
  <2> DEFINE dead == Kill(rows, k.rid, v)
  <2>1. /\ k \in View(s) /\ ~LockWaits(s, k.rid)
        /\ new = dead \/ \E n : n.xmin = v /\ new = dead \cup {n}
    BY <1>2 DEF EditRow
  <2>2. rowLocks' = rowLocks \cup {<<k.rid, v>>}
    BY <1>2 DEF EditRow, TakesLock, Version
  <2>3. k.xmax = Alive /\ Tombstoned(rows, dead, k, v)
    BY <2>1, KillTombstones
  <2>4. OneHolder(rowLocks')
    BY <2>1, <2>2, LockTaken
  <2>5. k.xmin # v /\ iso = "RC" => k.rid \in LiveRids
    BY <2>3 DEF Based, SameRow, LiveRids
  <2>6. Locked(rows, v, iso, rowLocks, LiveRids)
    OBVIOUS
  <2> HIDE DEF rows, v, dead
  <2>7. ASSUME NEW r \in new, r.xmax = v, r.xmin # v
        PROVE  <<r.rid, v>> \in rowLocks' /\ (iso = "RC" => r.rid \in LiveRids)
    <3>1. r \in dead
      BY <2>1, <2>7
    <3>2. CASE r \in rows
      BY <2>2, <2>6, <2>7, <3>2 DEF Locked
    <3>3. CASE SameRow(r, k)
      BY <2>2, <2>5, <2>7, <3>3 DEF SameRow
    <3> QED BY <2>3, <3>1, <3>2, <3>3 DEF Tombstoned
  <2> QED BY <2>2, <2>4, <2>7 DEF Locked
<1> QED BY <1>1, <1>2 DEF Edit

\* One in autocommit keeps none, but it waits for those of others.
LEMMA EditFree ==
  ASSUME StampInv, RowInv, NEW s \in Sessions, ~Open(s), NEW new, NEW K, Edit(s, new, K),
         \A b \in base.rows : b.xmax # nextVersion
  PROVE  Free(new, nextVersion, rowLocks) /\ rowLocks' = rowLocks
<1> DEFINE v == nextVersion
<1>0. v # 0 /\ Version(s) = v /\ Catalog(s) = base.rows
  BY VersionIs DEF Version, Catalog
<1>1. CASE EditInsert(s, new, K)
  <2>1. rowLocks' = rowLocks /\ \E n : n.xmin = v /\ new = base.rows \cup {n}
    BY <1>0, <1>1 DEF EditInsert
  <2> QED BY <2>1 DEF Free
<1>2. ASSUME NEW k \in base.rows, EditRow(s, k, new, K)
      PROVE  Free(new, v, rowLocks) /\ rowLocks' = rowLocks
  <2> DEFINE dead == Kill(base.rows, k.rid, v)
  <2>1. /\ k \in View(s) /\ ~LockWaits(s, k.rid) /\ rowLocks' = rowLocks
        /\ new = dead \/ \E n : n.xmin = v /\ new = dead \cup {n}
    BY <1>0, <1>2 DEF EditRow, TakesLock
  <2>2. Tombstoned(base.rows, dead, k, v)
    BY <1>0, <2>1, KillTombstones
  <2>3. \A l \in rowLocks : l[1] = k.rid => l[2] = v
    BY <1>0, <2>1 DEF LockWaits
  <2> HIDE DEF v, dead
  <2>4. ASSUME NEW r \in new, r.xmax = v, r.xmin # v PROVE r.rid = k.rid
    <3>1. r \in dead
      BY <2>1, <2>4
    <3>2. r \notin base.rows
      BY <2>4 DEF v
    <3> QED BY <2>2, <3>1, <3>2 DEF Tombstoned, SameRow
  <2> QED BY <2>1, <2>3, <2>4 DEF Free
<1> QED BY <1>0, <1>1, <1>2 DEF Edit

\* A commit tombstones no row whose lock another holds.
LEMMA LiveStays ==
  ASSUME NEW B, NEW C, NEW v, Based(B, C, v), \A b \in B : b.xmin # v,
         NEW L, Free(C, v, L), NEW b \in Live(B), NEW l \in L, l[1] = b.rid, l[2] # v
  PROVE  \E r \in Live(C) : r.rid = b.rid
<1>1. PICK r \in C : SameRow(r, b) /\ r.xmax \in {Alive, v}
  BY DEF Based
<1>2. r.rid = b.rid /\ r.xmin # v
  BY <1>1 DEF SameRow, Live
<1>3. r.xmax = Alive \/ r.xmax # v
  BY <1>2 DEF Free
<1> QED BY <1>1, <1>2, <1>3 DEF Live

---------------------------------------------------------------------------
(* The invariant.                                                          *)

StageOK(p, st, T, L, live) ==
  /\ Delta(p.cat.rows, p.claims, st.v) /\ Rooted(p.cat.rows, p.claims, T)
  /\ Locked(p.cat.rows, st.v, st.iso, L, live)
  /\ ~st.shadowDirty => p.claims = {}

\* The INSERTs a transaction may still commit.
Mine(st, o) == \E p \in Stages(st) : <<"ins", o>> \in p.claims

EffectTx(st, T, L, live) == ~st.poisoned /\ \A p \in Stages(st) : StageOK(p, st, T, L, live)

\* No two transactions insert the same, and none what is there.
Apart(s) ==
  \A o : Mine(tx[s], o) => /\ o \in Nat /\ o < nextRid /\ ~Told(told, o)
                           /\ \A q \in Sessions \ {s} : Open(q) => ~Mine(tx[q], o)

\* The committed rows and the history agree, and every stage an open transaction
\* may commit or go back to is what it started from with the changes it claims.
EffectInv ==
  /\ Effects(base.rows, told) /\ Rooted(base.rows, {}, told)
  /\ \A c \in told : Told(told, c[2])
  /\ \A o : Told(told, o) => o \in Nat /\ o < nextRid
  /\ OneHolder(rowLocks)
  /\ \A s \in Sessions : Open(s) => EffectTx(tx[s], told, rowLocks, LiveRids) /\ Apart(s)

\* What those who open a record know.
LEMMA StageNow ==
  ASSUME EffectInv, NEW s \in Sessions, Open(s)
  PROVE  /\ Delta(tx[s].cat.rows, tx[s].claims, tx[s].v)
         /\ Rooted(tx[s].cat.rows, tx[s].claims, told)
         /\ Locked(tx[s].cat.rows, tx[s].v, tx[s].iso, rowLocks, LiveRids)
         /\ ~tx[s].shadowDirty => tx[s].claims = {}
         /\ ~tx[s].poisoned
         /\ \A o : <<"ins", o>> \in tx[s].claims
              => o \in Nat /\ o < nextRid /\ ~Told(told, o) /\ \A c \in told : c[2] # o
<1> DEFINE p == Stage(tx[s])
<1>1. p \in Stages(tx[s]) /\ p.cat = tx[s].cat /\ p.claims = tx[s].claims
  BY DEF Stages, Stage
<1>2. EffectTx(tx[s], told, rowLocks, LiveRids) /\ Apart(s)
  BY DEF EffectInv
<1> HIDE DEF p
<1>3. StageOK(p, tx[s], told, rowLocks, LiveRids) /\ ~tx[s].poisoned
  BY <1>1, <1>2 DEF EffectTx
<1>4. \A o : <<"ins", o>> \in tx[s].claims => Mine(tx[s], o)
  BY <1>1 DEF Mine
<1>5. \A o : <<"ins", o>> \in tx[s].claims => o \in Nat /\ o < nextRid /\ ~Told(told, o)
  BY <1>2, <1>4 DEF Apart
<1>6. \A o : ~Told(told, o) => \A c \in told : c[2] # o
  BY DEF EffectInv
<1> QED BY <1>1, <1>3, <1>5, <1>6 DEF StageOK

\* READ COMMITTED has nothing to skip: it holds the lock of what it tombstoned.
LEMMA NothingSkipped ==
  ASSUME EffectInv, RowInv, NEW s \in Sessions, Open(s), tx[s].iso = "RC"
  PROVE  Conflicted(tx[s]) = {}
<1> SUFFICES ASSUME NEW rid \in Tombstones(tx[s]) \ OwnRids(tx[s])
             PROVE  \E b \in base.rows : b.rid = rid /\ b.xmax \in {Alive, tx[s].v}
  BY DEF Conflicted
<1>1. PICK x \in Written(tx[s]) : x.rid = rid /\ x.xmax = tx[s].v
  BY DEF Tombstones, TombstonedBy
<1>2. x.xmin # tx[s].v /\ x \in tx[s].cat.rows
  BY <1>1 DEF OwnRids, Inserts, InsertedBy, Written
<1>3. rid \in LiveRids
  BY <1>1, <1>2, StageNow DEF Locked
<1> QED BY <1>3 DEF LiveRids, Live

\* Without conflicts a replay drops nothing.
LEMMA ReplayIs ==
  ASSUME NEW st, Conflicted(st) = {}
  PROVE  ReplayInserts(st) = Inserts(st) /\ ReplayTombstones(st) = Tombstones(st)
<1>1. DroppedPairs(st) = {}
  BY DEF DroppedPairs
<1> QED BY <1>1 DEF ReplayInserts, ReplayTombstones

\* A replay without conflicts puts every own change back, and no other.
LEMMA ReplayReplays ==
  ASSUME StampInv, RowInv, EffectInv, NEW s \in Sessions, Open(s), Conflicted(tx[s]) = {}
  PROVE  Replays(tx[s].cat.rows, Replayed(tx[s]), Live(base.rows), Tombstones(tx[s]),
                 tx[s].claims, tx[s].v)
<1> DEFINE st   == tx[s]
           v    == st.v
           rows == st.cat.rows
           R    == Replayed(st)
           L    == Live(base.rows)
           T    == Tombstones(st)
           own  == OwnRids(st)
<1>0. v # 0
  BY OpenShape
<1>1. RidsDistinct(R) /\ RidsDistinct(rows) /\ RidsDistinct(base.rows) /\ OwnRows(rows, st)
  BY ReplayDistinct DEF RowInv, TxRows, Shadows
<1>2. \A b \in base.rows : /\ b.xmin # v /\ b.xmax # v
                           /\ \A q \in rows : q.rid = b.rid => SameRow(q, b) /\ q.xmin # v
  BY BaseAndShadow
<1>3. Clean(base.rows, Settled) /\ Clean(rows, Settled \cup {v}) /\ 0 \in Settled
  BY SettledFacts DEF StampInv, CleanTx, CleanCat
<1>4. ReplayInserts(st) = Inserts(st) /\ ReplayTombstones(st) = T
  BY ReplayIs
<1>5. \A rid : rid \in T <=> \E q \in rows : q.rid = rid /\ q.xmax = v
  <2>1. T = KilledBy(rows, v)
    BY TombstonesAre
  <2> QED BY <2>1 DEF KilledBy
<1>6. \A q : q \in Inserts(st) <=> q \in rows /\ q.xmin = v
  BY <1>1 DEF Inserts, InsertedBy, Written, OwnRows
<1>7. \A rid : rid \in own <=> \E q \in rows : q.xmin = v /\ q.rid = rid
  BY <1>6 DEF OwnRids
<1>8. \A rid \in T \ own : \E b \in base.rows : b.rid = rid /\ b.xmax = Alive
  BY <1>2 DEF Conflicted
<1>9. \A b \in base.rows : b.rid \notin own
  BY <1>2, <1>7
<1>10. \A b \in base.rows : \E r \in R : /\ SameRow(r, b)
                                         /\ \/ b.rid \notin T \ own /\ r = b
                                            \/ b.rid \in T \ own /\ r.xmax = v
  <2> TAKE b \in base.rows
  <2>1. Phase1(st) = Stamped(base.rows, T \ own, v) /\ Phase1(st) \subseteq R
    BY <1>4, Phase1IsStamped DEF Replayed
  <2> HIDE DEF v, T, own, R, st
  <2> QED BY <1>3, <2>1, StampedFrom
<1>11. \A r \in R : \/ \E b \in base.rows : SameRow(r, b) /\ (r = b \/ (r.xmax = v /\ b.rid \in T))
                    \/ \E q \in Inserts(st) : /\ SameRow(r, q)
                                              /\ r.xmax = IF q.rid \in T THEN v ELSE Alive
  <2> TAKE r \in R
  <2>1. \/ \E b \in base.rows :
              /\ SameRow(r, b)
              /\ \/ r = b /\ b.rid \notin ReplayTombstones(st) \ OwnRids(st)
                 \/ r.xmax = st.v /\ b.rid \in ReplayTombstones(st) \ OwnRids(st)
        \/ \E q \in ReplayInserts(st) :
              /\ SameRow(r, q)
              /\ r.xmax = IF q.rid \in ReplayTombstones(st) THEN st.v ELSE Alive
    BY ReplayedRow
  <2> QED BY <1>4, <2>1
<1>12. \A q \in Inserts(st) : [q EXCEPT !.xmax = IF q.rid \in T THEN v ELSE Alive] \in R
  BY <1>4 DEF Replayed
<1>13. Clean(R, Settled \cup {v})
  <2>1. Clean(base.rows, Settled \cup {v})
    BY <1>3, CleanGrows
  <2>2. CleanCat(OntoBase(st), Settled \cup {v})
    BY <1>3, <2>1, ReplayClean
  <2> QED BY <2>2 DEF CleanCat, OntoBase
<1>14. \A q, r : q.xmax = r.xmax /\ SameRow(q, r) /\ q \in R /\ r \in rows => q = r
  BY <1>3, <1>13 DEF Clean, SameRow
<1>15. (\A a, b \in L : a.org = b.org => a = b) /\ \A b \in L : <<"ins", b.org>> \notin st.claims
  <2>1. \A a, b \in L : a.org = b.org => a = b
    <3> SUFFICES ASSUME NEW a \in L, NEW b \in L, a.org = b.org PROVE a = b
      OBVIOUS
    <3>1. a \in Now(base.rows, b.org) /\ b \in Now(base.rows, b.org)
      BY DEF Now
    <3>2. Effects(base.rows, told)
      BY DEF EffectInv
    <3> QED BY <3>1, <3>2 DEF Effects, Only
  <2>2. \A b \in L : Told(told, b.org)
    BY DEF EffectInv, Rooted, Live
  <2> QED BY <2>1, <2>2, StageNow
<1>16. \A b : b \in L <=> b \in base.rows /\ b.xmax = Alive
  BY DEF Live
<1> HIDE DEF st, v, rows, R, L, T, own
<1>21. \A b \in L : \E r \in R : SameRow(r, b) /\ r.xmax = IF b.rid \in T THEN v ELSE Alive
  BY <1>9, <1>10, <1>16
<1>22. ASSUME NEW r \in R, r.xmin # v, r.xmax \in {Alive, v} PROVE \E b \in L : SameRow(r, b)
  <2>1. PICK b \in base.rows : SameRow(r, b) /\ (r = b \/ (r.xmax = v /\ b.rid \in T))
    <3>1. \A q \in Inserts(st) : ~SameRow(r, q)
      BY <1>6, <1>22 DEF SameRow
    <3> QED BY <1>11, <3>1
  <2>2. CASE r = b
    BY <1>2, <1>16, <1>22, <2>1, <2>2
  <2>3. CASE b.rid \in T
    <3>1. PICK c \in base.rows : c.rid = b.rid /\ c.xmax = Alive
      BY <1>8, <1>9, <2>3
    <3>2. c = b
      BY <1>1, <3>1 DEF RidsDistinct
    <3> QED BY <1>16, <2>1, <3>1, <3>2
  <2> QED BY <2>1, <2>2, <2>3
<1>23. ASSUME NEW r \in R, r.xmin = v, r.xmax = Alive PROVE r \in rows
  <2>1. PICK q \in Inserts(st) : SameRow(r, q) /\ r.xmax = IF q.rid \in T THEN v ELSE Alive
    <3>1. \A b \in base.rows : ~SameRow(r, b)
      BY <1>2, <1>23 DEF SameRow
    <3> QED BY <1>11, <3>1
  <2>2. q \in rows /\ q.xmin = v /\ q.rid \notin T
    BY <1>0, <1>6, <1>23, <2>1 DEF Alive
  <2>3. q.xmax = Alive
    BY <1>1, <1>5, <2>2 DEF OwnRows, v
  <2> QED BY <1>14, <1>23, <2>1, <2>2, <2>3
<1>24. ASSUME NEW r \in rows, r.xmin = v, r.xmax = Alive PROVE r \in R
  <2>1. r \in Inserts(st)
    BY <1>6, <1>24
  <2>2. r.rid \notin T
    BY <1>0, <1>1, <1>5, <1>24 DEF RidsDistinct, Alive
  <2>3. [r EXCEPT !.xmax = Alive] \in R
    BY <1>12, <2>1, <2>2
  <2>4. r = [rid |-> r.rid, tab |-> r.tab, key |-> r.key, org |-> r.org, by |-> r.by,
             xmin |-> r.xmin, xmax |-> r.xmax]
    BY <1>3 DEF Clean
  <2>5. [r EXCEPT !.xmax = Alive] = r
    BY <1>24, <2>4
  <2> QED BY <2>3, <2>5
<1>25. ASSUME NEW x \in rows, x.xmin # v, x.xmax = v
       PROVE  x.rid \in T /\ \E b \in L : SameRow(x, b)
  <2>1. x.rid \in T
    BY <1>5, <1>25
  <2>2. x.rid \notin own
    BY <1>1, <1>7, <1>25 DEF RidsDistinct
  <2>3. PICK b \in base.rows : b.rid = x.rid /\ b.xmax = Alive
    BY <1>8, <2>1, <2>2
  <2> QED BY <1>2, <1>16, <2>1, <2>3
<1>26. ASSUME NEW b \in L, b.rid \in T PROVE \E x \in rows : SameRow(x, b) /\ x.xmax = v
  BY <1>2, <1>5, <1>16, <1>26
<1>27. \A b \in L : b.xmin # v
  BY <1>2, <1>16
<1>28. Replays(rows, R, L, T, st.claims, v)
  BY <1>1, <1>15, <1>21, <1>22, <1>23, <1>24, <1>25, <1>26, <1>27 DEF Replays
<1> QED BY <1>28 DEF st, v, rows, R, L, T

\* So the replayed shadow is as good as the one that was replayed,
LEMMA ReplayGood ==
  ASSUME StampInv, RowInv, EffectInv, NEW s \in Sessions, Open(s), Conflicted(tx[s]) = {}
  PROVE  /\ Delta(Replayed(tx[s]), tx[s].claims, tx[s].v)
         /\ Rooted(Replayed(tx[s]), tx[s].claims, told)
         /\ Locked(Replayed(tx[s]), tx[s].v, tx[s].iso, rowLocks, LiveRids)
         /\ Based(base.rows, Replayed(tx[s]), tx[s].v)
<1> DEFINE st   == tx[s]
           v    == st.v
           rows == st.cat.rows
           R    == Replayed(st)
           L    == Live(base.rows)
           T    == Tombstones(st)
           K    == st.claims
<1>0. v # 0
  BY OpenShape
<1>1. Replays(rows, R, L, T, K, v)
  BY ReplayReplays
<1>2. /\ Delta(rows, K, v) /\ Rooted(rows, K, told)
      /\ Locked(rows, v, st.iso, rowLocks, LiveRids)
  BY StageNow
<1>3. Rooted(base.rows, {}, told)
  BY DEF EffectInv
<1>4. \A r \in R : \E q \in base.rows \cup rows : r.org = q.org
  <2> SUFFICES ASSUME NEW r \in R PROVE \E q \in base.rows \cup rows : r.org = q.org
    OBVIOUS
  <2>1. (\E b \in base.rows : SameRow(r, b)) \/ (\E q \in ReplayInserts(st) : SameRow(r, q))
    BY ReplayedRow
  <2>2. \A q \in ReplayInserts(st) : q \in rows
    BY ReplayedOwn
  <2> QED BY <2>1, <2>2 DEF SameRow
<1> HIDE DEF st, v, rows, R, L, T, K
<1>5. Delta(R, K, v)
  BY <1>0, <1>1, <1>2, ReplaysDelta
<1>6. Rooted(R, K, told)
  BY <1>2, <1>3, <1>4 DEF Rooted
<1>7. Based(base.rows, R, v)
  <2>1. \A b \in L : \E r \in R : SameRow(r, b) /\ r.xmax \in {Alive, v}
    BY <1>1 DEF Replays
  <2>2. \A r \in R : r.xmin # v /\ r.xmax \in {Alive, v} => \E b \in L : SameRow(r, b)
    BY <1>1 DEF Replays
  <2> QED BY <2>1, <2>2 DEF Based, L
<1>8. Locked(R, v, st.iso, rowLocks, LiveRids)
  <2> SUFFICES ASSUME NEW r \in R, r.xmax = v, r.xmin # v
               PROVE  <<r.rid, v>> \in rowLocks /\ (st.iso = "RC" => r.rid \in LiveRids)
    BY DEF Locked
  <2>1. PICK b \in L : SameRow(r, b)
    BY <1>1 DEF Replays
  <2>2. b.rid \in T
    <3> SUFFICES ASSUME b.rid \notin T PROVE FALSE
      OBVIOUS
    <3>1. PICK q \in R : SameRow(q, b) /\ q.xmax = Alive
      BY <1>1 DEF Replays
    <3>2. q = r
      BY <1>1, <2>1, <3>1 DEF Replays, RidsDistinct, SameRow
    <3> QED BY <1>0, <3>1, <3>2 DEF Alive
  <2>3. PICK x \in rows : SameRow(x, b) /\ x.xmax = v
    BY <1>1, <2>2 DEF Replays
  <2>4. x.rid = r.rid /\ x.xmin # v
    BY <2>1, <2>3 DEF SameRow
  <2> QED BY <1>2, <2>3, <2>4 DEF Locked
<1> QED BY <1>5, <1>6, <1>7, <1>8 DEF st, v, R, K

\* and so is what a statement starts from.
LEMMA CatalogGood ==
  ASSUME StampInv, RowInv, CurrentInv, EffectInv, NEW s \in Sessions, Open(s)
  PROVE  /\ Delta(Catalog(s), tx[s].claims, tx[s].v)
         /\ Rooted(Catalog(s), tx[s].claims, told)
         /\ Locked(Catalog(s), tx[s].v, tx[s].iso, rowLocks, LiveRids)
         /\ tx[s].iso = "RC" => Based(base.rows, Catalog(s), tx[s].v)
<1> DEFINE v == tx[s].v
<1>1. tx[s].iso = "RC" <=> tx[s].snap = NoSnap
  BY DEF RowInv, TxRows, SnapOK
<1>2. CASE NeedsRebase(tx[s])
  <2>1. Catalog(s) = Replayed(tx[s])
    BY <1>2, RebasedRows DEF Catalog
  <2>2. Conflicted(tx[s]) = {}
    BY <1>1, <1>2, NothingSkipped DEF NeedsRebase
  <2> QED BY <2>1, <2>2, ReplayGood
<1>3. CASE ~NeedsRebase(tx[s])
  <2>1. Catalog(s) = tx[s].cat.rows
    BY <1>3, RebasedRows DEF Catalog
  <2>2. /\ Delta(Catalog(s), tx[s].claims, v) /\ Rooted(Catalog(s), tx[s].claims, told)
        /\ Locked(Catalog(s), v, tx[s].iso, rowLocks, LiveRids) /\ ~tx[s].poisoned
    BY <2>1, StageNow
  <2>3. ASSUME tx[s].iso = "RC" PROVE Based(base.rows, Catalog(s), v)
    <3>1. AliveOthers(Catalog(s), v) = LiveRids \ KilledBy(Catalog(s), v)
      BY <2>2, <2>3, CatalogCurrent
    <3>2. \A b \in base.rows : \A q \in Catalog(s) : q.rid = b.rid => SameRow(q, b)
      BY <2>1, BaseAndShadow
    <3>3. ASSUME NEW b \in Live(base.rows)
          PROVE  \E r \in Catalog(s) : SameRow(r, b) /\ r.xmax \in {Alive, v}
      <4>1. b \in base.rows /\ b.rid \in LiveRids
        BY DEF Live, LiveRids
      <4>2. b.rid \in AliveOthers(Catalog(s), v) \/ b.rid \in KilledBy(Catalog(s), v)
        BY <3>1, <4>1
      <4>3. \E r \in Catalog(s) : r.rid = b.rid /\ r.xmax \in {Alive, v}
        BY <4>2 DEF AliveOthers, KilledBy
      <4> QED BY <3>2, <4>1, <4>3
    <3>4. ASSUME NEW r \in Catalog(s), r.xmin # v, r.xmax \in {Alive, v}
          PROVE  \E b \in Live(base.rows) : SameRow(r, b)
      <4>1. CASE r.xmax = Alive
        <5>1. r.rid \in AliveOthers(Catalog(s), v)
          BY <3>4, <4>1 DEF AliveOthers
        <5>2. r.rid \in LiveRids
          BY <3>1, <5>1
        <5> QED BY <3>2, <5>2 DEF LiveRids, Live
      <4>2. CASE r.xmax = v
        <5>1. r.rid \in LiveRids
          BY <2>2, <2>3, <3>4, <4>2 DEF Locked
        <5> QED BY <3>2, <5>1 DEF LiveRids, Live
      <4> QED BY <3>4, <4>1, <4>2
    <3> QED BY <3>3, <3>4 DEF Based
  <2> QED BY <2>2, <2>3
<1> QED BY <1>2, <1>3

\* What COMMIT installs: nothing, for a transaction that claims nothing; or the
\* rows it would replay.
LEMMA InstallGood ==
  ASSUME StampInv, RowInv, CurrentInv, DirtyInv, EffectInv, RedoCapture = FALSE,
         NEW s \in Sessions, Open(s), ~Refused(tx[s])
  PROVE  /\ Delta(Installed(tx[s]).rows, tx[s].claims, tx[s].v)
         /\ Rooted(Installed(tx[s]).rows, tx[s].claims, told)
         /\ Locked(Installed(tx[s]).rows, tx[s].v, tx[s].iso, rowLocks, LiveRids)
         /\ Based(base.rows, Installed(tx[s]).rows, tx[s].v)
<1> DEFINE st == tx[s]
           C  == Installed(st).rows
<1>0. ~st.poisoned /\ (~st.shadowDirty => st.claims = {})
  BY StageNow
<1>1. CASE ~st.shadowDirty
  <2>1. C = base.rows
    BY <1>1 DEF Installed
  <2>2. \A b \in base.rows : b.xmin # st.v /\ b.xmax # st.v
    BY BaseAndShadow
  <2>3. Effects(base.rows, told) /\ Rooted(base.rows, {}, told)
    BY DEF EffectInv
  <2>4. Delta(base.rows, {}, st.v) /\ Based(base.rows, base.rows, st.v)
    BY <2>2, <2>3, BaseDelta
  <2>5. Locked(base.rows, st.v, st.iso, rowLocks, LiveRids)
    BY <2>2 DEF Locked
  <2> QED BY <1>0, <1>1, <2>1, <2>3, <2>4, <2>5
<1>2. CASE st.shadowDirty /\ st.iso = "RC"
  <2>1. st.snap = NoSnap
    BY <1>2 DEF RowInv, TxRows, SnapOK
  <2>2. C = Catalog(s)
    BY <1>0, <1>2, <2>1 DEF Installed, Ready, Merges, Catalog
  <2> QED BY <1>2, <2>2, CatalogGood
<1>3. CASE st.shadowDirty /\ st.iso # "RC"
  <2>1. st.snap # NoSnap
    BY <1>3 DEF RowInv, TxRows, SnapOK
  <2>2. st.touched # {}
    BY <1>0, <1>3 DEF DirtyInv, DirtyTx
  <2>3. Merges(st)
    BY <1>0, <2>1, <2>2 DEF Merges
  <2>4. Conflicted(st) = {}
    BY <2>3 DEF Refused
  <2>5. C = Replayed(st)
    BY <1>0, <1>3, <2>3 DEF Installed, Ready, OntoBase
  <2> QED BY <2>4, <2>5, ReplayGood
<1> QED BY <1>1, <1>2, <1>3

---------------------------------------------------------------------------
(* The kinds of step, with the locks, the claims and the history.          *)

NoNews == UNCHANGED told

EffectBegan(s) ==
  /\ Began(s) /\ NoNews /\ UNCHANGED rowLocks /\ ~tx'[s].poisoned
  /\ \A p \in Stages(tx'[s]) : p.cat.rows = base.rows /\ p.claims = {}

EffectBookmarked(s) == Bookmarked(s) /\ NoNews /\ UNCHANGED rowLocks

EffectRead(s) ==
  /\ Ran(s) /\ NoNews /\ UNCHANGED nextRid /\ tx'[s].cat.rows = Catalog(s)
  /\ tx'[s].claims = tx[s].claims /\ tx'[s].saves = tx[s].saves
  /\ tx'[s].poisoned = tx[s].poisoned /\ tx'[s].shadowDirty = tx[s].shadowDirty
  /\ \/ rowLocks' = rowLocks
     \/ \E rid : ~LockWaits(s, rid) /\ rowLocks' = rowLocks \cup {<<rid, Version(s)>>}

EffectWrote(s) ==
  /\ Ran(s) /\ NoNews /\ tx'[s].saves = tx[s].saves
  /\ tx'[s].poisoned = tx[s].poisoned /\ tx'[s].shadowDirty = TRUE
  /\ \E K : tx'[s].claims = tx[s].claims \cup K /\ Edit(s, tx'[s].cat.rows, K)

EffectAuto(s) ==
  /\ ~Open(s) /\ StaleOthers(s) /\ tx'[s] = NoTx
  /\ \E K : /\ Edit(s, base'.rows, K)
            /\ told' = told \cup {<<c[1], c[2], nextVersion>> : c \in K}

EffectEnded(s) ==
  /\ Open(s) /\ StaleOthers(s) /\ tx'[s] = NoTx /\ UNCHANGED nextRid
  /\ rowLocks' = {l \in rowLocks : l[2] # tx[s].v}
  /\ \/ NoNews /\ UNCHANGED base
     \/ /\ ~Refused(tx[s]) /\ base' = Installed(tx[s])
        /\ told' = told \cup {<<c[1], c[2], tx[s].v>> : c \in tx[s].claims}

EffectIdle == UNCHANGED <<base, tx, told, rowLocks, nextRid>>

\* The rebase leaves the claims alone.
LEMMA RebaseClaims ==
  ASSUME NEW st, TxShape(st)
  PROVE  Rebased(st).claims = st.claims
<1>1. DOMAIN st = TxFields
  BY DEF TxShape
<1>2. CASE NeedsRebase(st)
  <2> DEFINE cat == OntoBase(st)
  <2>1. Rebased(st) = [st EXCEPT !.cat = cat, !.fresh = TRUE]
    BY <1>2 DEF Rebased
  <2> HIDE DEF cat
  <2> QED BY <1>1, <2>1 DEF TxFields
<1>3. CASE ~NeedsRebase(st)
  BY <1>3 DEF Rebased
<1> QED BY <1>2, <1>3

\* SELECT, SELECT .. FOR UPDATE and a statement that fails.
LEMMA EffectReadCase ==
  ASSUME StampInv, NEW s \in Sessions, Open(s), NEW f \in {"reads", "aborted"}, NEW x,
         tx' = [tx EXCEPT ![s] = [Rebased(tx[s]) EXCEPT ![f] = x]], ~RebaseFails(tx[s]),
         UNCHANGED <<base, nextRid>>, NoCommit, NoNews,
         \/ rowLocks' = rowLocks
         \/ \E rid : ~LockWaits(s, rid) /\ rowLocks' = rowLocks \cup {<<rid, Version(s)>>}
  PROVE  EffectRead(s)
<1> DEFINE rb == Rebased(tx[s])
           st == [rb EXCEPT ![f] = x]
<1>1. /\ SameTx(tx[s], rb) /\ DOMAIN rb = TxFields /\ rb.saves = tx[s].saves
      /\ rb.poisoned = tx[s].poisoned /\ rb.shadowDirty = tx[s].shadowDirty
  BY OpenShape, RebaseFields
<1>2. rb.claims = tx[s].claims
  BY OpenShape, RebaseClaims
<1>3. rb.cat.rows = Catalog(s)
  BY DEF Catalog
<1> HIDE DEF rb
<1>4. tx'[s] = st /\ Others(s)
  BY OwnRecord DEF rb
<1>5. /\ SameTx(rb, st) /\ st.saves = rb.saves /\ st.fresh = rb.fresh /\ st.cat = rb.cat
      /\ st.shadowDirty = rb.shadowDirty /\ st.poisoned = rb.poisoned /\ st.claims = rb.claims
  BY <1>1 DEF TxFields, SameTx
<1> HIDE DEF st
<1>6. Ran(s)
  BY <1>4, <1>5 DEF Ran, rb
<1> QED BY <1>1, <1>2, <1>3, <1>4, <1>5, <1>6 DEF EffectRead

\* INSERT, UPDATE and DELETE.
LEMMA EffectWriteCase ==
  ASSUME StampInv, NEW s \in Sessions, NEW op, CanRun(s, op),
         NEW t, NEW rows, NEW reads, NEW pairs, NEW K, Wrote(s, t, rows, reads, pairs, K),
         Edit(s, rows, K), NoCommit
  PROVE  EffectWrote(s) \/ EffectAuto(s)
<1> DEFINE rb == Rebased(tx[s])
<1>1. CASE Open(s)
  <2> DEFINE st == [rb EXCEPT
                      !.cat.rows = rows, !.cat.dirty = @ \cup {t},
                      !.touched = @ \cup {t}, !.pairs = @ \cup pairs,
                      !.reads = IF tx[s].iso = "SER" THEN @ \cup reads ELSE @,
                      !.shadowDirty = TRUE, !.claims = @ \cup K]
  <2>1. /\ DOMAIN rb = TxFields /\ rb.saves = tx[s].saves /\ rb.poisoned = tx[s].poisoned
    BY <1>1, OpenShape, RebaseFields
  <2>2. rb.claims = tx[s].claims
    BY <1>1, OpenShape, RebaseClaims
  <2>3. CleanTx(rb, Settled)
    BY <1>1, StatementStart
  <2>4. DOMAIN rb.cat = {"rows", "ddl", "dirty"}
    BY <2>3 DEF CleanTx, CleanCat
  <2>5. tx' = [tx EXCEPT ![s] = st] /\ UNCHANGED base /\ NoNews
    BY <1>1 DEF Wrote, NoNews
  <2>6. ~RebaseFails(tx[s])
    BY <1>1 DEF CanRun
  <2> HIDE DEF rb
  <2>7. st.cat = [[rb.cat EXCEPT !.rows = rows] EXCEPT !.dirty = @ \cup {t}]
    BY <2>1 DEF TxFields
  <2>8. /\ SameTx(rb, st) /\ st.saves = rb.saves /\ st.fresh = rb.fresh
        /\ st.poisoned = rb.poisoned /\ st.shadowDirty = TRUE /\ st.claims = rb.claims \cup K
    BY <2>1 DEF TxFields, SameTx
  <2> HIDE DEF st
  <2>9. st.cat.rows = rows
    BY <2>4, <2>7
  <2>10. tx'[s] = st /\ Others(s)
    BY <2>5, OwnRecord
  <2>11. Ran(s)
    BY <1>1, <2>5, <2>6, <2>8, <2>10 DEF Ran, rb
  <2> QED BY <2>1, <2>2, <2>5, <2>8, <2>9, <2>10, <2>11 DEF EffectWrote
<1>2. CASE ~Open(s)
  <2>1. /\ base' = [base EXCEPT !.rows = rows] /\ tx' = Stale(tx)
        /\ told' = told \cup {<<c[1], c[2], nextVersion>> : c \in K}
    BY <1>2 DEF Wrote
  <2>2. base'.rows = rows
    BY <2>1 DEF StampInv
  <2>3. StaleOthers(s) /\ tx'[s] = NoTx
    BY <1>2, <2>1 DEF StaleOthers, Stale, Open
  <2> QED BY <1>2, <2>1, <2>2, <2>3 DEF EffectAuto
<1> QED BY <1>1, <1>2

\* Every step is one of these, without ON CONFLICT, DDL and utility statements.
LEMMA EffectCases ==
  ASSUME StampInv, [TxNext]_vars, Ops \cap {"upsert", "alter", "utility"} = {}
  PROVE  \/ EffectIdle
         \/ \E s \in Sessions : \/ EffectBegan(s) \/ EffectBookmarked(s) \/ EffectRead(s)
                                \/ EffectWrote(s) \/ EffectAuto(s) \/ EffectEnded(s)
<1>1. CASE UNCHANGED vars
  BY <1>1 DEF vars, EffectIdle
<1>2. ASSUME NEW s \in Sessions, NEW iso, Begin(s, iso) PROVE EffectBegan(s)
  <2> DEFINE st == [v |-> nextVersion, iso |-> iso,
                    cat |-> [rows |-> base.rows, ddl |-> base.ddl, dirty |-> {}],
                    snap |-> BeginSnapshot(iso),
                    touched |-> {}, reads |-> {}, beginSeq |-> commitSeq, pairs |-> {},
                    saves |-> <<>>, claims |-> {}, shadowDirty |-> FALSE,
                    poisoned |-> FALSE, fresh |-> TRUE, aborted |-> FALSE]
  <2>1. Began(s)
    BY <1>2, BeginCase
  <2>2. tx' = [tx EXCEPT ![s] = st] /\ UNCHANGED <<told, rowLocks>>
    BY <1>2 DEF Begin
  <2>3. st.cat.rows = base.rows /\ st.claims = {} /\ st.saves = <<>> /\ st.poisoned = FALSE
    OBVIOUS
  <2> HIDE DEF st
  <2>4. tx'[s] = st
    BY <2>2, OwnRecord
  <2>5. Entries(st) = {}
    BY <2>3 DEF Entries
  <2>6. \A p \in Stages(st) : p = Stage(st)
    BY <2>5 DEF Stages
  <2>7. Stage(st).cat.rows = base.rows /\ Stage(st).claims = {}
    BY <2>3 DEF Stage
  <2> QED BY <2>1, <2>2, <2>3, <2>4, <2>6, <2>7 DEF EffectBegan, NoNews
<1>3. ASSUME NEW s \in Sessions, NEW n, Savepoint(s, n) \/ RollbackTo(s, n) \/ Release(s, n)
      PROVE  EffectBookmarked(s)
  <2>1. Bookmarked(s)
    BY <1>3, BookmarkCase
  <2> QED BY <1>3, <2>1 DEF EffectBookmarked, NoNews, Savepoint, RollbackTo, Release
<1>4. ASSUME NEW s \in Sessions, NEW t, Select(s, t) PROVE EffectIdle \/ EffectRead(s)
  <2>1. CASE Open(s)
    <3>1. /\ \E x : tx' = [tx EXCEPT ![s] = [Rebased(tx[s]) EXCEPT !["reads"] = x]]
          /\ CanRun(s, "select") /\ UNCHANGED <<base, nextRid, rowLocks>> /\ NoNews /\ NoCommit
      BY <1>4, <2>1 DEF Select, Unlocked, Quiet, NoNews, NoCommit
    <3>2. ~RebaseFails(tx[s])
      BY <2>1, <3>1 DEF CanRun
    <3> QED BY <2>1, <3>1, <3>2, EffectReadCase
  <2>2. CASE ~Open(s)
    BY <1>4, <2>2 DEF Select, EffectIdle, Unlocked
  <2> QED BY <2>1, <2>2
<1>5. ASSUME NEW s \in Sessions, NEW r, LockRow(s, r) PROVE EffectRead(s)
  <2>1. /\ \E x : tx' = [tx EXCEPT ![s] = [Rebased(tx[s]) EXCEPT !["reads"] = x]]
        /\ Open(s) /\ CanRun(s, "lock") /\ UNCHANGED <<base, nextRid>> /\ NoNews /\ NoCommit
        /\ ~LockWaits(s, r.rid) /\ rowLocks' = rowLocks \cup {<<r.rid, Version(s)>>}
    BY <1>5 DEF LockRow, Quiet, NoNews, NoCommit, Version
  <2>2. ~RebaseFails(tx[s])
    BY <2>1 DEF CanRun
  <2> QED BY <2>1, <2>2, EffectReadCase
<1>6. ASSUME NEW s \in Sessions, NEW op, CanRun(s, op), Fails(s), Quiet, rowLocks' = rowLocks
      PROVE  EffectRead(s)
  <2>1. /\ tx' = [tx EXCEPT ![s] = [Rebased(tx[s]) EXCEPT !["aborted"] = TRUE]]
        /\ Open(s) /\ UNCHANGED <<base, nextRid>> /\ NoNews /\ NoCommit
    BY <1>6 DEF Fails, Quiet, NoNews, NoCommit
  <2>2. ~RebaseFails(tx[s])
    BY <1>6, <2>1 DEF CanRun
  <2> QED BY <1>6, <2>1, <2>2, EffectReadCase
<1>7. ASSUME NEW s \in Sessions, NEW t, NEW k, Insert(s, t, k)
      PROVE  EffectRead(s) \/ EffectWrote(s) \/ EffectAuto(s)
  <2> DEFINE new == NewRow(t, k, nextRid, {}, Version(s))
             rows == Catalog(s) \cup {new}
             K == {<<"ins", nextRid>>}
  <2>0. CanRun(s, "insert") /\ Quiet /\ NoCommit /\ rowLocks' = rowLocks
    BY <1>7 DEF Insert, Quiet, NoCommit, Unlocked
  <2>1. CASE Fails(s)
    BY <1>6, <2>0, <2>1
  <2>2. CASE Wrote(s, t, rows, {}, {}, K) /\ nextRid' = nextRid + 1
    <3>1. new.org = nextRid /\ new.by = {} /\ new.xmin = Version(s) /\ new.xmax = Alive
      BY DEF NewRow
    <3> HIDE DEF new
    <3>2. EditInsert(s, rows, K)
      BY <2>0, <2>2, <3>1 DEF EditInsert
    <3>3. Edit(s, rows, K)
      BY <3>2 DEF Edit
    <3> HIDE DEF rows, K
    <3> QED BY <2>0, <2>2, <3>3, EffectWriteCase
  <2> QED BY <1>7, <2>1, <2>2 DEF Insert
<1>8. ASSUME NEW s \in Sessions, NEW r \in Catalog(s), Delete(s, r)
      PROVE  EffectWrote(s) \/ EffectAuto(s)
  <2> DEFINE rows == Kill(Catalog(s), r.rid, Version(s))
             K == {<<"del", r.org>>}
  <2>1. /\ Wrote(s, r.tab, rows, {r.tab}, {}, K) /\ nextRid' = nextRid
        /\ CanRun(s, "delete") /\ NoCommit
        /\ r \in View(s) /\ ~LockWaits(s, r.rid) /\ TakesLock(s, r.rid)
    BY <1>8 DEF Delete, Quiet, NoCommit
  <2>2. Edit(s, rows, K)
    BY <2>1 DEF Edit, EditRow
  <2> HIDE DEF rows, K
  <2> QED BY <2>1, <2>2, EffectWriteCase
<1>9. ASSUME NEW s \in Sessions, NEW r \in Catalog(s), NEW k, Update(s, r, k)
      PROVE  EffectRead(s) \/ EffectWrote(s) \/ EffectAuto(s)
  <2> DEFINE op == IF k = r.key THEN "update" ELSE "rekey"
             new == Successor(s, r, k)
             rows == Kill(Catalog(s), r.rid, Version(s)) \cup {new}
             K == {<<"upd", r.org>>}
  <2>1. CanRun(s, op) /\ Quiet /\ NoCommit /\ r \in View(s)
    BY <1>9 DEF Update, Quiet, NoCommit
  <2>2. CASE Fails(s) /\ Unlocked
    <3> HIDE DEF op
    <3> QED BY <1>6, <2>1, <2>2 DEF Unlocked
  <2>3. CASE ~LockWaits(s, r.rid) /\ NewVersion(s, r, k, {r.tab}) /\ TakesLock(s, r.rid)
    <3>1. Wrote(s, r.tab, rows, {r.tab}, {<<r.rid, nextRid>>}, K) /\ nextRid' = nextRid + 1
      BY <2>3 DEF NewVersion
    <3>2. /\ new.org = r.org /\ new.by = r.by \cup {Version(s)}
          /\ new.xmin = Version(s) /\ new.xmax = Alive
      BY DEF Successor, NewRow
    <3> HIDE DEF new, op
    <3>3. EditRow(s, r, rows, K)
      BY <2>1, <2>3, <3>1, <3>2 DEF EditRow
    <3>4. Edit(s, rows, K)
      BY <3>3 DEF Edit
    <3> HIDE DEF rows, K
    <3> QED BY <2>1, <3>1, <3>4, EffectWriteCase
  <2> QED BY <1>9, <2>2, <2>3 DEF Update
<1>10. ASSUME NEW s \in Sessions, Commit(s) \/ CommitRefused(s) \/ Rollback(s)
       PROVE  EffectEnded(s)
  <2>1. Ended(s)
    BY <1>10, EndCase
  <2>2. rowLocks' = {l \in rowLocks : l[2] # tx[s].v}
    BY <1>10 DEF Commit, CommitRefused, Rollback, Discard, Ends
  <2>3. \/ NoNews /\ UNCHANGED base
        \/ /\ ~Refused(tx[s]) /\ base' = Installed(tx[s])
           /\ told' = told \cup {<<c[1], c[2], tx[s].v>> : c \in tx[s].claims}
    BY <1>10 DEF Commit, CommitRefused, Rollback, Discard, NoNews
  <2> QED BY <2>1, <2>2, <2>3 DEF Ended, EffectEnded
<1>11. ASSUME NEW s \in Sessions, NEW t, NEW r, NEW k
       PROVE  ~Alter(s, t) /\ ~Utility(s) /\ ~Upsert(s, r, k)
  BY DEF Alter, Utility, Upsert, CanRun
<1> QED
  BY <1>1, <1>2, <1>3, <1>4, <1>5, <1>7, <1>8, <1>9, <1>10, <1>11 DEF TxNext

---------------------------------------------------------------------------
(* The invariant under every kind of step.                                 *)

\* A stage stays good while its locks are held and what it locked lives.
LEMMA StageStays ==
  ASSUME NEW p, NEW st, NEW T, NEW L, NEW live, StageOK(p, st, T, L, live),
         NEW new, new.v = st.v, new.iso = st.iso, ~new.shadowDirty => ~st.shadowDirty,
         NEW U, T \subseteq U, NEW M, NEW alive,
         \A rid : <<rid, st.v>> \in L => /\ <<rid, st.v>> \in M
                                         /\ rid \in live => rid \in alive
  PROVE  StageOK(p, new, U, M, alive)
<1>1. Delta(p.cat.rows, p.claims, new.v)
  BY DEF StageOK
<1>2. Rooted(p.cat.rows, p.claims, U)
  BY DEF StageOK, Rooted, Told
<1>3. Locked(p.cat.rows, new.v, new.iso, M, alive)
  BY DEF StageOK, Locked
<1>4. ~new.shadowDirty => p.claims = {}
  BY DEF StageOK
<1> QED BY <1>1, <1>2, <1>3, <1>4 DEF StageOK

\* A step of s on its own transaction.
LEMMA EffectOwn ==
  ASSUME StampInv, EffectInv, NEW s \in Sessions, Others(s), UNCHANGED <<base, told>>,
         nextRid \in Nat, nextRid' = nextRid \/ nextRid' = nextRid + 1,
         rowLocks \subseteq rowLocks', OneHolder(rowLocks'),
         EffectTx(tx'[s], told, rowLocks', LiveRids),
         \A o : Mine(tx'[s], o) => \/ Open(s) /\ Mine(tx[s], o)
                                   \/ o = nextRid /\ nextRid' = nextRid + 1
  PROVE  EffectInv'
<1>1. LiveRids' = LiveRids
  BY DEF LiveRids
<1>2. \A o \in Sessions \ {s} : tx'[o] = tx[o]
  BY DEF Others
<1>3. \A n \in Nat : n < nextRid => n < nextRid'
  OBVIOUS
<1>4. \A o : Told(told, o) => o \in Nat /\ o < nextRid
  BY DEF EffectInv
<1>5. \A q \in Sessions : Open(q) => EffectTx(tx[q], told, rowLocks, LiveRids) /\ Apart(q)
  BY DEF EffectInv
<1>6. ASSUME NEW q \in Sessions, tx'[q] # NoTx
      PROVE  EffectTx(tx'[q], told, rowLocks', LiveRids)
  <2>1. CASE q = s
    BY <2>1
  <2>2. CASE q # s
    <3>1. tx'[q] = tx[q] /\ EffectTx(tx[q], told, rowLocks, LiveRids)
      BY <1>2, <1>5, <1>6, <2>2 DEF Open
    <3>2. \A p \in Stages(tx[q]) : StageOK(p, tx[q], told, rowLocks, LiveRids)
      BY <3>1 DEF EffectTx
    <3>3. \A p \in Stages(tx[q]) : StageOK(p, tx[q], told, rowLocks', LiveRids)
      <4> TAKE p \in Stages(tx[q])
      <4> QED BY <3>2, StageStays
    <3> QED BY <3>1, <3>3 DEF EffectTx
  <2> QED BY <2>1, <2>2
<1>7. ASSUME NEW q \in Sessions, tx'[q] # NoTx, NEW o, Mine(tx'[q], o)
      PROVE  /\ o \in Nat /\ o < nextRid' /\ ~Told(told, o)
             /\ \/ Open(q) /\ Mine(tx[q], o)
                \/ o = nextRid /\ nextRid' = nextRid + 1 /\ q = s
  <2>1. \/ Open(q) /\ Mine(tx[q], o)
        \/ o = nextRid /\ nextRid' = nextRid + 1 /\ q = s
    BY <1>2, <1>7 DEF Open
  <2>2. CASE Open(q) /\ Mine(tx[q], o)
    BY <1>3, <1>5, <2>2 DEF Apart
  <2>3. CASE o = nextRid /\ nextRid' = nextRid + 1 /\ q = s
    BY <1>4, <2>3
  <2> QED BY <2>1, <2>2, <2>3
<1>8. ASSUME NEW q \in Sessions, tx'[q] # NoTx, NEW o, Mine(tx'[q], o),
             NEW w \in Sessions \ {q}, tx'[w] # NoTx, Mine(tx'[w], o)
      PROVE  FALSE
  <2>1. \/ Open(q) /\ Mine(tx[q], o)
        \/ o = nextRid /\ q = s
    BY <1>7, <1>8
  <2>2. \/ Open(w) /\ Mine(tx[w], o)
        \/ o = nextRid /\ w = s
    BY <1>7, <1>8
  <2>3. \A x \in Sessions : Open(x) /\ Mine(tx[x], o) => o \in Nat /\ o < nextRid
    BY <1>5 DEF Apart
  <2>4. ~(Open(q) /\ Mine(tx[q], o) /\ Open(w) /\ Mine(tx[w], o))
    BY <1>5 DEF Apart
  <2> QED BY <2>1, <2>2, <2>3, <2>4
<1>9. ASSUME NEW q \in Sessions, Open(q)' PROVE Apart(q)'
  BY <1>7, <1>8, <1>9 DEF Apart, Open
<1>10. ASSUME NEW q \in Sessions, Open(q)' PROVE EffectTx(tx[q], told, rowLocks, LiveRids)'
  BY <1>1, <1>6, <1>10 DEF Open
<1>11. /\ (Effects(base.rows, told))' /\ (Rooted(base.rows, {}, told))'
       /\ (\A c \in told : Told(told, c[2]))'
       /\ (\A o : Told(told, o) => o \in Nat /\ o < nextRid)'
  BY <1>3, <1>4 DEF EffectInv
<1> QED BY <1>9, <1>10, <1>11 DEF EffectInv

\* A step that may change the committed rows: the others only have to rebase.
LEMMA EffectCommitted ==
  ASSUME StampInv, EffectInv, NEW s \in Sessions, StaleOthers(s), tx'[s] = NoTx,
         nextRid \in Nat, nextRid' = nextRid \/ nextRid' = nextRid + 1,
         OneHolder(rowLocks'), told \subseteq told',
         Effects(base'.rows, told'), Rooted(base'.rows, {}, told'),
         \A c \in told' : Told(told', c[2]),
         \A o : Told(told', o) => \/ Told(told, o) \/ (Open(s) /\ Mine(tx[s], o))
                                  \/ (o = nextRid /\ nextRid' = nextRid + 1),
         \A q \in Sessions \ {s} : Open(q) =>
           \A rid : <<rid, tx[q].v>> \in rowLocks =>
             /\ <<rid, tx[q].v>> \in rowLocks'
             /\ rid \in LiveRids => rid \in LiveRids'
  PROVE  EffectInv'
<1>1. \A n \in Nat : n < nextRid => n < nextRid'
  OBVIOUS
<1>2. \A q \in Sessions : Open(q) => EffectTx(tx[q], told, rowLocks, LiveRids) /\ Apart(q)
  BY DEF EffectInv
<1>3. \A o : Told(told', o) => o \in Nat /\ o < nextRid'
  <2>1. \A o : Told(told, o) => o \in Nat /\ o < nextRid
    BY DEF EffectInv
  <2>2. \A o : Open(s) /\ Mine(tx[s], o) => o \in Nat /\ o < nextRid
    BY <1>2 DEF Apart
  <2> QED BY <1>1, <2>1, <2>2
<1>4. ASSUME NEW q \in Sessions, tx'[q] # NoTx
      PROVE  /\ q # s /\ Open(q) /\ Stages(tx'[q]) = Stages(tx[q])
             /\ tx'[q].v = tx[q].v /\ tx'[q].iso = tx[q].iso
             /\ tx'[q].poisoned = tx[q].poisoned /\ tx'[q].shadowDirty = tx[q].shadowDirty
  <2>1. q \in Sessions \ {s} /\ Open(q) /\ tx'[q] = [tx[q] EXCEPT !.fresh = FALSE]
    BY <1>4 DEF StaleOthers, Open
  <2>2. DOMAIN tx[q] = TxFields
    BY <2>1, OpenShape
  <2>3. /\ tx'[q].v = tx[q].v /\ tx'[q].iso = tx[q].iso /\ tx'[q].saves = tx[q].saves
        /\ tx'[q].cat = tx[q].cat /\ tx'[q].claims = tx[q].claims
        /\ tx'[q].poisoned = tx[q].poisoned /\ tx'[q].shadowDirty = tx[q].shadowDirty
    BY <2>1, <2>2 DEF TxFields
  <2>4. Stage(tx'[q]) = Stage(tx[q]) /\ Entries(tx'[q]) = Entries(tx[q])
    BY <2>3 DEF Stage, Entries
  <2>5. Stages(tx'[q]) = Stages(tx[q])
    BY <2>4 DEF Stages
  <2> QED BY <2>1, <2>3, <2>5
<1>5. ASSUME NEW q \in Sessions, tx'[q] # NoTx
      PROVE  EffectTx(tx'[q], told', rowLocks', LiveRids')
  <2> DEFINE live == LiveRids'
             new  == tx'[q]
             U    == told'
             M    == rowLocks'
  <2>1. /\ Open(q) /\ q \in Sessions \ {s} /\ Stages(new) = Stages(tx[q])
        /\ new.v = tx[q].v /\ new.iso = tx[q].iso
        /\ new.poisoned = tx[q].poisoned /\ new.shadowDirty = tx[q].shadowDirty
    BY <1>4, <1>5
  <2>2. EffectTx(tx[q], told, rowLocks, LiveRids)
    BY <1>2, <2>1
  <2>3. \A p \in Stages(tx[q]) : StageOK(p, tx[q], told, rowLocks, LiveRids)
    BY <2>2 DEF EffectTx
  <2>4. \A rid : <<rid, tx[q].v>> \in rowLocks => /\ <<rid, tx[q].v>> \in M
                                                  /\ rid \in LiveRids => rid \in live
    BY <2>1
  <2>5. told \subseteq U
    OBVIOUS
  <2> HIDE DEF live, new, U, M
  <2>6. \A p \in Stages(tx[q]) : StageOK(p, new, U, M, live)
    <3> TAKE p \in Stages(tx[q])
    <3> QED BY <2>1, <2>3, <2>4, <2>5, StageStays
  <2>7. EffectTx(new, U, M, live)
    BY <2>1, <2>2, <2>6 DEF EffectTx
  <2> QED BY <2>7 DEF new, U, M, live
<1>6. ASSUME NEW q \in Sessions, tx'[q] # NoTx PROVE \A o : Mine(tx'[q], o) <=> Mine(tx[q], o)
  BY <1>4, <1>6 DEF Mine
<1>7. ASSUME NEW q \in Sessions, tx'[q] # NoTx, NEW o, Mine(tx[q], o)
      PROVE  /\ o \in Nat /\ o < nextRid' /\ ~Told(told', o)
             /\ \A w \in Sessions \ {q} : tx'[w] # NoTx => ~Mine(tx[w], o)
  <2>1. q # s /\ Open(q) /\ \A w \in Sessions : tx'[w] # NoTx => Open(w)
    BY <1>4, <1>7
  <2>2. /\ o \in Nat /\ o < nextRid /\ ~Told(told, o)
        /\ \A w \in Sessions \ {q} : Open(w) => ~Mine(tx[w], o)
    BY <1>2, <1>7, <2>1 DEF Apart
  <2>3. o # nextRid
    BY <2>2
  <2>4. ~Told(told', o)
    BY <2>1, <2>2, <2>3
  <2> QED BY <1>1, <2>1, <2>2, <2>4
<1>8. ASSUME NEW q \in Sessions, Open(q)' PROVE Apart(q)'
  BY <1>6, <1>7, <1>8 DEF Apart, Open
<1>9. ASSUME NEW q \in Sessions, Open(q)' PROVE EffectTx(tx[q], told, rowLocks, LiveRids)'
  BY <1>5, <1>9 DEF Open
<1> QED BY <1>3, <1>8, <1>9 DEF EffectInv

\* The history U knows the roots of C, and no others than T and K have.
Recorded(C, K, T, U) ==
  /\ T \subseteq U /\ Rooted(C, {}, U) /\ \A c \in U : Told(U, c[2])
  /\ \A o : Told(U, o) => Told(T, o) \/ <<"ins", o>> \in K

\* What a commit of version v leaves behind.
LEMMA CommitKeeps ==
  ASSUME NEW T, NEW C, NEW K, NEW v, Rooted(C, K, T), \A c \in K : c = <<c[1], c[2]>>,
         \A c \in T : Told(T, c[2]),
         NEW U, U = T \cup {<<c[1], c[2], v>> : c \in K}
  PROVE  Recorded(C, K, T, U)
<1>1. T \subseteq U
  OBVIOUS
<1>2. \A o : Told(T, o) => Told(U, o)
  BY <1>1 DEF Told
<1>3. ASSUME NEW o, <<"ins", o>> \in K PROVE Told(U, o)
  <2> DEFINE d == <<"ins", o, v>>
  <2>1. <<"ins", o>>[1] = "ins" /\ <<"ins", o>>[2] = o
    OBVIOUS
  <2>2. d \in U
    BY <1>3, <2>1
  <2>3. d[1] = "ins" /\ d[2] = o
    OBVIOUS
  <2> HIDE DEF d
  <2> QED BY <2>2, <2>3 DEF Told
<1>4. Rooted(C, {}, U)
  BY <1>2, <1>3 DEF Rooted
<1>5. \A c \in U : c \in T \/ \E d \in K : c[1] = d[1] /\ c[2] = d[2]
  OBVIOUS
<1>6. \A c \in U : Told(U, c[2])
  <2> SUFFICES ASSUME NEW c \in U PROVE Told(U, c[2])
    OBVIOUS
  <2>1. CASE c \in T
    BY <1>2, <2>1
  <2>2. ASSUME NEW d \in K, c[2] = d[2] PROVE Told(U, c[2])
    BY <1>2, <1>3, <2>2 DEF Rooted
  <2> QED BY <1>5, <2>1, <2>2
<1>7. ASSUME NEW o, Told(U, o) PROVE Told(T, o) \/ <<"ins", o>> \in K
  <2>1. PICK c \in U : c[1] = "ins" /\ c[2] = o
    BY <1>7 DEF Told
  <2>2. CASE c \in T
    BY <2>1, <2>2 DEF Told
  <2>3. ASSUME NEW d \in K, c[1] = d[1], c[2] = d[2] PROVE <<"ins", o>> \in K
    <3>1. d = <<"ins", o>>
      BY <2>1, <2>3
    <3> QED BY <3>1
  <2> QED BY <1>5, <2>2, <2>3
<1> QED BY <1>1, <1>4, <1>6, <1>7 DEF Recorded

\* A statement adds one stage, its result.
LEMMA RanStages ==
  ASSUME NEW st, NEW new, new.saves = st.saves
  PROVE  \A p \in Stages(new) : p \in Stages(st) \/ p = Stage(new)
<1>1. Entries(new) = Entries(st)
  BY DEF Entries
<1> QED BY <1>1 DEF Stages

\* An own step that leaves the stages as they were, but for the newest.
LEMMA EffectRan ==
  ASSUME StampInv, RowInv, EffectInv, NEW s \in Sessions, Open(s), Ran(s), NoNews,
         nextRid' = nextRid \/ nextRid' = nextRid + 1,
         tx'[s].saves = tx[s].saves, tx'[s].poisoned = tx[s].poisoned,
         ~tx'[s].shadowDirty => ~tx[s].shadowDirty /\ tx'[s].claims = {},
         rowLocks \subseteq rowLocks', OneHolder(rowLocks'),
         Delta(tx'[s].cat.rows, tx'[s].claims, tx[s].v),
         Rooted(tx'[s].cat.rows, tx'[s].claims, told),
         Locked(tx'[s].cat.rows, tx[s].v, tx[s].iso, rowLocks', LiveRids),
         \A o : <<"ins", o>> \in tx'[s].claims => \/ <<"ins", o>> \in tx[s].claims
                                                  \/ o = nextRid /\ nextRid' = nextRid + 1
  PROVE  EffectInv'
<1> DEFINE new == tx'[s]
           M   == rowLocks'
<1>1. /\ SameTx(tx[s], new) /\ Others(s) /\ UNCHANGED <<base, told>> /\ nextRid \in Nat
  BY RanShadows DEF Ran, RowInv, NoNews
<1>2. new.v = tx[s].v /\ new.iso = tx[s].iso
  BY <1>1 DEF SameTx
<1>3. EffectTx(tx[s], told, rowLocks, LiveRids)
  BY DEF EffectInv
<1>4. Stage(new).cat = new.cat /\ Stage(new).claims = new.claims
  BY DEF Stage
<1>5. /\ Delta(new.cat.rows, new.claims, new.v) /\ Rooted(new.cat.rows, new.claims, told)
      /\ Locked(new.cat.rows, new.v, new.iso, M, LiveRids)
      /\ ~new.shadowDirty => ~tx[s].shadowDirty /\ new.claims = {}
  BY <1>2
<1>6. \A p \in Stages(new) : p \in Stages(tx[s]) \/ p = Stage(new)
  BY RanStages
<1>7. rowLocks \subseteq M
  OBVIOUS
<1>8. \A o : Mine(new, o) => Mine(tx[s], o) \/ (o = nextRid /\ nextRid' = nextRid + 1)
  <2> SUFFICES ASSUME NEW o, NEW p \in Stages(new), <<"ins", o>> \in p.claims
               PROVE  Mine(tx[s], o) \/ (o = nextRid /\ nextRid' = nextRid + 1)
    BY DEF Mine
  <2>1. CASE p \in Stages(tx[s])
    BY <2>1 DEF Mine
  <2>2. CASE p = Stage(new)
    <3>1. Stage(tx[s]) \in Stages(tx[s]) /\ Stage(tx[s]).claims = tx[s].claims
      BY DEF Stages, Stage
    <3>2. <<"ins", o>> \in tx[s].claims => Mine(tx[s], o)
      BY <3>1 DEF Mine
    <3> QED BY <1>4, <2>2, <3>2
  <2> QED BY <1>6, <2>1, <2>2
<1>9. new.poisoned = tx[s].poisoned
  OBVIOUS
<1> HIDE DEF new, M
<1>10. StageOK(Stage(new), new, told, M, LiveRids)
  BY <1>4, <1>5 DEF StageOK
<1>11. ASSUME NEW p \in Stages(tx[s]) PROVE StageOK(p, new, told, M, LiveRids)
  <2>1. StageOK(p, tx[s], told, rowLocks, LiveRids)
    BY <1>3 DEF EffectTx
  <2> QED BY <1>2, <1>5, <1>7, <2>1, StageStays
<1>12. EffectTx(new, told, M, LiveRids)
  BY <1>3, <1>6, <1>9, <1>10, <1>11 DEF EffectTx
<1> QED BY <1>1, <1>8, <1>12, EffectOwn DEF new, M

\* BEGIN.
LEMMA EffectBeganKeeps ==
  ASSUME StampInv, RowInv, EffectInv, NEW s \in Sessions, EffectBegan(s)
  PROVE  EffectInv'
<1> DEFINE new == tx'[s]
<1>1. nextVersion \notin Settled
  BY DEF StampInv, Registers, Settled
<1>2. \A r \in base.rows : r.xmin # nextVersion /\ r.xmax # nextVersion
  BY <1>1 DEF StampInv, Clean
<1>3. Effects(base.rows, told) /\ Rooted(base.rows, {}, told) /\ OneHolder(rowLocks)
  BY DEF EffectInv
<1>4. Delta(base.rows, {}, nextVersion)
  BY <1>2, <1>3, BaseDelta
<1>5. /\ new.v = nextVersion /\ Others(s) /\ UNCHANGED <<base, told, nextRid, rowLocks>>
      /\ ~new.poisoned /\ \A p \in Stages(new) : p.cat.rows = base.rows /\ p.claims = {}
  BY DEF EffectBegan, Began, NoNews
<1>6. nextRid \in Nat
  BY DEF RowInv
<1> HIDE DEF new
<1>7. \A iso : Locked(base.rows, nextVersion, iso, rowLocks, LiveRids)
  BY <1>2 DEF Locked
<1>8. EffectTx(new, told, rowLocks, LiveRids)
  BY <1>3, <1>4, <1>5, <1>7 DEF EffectTx, StageOK
<1>9. \A o : ~Mine(new, o)
  BY <1>5 DEF Mine
<1> QED BY <1>3, <1>5, <1>6, <1>8, <1>9, EffectOwn DEF new

\* SAVEPOINT, ROLLBACK TO and RELEASE go back to stages that were there.
LEMMA EffectBookmarkedKeeps ==
  ASSUME StampInv, RowInv, EffectInv, NEW s \in Sessions, EffectBookmarked(s)
  PROVE  EffectInv'
<1> DEFINE new == tx'[s]
<1>1. /\ Open(s) /\ Others(s) /\ UNCHANGED <<base, told, nextRid, rowLocks>>
      /\ new.v = tx[s].v /\ new.iso = tx[s].iso /\ new.poisoned = tx[s].poisoned
      /\ new.shadowDirty = tx[s].shadowDirty /\ Stages(new) \subseteq Stages(tx[s])
  BY DEF EffectBookmarked, Bookmarked, NoNews, SameTx
<1>2. nextRid \in Nat /\ OneHolder(rowLocks)
  BY DEF RowInv, EffectInv
<1>3. EffectTx(tx[s], told, rowLocks, LiveRids)
  BY <1>1 DEF EffectInv
<1> HIDE DEF new
<1>4. \A p \in Stages(new) : StageOK(p, new, told, rowLocks, LiveRids)
  <2> TAKE p \in Stages(new)
  <2>1. StageOK(p, tx[s], told, rowLocks, LiveRids)
    BY <1>1, <1>3 DEF EffectTx
  <2> QED BY <1>1, <2>1, StageStays
<1>5. EffectTx(new, told, rowLocks, LiveRids)
  BY <1>1, <1>3, <1>4 DEF EffectTx
<1>6. \A o : Mine(new, o) => Mine(tx[s], o)
  BY <1>1 DEF Mine
<1> QED BY <1>1, <1>2, <1>5, <1>6, EffectOwn DEF new

\* The locks are pairs.
LEMMA LockPairs ==
  ASSUME TxTypeOK
  PROVE  \A l \in rowLocks : l = <<l[1], l[2]>>
BY DEF TxTypeOK

\* So are the claims.
LEMMA ClaimPairs ==
  ASSUME TxTypeOK, NEW s \in Sessions, Open(s)
  PROVE  \A c \in tx[s].claims : c = <<c[1], c[2]>>
<1>1. tx[s].claims \subseteq Claims
  BY DEF TxTypeOK, TxType
<1> QED BY <1>1 DEF Claims

\* SELECT, SELECT .. FOR UPDATE and failed statements.
LEMMA EffectReadKeeps ==
  ASSUME StampInv, RowInv, CurrentInv, TxTypeOK, EffectInv, NEW s \in Sessions, EffectRead(s)
  PROVE  EffectInv'
<1>1. Open(s) /\ Ran(s)
  BY DEF EffectRead, Ran
<1>2. /\ Delta(Catalog(s), tx[s].claims, tx[s].v) /\ Rooted(Catalog(s), tx[s].claims, told)
      /\ Locked(Catalog(s), tx[s].v, tx[s].iso, rowLocks, LiveRids)
  BY <1>1, CatalogGood
<1>3. OneHolder(rowLocks)
  BY DEF EffectInv
<1>4. rowLocks \subseteq rowLocks' /\ OneHolder(rowLocks')
  <2>1. CASE rowLocks' = rowLocks
    BY <1>3, <2>1
  <2>2. ASSUME NEW rid, ~LockWaits(s, rid), rowLocks' = rowLocks \cup {<<rid, Version(s)>>}
        PROVE  rowLocks \subseteq rowLocks' /\ OneHolder(rowLocks')
    BY <1>3, <2>2, LockPairs, LockTaken
  <2> QED BY <2>1, <2>2 DEF EffectRead
<1>5. Locked(Catalog(s), tx[s].v, tx[s].iso, rowLocks', LiveRids)
  BY <1>2, <1>4 DEF Locked
<1>6. ~tx[s].shadowDirty => tx[s].claims = {}
  BY <1>1, StageNow
<1>7. /\ NoNews /\ nextRid' = nextRid /\ tx'[s].cat.rows = Catalog(s)
      /\ tx'[s].claims = tx[s].claims /\ tx'[s].saves = tx[s].saves
      /\ tx'[s].poisoned = tx[s].poisoned /\ tx'[s].shadowDirty = tx[s].shadowDirty
  BY DEF EffectRead
<1> QED BY <1>1, <1>2, <1>4, <1>5, <1>6, <1>7, EffectRan

\* INSERT, UPDATE and DELETE in a transaction.
LEMMA EffectWroteKeeps ==
  ASSUME StampInv, RowInv, CurrentInv, TxTypeOK, EffectInv, NEW s \in Sessions, EffectWrote(s)
  PROVE  EffectInv'
<1> DEFINE J == tx[s].claims
           v == tx[s].v
           C == tx'[s].cat.rows
<1>1. Open(s) /\ Ran(s) /\ Version(s) = v
  BY DEF EffectWrote, Ran, Version
<1>2. /\ Delta(Catalog(s), J, v) /\ Rooted(Catalog(s), J, told)
      /\ Locked(Catalog(s), v, tx[s].iso, rowLocks, LiveRids)
      /\ tx[s].iso = "RC" => Based(base.rows, Catalog(s), v)
  BY <1>1, CatalogGood
<1>3. PICK K : tx'[s].claims = J \cup K /\ Edit(s, C, K)
  BY DEF EffectWrote
<1>4. nextRid \in Nat /\ OneHolder(rowLocks)
  BY DEF RowInv, EffectInv
<1>5. ~Told(told, nextRid) /\ <<"ins", nextRid>> \notin J
  <2>1. \A o : Told(told, o) => o < nextRid
    BY DEF EffectInv
  <2>2. \A o : <<"ins", o>> \in J => o < nextRid
    BY <1>1, StageNow
  <2> QED BY <1>4, <2>1, <2>2
<1>6. \A r \in Catalog(s) : r.org # nextRid
  BY <1>2, <1>5 DEF Rooted
<1>7. ASSUME NEW kind PROVE <<kind, nextRid>> \notin J
  <2> DEFINE c == <<kind, nextRid>>
  <2>1. c[2] = nextRid
    OBVIOUS
  <2> HIDE DEF c
  <2>2. c \notin J
    BY <1>2, <1>5, <2>1 DEF Rooted
  <2> QED BY <2>2 DEF c
<1> HIDE DEF J, v, C
<1>8. Delta(C, J \cup K, v)
  BY <1>1, <1>2, <1>3, <1>6, <1>7, EditDelta
<1>9. /\ Rooted(C, J \cup K, told) /\ (nextRid' = nextRid \/ nextRid' = nextRid + 1)
      /\ \A o : <<"ins", o>> \in K => o = nextRid /\ nextRid' = nextRid + 1
  BY <1>2, <1>3, EditRooted
<1>10. /\ Locked(C, v, tx[s].iso, rowLocks', LiveRids)
       /\ OneHolder(rowLocks') /\ rowLocks \subseteq rowLocks'
  BY <1>1, <1>2, <1>3, <1>4, EditLocks, LockPairs
<1>11. /\ NoNews /\ tx'[s].saves = tx[s].saves /\ tx'[s].poisoned = tx[s].poisoned
       /\ tx'[s].shadowDirty = TRUE
  BY DEF EffectWrote
<1>12. tx'[s].claims = J \cup K
  BY <1>3
<1>13. \A o : <<"ins", o>> \in tx'[s].claims => \/ <<"ins", o>> \in tx[s].claims
                                                \/ o = nextRid /\ nextRid' = nextRid + 1
  BY <1>9, <1>12 DEF J
<1>14. /\ Delta(tx'[s].cat.rows, tx'[s].claims, tx[s].v)
       /\ Rooted(tx'[s].cat.rows, tx'[s].claims, told)
       /\ Locked(tx'[s].cat.rows, tx[s].v, tx[s].iso, rowLocks', LiveRids)
  BY <1>8, <1>9, <1>10, <1>12 DEF C, v
<1> QED BY <1>1, <1>9, <1>10, <1>11, <1>13, <1>14, EffectRan

\* INSERT, UPDATE and DELETE in autocommit.
LEMMA EffectAutoKeeps ==
  ASSUME StampInv, RowInv, EffectInv, NEW s \in Sessions, EffectAuto(s)
  PROVE  EffectInv'
<1> DEFINE v == nextVersion
           B == base.rows
           C == base'.rows
           U == told'
<1>1. ~Open(s) /\ StaleOthers(s) /\ tx'[s] = NoTx /\ Version(s) = v /\ Catalog(s) = B
  BY DEF EffectAuto, Version, Catalog
<1>2. PICK K : Edit(s, C, K) /\ U = told \cup {<<c[1], c[2], v>> : c \in K}
  BY DEF EffectAuto
<1>3. v \notin Settled /\ v # 0
  BY DEF StampInv, Registers, Settled
<1>4. \A b \in B : b.xmin # v /\ b.xmax # v
  BY <1>3 DEF StampInv, Clean
<1>5. /\ Effects(B, told) /\ Rooted(B, {}, told) /\ (\A c \in told : Told(told, c[2]))
      /\ OneHolder(rowLocks) /\ nextRid \in Nat
      /\ \A o : Told(told, o) => o < nextRid
  BY DEF EffectInv, RowInv
<1>6. Delta(B, {}, v) /\ Based(B, B, v)
  BY <1>4, <1>5, BaseDelta
<1>7. \A r \in B : r.org # nextRid
  BY <1>5 DEF Rooted
<1>8. Free(C, v, rowLocks) /\ rowLocks' = rowLocks
  BY <1>1, <1>2, <1>4, EditFree
<1> HIDE DEF v, B, C, U
<1>9. Delta(C, {} \cup K, v)
  BY <1>1, <1>2, <1>6, <1>7, EditDelta
<1>10. Based(B, C, v)
  BY <1>1, <1>2, <1>6, EditBased
<1>11. /\ Rooted(C, {} \cup K, told) /\ (\A c \in K : c = <<c[1], c[2]>>)
       /\ (nextRid' = nextRid \/ nextRid' = nextRid + 1)
       /\ \A o : <<"ins", o>> \in K => o = nextRid /\ nextRid' = nextRid + 1
  BY <1>1, <1>2, <1>5, EditRooted
<1>12. Delta(C, K, v) /\ Rooted(C, K, told)
  <2>1. {} \cup K = K
    OBVIOUS
  <2> QED BY <1>9, <1>11, <2>1
<1>13. \A o : <<"ins", o>> \in K => \A c \in told : c[2] # o
  BY <1>5, <1>11
<1>14. Effects(C, U)
  BY <1>2, <1>4, <1>5, <1>10, <1>11, <1>12, <1>13, InstallEffects
<1>15. Recorded(C, K, told, U)
  BY <1>2, <1>5, <1>11, <1>12, CommitKeeps
<1>16. ASSUME NEW q \in Sessions \ {s}, Open(q), NEW rid, <<rid, tx[q].v>> \in rowLocks
       PROVE  rid \in LiveRids => rid \in LiveRids'
  <2> SUFFICES ASSUME NEW b \in Live(B), b.rid = rid PROVE \E r \in Live(C) : r.rid = rid
    BY DEF LiveRids, B, C
  <2> DEFINE l == <<rid, tx[q].v>>
  <2>1. tx[q].v # v
    BY <1>16 DEF StampInv, Registers, v
  <2>2. l \in rowLocks /\ l[1] = b.rid /\ l[2] # v
    BY <1>16, <2>1
  <2> HIDE DEF l
  <2> QED BY <1>4, <1>8, <1>10, <2>2, LiveStays
<1>17. \A q \in Sessions \ {s} : Open(q) =>
         \A rid : <<rid, tx[q].v>> \in rowLocks =>
           /\ <<rid, tx[q].v>> \in rowLocks'
           /\ rid \in LiveRids => rid \in LiveRids'
  BY <1>8, <1>16
<1>18. /\ Effects(base'.rows, told') /\ Rooted(base'.rows, {}, told') /\ told \subseteq told'
       /\ (\A c \in told' : Told(told', c[2]))
       /\ \A o : Told(told', o) => Told(told, o) \/ (o = nextRid /\ nextRid' = nextRid + 1)
  BY <1>11, <1>14, <1>15 DEF Recorded, C, U
<1> QED BY <1>1, <1>5, <1>8, <1>11, <1>17, <1>18, EffectCommitted

\* COMMIT, ROLLBACK and a COMMIT that is refused.
LEMMA EffectEndedKeeps ==
  ASSUME StampInv, RowInv, CurrentInv, DirtyInv, TxTypeOK, EffectInv, RedoCapture = FALSE,
         NEW s \in Sessions, EffectEnded(s)
  PROVE  EffectInv'
<1> DEFINE v == tx[s].v
           B == base.rows
           C == base'.rows
           U == told'
           K == tx[s].claims
<1>1. /\ Open(s) /\ StaleOthers(s) /\ tx'[s] = NoTx /\ nextRid' = nextRid
      /\ rowLocks' = {l \in rowLocks : l[2] # v}
  BY DEF EffectEnded
<1>2. /\ Effects(B, told) /\ Rooted(B, {}, told) /\ (\A c \in told : Told(told, c[2]))
      /\ OneHolder(rowLocks) /\ nextRid \in Nat
  BY DEF EffectInv, RowInv
<1>3. OneHolder(rowLocks')
  BY <1>1, <1>2 DEF OneHolder
<1>4. ASSUME NEW q \in Sessions \ {s}, Open(q), NEW rid, <<rid, tx[q].v>> \in rowLocks
      PROVE  <<rid, tx[q].v>> \in rowLocks' /\ tx[q].v # v
  <2>1. tx[q].v # v
    BY <1>1, <1>4 DEF StampInv
  <2> QED BY <1>1, <1>4, <2>1
<1>5. CASE NoNews /\ UNCHANGED base
  <2>1. LiveRids' = LiveRids
    BY <1>5 DEF LiveRids
  <2>2. \A q \in Sessions \ {s} : Open(q) =>
          \A rid : <<rid, tx[q].v>> \in rowLocks =>
            /\ <<rid, tx[q].v>> \in rowLocks'
            /\ rid \in LiveRids => rid \in LiveRids'
    BY <1>4, <2>1
  <2>3. /\ Effects(base'.rows, told') /\ Rooted(base'.rows, {}, told') /\ told \subseteq told'
        /\ (\A c \in told' : Told(told', c[2]))
        /\ \A o : Told(told', o) => Told(told, o)
    BY <1>2, <1>5 DEF NoNews
  <2> QED BY <1>1, <1>2, <1>3, <2>2, <2>3, EffectCommitted
<1>6. CASE /\ ~Refused(tx[s]) /\ base' = Installed(tx[s])
           /\ told' = told \cup {<<c[1], c[2], tx[s].v>> : c \in tx[s].claims}
  <2>1. /\ Delta(C, K, v) /\ Rooted(C, K, told) /\ Based(B, C, v)
        /\ Locked(C, v, tx[s].iso, rowLocks, LiveRids)
    BY <1>1, <1>6, InstallGood
  <2>2. U = told \cup {<<c[1], c[2], v>> : c \in K}
    BY <1>6
  <2>3. \A c \in K : c = <<c[1], c[2]>>
    BY <1>1, ClaimPairs
  <2>4. \A o : <<"ins", o>> \in K => \A c \in told : c[2] # o
    BY <1>1, StageNow
  <2>5. \A b \in B : b.xmin # v
    BY <1>1, BaseAndShadow
  <2>6. ASSUME NEW r \in C, r.xmax = v, r.xmin # v, NEW l \in rowLocks, l[1] = r.rid
        PROVE  l[2] = v
    <3> DEFINE m == <<r.rid, v>>
    <3>1. m \in rowLocks
      BY <2>1, <2>6 DEF Locked
    <3>2. m[1] = r.rid /\ m[2] = v
      OBVIOUS
    <3> HIDE DEF m
    <3> QED BY <1>2, <2>6, <3>1, <3>2 DEF OneHolder
  <2>7. \A o : <<"ins", o>> \in K => Mine(tx[s], o)
    <3>1. Stage(tx[s]) \in Stages(tx[s]) /\ Stage(tx[s]).claims = tx[s].claims
      BY DEF Stages, Stage
    <3> QED BY <3>1 DEF Mine
  <2> HIDE DEF v, B, C, U, K
  <2>8. Effects(C, U)
    BY <1>2, <2>1, <2>2, <2>3, <2>4, <2>5, InstallEffects
  <2>9. Recorded(C, K, told, U)
    BY <1>2, <2>1, <2>2, <2>3, CommitKeeps
  <2>10. Free(C, v, rowLocks)
    BY <2>6 DEF Free
  <2>11. ASSUME NEW q \in Sessions \ {s}, Open(q), NEW rid, <<rid, tx[q].v>> \in rowLocks
         PROVE  rid \in LiveRids => rid \in LiveRids'
    <3> SUFFICES ASSUME NEW b \in Live(B), b.rid = rid PROVE \E r \in Live(C) : r.rid = rid
      BY DEF LiveRids, B, C
    <3> DEFINE l == <<rid, tx[q].v>>
    <3>1. l \in rowLocks /\ l[1] = b.rid /\ l[2] # v
      BY <1>4, <2>11
    <3> HIDE DEF l
    <3> QED BY <2>1, <2>5, <2>10, <3>1, LiveStays
  <2>12. \A q \in Sessions \ {s} : Open(q) =>
           \A rid : <<rid, tx[q].v>> \in rowLocks =>
             /\ <<rid, tx[q].v>> \in rowLocks'
             /\ rid \in LiveRids => rid \in LiveRids'
    BY <1>4, <2>11
  <2>13. /\ Effects(base'.rows, told') /\ Rooted(base'.rows, {}, told') /\ told \subseteq told'
         /\ (\A c \in told' : Told(told', c[2]))
         /\ \A o : Told(told', o) => Told(told, o) \/ (Open(s) /\ Mine(tx[s], o))
    BY <1>1, <2>7, <2>8, <2>9 DEF Recorded, C, U
  <2> QED BY <1>1, <1>2, <1>3, <2>12, <2>13, EffectCommitted
<1> QED BY <1>5, <1>6 DEF EffectEnded

\* All of it.
LEMMA EffectStep ==
  ASSUME StampInv, RowInv, CurrentInv, DirtyInv, TxTypeOK, EffectInv, [TxNext]_vars,
         RedoCapture = FALSE, Ops \cap {"upsert", "alter", "utility"} = {}
  PROVE  EffectInv'
<1>1. ASSUME EffectIdle PROVE EffectInv'
  BY <1>1 DEF EffectIdle, EffectInv, LiveRids, Apart, Open
<1> QED
  BY <1>1, EffectCases, EffectBeganKeeps, EffectBookmarkedKeeps, EffectReadKeeps,
     EffectWroteKeeps, EffectAutoKeeps, EffectEndedKeeps

\* At the start every committed row was inserted, by itself.
LEMMA EffectInit ==
  ASSUME TxInit
  PROVE  EffectInv
<1>1. /\ base.rows = InitRows /\ told = {<<"ins", r.org, Frozen>> : r \in InitRows}
      /\ rowLocks = {} /\ nextRid = Cardinality(InitRows) + 1
      /\ \A s \in Sessions : ~Open(s)
  BY DEF TxInit, Open
<1>2. /\ \A r \in InitRows : /\ r.rid <= Cardinality(InitRows) /\ r.org = r.rid /\ r.by = {}
                             /\ r.xmax = Alive /\ r.rid \in Nat
      /\ \A r, q \in InitRows : r.rid = q.rid => r = q
  BY TransactionsAssumption DEF Row, Rids
<1>3. Cardinality(InitRows) \in Nat
  BY TransactionsAssumption, FS_CardinalityType
<1>4. \A o : Told(told, o) <=> \E r \in InitRows : r.org = o
  <2>1. \A c \in told : c[1] = "ins" /\ \E r \in InitRows : c[2] = r.org
    BY <1>1
  <2>2. \A r \in InitRows : \E c \in told : c[1] = "ins" /\ c[2] = r.org
    <3> SUFFICES ASSUME NEW r \in InitRows PROVE \E c \in told : c[1] = "ins" /\ c[2] = r.org
      OBVIOUS
    <3> DEFINE c == <<"ins", r.org, Frozen>>
    <3>1. c \in told /\ c[1] = "ins" /\ c[2] = r.org
      BY <1>1
    <3> QED BY <3>1
  <2> QED BY <2>1, <2>2 DEF Told
<1>5. \A o : Told(told, o) => o \in Nat /\ o < nextRid
  BY <1>1, <1>2, <1>3, <1>4
<1>6. (\A c \in told : Told(told, c[2])) /\ Rooted(base.rows, {}, told)
  <2>1. \A c \in told : c[1] = "ins"
    BY <1>1
  <2> QED BY <1>1, <1>4, <2>1 DEF Rooted, Told
<1>7. Effects(base.rows, told)
  <2> SUFFICES ASSUME NEW o
               PROVE  IF Said(told, "ins", o) = {} THEN Now(base.rows, o) = {}
                      ELSE Only(Now(base.rows, o), Said(told, "del", o) # {}, Said(told, "upd", o))
    BY DEF Effects
  <2>1. Said(told, "del", o) = {} /\ Said(told, "upd", o) = {}
    BY <1>1 DEF Said
  <2>2. Said(told, "ins", o) = {} <=> ~Told(told, o)
    BY DEF Said, Told
  <2>3. Now(base.rows, o) = {r \in InitRows : r.org = o}
    BY <1>1, <1>2 DEF Now, Live
  <2>4. ASSUME Told(told, o)
        PROVE  \E r \in Now(base.rows, o) : r.by = {} /\ \A q \in Now(base.rows, o) : q = r
    BY <1>2, <1>4, <2>3, <2>4
  <2>5. ~Told(told, o) => Now(base.rows, o) = {}
    BY <1>4, <2>3
  <2> QED BY <2>1, <2>2, <2>4, <2>5 DEF Only
<1> QED BY <1>1, <1>5, <1>6, <1>7 DEF EffectInv, OneHolder

\* Whatever the sessions, isolation levels and savepoints: every row a client
\* was told it inserted lives in the committed catalog exactly once, with
\* exactly the UPDATEs clients were told of, unless a client was told it deleted
\* it.  For INSERT, UPDATE, DELETE, SELECT .. FOR UPDATE and autocommit, without
\* redo capture; ON CONFLICT DO UPDATE takes no tuple lock, and a transaction
\* that ran DDL or a utility statement merges whole tables.
THEOREM EffectsAreExact ==
  ASSUME RedoCapture = FALSE, Ops \cap {"upsert", "alter", "utility"} = {}
  PROVE  TxSpec => []CommittedEffects
<1>1. TxInit => EffectInv
  BY EffectInit
<1>2. StampInv /\ RowInv /\ CurrentInv /\ DirtyInv /\ TxTypeOK /\ EffectInv /\ [TxNext]_vars
        => EffectInv'
  BY EffectStep
<1>3. EffectInv => CommittedEffects
  <2> SUFFICES ASSUME EffectInv, NEW o \in {c[2] : c \in {d \in told : d[1] = "ins"}}
               PROVE  LET now     == {r \in Live(base.rows) : r.org = o}
                          deleted == \E c \in told : c[1] = "del" /\ c[2] = o
                          updates == {c[3] : c \in {d \in told : d[1] = "upd" /\ d[2] = o}}
                      IN  IF deleted THEN now = {}
                          ELSE Cardinality(now) = 1 /\ \A r \in now : r.by = updates
    BY DEF CommittedEffects
  <2> DEFINE now     == Now(base.rows, o)
             deleted == \E c \in told : c[1] = "del" /\ c[2] = o
             updates == Said(told, "upd", o)
  <2>1. Said(told, "ins", o) # {}
    BY DEF Said
  <2>2. Said(told, "del", o) # {} <=> deleted
    BY DEF Said
  <2>3. Only(now, Said(told, "del", o) # {}, updates)
    BY <2>1 DEF EffectInv, Effects
  <2> HIDE DEF now, deleted, updates
  <2>4. deleted => now = {}
    BY <2>2, <2>3 DEF Only
  <2>5. ASSUME ~deleted PROVE Cardinality(now) = 1 /\ \A r \in now : r.by = updates
    <3>1. PICK r \in now : r.by = updates /\ \A q \in now : q = r
      BY <2>2, <2>3, <2>5 DEF Only
    <3>2. now = {r}
      BY <3>1
    <3>3. Cardinality({r}) = 1
      BY FS_Singleton
    <3> QED BY <3>1, <3>2, <3>3
  <2> QED BY <2>4, <2>5 DEF now, deleted, updates, Now, Said
<1> QED
  BY <1>1, <1>2, <1>3, StampInvariant, RowInvariant, CurrentInvariant, DirtyInvariant, TxTypes, PTL
  DEF TxSpec

=============================================================================
