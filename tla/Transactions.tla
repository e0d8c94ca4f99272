---------------------------- MODULE Transactions ----------------------------
(***************************************************************************)
(* The transaction core of spg-engine (transaction.rs, execute.rs and the  *)
(* in-place MVCC write path it drives): shadow catalogs, writer versions,  *)
(* the READ COMMITTED rebase, the REPEATABLE READ / SERIALIZABLE merge at  *)
(* COMMIT, the table-level merge of transactions that ran DDL, savepoints  *)
(* and the aborted state.                                                  *)
(*                                                                         *)
(* BEGIN clones the committed catalog; a transaction's statements write    *)
(* its clone, stamping xmin/xmax with its writer version, and COMMIT puts  *)
(* the clone in place of the committed catalog.  What other sessions       *)
(* committed in between must be folded in first, and that is what this     *)
(* module is about.  One statement is one action: the engine runs it under *)
(* one write guard.  A statement that answers LockWouldBlock changes only  *)
(* the rebased shadow, which is what a READ COMMITTED Select does, so it   *)
(* needs no action of its own; the waiting itself is module RowLocks.      *)
(*                                                                         *)
(* Abstractions.  A row is its unique key and its lineage: `org`, the row  *)
(* id of the INSERT it descends from, and `by`, the versions whose UPDATEs *)
(* it carries (payloads only show which writes are in them).  Row ids are  *)
(* unique over all tables.  rebased_at_epoch is only ever compared with    *)
(* commit_epoch for equality, so it is the flag `fresh`.  No table is      *)
(* created or dropped, and foreign keys are left out.                      *)
(***************************************************************************)
EXTENDS Naturals, Sequences, FiniteSets

CONSTANTS Sessions,     \* connections
          Tabs,         \* relations
          Keys,         \* unique-key values
          Names,        \* savepoint names
          Ops,          \* the kinds of statement clients send
          Isolations,   \* the isolation levels BEGIN asks for
          RedoCapture,  \* redo_capture, or a delta-maintained matview exists
          InitRows,     \* committed rows at the start
          MaxVersion,   \* bound: writer versions drawn in a behaviour
          MaxRid        \* bound: row ids drawn

Levels == {"RC", "RR", "SER"}

OpKinds == {"select", "insert", "update", "rekey", "delete", "lock", "upsert",
            "alter", "utility", "savepoint", "auto"}

Alive == 0     \* XMAX_ALIVE
Frozen == 0    \* xmin of rows older than every version drawn here

Versions == 1..MaxVersion
Rids == 1..MaxRid

Row == [rid : Rids, tab : Tabs, key : Keys, org : Rids, by : SUBSET Versions,
        xmin : 0..MaxVersion, xmax : 0..MaxVersion]

ASSUME TransactionsAssumption ==
  /\ MaxVersion \in Nat /\ MaxRid \in Nat
  /\ Ops \subseteq OpKinds
  /\ Isolations \subseteq Levels
  /\ RedoCapture \in BOOLEAN
  /\ InitRows \subseteq {r \in Row : r.xmin = Frozen /\ r.xmax = Alive}
  /\ IsFiniteSet(InitRows) /\ Cardinality(InitRows) <= MaxRid
  /\ \A r \in InitRows : r.rid <= Cardinality(InitRows) /\ r.org = r.rid /\ r.by = {}
  /\ \A r, q \in InitRows : r.rid = q.rid \/ (r.tab = q.tab /\ r.key = q.key) => r = q

VARIABLES base,        \* Engine.catalog: the committed catalog
          tx,          \* Engine.tx_catalogs: the open transaction of a session
          nextVersion, \* the next version next_version() hands out
          active,      \* active_writer_versions
          aborted,     \* aborted_versions
          rowLocks,    \* <<row id, version>>: tuple locks, all exclusive here
          nextRid,     \* next_rowid, shared by a table and all its clones
          commitSeq,   \* commit_seq
          lastCommit,  \* table_last_commit
          told         \* history: <<kind, org, version>> of every committed
                       \* change a client was told it made

vars == <<base, tx, nextVersion, active, aborted, rowLocks, nextRid,
          commitSeq, lastCommit, told>>

NoTx   == [v |-> 0]
NoSnap == [version |-> 0]

Open(s) == tx[s] # NoTx

---------------------------------------------------------------------------
(* Rows and snapshots.                                                     *)

Live(rows) == {r \in rows : r.xmax = Alive}

InTab(rows, t) == {r \in rows : r.tab = t}

\* Snapshot::visible.
Visible(r, snap) ==
  \/ r.xmin = snap.tx /\ snap.tx # 0 /\ r.xmax # snap.tx
  \/ /\ snap.tx = 0 \/ (r.xmax # snap.tx /\ r.xmin # snap.tx)
     /\ r.xmin <= snap.version
     /\ r.xmin \notin snap.inProgress
     /\ \/ r.xmax = Alive
        \/ r.xmax > snap.version
        \/ r.xmax \in snap.inProgress

\* current_snapshot_inner for a reader whose own version is v (0: none).
SnapNow(v) == [version |-> nextVersion - 1, inProgress |-> active, tx |-> v]

\* What one version wrote into a set of rows (extract_tx_writeset).
InsertedBy(rows, v)   == {r \in rows : r.xmin = v}
TombstonedBy(rows, v) == {r.rid : r \in {q \in rows : q.xmax = v}}

\* Mutant: the new rows are only compared with one another.
ClashMutant(rows, new) == \E m, n \in new : m # n /\ m.tab = n.tab /\ m.key = n.key

\* Two rows of one table claim one key (enforce_uniqueness_inserts): against
\* the rows that are not tombstoned, and within the batch.
Clash(rows, new) ==
  \/ \E r \in Live(rows), n \in new : r.tab = n.tab /\ r.key = n.key
  \/ \E m, n \in new : m # n /\ m.tab = n.tab /\ m.key = n.key

---------------------------------------------------------------------------
(* The replay of a transaction's write-set onto the committed rows, shared  *)
(* by maybe_rc_rebase and by the RR / SER merge of exec_commit.             *)

Written(st) == {r \in st.cat.rows : r.tab \in st.touched}

Inserts(st)    == InsertedBy(Written(st), st.v)
Tombstones(st) == TombstonedBy(Written(st), st.v)
OwnRids(st)    == {r.rid : r \in Inserts(st)}

\* Mutant: nobody looks whether the target is still there.
ConflictedMutant(st) == {}

\* tombstone_conflicts: targets gone from the base or tombstoned by another.
Conflicted(st) ==
  {rid \in Tombstones(st) \ OwnRids(st) :
     ~\E b \in base.rows : b.rid = rid /\ b.xmax \in {Alive, st.v}}

\* The new halves of the UPDATEs whose old half is conflicted.
DroppedPairs(st) == {p[2] : p \in {q \in st.pairs : q[1] \in Conflicted(st)}}

\* READ COMMITTED skips conflicted writes; RR and SER fail on them, so there
\* is nothing to drop when they get as far as replaying.
ReplayInserts(st)    == {r \in Inserts(st) : r.rid \notin DroppedPairs(st)}
ReplayTombstones(st) == Tombstones(st) \ Conflicted(st)

\* Phase 1: the transaction's tombstones on committed rows.
Phase1(st) ==
  {IF b.rid \in ReplayTombstones(st) \ OwnRids(st) THEN [b EXCEPT !.xmax = st.v] ELSE b :
     b \in base.rows}

\* Mutant: keys are not checked again at the replay.
ReplayClashMutant(st) == FALSE

\* Unique keys of the inserts that stay, checked between the phases.  A row
\* this transaction inserted and tombstoned again is not among them.
ReplayClash(st) ==
  Clash(Phase1(st), {r \in ReplayInserts(st) : r.rid \notin ReplayTombstones(st)})

\* Phase 2: the inserts, dead on arrival where the transaction killed them.
Replayed(st) ==
  Phase1(st) \cup
  {[r EXCEPT !.xmax = IF r.rid \in ReplayTombstones(st) THEN st.v ELSE Alive] :
     r \in ReplayInserts(st)}

\* The replayed rows in a clone of the base that keeps the dirty window.
OntoBase(st) == [rows |-> Replayed(st), ddl |-> base.ddl, dirty |-> st.cat.dirty]

---------------------------------------------------------------------------
(* maybe_rc_rebase, run before every statement of an open READ COMMITTED    *)
(* transaction and at COMMIT.                                              *)

NeedsRebase(st) == st.snap = NoSnap /\ ~st.poisoned /\ ~st.fresh

RebaseFails(st) == NeedsRebase(st) /\ ReplayClash(st)

Rebased(st) ==
  IF NeedsRebase(st) THEN [st EXCEPT !.cat = OntoBase(st), !.fresh = TRUE] ELSE st

---------------------------------------------------------------------------
(* What a statement of session s works on.                                 *)

Version(s) == IF Open(s) THEN tx[s].v ELSE nextVersion

Catalog(s) == IF Open(s) THEN Rebased(tx[s]).cat.rows ELSE base.rows

Snapshot(s) == IF ~Open(s) THEN SnapNow(0)
               ELSE IF tx[s].snap = NoSnap THEN SnapNow(tx[s].v) ELSE tx[s].snap

View(s) == {r \in Catalog(s) : Visible(r, Snapshot(s))}

\* The abort firewall, the rebase, and the bound on autocommit versions.
CanRun(s, op) ==
  /\ op \in Ops
  /\ IF Open(s) THEN tx[s].aborted = FALSE /\ ~RebaseFails(tx[s])
                ELSE "auto" \in Ops /\ nextVersion <= MaxVersion

\* wait_for_uncommitted_unique_keys: another open transaction holds an
\* uncommitted row of this key.
KeyWaits(s, t, k) ==
  \E o \in Sessions \ {s} :
    /\ Open(o) /\ t \in tx[o].touched
    /\ \E r \in InsertedBy(tx[o].cat.rows, tx[o].v) :
         r.tab = t /\ r.key = k /\ r.xmax # tx[o].v

\* Mutant: row locks are not honoured.
LockWaitsMutant(s, rid) == FALSE

LockWaits(s, rid) == \E l \in rowLocks : l[1] = rid /\ l[2] # Version(s)

\* commit_epoch moved: every open transaction must rebase again.
Stale(txs) == [o \in Sessions |->
                 IF txs[o] = NoTx THEN NoTx ELSE [txs[o] EXCEPT !.fresh = FALSE]]

\* The end of a statement that wrote `rows`: record_tx_stmt, record_tx_reads
\* and record_update_pairs in a transaction; in autocommit the base moves.
Wrote(s, t, rows, reads, pairs, claims) ==
  IF Open(s)
  THEN /\ tx' = [tx EXCEPT ![s] =
            [Rebased(tx[s]) EXCEPT
               !.cat.rows = rows, !.cat.dirty = @ \cup {t},
               !.touched = @ \cup {t}, !.pairs = @ \cup pairs,
               !.reads = IF tx[s].iso = "SER" THEN @ \cup reads ELSE @,
               !.shadowDirty = TRUE, !.claims = @ \cup claims]]
       /\ UNCHANGED <<base, nextVersion, told>>
  ELSE /\ base' = [base EXCEPT !.rows = rows]
       /\ nextVersion' = nextVersion + 1
       /\ tx' = Stale(tx)
       /\ told' = told \cup {<<c[1], c[2], nextVersion>> : c \in claims}

\* Mutant: the tombstone carries the next version.
KillMutant(rows, rid, v) ==
  {IF r.rid = rid THEN [r EXCEPT !.xmax = nextVersion] ELSE r : r \in rows}

Kill(rows, rid, v) == {IF r.rid = rid THEN [r EXCEPT !.xmax = v] ELSE r : r \in rows}

Unlocked == UNCHANGED rowLocks
Quiet    == UNCHANGED <<active, aborted, commitSeq, lastCommit>>

\* A statement that fails in a transaction aborts the block (execute.rs).
Fails(s) ==
  /\ Open(s)
  /\ tx' = [tx EXCEPT ![s] = [Rebased(tx[s]) EXCEPT !.aborted = TRUE]]
  /\ UNCHANGED <<base, nextVersion, told, nextRid>>

---------------------------------------------------------------------------
(* Statements.                                                             *)

TxInit ==
  /\ base = [rows |-> InitRows, ddl |-> [t \in Tabs |-> {}]]
  /\ tx = [s \in Sessions |-> NoTx]
  /\ nextVersion = 1
  /\ active = {} /\ aborted = {} /\ rowLocks = {}
  /\ nextRid = Cardinality(InitRows) + 1
  /\ commitSeq = 0 /\ lastCommit = [t \in Tabs |-> 0]
  /\ told = {<<"ins", r.org, Frozen>> : r \in InitRows}

\* Mutant: no level caches a snapshot.
BeginSnapshotMutant(iso) == NoSnap

\* What BEGIN caches: RR and SER freeze the snapshot, the own version in it.
BeginSnapshot(iso) ==
  IF iso = "RC" THEN NoSnap
  ELSE [version |-> nextVersion, inProgress |-> active \cup {nextVersion}, tx |-> nextVersion]

\* exec_begin: the version is drawn before the snapshot is cached.
Begin(s, iso) ==
  /\ ~Open(s) /\ nextVersion <= MaxVersion
  /\ nextVersion' = nextVersion + 1
  /\ active' = active \cup {nextVersion}
  /\ tx' = [tx EXCEPT ![s] =
        [v |-> nextVersion, iso |-> iso,
         cat |-> [rows |-> base.rows, ddl |-> base.ddl, dirty |-> {}],
         snap |-> BeginSnapshot(iso),
         touched |-> {}, reads |-> {}, beginSeq |-> commitSeq, pairs |-> {},
         saves |-> <<>>, claims |-> {}, shadowDirty |-> FALSE,
         poisoned |-> FALSE, fresh |-> TRUE, aborted |-> FALSE]]
  /\ UNCHANGED <<base, aborted, rowLocks, nextRid, commitSeq, lastCommit, told>>

\* A SELECT.  In autocommit it reads the committed catalog and draws no
\* version, so it is possible at any time and changes nothing.
Select(s, t) ==
  /\ "select" \in Ops
  /\ \/ ~Open(s) /\ UNCHANGED tx
     \/ /\ Open(s) /\ CanRun(s, "select")
        /\ tx' = [tx EXCEPT ![s] =
             [Rebased(tx[s]) EXCEPT !.reads = IF tx[s].iso = "SER" THEN @ \cup {t} ELSE @]]
  /\ Unlocked /\ Quiet
  /\ UNCHANGED <<base, nextVersion, nextRid, told>>

\* SELECT .. FOR UPDATE of one row.
LockRow(s, r) ==
  /\ Open(s) /\ CanRun(s, "lock")
  /\ r \in View(s) /\ ~LockWaits(s, r.rid)
  /\ rowLocks' = rowLocks \cup {<<r.rid, tx[s].v>>}
  /\ tx' = [tx EXCEPT ![s] =
        [Rebased(tx[s]) EXCEPT !.reads = IF tx[s].iso = "SER" THEN @ \cup {r.tab} ELSE @]]
  /\ Quiet
  /\ UNCHANGED <<base, nextVersion, nextRid, told>>

NewRow(t, k, org, by, v) ==
  [rid |-> nextRid, tab |-> t, key |-> k, org |-> org, by |-> by,
   xmin |-> v, xmax |-> Alive]

Insert(s, t, k) ==
  /\ CanRun(s, "insert") /\ nextRid <= MaxRid
  /\ ~KeyWaits(s, t, k)
  /\ LET new == NewRow(t, k, nextRid, {}, Version(s))
     IN  IF Clash(Catalog(s), {new})
         THEN Fails(s)
         ELSE /\ Wrote(s, t, Catalog(s) \cup {new}, {}, {}, {<<"ins", nextRid>>})
              /\ nextRid' = nextRid + 1
  /\ Unlocked /\ Quiet

\* The new version of r; the other live rows must not have its key.
Successor(s, r, k) == NewRow(r.tab, k, r.org, r.by \cup {Version(s)}, Version(s))

KeyTaken(s, r, k) == Clash(Live(Catalog(s)) \ {r}, {Successor(s, r, k)})

\* The old version is tombstoned, the new one appended, the pair recorded.
NewVersion(s, r, k, reads) ==
  /\ Wrote(s, r.tab, Kill(Catalog(s), r.rid, Version(s)) \cup {Successor(s, r, k)},
           reads, {<<r.rid, nextRid>>}, {<<"upd", r.org>>})
  /\ nextRid' = nextRid + 1

\* Locks an UPDATE or DELETE keeps: a transaction's until it ends.
TakesLock(s, rid) ==
  rowLocks' = IF Open(s) THEN rowLocks \cup {<<rid, tx[s].v>>} ELSE rowLocks

\* UPDATE of one row, keeping its key or moving it: the key wait and the
\* uniqueness check (check_update_plan) come before the tuple lock.
Update(s, r, k) ==
  /\ CanRun(s, IF k = r.key THEN "update" ELSE "rekey") /\ nextRid <= MaxRid
  /\ r \in View(s) /\ ~KeyWaits(s, r.tab, k)
  /\ \/ KeyTaken(s, r, k) /\ Fails(s) /\ Unlocked
     \/ /\ ~KeyTaken(s, r, k) /\ ~LockWaits(s, r.rid)
        /\ NewVersion(s, r, k, {r.tab})
        /\ TakesLock(s, r.rid)
  /\ Quiet

Delete(s, r) ==
  /\ CanRun(s, "delete")
  /\ r \in View(s) /\ ~LockWaits(s, r.rid)
  /\ Wrote(s, r.tab, Kill(Catalog(s), r.rid, Version(s)), {r.tab}, {}, {<<"del", r.org>>})
  /\ TakesLock(s, r.rid)
  /\ Quiet /\ UNCHANGED nextRid

\* INSERT .. (key) .. ON CONFLICT DO UPDATE SET key = k that meets row r.
\* The wait is for the inserted key only, and no tuple lock is taken.
Upsert(s, r, k) ==
  /\ CanRun(s, "upsert") /\ nextRid <= MaxRid
  /\ r \in Live(Catalog(s))
  /\ ~KeyWaits(s, r.tab, r.key)
  /\ IF KeyTaken(s, r, k) THEN Fails(s) ELSE NewVersion(s, r, k, {})
  /\ Unlocked /\ Quiet

\* DDL on table t (TxStmtClass::Other): the rebase is poisoned for good.
Alter(s, t) ==
  /\ Open(s) /\ CanRun(s, "alter")
  /\ tx' = [tx EXCEPT ![s] =
        [Rebased(tx[s]) EXCEPT !.cat.ddl[t] = @ \cup {tx[s].v}, !.cat.dirty = @ \cup {t},
                               !.poisoned = TRUE, !.shadowDirty = TRUE]]
  /\ Unlocked /\ Quiet
  /\ UNCHANGED <<base, nextVersion, nextRid, told>>

\* NOTIFY, LISTEN, DECLARE or FETCH: no row changes, but classify_stmt_for_tx
\* knows none of them, and TxStmtClass::Other poisons the rebase.
Utility(s) ==
  /\ Open(s) /\ CanRun(s, "utility")
  /\ tx' = [tx EXCEPT ![s] = [Rebased(tx[s]) EXCEPT !.poisoned = TRUE]]
  /\ Unlocked /\ Quiet
  /\ UNCHANGED <<base, nextVersion, nextRid, told>>

---------------------------------------------------------------------------
(* Savepoints.  They are transaction control: no rebase runs before them.   *)

Position(saves, n) == CHOOSE i \in 1..Len(saves) : saves[i].name = n

HasSave(s, n) == Open(s) /\ \E i \in 1..Len(tx[s].saves) : tx[s].saves[i].name = n

\* The savepoints of other names; no name is there twice.
OtherSaves(s, n) ==
  LET saves == tx[s].saves
      i     == Position(saves, n)
  IN  IF HasSave(s, n) THEN SubSeq(saves, 1, i - 1) \o SubSeq(saves, i + 1, Len(saves))
                       ELSE saves

\* exec_savepoint: an older savepoint of the name goes, a new one is pushed.
Savepoint(s, n) ==
  /\ "savepoint" \in Ops /\ Open(s) /\ ~tx[s].aborted
  /\ tx' = [tx EXCEPT ![s].saves =
        Append(OtherSaves(s, n), [name |-> n, cat |-> tx[s].cat, claims |-> tx[s].claims])]
  /\ UNCHANGED <<base, nextVersion, active, aborted, rowLocks, nextRid,
                 commitSeq, lastCommit, told>>

\* Mutant: the epoch gate is left as it is.
RollbackToMutant(s, n) ==
  /\ HasSave(s, n)
  /\ LET i == Position(tx[s].saves, n)
     IN  tx' = [tx EXCEPT ![s].cat = tx[s].saves[i].cat,
                          ![s].claims = tx[s].saves[i].claims,
                          ![s].saves = SubSeq(@, 1, i),
                          ![s].aborted = FALSE]
  /\ UNCHANGED <<base, nextVersion, active, aborted, rowLocks, nextRid,
                 commitSeq, lastCommit, told>>

\* exec_rollback_to_savepoint: the shadow of the savepoint comes back and the
\* epoch gate is invalidated; touched_tables, update_pairs, the poison and
\* the row locks stay.  It lifts an aborted block.
RollbackTo(s, n) ==
  /\ HasSave(s, n)
  /\ LET i == Position(tx[s].saves, n)
     IN  tx' = [tx EXCEPT ![s].cat = tx[s].saves[i].cat,
                          ![s].claims = tx[s].saves[i].claims,
                          ![s].saves = SubSeq(@, 1, i),
                          ![s].fresh = FALSE, ![s].aborted = FALSE]
  /\ UNCHANGED <<base, nextVersion, active, aborted, rowLocks, nextRid,
                 commitSeq, lastCommit, told>>

\* exec_release_savepoint: the bookmark and those above it go.
Release(s, n) ==
  /\ HasSave(s, n) /\ ~tx[s].aborted
  /\ tx' = [tx EXCEPT ![s].saves = SubSeq(@, 1, Position(@, n) - 1)]
  /\ UNCHANGED <<base, nextVersion, active, aborted, rowLocks, nextRid,
                 commitSeq, lastCommit, told>>

---------------------------------------------------------------------------
(* The end of a transaction.                                               *)

\* Mutant: the version stays among the writers in flight.
EndsMutant(s) ==
  /\ tx' = Stale([tx EXCEPT ![s] = NoTx])
  /\ active' = active
  /\ rowLocks' = {l \in rowLocks : l[2] # tx[s].v}
  /\ UNCHANGED <<nextVersion, nextRid>>

\* The slot and the locks go, and the epoch moves, however it ended.
Ends(s) ==
  /\ tx' = Stale([tx EXCEPT ![s] = NoTx])
  /\ active' = active \ {tx[s].v}
  /\ rowLocks' = {l \in rowLocks : l[2] # tx[s].v}
  /\ UNCHANGED <<nextVersion, nextRid>>

\* exec_rollback, and every failed COMMIT.
Discard(s) ==
  /\ Ends(s)
  /\ aborted' = aborted \cup {tx[s].v}
  /\ UNCHANGED <<base, commitSeq, lastCommit, told>>

\* Mutant: the first commit after BEGIN is overlooked.
ReadConflictMutant(st) ==
  st.iso = "SER" /\ \E t \in st.reads : lastCommit[t] > st.beginSeq + 1

\* serializable_read_conflict: a table it read was written by a transaction
\* that committed after it began.
ReadConflict(st) ==
  st.iso = "SER" /\ \E t \in st.reads : lastCommit[t] > st.beginSeq

\* Does the RR / SER row merge apply?
Merges(st) == st.snap # NoSnap /\ ~st.poisoned /\ st.touched # {}

\* COMMIT answers 40001 (or rolls an aborted block back).
Refused(st) ==
  \/ st.aborted
  \/ RebaseFails(st)
  \/ ReadConflict(st)
  \/ Merges(st) /\ (Conflicted(st) # {} \/ ReplayClash(st))

\* The catalog a COMMIT has ready to install.
Ready(st) == IF Merges(st) THEN OntoBase(st) ELSE Rebased(st).cat

\* Mutant: the whole shadow is installed.
TableMergeMutant(st) == [rows |-> st.cat.rows, ddl |-> st.cat.ddl]

\* A poisoned transaction keeps the tables it dirtied; the rest is the base.
TableMerge(st) ==
  [rows |-> {r \in st.cat.rows : r.tab \in st.cat.dirty}
            \cup {r \in base.rows : r.tab \notin st.cat.dirty},
   ddl  |-> [t \in Tabs |-> IF t \in st.cat.dirty THEN st.cat.ddl[t] ELSE base.ddl[t]]]

\* Only a shadow somebody asked for mutably is installed; the redo sweep of
\* COMMIT itself asks for it when redo is captured.
Installed(st) ==
  IF ~(st.shadowDirty \/ RedoCapture) THEN base
  ELSE IF st.poisoned THEN TableMerge(st)
  ELSE [rows |-> Ready(st).rows, ddl |-> Ready(st).ddl]

\* exec_commit.
Commit(s) ==
  /\ Open(s) /\ ~Refused(tx[s])
  /\ LET st == tx[s]
     IN  /\ base' = Installed(st)
         /\ commitSeq' = commitSeq + 1
         /\ lastCommit' = [t \in Tabs |-> IF t \in st.touched THEN commitSeq + 1
                                          ELSE lastCommit[t]]
         /\ told' = told \cup {<<c[1], c[2], st.v>> : c \in st.claims}
  /\ Ends(s)
  /\ UNCHANGED aborted

CommitRefused(s) == Open(s) /\ Refused(tx[s]) /\ Discard(s)

Rollback(s) == Open(s) /\ Discard(s)

TxNext == \E s \in Sessions :
  \/ \E iso \in Isolations : Begin(s, iso)
  \/ \E t \in Tabs : Select(s, t) \/ Alter(s, t)
  \/ \E t \in Tabs, k \in Keys : Insert(s, t, k)
  \/ \E r \in Catalog(s) : LockRow(s, r) \/ Delete(s, r)
  \/ \E r \in Catalog(s), k \in Keys : Update(s, r, k) \/ Upsert(s, r, k)
  \/ \E n \in Names : Savepoint(s, n) \/ RollbackTo(s, n) \/ Release(s, n)
  \/ Utility(s)
  \/ Commit(s) \/ CommitRefused(s) \/ Rollback(s)

TxSpec == TxInit /\ [][TxNext]_vars

---------------------------------------------------------------------------
(* Properties.                                                             *)

Catalogs == [rows : SUBSET Row, ddl : [Tabs -> SUBSET Versions], dirty : SUBSET Tabs]

Claims == {"ins", "upd", "del"} \X Rids

TxType(st) ==
  /\ st.v \in Versions /\ st.iso \in Levels /\ st.cat \in Catalogs
  /\ \/ st.snap = NoSnap
     \/ st.snap \in [version : Versions, inProgress : SUBSET Versions, tx : Versions]
  /\ st.touched \subseteq Tabs /\ st.reads \subseteq Tabs /\ st.beginSeq \in Nat
  /\ st.pairs \subseteq Rids \X Rids /\ st.claims \subseteq Claims
  /\ st.saves \in Seq([name : Names, cat : Catalogs, claims : SUBSET Claims])
  /\ {st.shadowDirty, st.poisoned, st.fresh, st.aborted} \subseteq BOOLEAN

\* The types of the committed catalog, the open transactions (TxState) and the
\* version registers of the Engine; no stamp is from the future.
TxTypeOK ==
  /\ base \in [rows : SUBSET Row, ddl : [Tabs -> SUBSET Versions]]
  /\ \A s \in Sessions : Open(s) => TxType(tx[s])
  /\ nextVersion \in 1..(MaxVersion + 1) /\ nextRid \in 1..(MaxRid + 1)
  /\ active \subseteq Versions /\ aborted \subseteq Versions
  /\ rowLocks \subseteq Rids \X Versions
  /\ commitSeq \in Nat /\ lastCommit \in [Tabs -> Nat]

\* The versions that wrote anything into a set of rows.
StampsOf(rows) == {r.xmin : r \in rows} \cup {r.xmax : r \in rows}

\* No uncommitted and no rolled-back write is ever in the committed catalog,
\* nor in a shadow that is not its writer's: every stamp there belongs to a
\* version that is neither in flight nor aborted.
NoForeignStamps ==
  /\ StampsOf(base.rows) \cap (active \cup aborted) = {}
  /\ \A s \in Sessions :
       Open(s) => StampsOf(tx[s].cat.rows) \cap ((active \ {tx[s].v}) \cup aborted) = {}

\* The committed rows of a table have distinct keys, whichever way the
\* transactions that inserted them interleaved and at whichever level.
CommittedKeysUnique ==
  \A r, q \in Live(base.rows) : r.tab = q.tab /\ r.key = q.key => r = q

\* What clients were told is what the committed catalog holds: a row lives
\* exactly once unless its deletion committed, and carries every committed
\* UPDATE of it and no other.  (No update is lost, no row is doubled or
\* resurrected, no rolled-back or rolled-back-to-savepoint write survives.)
CommittedEffects ==
  \A o \in {c[2] : c \in {d \in told : d[1] = "ins"}} :
    LET now     == {r \in Live(base.rows) : r.org = o}
        deleted == \E c \in told : c[1] = "del" /\ c[2] = o
        updates == {c[3] : c \in {d \in told : d[1] = "upd" /\ d[2] = o}}
    IN  IF deleted THEN now = {}
        ELSE Cardinality(now) = 1 /\ \A r \in now : r.by = updates

\* The rows s would see at its next statement, without its own writes.
OthersSeen(s) == {r.rid : r \in {q \in View(s) : q.xmin # tx[s].v}}

\* READ COMMITTED reads the committed present: a statement sees every row the
\* committed catalog holds alive, except those the transaction itself
\* replaced or deleted, whatever the epoch gate skipped or a savepoint
\* restored.
ReadCommittedIsCurrent ==
  \A s \in Sessions :
    Open(s) /\ tx[s].iso = "RC" /\ ~tx[s].poisoned /\ ~RebaseFails(tx[s])
      => OthersSeen(s) = {r.rid : r \in Live(base.rows)} \ Tombstones(tx[s])

\* What s sees of others' rows, those it deleted or replaced itself included.
BeginView(s) ==
  LET snap == Snapshot(s)
  IN  {r.rid : r \in {q \in Catalog(s) :
                        q.xmin # tx[s].v /\ (q.xmax = tx[s].v \/ Visible(q, snap))}}

\* REPEATABLE READ and SERIALIZABLE keep their BEGIN view: no step of anybody,
\* the transaction's own ROLLBACK TO included, changes what it sees of others'
\* rows, except that it hides those it deleted or replaced itself.
FrozenView ==
  [][\A s \in Sessions :
       Open(s) /\ tx[s].iso # "RC" /\ tx'[s].v = tx[s].v
         => BeginView(s)' = BeginView(s)]_vars

\* The rows of table t that were alive when st began.
BeginRows(st, t) == {r.rid : r \in {q \in InTab(st.cat.rows, t) :
                                      q.xmin # st.v /\ q.xmax \in {Alive, st.v}}}

\* A SERIALIZABLE transaction commits only while every table it read still
\* holds the rows it held at BEGIN: its reads are as good as new, so commit
\* order is a serial order and write skew cannot happen.
SerializableReads ==
  [][\A s \in Sessions :
       Open(s) /\ tx[s].iso = "SER" /\ tx'[s] = NoTx /\ Commit(s)
         => \A t \in tx[s].reads :
              BeginRows(tx[s], t) = {r.rid : r \in Live(InTab(base.rows, t))}]_vars

\* A COMMIT changes nothing in the tables its transaction did not write, be it
\* a merge by rows, a merge by tables after DDL, or a transaction that only read
\* ("a transaction that changed nothing installs nothing").
OtherTablesKept ==
  [][\A s \in Sessions :
       Open(s) /\ tx'[s] = NoTx /\ Commit(s)
         => \A t \in Tabs \ tx[s].cat.dirty :
              /\ InTab(base'.rows, t) = InTab(base.rows, t)
              /\ base'.ddl[t] = base.ddl[t]]_vars
=============================================================================
