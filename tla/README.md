# spg in TLA+

A TLA+ model of the parts of spg whose correctness depends on what several
connections, threads and crashes do to one another: row locks and deadlock
detection, the transaction core, the session state connections take turns in,
the write-ahead logs of the server and of the embedded library, replication,
and the cold tier. TLC checks small instances; TLAPS proves the results of section 4
for every value of the constants. Paths below are relative to `src/crates/`.

## 1. The system

spg is a PostgreSQL-compatible SQL database in Rust, as an embedded library and
as a server. One `Engine` value holds the whole database behind one
reader-writer lock (the *engine guard*). A statement runs to completion under
the guard, so the hard behaviour is *between* statements: open transactions own
private copies of the catalog, waiting is done by retrying in the server, and
durability is a separate step after the guard has been dropped.

| Component | State | Operations | Correct when |
|---|---|---|---|
| lock table (`spg-engine/src/locks.rs`) | holders and waiters per row, wait-for edges | acquire, release_all, wait_on_versions, clear_wait, find_cycle | incompatible holders never meet; every cycle has a victim; only members of a real cycle die |
| statement locking (`locks.rs`, `unique_wait.rs`, `execute.rs`) and the retry loop (`spg-server/src/pgwire.rs`, `main.rs`) | the pending statement of each connection, uncommitted keys | lock and retry, key wait, timeout or cancel, end of statement, savepoints, end of transaction | nothing in the table outlives its owner; one uncommitted owner per key; every wait ends |
| transaction core (`spg-engine/src/transaction.rs`, `execute.rs`, `dml.rs`; `spg-storage/src/table.rs`, `snapshot.rs`, `row_header.rs`) | committed catalog, one shadow per open transaction, version registers, savepoints, commit counters | BEGIN, DML, DDL, savepoints, COMMIT, ROLLBACK, the RC rebase | no dirty data in the committed catalog, no lost or doubled write, unique keys, the promise of each isolation level |
| server log (`spg-server/src/wal.rs`, `pgwire.rs`, `commands.rs`, `flusher.rs`, `main.rs`) | log file (and how much of it the disk has), commit queue and leader, checkpoint, per-connection deferred BEGIN | group commit, inline append, flush, CHECKPOINT, replay | acknowledged writes survive once, refused and rolled-back ones never come back, every writer is answered |
| sessions (`session.rs`, `transaction.rs`, `execute.rs` of `spg-engine`; `pgwire.rs`) | the live session, one parked bag per connection, undo log of SET LOCAL, level, mode and failed flag of a block | swap, SET, SET LOCAL, BEGIN/COMMIT/ROLLBACK, savepoints, disconnect | settings overlay as SQL says; what belongs to a block ends with it; nothing forbidden runs |
| cursors, LISTEN/NOTIFY (`cursor.rs`, `notify.rs`) | open cursors, pending and delivered queues | DECLARE, CLOSE, LISTEN, NOTIFY, end of a block | end with the transaction exactly as PostgreSQL's do |
| replication (`spg-server/src/replication.rs`, `spg-engine/src/subscriptions.rs`) | follower and subscriber positions, local log, sidecar file | snapshot, resume, tail, filtered tail, restart | a receiver is a prefix of the primary, and catches up |
| embedded engine (`spg-embedded`, `spg-embedded-tokio`) | own log in chunks, group commit, statement buffer, checkpoint worker, path lock | open, execute, checkpoint | tickets are honest, replay is exact, every call returns |
| cold tier (`freezer.rs`, `commands.rs`, `main.rs`, `spg-manifest`, `spg-storage/src/lib.rs`) | hot rows, segments and the Cold locators that name them, segment files, snapshot, manifest | freeze, promote, shadow, compact, CHECKPOINT, boot | both tiers together are one table, now and after a restart |
| backup (`backup.rs`) | copies of the files above | back up, restore | a restored copy is a state the database was in |
| vacuum (`autovacuum.rs`, `spg_admin.rs`) | oldest active version | reclaim tombstones | no row a snapshot may still see is reclaimed |
| sequences (`sequence.rs`) | counters | nextval, setval | survive rollback, are not repeated by replay |
| audit chain (`spg-audit`) | hash chain | append, verify | tamper evidence |
| parser, evaluator, storage structures, wire protocols, crypto, tools | none across statements | pure functions and I/O | functional correctness (tests) |

How they interact: a connection's statement enters the engine under the guard;
the engine consults the lock table and answers `LockWouldBlock` instead of
waiting; the server drops the guard, backs off and runs the statement again.
When it succeeds, `persist_wire_write` (or the leader of the commit queue)
appends the SQL text to the log, and only then is the client answered. Boot
loads the snapshot and re-executes the log; a follower re-executes the same
bytes as they arrive. Before a pgwire statement executes, it makes its session
the live one under a guard of its own (`set_current_session`), so that a third
party can come between the two.

## 2. Modules

| Module | Models | Uses |
|---|---|---|
| `LockTable` | the lock table as one value and its operations as operators; also a specification in which any caller may call anything | |
| `DeadlockSearch` | `dfs_cycle` step for step (recursive, TLC only) against the declarative `FindCycle` of `LockTable` | `LockTable` |
| `RowLocks` | sessions that lock rows and keys through the retry loop | `LockTable` |
| `Transactions` | shadow catalogs, rebase, merges, savepoints, isolation levels | |
| `Sessions` | the session swap, settings, block state, cursors, notifications | |
| `WalRecords` | the server log's records and what re-executing them does | |
| `ServerWal` | commit queue, inline log, checkpoint, crash and replay | `WalRecords` |
| `Replication` | a primary and a follower or a subscriber | `WalRecords`, `PrefixCopy` |
| `PrefixCopy` | what a replica promises its readers (abstract) | |
| `EmbeddedWal` | group commit, statement buffer, checkpoint worker and boot of the embedded library | `WalRecords` |
| `ColdTier` | hot and cold rows of one table, freezer, compaction, checkpoint, crash and boot | |
| `RowLocksProofs` | theorems about `LockTable` and `RowLocks` | both |
| `TransactionsProofs`, `SessionsProofs`, `ServerWalProofs`, `ReplicationProofs`, `EmbeddedWalProofs` | theorems about the module each is named after | that module |
| `WalRecordsProofs` | replay as a loop: the states an engine passes through | `WalRecords`, `Iteration` |
| `Iteration` | lemmas: induction up to a position, and the function a loop defines | |
| `MC*` | instances for TLC, one module per specification | |

**LockTable.** `holders`, `waiters` and `waitFor` are the code's `entries` and
`wait_for`. The order of `waiters` is never read, so they are a set. A row is
one value for (RelId, RowId). `FindCycle` says *what* the search returns (the
lexicographically least simple cycle through its start); `DeadlockSearch`
checks that the recursive search returns exactly that.

**RowLocks.** `Attempt` is one run of a statement under the engine guard, as in
`execute_stmt_with_cancel`: `KeyWait` is `wait_for_uncommitted_unique_keys` (INSERT,
`dml.rs:5603`; UPDATE, `dml.rs:1294`), `Duplicate` the uniqueness checks behind it, `Walk`
the row loop of `run_locking_prepass` / `lock_dml_rows` and `TakeRow` one turn of
it, then the release of autocommit locks and the aborted flag. The checks probe
the catalog the statement reads (`Shadow`): a READ COMMITTED block has just been
rebased onto the committed one, a REPEATABLE READ, SERIALIZABLE or poisoned
block (`Poison`) still has the clone it began with. ON CONFLICT DO UPDATE moves
the row it meets to keys nobody waited for (`Upserts`, `Takes`). `RebaseFails` is
the rebase that meets an own key in the committed catalog; it returns before the
aborted flag is set, and a COMMIT that meets one is refused.
Everything that ends a wait without telling the engine is an action: `GiveUp` is
lock_timeout, statement_timeout or a CancelRequest; `Rechoose` is a retry that
finds other rows; `RollbackTo` revives a failed block, a deadlock victim too,
with its locks and edges still in the table. Two history variables say where the
code is exposed: `left` holds the edges of waits that are over, `raced` the keys
somebody took without waiting. Autocommit attempts use a fresh version each
time; since they release everything under the same guard the model does not
consume a version for them. The model keeps one savepoint per block, the last,
and does not free a committed key.

**Transactions.** One statement is one action. A row carries `xmin`/`xmax`, its
key, the row it descends from (`org`) and the versions whose updates are in it
(`by`), so that lost, doubled and resurrected writes are visible without values.
`Rebased` is `maybe_rc_rebase`, which runs before every statement of a READ
COMMITTED block and at COMMIT; `Refused`, `Ready`, `TableMerge` and `Installed`
are the branches of `exec_commit` in order. `fresh` stands for
`rebased_at_epoch = commit_epoch`, which the code only compares for equality.
A statement whose rebase fails returns an error and changes nothing, so it is
not an action. `told` records what clients were told and `claims` what they
will be told at COMMIT.

**ServerWal.** A write is the INSERT of one row without a unique key, so replay
twice is seen as two copies. `Enqueue`, `Drain`, `Apply`, `AuditFails`,
`GroupWrite`, `GroupSync`, `Restore`, `AckGroup`, `DropBaton` are the leader's
loop; `Inline`, `Begin`, `Statement`, `Commit`, `CommitAborted`, `CommitFails`,
`Rollback`, `Disconnect` the connection; `LogBegin`, `LogStatement`, `LogWrite`,
`LogSync`, `InlineAuditFails` are `persist_wire_write`; `Flush`, `CkptSnapshot`,
`CkptInstall`, `CkptTruncate`, `Crash` the rest. A crash keeps the fsynced part
of the log and any prefix of what follows; `Recovered` re-executes it on one
engine slot, as boot does. Ghosts, which the code does not have: the field `tx` of
a record; `synced`, what the disk has of the file; `beside`, the writes others put
in the catalog while a group is in hand (between its pre-image and its
acknowledgement), and `erased`, those of them a restored pre-image took out again.

**Sessions.** `Announce` is `set_current_session`: it parks the live state in
the bag of the connection that had it and takes out the announced one's.
Whatever the statement then does is a second step, `Executes`, on whichever
session is live by then. `slot` is a connection's transaction with the undo log
of SET LOCAL and the marks savepoints make in it; `live` is the settings, level,
mode and cursor of the session in the engine. `SetSession`, `SetLocal`,
`Savepoint`, `RollbackTo`, `Release`, `Declare`, `Close`, `Listen`, `Notify`,
`Begin`, `SetLevel`, `SetMode`, `Commit`, `Rollback`, `RefuseCommit`, `Leave` are
one action per statement; `Refuse`, `RebaseFails`, `Fail` are its error paths.
`want` is what the client asked for, kept apart from the engine's state, and
`slipped` what ran and must not have. Rows are in `Transactions`: here a commit
of somebody else chooses whether it gets in the way of an open block.

**Replication.** Positions are offsets in the primary's file, and a record is
two units long, so that a frame can end inside one. `Connect`, `WriteSnapshot`,
`Restore`, `Resume`, `ReceiveBytes`, `DrainRecord`, `Drained` are `follow_once`
step by step, `Subscribe`, `ReceiveRecord`, `ReceiveSkip` are `subscribe_once`,
`SendBytes` and `SendRecord` the two tails. `Cut` loses any suffix of what is on
the way; `CrashFollower` and `CrashSubscriber` restart from the files.

**EmbeddedWal.** `Elect`, `Take`, `Write`, `Sync`, `Flushed` are the leader in
`wait_flushed`; `Rename`, `Mark`, `FlushTake` ... `Rotate` are
`execute_checkpoint_job`; `Crash` is a crash with the `open_path` that follows
and the checkpoint it starts. The buffer of a transaction (`tx_wal`) is state of
its own beside the engine's transaction, because the two can part: `NestedBegin`
is a BEGIN inside a block, which the engine answers with a warning and nothing
else while `wal_after_ok` puts an empty buffer in place of the block's. `Rotate`
leaves what a failed fsync (`SPG_DATA_SYNC_RETRY=on`) kept volatile in the old chunk
as it is: a crash finds any part of it.

**ColdTier.** `cat` is the committed catalog of one table: the hot rows in their
slots (dead ones stay until `Vacuum`), the Cold locators of each key, and the
segments in memory, a sequence because ids are positions. `Freeze` is a tick of
the freezer; the whole of it is under the engine guard and none of it is logged.
`CompactSwap` and `CompactPersist` are COMPACT COLD SEGMENTS before and after it
drops the guard, `CkptCapture`, `CkptSnapshot`, `CkptManifest`, `CkptTruncate`
the steps of CHECKPOINT. `Insert`, `Update`, `Delete` run a statement and log
it; UPDATE promotes a cold row first (`Promote`) and DELETE shadows it. `Crash`
includes the boot: `Listed` is what `load_manifest_and_preload_cold` accepts,
`Booted` the catalog after replay, by the same `Apply` the statements used.
`table` is what the client believes the table to hold.

**Mishaps.** `Sessions`, `Replication`, `EmbeddedWal` and `ColdTier` contain
schedules under which the code does not keep what it promises. The models do not exclude them.
A history variable, `mishaps`, records that one has happened (and, in
`Sessions`, to which connection), and each property names the ones it depends
on: it says that *nothing else* can break it.

| Module | Mishap | Schedule |
|---|---|---|
| `Sessions` | `race` | another session was announced between announcement and execution |
| | `swapped` | another session was live while a READ ONLY block was open |
| | `disconnect` | a connection with an open block left while this one was live |
| | `rebase` | a statement of the block failed in the RC rebase |
| | `switched`, `unstamped` | SET TRANSACTION to SERIALIZABLE; an autocommit write beside a SERIALIZABLE block |
| | `mixed` | SET after SET LOCAL in one block |
| | `refused` | COMMIT was refused for a conflict |
| | `shared` | the one queue (or channel list) held something of several connections |
| `Replication` | `snapshot` | the snapshot was taken between a statement and its log record, or inside a transaction |
| | `truncate` | the primary's log was truncated under a receiver |
| | `marker` | a durability marker reached a follower |
| | `fallback`, `baseline` | a follower, or a subscriber, connected again without a position to resume from |
| | `volatile` | the connection was lost between readings and their statement |
| | `crash` | the follower restarted inside a frame or a transaction |
| `EmbeddedWal` | `overtaken` | a flush ended while another one still had earlier records in hand |
| | `torn` | a crash left part of a record in the active chunk |
| | `window` | a crash between the rename of a snapshot and the fsync of its marker |
| | `refused`, `aborted` | COMMIT refused; COMMIT of an aborted block |
| | `nested` | BEGIN inside a block |
| `ColdTier` | `twin` | INSERT of a key whose row is frozen |
| | `tombstone` | a dead version was frozen before vacuum took it |
| | `raced` | a statement between the image and the truncation of a checkpoint |
| | `crossed` | a checkpoint took image and paths on different sides of a compaction |
| | `torn`, `window` | a crash between snapshot and manifest; between manifest and truncation |
| | `persist`, `manifest` | a segment file, or the manifest, could not be written |

**PrefixCopy.** The feed is the sequence of databases the primary's log passes
through; the replica shows one of them, moves forward only (a durable one), and
never shows anything else. `Replication` implements it with
`feed` = the states after each record ever logged (for a subscriber: of the
published records since it began), `replica` = the receiver's committed
database, `durable` = it is a follower, `broken` = one of `truncate`,
`snapshot`, `crash`, `marker`, `fallback`, `baseline` has happened. The last two
belong there because a receiver without a stored position does not begin where
it left off: a follower asks for the offset that is the length of its *local* log
(`replication.rs:1302`), which is no position of the primary's file, and a
subscriber begins again at the end of the primary's log and leaves out what was
published in between.

## 3. Runs

`tlc -workers 2 -config <cfg> <module>` in this directory.

| Run | States | Shows |
|---|---|---|
| `LockTable` | 63 424 | compatible holders only; the search finds the least cycle; the youngest member of every knot is named by its own search |
| `RowLocks` | 249 826 | no leaked lock, waiter or edge; one uncommitted owner per key, and none while the key is committed, but for the two cases the property names; deadlock aborts only on cycles of waits that are real or were left behind; every statement is answered |
| `TxReadCommitted` | 389 646 | READ COMMITTED and autocommit: nothing dirty, lost, doubled or resurrected; keys unique |
| `TxSnapshot` | 440 262 | all levels and savepoints: nothing lost or doubled, READ COMMITTED reads the committed present even after ROLLBACK TO, frozen views stay frozen, serializable reads are valid at COMMIT |
| `TxDdl` | 371 520 | with upserts, DDL and other poisoning statements over two tables: keys stay unique and the table-level merge keeps the tables the transaction did not write |
| `WalGroupCommit` | 302 795 | recovery from well-bracketed logs is exact; no queued write is forgotten |
| `WalOverlap` | 1 520 218 | with inline commits and checkpoints at any moment, a failed group erases only what was written beside it; the length an append returns to is still in the file |
| `Replication` | 334 267 | a follower and a subscriber implement `PrefixCopy`; WAIT FOR WAL POSITION is honest; statements keep the primary's readings; the receiver catches up |
| `EmbeddedWal` | 409 658 | a ticket returns only what survives a crash; replay repeats nothing and brings back nothing rolled back; every call returns |
| `Sessions` | 1 714 673 | nothing forbidden runs; settings overlay as SQL says; block state ends with the block; notifications follow commits |
| `ColdTier` | 2 147 792 | freezing, compaction, promotion, shadowing and vacuum are invisible to a scan; a restart outside the writing of a checkpoint gives back exactly the table |

One run ends in a violation of something the repository says of itself
(`findings` in PROJECT.json quotes the line):

| Run | What TLC shows |
|---|---|
| `WalInterleaved` | an acknowledged autocommit write between the records of an open transaction is rolled back with it at boot |

The schedules exempted elsewhere have configurations of their own, which end in
a counterexample and are kept as its shortest description. The first two
contradict the repository as well: the step list at `wal.rs:908-914` has it that after
a rollback "the in-memory state matches the durable state", and the test of nested
blocks, which runs in memory only, that "both rows are committed, as in PG"
(`e2e_with_transaction.rs:202-235`).

| Config (module) | Property | What TLC shows |
|---|---|---|
| `WalPreImage.cfg` (`MCServerWal`) | `AckedInMemory` | the audit append of a group fails; an inline write of another connection, executed since the group's pre-image was taken, is acknowledged and logged, and the restored pre-image does not have it (`wal.rs:1203-1206`) |
| `EmbNestedBegin.cfg` (`MCEmbeddedWal`) | `NestedBlocksSurvive` | `BEGIN; INSERT; BEGIN; COMMIT` in the embedded library acknowledges the row and logs nothing (`spg-embedded/src/lib.rs:3980`): it is lost at a crash |
| `RowLocksTimeout.cfg` (`MCRowLocks`) | `NoVictimWithoutFault` | a waiter gives up and leaves its edge behind; a later wait closes a cycle that does not exist and a transaction dies of it |
| `TxNotify.cfg` (`MCTransactions`) | `CommittedEffects` | a NOTIFY, LISTEN or DECLARE in a READ COMMITTED block stops its rebase (`transaction.rs:182`), and its COMMIT puts an old copy of a table over what others committed |
| `TxRedoCapture.cfg` (`MCTransactions`) | `OtherTablesKept` | with redo capture a read-only REPEATABLE READ COMMIT puts its old clone in place of newer commits |
| `TxAutocommitSkew.cfg` (`MCTransactions`) | `SerializableReads` | autocommit writes do not stamp the tables they change, so a SERIALIZABLE block commits over them |
| `WalCheckpoint.cfg` (`MCServerWal`) | `AppliedOnce` | a crash after the snapshot and before the truncation applies records twice |
| `WalAbortedCommit.cfg` (`MCServerWal`) | `UnwantedStayOut` | COMMIT of an aborted block rolls back but is logged as COMMIT; boot commits it |
| `ReplVolatile.cfg` (`MCReplication`) | `ReadingsKept` | a follower counts the readings as applied, reconnects, and runs the statement without them |
| `EmbCheckpointCrash.cfg` (`MCEmbeddedWal`) | `AppliedOnce` | a crash between snapshot and marker replays what the snapshot has |
| `SessReadOnly.cfg` (`MCSessions`) | `ReadOnlyHolds` | a write is accepted in a READ ONLY block after another connection ran |
| `ColdLocators.cfg` (`MCColdTier`) | `OneColdPayload` | freezing a superseded version and later its successor gives a key two Cold locators, which compaction assumes cannot happen |
| `ColdTorn.cfg` (`MCColdTier`) | `NoOrphans` | a crash between snapshot and manifest: the manifest is refused and the snapshot's Cold locators resolve to nothing |
| `ColdResidue.cfg` (`MCColdTier`) | `ResidueIsNoOp` | a crash between manifest and truncation: the log is replayed over a snapshot that has it, and what it does is visible |

Larger or differently shaped instances pass too; they ask no question of their own:

| Config (module) | States | Differs in |
|---|---|---|
| `RowLocksWriters.cfg` (`MCRowLocks`) | 518 359 | three sessions over two rows, one of them shared, and a key: cycles of three, and waiters with several edges |
| `RowLocksStale.cfg` (`MCRowLocks`) | 290 457 | three sessions over two rows, one that gives up, one with a savepoint |
| `RowLocksKeys.cfg` (`MCRowLocks`) | 511 406 | UPDATE and DELETE that take and give back a key |
| `RowLocksLive.cfg` (`MCRowLocks`) | 175 158 | liveness with shared and exclusive locks over two rows, NOWAIT and SKIP LOCKED |
| `EmbeddedWalDeep.cfg` (`MCEmbeddedWal`) | 477 089 | goes on after a nested BEGIN; safety only, the callers interchangeable |

**Bounds.** Three versions suffice for the lock table to reach every wait-for
graph with nested and overlapping cycles; `LockTable` has one row because the
operations on different rows only meet in the wait-for graph, which
`wait_on_versions` fills arbitrarily. `RowLocks` has two sessions and no
symmetry, since it checks liveness: one gives up and has a savepoint, the other is
at times frozen or poisoned; two keys, so that an upsert can move a row from one to
the other against a rival; and a row that the next attempt may not find any more.
Cycles of three and shared rows are in the larger instances, and the theorems have
no bound. The bound on versions is one on arrivals:
`EveryWaitEnds` says nothing of a waiter that ever new transactions overtake, which
the retry loop, having no queue, does not exclude. `Transactions` has two sessions, because every conflict the
code detects is between one transaction and the committed state, whoever made
it; autocommit statements draw versions of their own in between. `GroupMax` is
2 with three writers so that one task stays behind when a group is drained.
`Replication` sends up to three units at a time, so that a frame ends inside a
record and the next one starts there; it has two lost connections, so that one
is lost while catching up after another, and one restart. It is followed up to
the first mishap (`CONSTRAINT Pursuing`; `Pursued` names mishaps to go on
from). `EmbeddedWal` has two callers, which is what it takes for a leader and a
follower, next to the worker; it is followed up to the first nested BEGIN (`Pursued`
has the other mishaps). `Sessions` has two connections and five kinds of
clients (`Scripts` in `MCSessions`), each with a budget per kind of statement:
which statements interact is in the kinds, and the theorems of section 4 have
neither bound. `ColdTier` has two keys and a `Batch` of two rows, so that a
segment holds several keys and a key can be in several segments; four statements
and four segment ids are enough to freeze twice, compact, promote or shadow, and
freeze again, around two checkpoints and a crash. It too is followed up to the
first mishap that is not in `Pursued`. Each bound is a constant: `MaxVersion`, `MaxRid`, `MaxWrites`,
`MaxTx`, `MaxErrors`, `MaxFaults`, `MaxCkpts`, `MaxCrashes`, `MaxMarks`,
`MaxCuts`, `MaxSaves`, `MaxFailures`, `MaxStmts`, `MaxSegs`, `FrameMax`,
`NetMax`, `Budgets`.

**`Overlap`.** With `Overlap = FALSE` the commit queue of `ServerWal` serves any
number of writers at once, while a transaction, an inline write or a checkpoint
has the server to itself. The code enforces nothing of the kind: it is the load
under which the log keeps its promises. `WalInterleaved`, `WalPreImage` and
`WalOverlap` set it to TRUE. `AckedVisible` is checked with it, where only what was
written beside a failed group is erased, and proved both ways: without overlap
nothing acknowledged ever is.
`BracketedRecovery` further requires that the log is well bracketed. Logs that
are not arise from a disconnect, a dangling transaction at boot, a refused
COMMIT and a failed append of a deferred BEGIN; the model reaches all of these,
and the hazard list names each.

**Fairness.** `RowLocks`: the retry loop retries for ever with a bounded
back-off (weak fairness of `Attempt` or `RebaseFails`, its enabling condition written out as
`Stuck`), and a client whose transaction keeps coming back to it ends it some
time (strong fairness of COMMIT or ROLLBACK), without which no lock is ever
released. `ServerWal`: threads in the middle of a statement are scheduled (weak
fairness of `Lead` and `Persist`). `Replication`: the primary finishes the
append it has begun, the tail polls the file, the receiver reads and reconnects
(weak fairness of `Log`, `Sender`, `Receiver`). `EmbeddedWal`: a thread inside
`wait_flushed`, the worker, and a caller inside `checkpoint()` run on threads of
their own and hold each mutex for a bounded time (weak fairness of each). In all
of them clients, checkpoints and faults owe nothing, and the bounds on faults
are what "once faults stop" means.

**Mutants.** Every property of every passing run has a mutant of a modelled
definition, such as a dropped guard, a missing reset or a swapped order, under
which TLC finds it violated. They stand next to the definitions they change.

## 4. Proofs

Checked with `tlapm <module>.tla`. Every theorem holds for any number of
sessions, rows, tables, keys, versions, writes and faults. The assumptions used
are the named ones of the modules (`VersionsAssumption`, `RowLocksAssumption`,
`StmtsAssumption`, `TransactionsAssumption`, `WalRecordsAssumption`,
`ServerWalAssumption`, `SessionsAssumption`, `ReplicationAssumption`,
`EmbeddedWalAssumption`). They type the constants, keep 0, the
session nobody has, out of `Sessions`, and say of the initial rows what a database
at rest has: distinct ids and keys, no tombstone, stamped `Frozen`, each its own
origin and not updated by anybody in the model's history.

| Theorem | States | Provided |
|---|---|---|
| `RowLocksProofs!TypeCorrect` | `Spec => []TypeOK` | |
| `RowLocksProofs!MutualExclusion` | `Spec => []NoConflictingHolders` | |
| `RowLocksProofs!LocksTypes` | `LocksSpec => []LocksTypeOK` | |
| `RowLocksProofs!KeysHaveOneOwner` | `LocksSpec => []FirstWriterOwnsKey` | |
| `RowLocksProofs!LocksDieWithTheirOwner` | `LocksSpec => []NoLeakedLocks` | |
| `RowLocksProofs!SessionsExcludeEachOther` | `LocksSpec => []NoConflictingHolders` | |
| `RowLocksProofs!VictimsStandOnCycles` | `LocksSpec => OnlyRealDeadlocks` | |
| `TransactionsProofs!TxTypes` | `TxSpec => []TxTypeOK` | |
| `TransactionsProofs!NoDirtyWrites` | `TxSpec => []NoForeignStamps` | |
| `TransactionsProofs!CommittedKeys` | `TxSpec => []CommittedKeysUnique` | |
| `TransactionsProofs!ReadsThePresent` | `TxSpec => []ReadCommittedIsCurrent` | |
| `TransactionsProofs!ViewStaysFrozen` | `TxSpec => FrozenView` | |
| `TransactionsProofs!CommitKeepsOtherTables` | `TxSpec => OtherTablesKept` | `RedoCapture = FALSE` |
| `TransactionsProofs!SerializableIsSerial` | `TxSpec => SerializableReads` | `RedoCapture = FALSE`, no `"auto"`, no `"alter"` in `Ops` |
| `TransactionsProofs!EffectsAreExact` | `TxSpec => []CommittedEffects` | `RedoCapture = FALSE`, no `"upsert"`, `"alter"`, `"utility"` in `Ops` |
| `ServerWalProofs!WalTypes` | `WalSpec => []WalTypeOK` | |
| `ServerWalProofs!RecoveryIsExact` | `WalSpec => []BracketedRecovery` | `Overlap = FALSE` |
| `ServerWalProofs!AckedStaysVisible` | `WalSpec => []AckedVisible` | `Overlap = FALSE` or `MaxCrashes = 0` |
| `SessionsProofs!Guarded` | `SessSpec => []NothingSlips` | |
| `SessionsProofs!BlocksLeaveNothing` | `SessSpec => []BlockStateEndsWithBlock` | |
| `SessionsProofs!NotifiesWithTheirBlock` | `SessSpec => []NotifiesFollowCommits` | |
| `SessionsProofs!SettingsFollow` | `SessSpec => []SettingsOverlay` | |
| `SessionsProofs!SessTypes` | `SessSpec => []SessTypeOK` | |
| `ReplicationProofs!ReplTypes` | `ReplSpec => []ReplTypeOK` | |
| `ReplicationProofs!BarrierIsSound` | `ReplSpec => []BarrierHolds` | |
| `ReplicationProofs!ReadingsTravel` | `ReplSpec => []SameReadings` | |
| `ReplicationProofs!ReplicaFollowsTheLog` | `ReplSpec => ReplicaIsAPrefix`, the refinement of `PrefixCopy` | |
| `EmbeddedWalProofs!EmbTypes` | `EmbSpec => []EmbTypeOK` | |
| `EmbeddedWalProofs!AckedStay` | `EmbSpec => []AckedSurvive` | |
| `EmbeddedWalProofs!ReplayExact` | `EmbSpec => []("nested" \notin mishaps => ReplayIsExact)` | no nested BEGIN |

Each condition in the last column but the last is needed: TLC refutes the property
without it. The last is what the proof covers: after a nested BEGIN the first clause
of `ReplayIsExact`, that nothing is applied twice, is only model-checked,
by `EmbeddedWalDeep.cfg` (the second exempts it by itself).
With redo capture on, every transaction's shadow counts as written, and COMMIT
installs it (`TxRedoCapture.cfg`). Autocommit writes and ALTER do not stamp
`table_last_commit`, which the SERIALIZABLE check reads (`TxAutocommitSkew.cfg`).
For `CommittedEffects`: ON CONFLICT DO UPDATE takes no tuple lock, so two of them
meet at the rebase, which drops the second although its client was told it
succeeded; DDL and utility statements such as NOTIFY poison the rebase of their
block, whose COMMIT then installs whole tables over what others committed
(`TxNotify.cfg`); redo capture installs old shadows in the same way.
With `Overlap`, records of several connections interleave (`WalInterleaved`), and
a CHECKPOINT beside an open transaction installs its snapshot without
truncating the log, which a crash then replays over it. `RedoCapture` is FALSE in the runs of these properties too, and
`Overlap` in the run of `BracketedRecovery`.

**Lock table.** *MutualExclusion*: `acquire` compares the requested mode with the
held ones and nobody looks again, so a later pair of holders is compatible only
because the matrix is symmetric (`ConflictSymmetric`). `AcquireCases` reduces an
acquire to granted, untouched or parked; only a grant adds a holder
(`GrantCompatible`).

**Row locks.** Two loops and a table have to be kept apart from who owns what. The
row loop is a recursive function of the position, which `Iteration` turns into facts
a proof can use: `LoopExists` shows that the function is defined by its equations,
`UpTo` gives induction up to a position, both from the well-foundedness of `<`.
`WalkAnswers` says what any number of turns leaves: the locks of others as they
were, new edges only to holders in the way of the statement, and no edge at all
behind a grant; `KeyWaitAnswers` and `ExecuteAnswers` say the same of the key wait
and of the whole attempt. `TableInv` (types, unleaked, compatible, and every owned key
with an open owner) follows for every way a statement ends. `FirstWriterOwnsKey` is
inductive on top of it. The core is that an attempt answered "ok" found no other
owner of the keys it waited for, and that its shadow had none of the keys it
takes; for a READ COMMITTED block the shadow is the committed catalog, for a frozen
one it is not, and what DO UPDATE SET and ROLLBACK TO take without a wait goes into
`raced` (`AttemptKeepsKeys`, `BackKeepsKeys`).
`WaitsInv`, for *VictimsStandOnCycles*, explains every edge of every open transaction:
its statement is pending and the other still holds a row or key in its way, or
the edge is in `left`. Each action is shown to put an edge into `left` exactly where
it ends the reason for it; `CyclesGrow` then turns the cycle the detector saw into
one of `Waits`. No hypothesis on timeouts, cancels or savepoints is left.

**Transactions.** `NoForeignStamps` is not inductive: it is silent about the
shadows savepoints keep, and a stamp of a version not drawn yet would turn
foreign later. `StampInv` instead bounds every stamp by the *settled* versions:
drawn, not in flight, not aborted. Committed rows carry settled stamps; a
transaction's shadow and the shadows on its savepoint stack carry settled
stamps and its own; the versions in flight are distinct. Versions only ever
become settled, so a shadow restored by ROLLBACK TO is still clean. The step
proof reduces each action to one of three state changes: a session changes its
own transaction (`OwnTxChanges`), an autocommit statement writes the base
(`AutocommitWrites`), a transaction ends (`TxEnds`); `ReplayClean` and
`RebaseClean` show that the replay introduces no stamp but the writer's.

The theorems about isolation levels build on `StampInv` and speak of the *shadows* of a
transaction, its catalog and those its savepoints keep, since ROLLBACK TO may put
any of them back. `StepCases` reduces the actions to seven kinds of step by what
they do to shadows; the invariants then stand one on another. `RowInv`: row ids are
distinct within a catalog and below the counter, two catalogs that know a row
agree on all but its tombstone, and a transaction's own stamps are on tables it
touched. `KeysInv`: live rows of one table in any catalog have distinct keys, which
the replay keeps because it drops an insert whose key is taken, and the table merge
because it installs whole tables. `FrozenInv`: the shadows of a REPEATABLE READ or
SERIALIZABLE block agree on the rows of others. `CurrentInv`: the shadow of a READ
COMMITTED block that is up to date (`fresh`) shows the committed rows but for the
ones it replaced or deleted. `DirtyInv`: every shadow names the tables it has own
stamps in, and one that is up to date has the committed rows in all others.
`SerInv`: a table whose last commit is not newer than a REPEATABLE READ or
SERIALIZABLE block has the committed rows of its BEGIN.

*EffectsAreExact* compares the committed rows with a history, what clients were
told, across rows that an UPDATE replaces by new ones of the same origin. `EffectInv`
speaks of the *stages* of a transaction, its catalog with its claims and the pairs of
them its savepoints keep. `Delta`: a stage is what it started from with exactly the
changes it claims, origin by origin. `Rooted` and `Apart`: every row and every claim
goes back to an INSERT a client was told of, or to one that this transaction alone
claims. `Locked` and `OneHolder`: what a stage tombstoned of others it holds the one
lock of, and at READ COMMITTED that row still lives in the base (`LiveStays`: a
commit tombstones no row another has locked). The last part is the point of the proof.
It makes `NothingSkipped` true: the READ COMMITTED rebase, which silently drops a
write whose target is gone, never has one to drop, so a replay keeps `Delta`
(`ReplaysDelta`, `ReplayGood`); at the other levels the first committer's check
refuses the COMMIT instead. `InstallEffects` then shows that installing a stage that
is `Based` on the committed rows extends the history by its claims and nothing else;
`EffectCases` reduces the actions to the kinds of step the invariant tells apart.

**Server log.** `WalRecordsProofs` makes replay a loop (`ReplayLoop`): one engine
state per record. The first part of `ServerWalProofs` says where a well-bracketed
log leads: boot adds a write to the snapshot exactly when the log commits it
(`RecoveredIs`). `TypeInv` and `LineInv` type the server, for any `Overlap`, and say
that the length an append will be cut back to is still in the file. Without `Overlap` the server is in one of three
modes (`ModeInv`): writers are in the queue, one connection has the server to itself,
or a checkpoint has. `RecoveryInv` adds, per write: in the log it has at most one
record, of the transaction or the group it belongs to, and none before its turn
(`LogInv`); what its client was told (`ToldInv`: nothing as long as it is in a queue,
a shadow or an append); and, as long as every log replayed was Replayable, that
memory is at least what snapshot and log give, that an acknowledged write is in the
snapshot or committed by the part of the log nobody will cut back (`Safe`: what
is on the disk, or the mark a failing append returns to), and that the pre-image of a group
is memory without the group (`MemInv`). There is a lemma for each action and part it
disturbs; `RecoveryImplies` reads the theorem off, for whatever a crash keeps of the
log, and `AckedVisible` for runs without overlap. With overlap and no crash
`AckedVisible` has an invariant of its own, `VisInv`, without modes: no write is in two
hands (`Apart`); a write a connection has executed and not answered for is in memory
or erased, one still in a shadow or in the queue is not in memory (`SeenConn`); and
while a group is in hand memory is its pre-image with the group's writes and those
`beside` it (`SeenGroup`), so that restoring the pre-image takes exactly these out.
`OwnStep` covers every action of a connection outside the queue, by what it puts
into the catalog and what it answers.

**Sessions.** A statement slips when three things disagree: what the client asked
for, its block, and the live session. `SlipInv` says what ties them together, for
each connection by itself and as long as that connection met none of the mishaps:
without a block there is nothing of a block (`AtRest`); the level of the block is
the session's (`LevelOK`); while the connection is live, the mode it asked for is
(`ModeOK`); a block with a failed statement is marked (`FailureOK`); a serializable
block is checked as one and knows of its reads and of other commits (`ReadsOK`). A
statement changes its own connection and, through the live session, at most one
other, which has then met a race: `StatementKeeps` reduces every action to the
connection that executes it, `BlockKeeps` and `PlainKeeps` to what it leaves of its
block, `OverIsSound` to a block that ended, `MovedOne` to what a commit does to the
others'. `AnnounceKeeps` and `LeaveKeeps` are the two actions that are not
statements. Notifications have an invariant of their own, `NoticeInv`: they are
numbered without gaps, one whose block is open is pending and its block is open,
one that is settled is delivered or gone as its block decided, and the channel is
there as long as somebody listens, unless the queue was shared.

The settings have a third one, `SettingInv`. The engine keeps prior values (the
undo log) and depths (the marks), the client a list of what it did, and
`SettingsOverlay` compares only the ends of the two. `Ties` says that the log *is*
the script: its entries stand in order for the SET LOCALs that count, its marks for
the SAVEPOINTs that count, a mark is as deep as there are SET LOCALs before its
SAVEPOINT, and a prior value is what the SET LOCAL before it set, or the last SET.
Cutting the log at a mark (`TiedBack`) is then cutting the script at the SAVEPOINT,
dropping marks (`TiedDrop`, `TiedRelease`) leaves the values alone, and the oldest
prior value is the last SET (`TiedOver`), which is what every way a block ends
relies on. The proof refuted one part of `SessTypeOK` as it stood, that nothing is
parked for the session that is live: it is true of connections, and false of session
0, which nobody has, when a statement runs after the connection that was live has
left and then all others leave.

**Replication.** `ReplInv` ties the receiver to a position of the primary's log.
`LogInv` and `PrimInv`: the file is a suffix of all that was ever logged, a volatile
statement stands right behind its readings, and replaying the log gives the primary's
database and its open transaction. `NetInv`: what the receiver has not applied and
what is on the way are one stream of units from its position to what was sent, cut at
the end at most. `FileInv`: how the follower's sidecar, its local log and its position
stand to each other. `FollowerInv`: there are records *p* and *k* such that the snapshot
file is the log up to *p*, the local log its records from *p* on, and the engine the log up
to *k*; or the follower resumed inside the first record after a fallback and does not
move (`Stuck`). `SubscriberInv`: its database counts the published records between its
start and its position. `ReadInv`: readings are kept for the statement behind them.
For the refinement, each action is a step of `PrefixCopy` that appends to the feed,
moves the replica, or neither, by what it does to *k*: `AtOf` is the loop of
`WalRecordsProofs` over the log, one state per record.

**Embedded log.** A record is enqueued once and then moves: from the group's buffer
into the hands of a leader or of the worker, and from there into a chunk. `Live` puts
these places side by side; no step but a crash drops a record of it. `HandsInv` and
`TicketInv` are the discipline of the group commit (one leader, one owner of the file,
one ticket per write), `BlockInv` and `MarksInv` that the statement buffer is the
engine's transaction, savepoint for savepoint, until a BEGIN is nested in it, `OnceInv` that no write is both in the
snapshot and above its LSN, `UndoneInv` that what was rolled back is nowhere, `AckInv`
that an acknowledged write is in the snapshot or in a chunk before the watermark, and
one with an open ticket there or on its way, and `CoverInv` that a marker vouches for
what the snapshot has. The last four hold as long as none of the mishaps was met that
the properties name.

Only model-checked: liveness (`EveryWaitEnds`, `EveryTaskAnswered`, `CatchesUp`,
`EveryCallReturns`), which the prover does not do; the recursive search
(`SearchFindsLeastCycle`, `SomeMemberIsItsOwnVictim`), because a `RECURSIVE`
operator is beyond it; and `ColdTier`, whose boot and scan are folds over sequences of
segments and of log records, so that its invariants need induction over data.

## 5. Not modelled

*RowLocks*: MERGE, which neither waits for keys nor checks them (`dml.rs:2451`, `2761`);
a committed DELETE that frees a key; more than one savepoint in a block. In particular
`FirstWriterOwnsKey` promises nothing of a MERGE.
*Transactions*: foreign keys, CREATE and DROP of tables, triggers. A SERIALIZABLE
block records the tables its statements name directly (`read_tables_of`,
`transaction.rs:48-86`); tables it reads only in a sub-query or in UPDATE ... FROM are
not among them, and `SerializableReads` says nothing of those: a statement of the
model reads the table it names. *ServerWal*:
`synchronous_commit = off`, poisoned mutexes, quarantine of log records that fail
to replay, redo records, log rotation. *Sessions*: prepared statements, temporary
tables, user variables, DEFERRABLE, RESET, cursor positions, the poll that hands
notifications to a client. *Replication*: protocol V1, status frames, cold
segments, DROP SUBSCRIPTION, statements the receiver's engine refuses. A CHECKPOINT
executed on the follower itself (`commands.rs:211`, which pgwire reaches at
`pgwire.rs:509`, `1395` and `4756`) truncates the local log `follow_once` appends to, so that
after a crash the sidecar may be ahead of the files; `CrashFollower` has no such file
and the theorems say nothing of a follower that was checkpointed.
*EmbeddedWal*: a nested BEGIN in the MySQL dialect (`execute.rs:3232`), which commits
the open block first, reachable by SET sql_mode; cold segments, manifest, point-in-time replay, retention, path
lock, `synchronous_commit = off`. *ColdTier*: statements without WHERE and
TRUNCATE, which pass over cold rows; open transactions; secondary indices;
`SPG_PRELOAD_COLD_SEGMENT`; the embedded library's freezer.

Backup, the vacuum horizon and sequences are planned (below). The parser,
evaluator, system catalogs, storage structures, wire protocols and cryptography
are most of the repository's lines. They keep no state across statements that
other parts race with: what they compute is a matter of data, a model of it
would be a second implementation, and they are left to tests.

## 6. Plan

Done: `LockTable`, `DeadlockSearch`, `RowLocks`, `Transactions`, `ServerWal`,
`Replication` with `PrefixCopy`, `EmbeddedWal`, `Sessions`, `ColdTier`, and the
proofs of section 4. Next, in order:

1. Backup and point-in-time recovery on top of `ColdTier`; the embedded
   library's freezer and manifest.
2. Vacuum's horizon as an extension of `Transactions`; sequences.
3. An abstract store (committed states change only by whole transactions) that
   `Transactions` implements, checked by TLC as a refinement.
4. Proofs: `TiersAreOneTable` and `RestartRestores`, once the folds of `ColdTier`
   are loops in the sense of `Iteration`.
