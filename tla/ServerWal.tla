----------------------------- MODULE ServerWal -----------------------------
(***************************************************************************)
(* The write-ahead log of spg-server: the commit queue with its leader     *)
(* (wal.rs), the log lines of explicit transactions (persist_wire_write in *)
(* pgwire.rs), CHECKPOINT (commands.rs), a crash, and the replay at boot   *)
(* (replay_wal_bytes_reporting, replay_wal_into_engine).                   *)
(*                                                                         *)
(* The log is one file of SQL texts shared by all connections.  A record   *)
(* carries no transaction: BEGIN, COMMIT and ROLLBACK are lines of their   *)
(* own, and replay runs every line on one engine slot.  The field `tx` of  *)
(* a record here is a ghost that only WellBracketed reads: the transaction *)
(* whose line it truly is, 0 for an autocommit statement and for a line    *)
(* that matches nothing the engine did.                                    *)
(*                                                                         *)
(* Abstractions.  A write is an INSERT of one row into a table without a   *)
(* unique key, so a state of the database says how often each write is in  *)
(* it.  Isolation is module Transactions: COMMIT adds the writes of the    *)
(* transaction to the database.  synchronous_commit is on.  A record is    *)
(* in the file whole or not at all: framing and CRC make replay cut a torn *)
(* tail.  A crash keeps what was fsynced and any prefix of the rest.       *)
(***************************************************************************)
EXTENDS WalRecords, FiniteSets

CONSTANTS Sessions,    \* connections
          GroupMax,    \* SPG_COMMIT_GROUP_MAX
          Overlap,     \* may other work overlap with a connection's?
          MaxTx,       \* bound: BEGINs
          MaxErrors,   \* bound: statements and COMMITs the engine fails
          MaxFaults,   \* bound: failed audit or log appends
          MaxCkpts,    \* bound: CHECKPOINTs
          MaxCrashes   \* bound: crashes

ASSUME ServerWalAssumption ==
  /\ GroupMax \in Nat \ {0}
  /\ Overlap \in BOOLEAN
  /\ {MaxTx, MaxErrors, MaxFaults, MaxCkpts, MaxCrashes} \subseteq Nat

VARIABLES mem,     \* Engine.catalog: copies of each committed write
          db,      \* the snapshot file
          log,     \* the records in the WAL file
          synced,  \* history: how many of them an fsync has covered
          mutex,   \* {s}: s is between write and fsync, under the WAL mutex
          mark,    \* its pre_append_len
          conn,    \* the connections
          queue,   \* CommitQueueState.pending, each session's task by its name
          leader,  \* {s}: leader_active, and the thread that leads
          round,   \* the leader's group
          ckpt,    \* perform_checkpoint
          count,   \* how much of each bound is used
          told,    \* history: what the client of each write knows
          clean,   \* history: every log replayed so far was Replayable
          beside,  \* history: writes of others since the group's pre-image
          erased   \* history: writes of others a restored pre-image lacked

vars == <<mem, db, log, synced, mutex, mark, conn, queue, leader, round, ckpt,
          count, told, clean, beside, erased>>

logVars == <<log, synced, mutex, mark>>
queueVars == <<queue, leader, round>>
ghosts == <<beside, erased>>

---------------------------------------------------------------------------
(* Logs replay may trust.                                                  *)

\* The BEGIN at j is still open where record i stands.
Inside(lg, j, i) ==
  /\ lg[j].kind = "BEGIN"
  /\ \A k \in (j + 1)..(i - 1) : lg[k].kind \notin Ends

\* Each transaction's records stand together, between its BEGIN and its end,
\* and only transactions have BEGINs and ends.
WellBracketed(lg) ==
  \A i \in 1..Len(lg) :
    /\ lg[i].tx = 0 => lg[i].kind = "SQL"
    /\ \A j \in 1..(i - 1) : Inside(lg, j, i) => lg[j].tx = lg[i].tx
    /\ lg[i].tx # 0 /\ lg[i].kind # "BEGIN"
         => \E j \in 1..(i - 1) : Inside(lg, j, i)

---------------------------------------------------------------------------
(* Connections.                                                            *)

\* tx 0: no transaction open.  shadow: what the engine holds of it.  good:
\* those of its statements that were answered.  aborted: TxState.aborted.
\* unlogged: tx_unlogged.  rec: the record persist_wire_write will append.
Fresh == [pc |-> "idle", tx |-> 0, shadow |-> {}, good |-> {}, aborted |-> FALSE,
          unlogged |-> FALSE, w |-> 0, rec |-> Record("SQL", 0, 0)]

NoRound == [stage |-> "none", tasks |-> <<>>, pre |-> Nothing]

NoCkpt == [pc |-> "idle", snap |-> Nothing, anyTx |-> FALSE]

WalInit ==
  /\ mem = Nothing /\ db = Nothing
  /\ log = <<>> /\ synced = 0 /\ mutex = {} /\ mark = 0
  /\ conn = [s \in Sessions |-> Fresh]
  /\ queue = <<>> /\ leader = {} /\ round = NoRound
  /\ ckpt = NoCkpt
  /\ count = [writes |-> 0, txs |-> 0, errors |-> 0, faults |-> 0, ckpts |-> 0, crashes |-> 0]
  /\ told = [w \in Writes |-> "nothing"]
  /\ clean = TRUE /\ beside = {} /\ erased = {}

AtRest(s) == conn[s].pc = "idle" /\ conn[s].tx = 0

\* Without Overlap the commit queue serves any number of writers at once, and
\* everything else has the server to itself.  The code has no such rule: it
\* is the load under which the log's promises hold.
Alone(s) ==
  Overlap \/ (ckpt.pc = "idle" /\ \A o \in Sessions \ {s} : AtRest(o))

AmongWriters(s) ==
  Overlap \/ /\ ckpt.pc = "idle"
             /\ \A o \in Sessions \ {s} : conn[o].tx = 0 /\ conn[o].pc \notin {"log", "sync"}

Told(ws, what) == [w \in Writes |-> IF w \in ws THEN what ELSE told[w]]

CanFail == count.faults < MaxFaults
Fault == count' = [count EXCEPT !.faults = @ + 1]

EngineError == count.errors < MaxErrors /\ count' = [count EXCEPT !.errors = @ + 1]

NewWrite == count.writes + 1

---------------------------------------------------------------------------
(* Autocommit DML through the commit queue.                                *)

\* enqueue_commit_task: the first to push becomes the leader.
Enqueue(s) ==
  /\ AtRest(s) /\ count.writes < MaxWrites /\ AmongWriters(s)
  /\ conn' = [conn EXCEPT ![s].pc = "queued", ![s].w = NewWrite]
  /\ count' = [count EXCEPT !.writes = NewWrite]
  /\ queue' = Append(queue, s)
  /\ leader' = IF leader = {} THEN {s} ELSE leader
  /\ UNCHANGED <<mem, db, logVars, round, ckpt, told, clean, ghosts>>

\* The top of the leader's loop, under the queue mutex: take a group, or give
\* the baton up if nothing is pending.
Drain(s) ==
  /\ leader = {s} /\ round.stage = "none" /\ queue # <<>>
  /\ LET n == IF Len(queue) < GroupMax THEN Len(queue) ELSE GroupMax
     IN  /\ round' = [NoRound EXCEPT !.stage = "drained", !.tasks = SubSeq(queue, 1, n)]
         /\ queue' = SubSeq(queue, n + 1, Len(queue))
  /\ UNCHANGED <<mem, db, logVars, conn, leader, ckpt, count, told, clean, ghosts>>

\* Mutant: the baton is dropped without a look at the queue.
DropBatonMutant(s) ==
  /\ leader = {s} /\ round.stage = "none" /\ conn[s].pc = "acked"
  /\ leader' = {}
  /\ conn' = [conn EXCEPT ![s].pc = "idle"]
  /\ UNCHANGED <<mem, db, logVars, queue, round, ckpt, count, told, clean, ghosts>>

\* The leader then reads its own answer.
DropBaton(s) ==
  /\ leader = {s} /\ round.stage = "none" /\ queue = <<>>
  /\ leader' = {}
  /\ conn' = [conn EXCEPT ![s].pc = IF @ = "acked" THEN "idle" ELSE @]
  /\ UNCHANGED <<mem, db, logVars, queue, round, ckpt, count, told, clean, ghosts>>

Tasks == {round.tasks[i] : i \in DOMAIN round.tasks}

WritesOf(ss) == {conn[s].w : s \in ss}

\* The acks of some tasks: a follower's thread wakes at once.
Acked(ss) == [s \in Sessions |->
                IF s \notin ss THEN conn[s]
                ELSE [conn[s] EXCEPT !.w = 0,
                        !.pc = IF s \in leader THEN "acked" ELSE "idle"]]

\* The tasks that are left, in their order, when some have failed.
Survivors(tasks, failing) ==
  LET upto[i \in 0..Len(tasks)] ==
        IF i = 0 THEN <<>>
        ELSE IF tasks[i] \in failing THEN upto[i - 1] ELSE Append(upto[i - 1], tasks[i])
  IN  upto[Len(tasks)]

\* Mutant: the pre-image is cloned under a guard of its own, before the tasks run.
ApplyMutant(s) ==
  /\ leader = {s} /\ round.stage = "drained"
  /\ \/ /\ round.pre # mem
        /\ round' = [round EXCEPT !.pre = mem]
        /\ UNCHANGED <<mem, conn, told, ghosts>>
     \/ /\ round.pre # Nothing \/ mem = Nothing
        /\ mem' = Plus(mem, WritesOf(Tasks))
        /\ round' = [round EXCEPT !.stage = "applied"]
        /\ beside' = {}
        /\ UNCHANGED <<conn, told, erased>>
  /\ UNCHANGED <<db, logVars, queue, leader, ckpt, count, clean>>

\* Step 2, under one engine guard: the tasks run one after the other; those
\* that fail are answered and leave nothing.
Apply(s) ==
  /\ leader = {s} /\ round.stage = "drained"
  /\ \E failing \in SUBSET Tasks :
       LET left == Survivors(round.tasks, failing)
       IN  /\ mem' = Plus(mem, WritesOf(Tasks \ failing))
           /\ told' = Told(WritesOf(failing), "refused")
           /\ conn' = Acked(failing)
           /\ round' = IF left = <<>> THEN NoRound
                       ELSE [stage |-> "applied", tasks |-> left, pre |-> mem]
  /\ beside' = {}
  /\ UNCHANGED <<db, logVars, queue, leader, ckpt, count, clean, erased>>

\* Step 2.5: the audit chain refuses the group before any WAL byte.
AuditFails(s) ==
  /\ leader = {s} /\ round.stage = "applied" /\ CanFail /\ Fault
  /\ round' = [round EXCEPT !.stage = "failed"]
  /\ UNCHANGED <<mem, db, logVars, conn, queue, leader, ckpt, told, clean, ghosts>>

\* Step 3, append_wal_v3_group: all records in one write, then one fsync, both
\* under the WAL mutex.
GroupWrite(s) ==
  /\ leader = {s} /\ round.stage = "applied" /\ mutex = {}
  /\ mutex' = {s} /\ mark' = Len(log)
  /\ log' = log \o [i \in DOMAIN round.tasks |-> Record("SQL", 0, conn[round.tasks[i]].w)]
  /\ round' = [round EXCEPT !.stage = "written"]
  /\ UNCHANGED <<mem, db, synced, conn, queue, leader, ckpt, count, told, clean, ghosts>>

SyncOk == synced' = Len(log) /\ UNCHANGED log

\* Mutant: the bytes of a refused group stay in the file.
CutBackMutant == UNCHANGED <<log, synced>>

\* set_len(pre_append_len) on a failed write or fsync.
CutBack ==
  /\ log' = SubSeq(log, 1, mark)
  /\ synced' = IF synced < mark THEN synced ELSE mark

GroupSync(s) ==
  /\ leader = {s} /\ round.stage = "written"
  /\ \/ SyncOk /\ round' = [round EXCEPT !.stage = "synced"] /\ UNCHANGED count
     \/ CanFail /\ Fault /\ CutBack /\ round' = [round EXCEPT !.stage = "failed"]
  /\ mutex' = {} /\ mark' = 0
  /\ UNCHANGED <<mem, db, conn, queue, leader, ckpt, told, clean, ghosts>>

\* Step 4: replace_catalog(pre_image), then the error goes to every survivor.
\* The image lacks what others put in the catalog since it was taken.
Restore(s) ==
  /\ leader = {s} /\ round.stage = "failed"
  /\ mem' = round.pre
  /\ told' = Told(WritesOf(Tasks), "refused")
  /\ conn' = Acked(Tasks) /\ round' = NoRound
  /\ erased' = erased \cup beside
  /\ UNCHANGED <<db, logVars, queue, leader, ckpt, count, clean, beside>>

\* Step 5.
AckGroup(s) ==
  /\ leader = {s} /\ round.stage = "synced"
  /\ told' = Told(WritesOf(Tasks), "acked")
  /\ conn' = Acked(Tasks) /\ round' = NoRound
  /\ UNCHANGED <<mem, db, logVars, queue, leader, ckpt, count, clean, ghosts>>

---------------------------------------------------------------------------
(* The inline path: transactions, and autocommit statements that may not    *)
(* queue.  The engine runs the statement first, persist_wire_write logs it. *)

\* A group stands in memory that may still be taken back.
InHand == round.stage \in {"applied", "written", "synced", "failed"}

Beside(ws) == IF InHand THEN beside \cup ws ELSE beside

Inline(s) ==
  /\ AtRest(s) /\ count.writes < MaxWrites /\ Alone(s)
  /\ mem' = Plus(mem, {NewWrite}) /\ beside' = Beside({NewWrite})
  /\ count' = [count EXCEPT !.writes = NewWrite]
  /\ conn' = [conn EXCEPT ![s].pc = "log", ![s].rec = Record("SQL", 0, NewWrite)]
  /\ UNCHANGED <<db, logVars, queueVars, ckpt, told, clean, erased>>

\* BEGIN is not written yet (TxEdge::Opens).
Begin(s) ==
  /\ AtRest(s) /\ count.txs < MaxTx /\ Alone(s)
  /\ count' = [count EXCEPT !.txs = @ + 1]
  /\ conn' = [conn EXCEPT ![s] = [Fresh EXCEPT !.tx = count'.txs, !.unlogged = TRUE]]
  /\ UNCHANGED <<mem, db, logVars, queueVars, ckpt, told, clean, ghosts>>

InTx(s) == conn[s].pc = "idle" /\ conn[s].tx # 0

\* In an aborted block the engine refuses the statement and nothing happens.
Statement(s) ==
  /\ InTx(s) /\ ~conn[s].aborted /\ count.writes < MaxWrites
  /\ count' = [count EXCEPT !.writes = NewWrite]
  /\ conn' = [conn EXCEPT ![s].pc = "log", ![s].shadow = @ \cup {NewWrite},
                          ![s].rec = Record("SQL", conn[s].tx, NewWrite)]
  /\ UNCHANGED <<mem, db, logVars, queueVars, ckpt, told, clean, ghosts>>

\* A statement that fails aborts the block; errors are not logged.
StatementFails(s) ==
  /\ InTx(s) /\ ~conn[s].aborted /\ EngineError
  /\ conn' = [conn EXCEPT ![s].aborted = TRUE]
  /\ UNCHANGED <<mem, db, logVars, queueVars, ckpt, told, clean, ghosts>>

\* TxEdge::Closes: the line that ends a transaction is logged unless the
\* transaction has logged nothing.
EndTx(s, line, good) ==
  conn' = [conn EXCEPT ![s] =
             IF conn[s].unlogged THEN Fresh
             ELSE [Fresh EXCEPT !.pc = "log", !.good = good, !.rec = line]]

Commit(s) ==
  /\ InTx(s) /\ ~conn[s].aborted
  /\ mem' = Plus(mem, conn[s].shadow) /\ beside' = Beside(conn[s].shadow)
  /\ EndTx(s, Record("COMMIT", conn[s].tx, 0), conn[s].good)
  /\ UNCHANGED <<db, logVars, queueVars, ckpt, count, told, clean, erased>>

\* The engine answers the COMMIT of an aborted block with a ROLLBACK; what is
\* logged is the text the client sent.
CommitAborted(s) ==
  /\ InTx(s) /\ conn[s].aborted
  /\ EndTx(s, Record("COMMIT", 0, 0), {})
  /\ told' = Told(conn[s].shadow, "undone")
  /\ UNCHANGED <<mem, db, logVars, queueVars, ckpt, count, clean, ghosts>>

\* A COMMIT the engine refuses (40001, 23503) ends the transaction; being an
\* error it is not logged, and tx_unlogged stays as it is.
CommitFails(s) ==
  /\ InTx(s) /\ ~conn[s].aborted /\ EngineError
  /\ conn' = [conn EXCEPT ![s] = [Fresh EXCEPT !.unlogged = conn[s].unlogged]]
  /\ told' = Told(conn[s].shadow, "undone")
  /\ UNCHANGED <<mem, db, logVars, queueVars, ckpt, clean, ghosts>>

Rollback(s) ==
  /\ InTx(s)
  /\ EndTx(s, Record("ROLLBACK", conn[s].tx, 0), {})
  /\ told' = Told(conn[s].shadow, "undone")
  /\ UNCHANGED <<mem, db, logVars, queueVars, ckpt, count, clean, ghosts>>

\* ConnGuard::drop: the engine rolls back; nothing is logged.
Disconnect(s) ==
  /\ InTx(s)
  /\ conn' = [conn EXCEPT ![s] = Fresh]
  /\ told' = Told(conn[s].shadow, "undone")
  /\ UNCHANGED <<mem, db, logVars, queueVars, ckpt, count, clean, ghosts>>

\* The client's answer to the statement whose record is pending.  An error here
\* ("durability append failed") comes after the engine has run the statement.
Answer(s, ok, unlogged) ==
  LET c    == conn[s]
      fate == IF ok THEN "acked" ELSE "unsure"
      done == CASE c.rec.kind = "COMMIT"              -> c.good
                [] c.rec.kind = "ROLLBACK"            -> {}
                [] c.rec.kind = "SQL" /\ c.rec.tx = 0 -> {c.rec.w}
                [] c.rec.kind = "SQL" /\ c.rec.tx # 0 -> {c.rec.w} \ {w \in Writes : ok}
  IN  /\ told' = Told(done, fate)
      /\ conn' = [conn EXCEPT ![s] =
           IF c.tx = 0 THEN [Fresh EXCEPT !.unlogged = unlogged]
           ELSE [c EXCEPT !.pc = "idle", !.unlogged = unlogged,
                          !.good = IF ok THEN @ \cup {c.rec.w} ELSE @]]

\* append_audit_pub runs first; its failure leaves the deferred BEGIN pending.
InlineAuditFails(s) ==
  /\ conn[s].pc = "log" /\ CanFail /\ Fault
  /\ Answer(s, FALSE, conn[s].unlogged)
  /\ UNCHANGED <<mem, db, logVars, queueVars, ckpt, clean, ghosts>>

\* flush_deferred_begin: the flag is cleared before the append is tried.
LogBegin(s) ==
  /\ conn[s].pc = "log" /\ conn[s].unlogged /\ mutex = {}
  /\ \/ /\ log' = Append(log, Record("BEGIN", conn[s].tx, 0))
        /\ conn' = [conn EXCEPT ![s].unlogged = FALSE]
        /\ UNCHANGED <<count, told>>
     \/ CanFail /\ Fault /\ Answer(s, FALSE, FALSE) /\ UNCHANGED log
  /\ UNCHANGED <<mem, db, synced, mutex, mark, queueVars, ckpt, clean, ghosts>>

\* append_wal_dialect inside a transaction: no fsync.
LogStatement(s) ==
  /\ conn[s].pc = "log" /\ ~conn[s].unlogged /\ conn[s].tx # 0 /\ mutex = {}
  /\ \/ log' = Append(log, conn[s].rec) /\ Answer(s, TRUE, FALSE) /\ UNCHANGED count
     \/ CanFail /\ Fault /\ Answer(s, FALSE, FALSE) /\ UNCHANGED log
  /\ UNCHANGED <<mem, db, synced, mutex, mark, queueVars, ckpt, clean, ghosts>>

\* append_wal_dialect outside one: written and fsynced under the mutex.
LogWrite(s) ==
  /\ conn[s].pc = "log" /\ ~conn[s].unlogged /\ conn[s].tx = 0 /\ mutex = {}
  /\ mutex' = {s} /\ mark' = Len(log)
  /\ log' = Append(log, conn[s].rec)
  /\ conn' = [conn EXCEPT ![s].pc = "sync"]
  /\ UNCHANGED <<mem, db, synced, queueVars, ckpt, count, told, clean, ghosts>>

LogSync(s) ==
  /\ conn[s].pc = "sync"
  /\ \/ SyncOk /\ Answer(s, TRUE, FALSE) /\ UNCHANGED count
     \/ CanFail /\ Fault /\ CutBack /\ Answer(s, FALSE, FALSE)
  /\ mutex' = {} /\ mark' = 0
  /\ UNCHANGED <<mem, db, queueVars, ckpt, clean, ghosts>>

---------------------------------------------------------------------------
(* The flusher, CHECKPOINT, and a crash with the boot after it.            *)

\* append_durability_marker: the fsync runs outside the mutex.
Flush ==
  /\ synced < Len(log)
  /\ synced' = Len(log)
  /\ UNCHANGED <<mem, db, log, mutex, mark, conn, queueVars, ckpt, count, told, clean, ghosts>>

\* perform_checkpoint.  The engine guard is dropped after the snapshot.
CkptSnapshot ==
  /\ ckpt.pc = "idle" /\ count.ckpts < MaxCkpts
  /\ Overlap \/ \A s \in Sessions : AtRest(s)
  /\ count' = [count EXCEPT !.ckpts = @ + 1]
  /\ ckpt' = [pc |-> "snapshot", snap |-> mem,
              anyTx |-> \E s \in Sessions : conn[s].tx # 0]
  /\ UNCHANGED <<mem, db, logVars, conn, queueVars, told, clean, ghosts>>

\* Snapshot file and manifest, with baseline 0.
CkptInstall ==
  /\ ckpt.pc = "snapshot"
  /\ db' = ckpt.snap
  /\ ckpt' = IF ckpt.anyTx THEN NoCkpt ELSE [ckpt EXCEPT !.pc = "installed"]
  /\ UNCHANGED <<mem, logVars, conn, queueVars, count, told, clean, ghosts>>

\* Mutant: the log is truncated without the WAL mutex.
CkptTruncateMutant ==
  /\ ckpt.pc = "installed"
  /\ log' = <<>> /\ synced' = 0
  /\ ckpt' = NoCkpt
  /\ UNCHANGED <<mem, db, mutex, mark, conn, queueVars, count, told, clean, ghosts>>

CkptTruncate ==
  /\ ckpt.pc = "installed" /\ mutex = {}
  /\ log' = <<>> /\ synced' = 0
  /\ ckpt' = NoCkpt
  /\ UNCHANGED <<mem, db, mutex, mark, conn, queueVars, count, told, clean, ghosts>>

\* The log may be replayed over the snapshot: no transaction's records stand
\* among those of others, and no checkpoint is between its snapshot and its
\* truncation.
Replayable(lg) == WellBracketed(lg) /\ ckpt.pc # "installed"

\* What of the file a crash may leave.
Kept == {SubSeq(log, 1, n) : n \in synced..Len(log)}

Crash ==
  /\ count.crashes < MaxCrashes
  /\ count' = [count EXCEPT !.crashes = @ + 1]
  /\ \E kept \in Kept :
       /\ log' = kept /\ synced' = Len(kept)
       /\ mem' = Recovered(db, kept)
       /\ clean' = (clean /\ Replayable(kept))
  /\ mutex' = {} /\ mark' = 0
  /\ conn' = [s \in Sessions |-> Fresh]
  /\ queue' = <<>> /\ leader' = {} /\ round' = NoRound
  /\ ckpt' = NoCkpt
  /\ beside' = {} /\ erased' = {}
  /\ UNCHANGED <<db, told>>

\* A SELECT changes nothing here.  It is a step only while nothing else is under
\* way, so that a thread stuck in the middle of its work is still a deadlock.
Read ==
  /\ \A s \in Sessions : AtRest(s)
  /\ ckpt.pc = "idle"
  /\ UNCHANGED vars

Lead(s) == Drain(s) \/ DropBaton(s) \/ Apply(s) \/ GroupWrite(s) \/ GroupSync(s)
           \/ Restore(s) \/ AckGroup(s)

Persist(s) == LogBegin(s) \/ LogStatement(s) \/ LogWrite(s) \/ LogSync(s)

Client(s) == Enqueue(s) \/ Inline(s) \/ Begin(s) \/ Statement(s)
             \/ StatementFails(s) \/ Commit(s) \/ CommitAborted(s) \/ CommitFails(s)
             \/ Rollback(s) \/ Disconnect(s)

WalNext ==
  \/ \E s \in Sessions : Client(s) \/ Lead(s) \/ AuditFails(s)
                       \/ Persist(s) \/ InlineAuditFails(s)
  \/ Flush \/ CkptSnapshot \/ CkptInstall \/ CkptTruncate
  \/ Crash
  \/ Read

WalSpec == WalInit /\ [][WalNext]_vars

\* Threads in the middle of a statement are scheduled; nothing else is owed.
WalFairness == \A s \in Sessions : WF_vars(Lead(s)) /\ WF_vars(Persist(s))

WalFairSpec == WalSpec /\ WalFairness

---------------------------------------------------------------------------
(* Properties.                                                             *)

\* The types of the log, the queue and the connections; and whoever holds the
\* WAL mutex finds the length it noted still in the file, so that set_len cuts
\* back and never extends it, whatever a CHECKPOINT truncated meanwhile.
WalTypeOK ==
  /\ mem \in [Writes -> Nat] /\ db \in [Writes -> Nat]
  /\ log \in Seq([kind : {"BEGIN", "SQL"} \cup Ends, tx : 0..MaxTx, w : 0..MaxWrites])
  /\ synced \in 0..Len(log)
  /\ mutex \subseteq Sessions /\ mark \in 0..Len(log)
  /\ \A s \in Sessions :
       /\ conn[s].pc \in {"idle", "queued", "acked", "log", "sync"}
       /\ conn[s].tx \in 0..MaxTx /\ {conn[s].unlogged, conn[s].aborted} \subseteq BOOLEAN
       /\ conn[s].shadow \subseteq Writes /\ conn[s].good \subseteq Writes
  /\ queue \in Seq(Sessions) /\ leader \subseteq Sessions
  /\ round.stage \in {"none", "drained", "applied", "written", "synced", "failed"}
  /\ ckpt.pc \in {"idle", "snapshot", "installed"}
  /\ told \in [Writes -> {"nothing", "acked", "refused", "unsure", "undone"}]

AckedWrites == {w \in Writes : told[w] = "acked"}

\* Writes that must not come back: refused, rolled back, or of a transaction
\* that has not reached COMMIT.
Unwanted == {w \in Writes : told[w] \in {"refused", "undone"}}
            \cup UNION {conn[s].shadow : s \in Sessions}

\* A crash at this instant, whatever the disk kept, loses no write a client was
\* told is done ("a crash before the COMMIT fsync loses only the uncommitted
\* tx").
AckedSurvive ==
  \A kept \in Kept : \A w \in AckedWrites : Recovered(db, kept)[w] >= 1

\* It brings no write back twice ("every record still applied exactly once").
AppliedOnce ==
  \A kept \in Kept : \A w \in Writes : Recovered(db, kept)[w] <= 1

\* It brings back none that failed, was rolled back or never committed.
UnwantedStayOut ==
  \A kept \in Kept : \A w \in Unwanted : Recovered(db, kept)[w] = 0

\* What recovery promises as long as no log that is not Replayable is replayed.
BracketedRecovery ==
  clean /\ Replayable(log) => AckedSurvive /\ AppliedOnce /\ UnwantedStayOut

\* A write a client was told is done is in the engine's catalog, once.
AckedInMemory == \A w \in AckedWrites : mem[w] = 1

\* A failed group takes nothing down but its own writes and those others put in
\* the catalog after its pre-image was taken (WalPreImage.cfg), and with
\* no other work than the queue's there are none of these: an acknowledged
\* write stays visible through every group that fails before, beside or after
\* it, and through a crash if the log was one replay may trust.
AckedVisible ==
  clean => /\ \A w \in AckedWrites : mem[w] = 1 \/ w \in erased
           /\ Overlap \/ erased = {}

\* Every queued write is answered: the baton is never dropped on a waiting
\* task, and no thread waits for a leader that has left.
EveryTaskAnswered ==
  \A s \in Sessions : conn[s].pc = "queued" ~> conn[s].pc = "idle"
=============================================================================
