---------------------------- MODULE EmbeddedWal ----------------------------
(***************************************************************************)
(* The write-ahead log of spg-embedded (lib.rs): one Database shared by    *)
(* several callers (AsyncDatabase takes its lock for execute_buffered and  *)
(* drops it before WalTicket::wait), the group commit of WalGroup, the     *)
(* statement buffer of an open transaction (tx_wal), the background        *)
(* checkpoint worker, and a crash followed by open_path.                   *)
(*                                                                         *)
(* All callers share one engine slot, so a transaction is the database's   *)
(* and any caller may go on with it.  A record carries an LSN, and replay  *)
(* applies the records above the highest LSN of a checkpoint marker.       *)
(*                                                                         *)
(* Abstractions.  As in WalRecords a database is how often each write is   *)
(* in it: redo records append rows without a uniqueness check.  Replay is  *)
(* additive, so the order of records does not enter.  Manifest and cold    *)
(* segments are left out.  A crash keeps what was fsynced, any prefix of   *)
(* the rest, and possibly a part of the record after it.  The default      *)
(* policy aborts when an fsync fails, which is a crash.                    *)
(*                                                                         *)
(* Some schedules make the code lose, repeat or resurrect writes.  The     *)
(* model has all of them and notes each one in `mishaps`, so that the      *)
(* properties say which of them is to blame.                               *)
(***************************************************************************)
EXTENDS WalRecords, FiniteSetsExt, SequencesExt

CONSTANTS Callers,     \* threads that call the database
          Names,       \* savepoint names
          MaxTx,       \* bound: BEGINs
          MaxSaves,    \* bound: SAVEPOINTs
          MaxFailures, \* bound: failing statements, COMMITs, fsyncs, snapshots
          MaxCkpts,    \* bound: checkpoints, not counting those of a boot
          MaxCrashes   \* bound: crashes

ASSUME EmbeddedWalAssumption ==
  {MaxTx, MaxSaves, MaxFailures, MaxCkpts, MaxCrashes} \subseteq Nat

VARIABLES eng,      \* the engine: committed database and the one transaction
          buffer,   \* Database.tx_wal
          lsn,      \* commit_lsn
          group,    \* WalGroupState
          chunks,   \* the WAL chunk files, the last one is the active one
          synced,   \* how many records of the active chunk are on the disk
          file,     \* {who}: WalGroup.file is locked, between write and fsync
          call,     \* the callers
          worker,   \* the checkpoint worker and its job
          front,    \* is a caller inside checkpoint(), with the database lock?
          db,       \* the snapshot file, and the LSN it was captured at (ghost)
          count,    \* how much of each bound is used
          told,     \* history: what the client of each write knows
          mishaps   \* history: the schedules known to break durability

vars == <<eng, buffer, lsn, group, chunks, synced, file, call, worker, front,
          db, count, told, mishaps>>

logVars == <<group, chunks, synced, file>>

---------------------------------------------------------------------------
(* Records, chunks and what a boot makes of them.                          *)

Data(l, ws) == [kind |-> "DATA", lsn |-> l, ws |-> ws]

Marker(l) == [kind |-> "MARK", lsn |-> l, ws |-> {}]

\* What is left of a record that was being written: parsing stops here, and
\* the bytes stay in the chunk.
Torn == [kind |-> "TORN", lsn |-> 0, ws |-> {}]

\* parse_wal_records: an intact prefix.
Parsed(chunk) ==
  { i \in 1..Len(chunk) : \A j \in 1..i : chunk[j].kind # "TORN" }

Parse(cs) == UNION { { <<c, i>> : i \in Parsed(cs[c]) } : c \in DOMAIN cs }

At(cs, p) == cs[p[1]][p[2]]

\* snapshot_lsn of open_path.
Floor(cs) == Max({0} \cup { At(cs, p).lsn : p \in { q \in Parse(cs) : At(cs, q).kind = "MARK" } })

\* initial_lsn of open_path: markers count too.
LastLsn(cs) == Max({0} \cup { At(cs, p).lsn : p \in Parse(cs) })

\* Mutant: the marker's own record is not below the floor.
ReplayableMutant(cs) ==
  { p \in Parse(cs) : At(cs, p).kind = "DATA" /\ At(cs, p).lsn >= Floor(cs) }

\* replay_wal_filtered over all chunks.
Replayable(cs) ==
  { p \in Parse(cs) : At(cs, p).kind = "DATA" /\ At(cs, p).lsn > Floor(cs) }

Reopened(snapshot, cs) ==
  [w \in Writes |-> snapshot[w] + Cardinality({ p \in Replayable(cs) : w \in At(cs, p).ws })]

Active == chunks[Len(chunks)]

\* The files a crash that keeps k records of the active chunk leaves behind.
Kept(k, torn) ==
  [chunks EXCEPT ![Len(chunks)] = SubSeq(@, 1, k) \o (IF torn THEN <<Torn>> ELSE <<>>)]

---------------------------------------------------------------------------
(* The database under its lock.                                            *)

NoTx == [open |-> FALSE, aborted |-> FALSE, shadow |-> <<>>, saves |-> <<>>]

EngineAt(base) == [tx |-> NoTx, base |-> base]

NoBuffer == [on |-> FALSE, stmts |-> <<>>, marks |-> <<>>]

Idle == [at |-> "idle", seq |-> 0, ws |-> {}, batch |-> <<>>, to |-> 0]

NoJob == [at |-> "idle", snap |-> Nothing, lsn |-> 0, batch |-> <<>>, to |-> 0, error |-> FALSE]

NewGroup == [buf |-> <<>>, enqueued |-> 0, flushed |-> 0, leader |-> FALSE, failed |-> FALSE]

Free(t) == front = "free" /\ call[t].at = "idle"

Used(b) == count' = [count EXCEPT ![b] = @ + 1]

MayFail == count.failures < MaxFailures /\ Used("failures")

\* The clients of the writes in kept learn `what`, those of the others in ws
\* that they are rolled back.
Tell(ws, kept, what) ==
  told' = [w \in Writes |-> IF w \in kept THEN what ELSE IF w \in ws THEN "undone" ELSE told[w]]

Enqueued(r) == [group EXCEPT !.buf = Append(@, r), !.enqueued = @ + 1]

\* snapshot_checkpoint_job: the committed catalog and the LSN it stands for.
Job(base, l) == [worker EXCEPT !.at = "pending", !.snap = base, !.lsn = l]

\* The end of wal_after_ok when a record was made: enqueue it and hand out a
\* ticket; over a threshold, trigger a checkpoint.  A busy worker refuses the
\* job; an error it has kept from its last run is returned to this caller, who
\* then gets no ticket.  The record has the writes ws; the ones in kept are
\* committed, and a block that ends without committing is rolled back.
LogAndTrigger(t, ws, kept) ==
  /\ lsn' = lsn + 1
  /\ group' = Enqueued(Data(lsn + 1, ws))
  /\ \E trigger \in {FALSE} \cup (IF count.ckpts < MaxCkpts THEN {TRUE} ELSE {}) :
       IF trigger /\ worker.error
       THEN /\ worker' = [worker EXCEPT !.error = FALSE]
            /\ Tell(ToSet(eng.tx.shadow), kept, "unknown")
            /\ UNCHANGED <<call, count>>
       ELSE /\ call' = [call EXCEPT ![t] = [Idle EXCEPT !.at = "waiting",
                                              !.seq = group.enqueued + 1, !.ws = kept]]
            /\ Tell(ToSet(eng.tx.shadow), kept, "sent")
            /\ IF trigger /\ worker.at = "idle"
               THEN /\ worker' = Job(eng'.base, lsn + 1)
                    /\ Used("ckpts")
               ELSE UNCHANGED <<worker, count>>

\* Nothing was logged: the answer is final as returned.
NoRecord == UNCHANGED <<lsn, group, worker, call, count>>

---------------------------------------------------------------------------
(* Statements: the engine first, then wal_after_ok if it succeeded.        *)

\* The next INSERT, into the shadow of the transaction or the database.  A
\* buffer that outlived its transaction swallows the record.
Statement(t) ==
  LET w == Cardinality({ v \in Writes : told[v] # "new" }) + 1
  IN  /\ Free(t) /\ w \in Writes /\ ~eng.tx.aborted
      /\ eng' = IF eng.tx.open THEN [eng EXCEPT !.tx.shadow = Append(@, w)]
                ELSE [eng EXCEPT !.base = Plus(@, {w})]
      /\ IF buffer.on
         THEN /\ buffer' = [buffer EXCEPT !.stmts = Append(@, w)]
              /\ Tell({w}, {w}, IF eng.tx.open THEN "open" ELSE "acked")
              /\ NoRecord
         ELSE /\ LogAndTrigger(t, {w}, {w})
              /\ UNCHANGED buffer
      /\ UNCHANGED <<chunks, synced, file, front, db, mishaps>>

\* The engine's error is returned before wal_after_ok; it aborts the block.
FailStatement(t) ==
  /\ Free(t) /\ eng.tx.open /\ ~eng.tx.aborted
  /\ MayFail
  /\ eng' = [eng EXCEPT !.tx.aborted = TRUE]
  /\ UNCHANGED <<buffer, lsn, logVars, call, worker, front, db, told, mishaps>>

Begin(t) ==
  /\ Free(t) /\ ~eng.tx.open
  /\ count.tx < MaxTx /\ Used("tx")
  /\ eng' = [eng EXCEPT !.tx = [NoTx EXCEPT !.open = TRUE]]
  /\ buffer' = [NoBuffer EXCEPT !.on = TRUE]
  /\ UNCHANGED <<lsn, logVars, call, worker, front, db, told, mishaps>>

\* BEGIN inside a block: the engine warns and leaves the transaction as it is;
\* wal_after_ok replaces the buffer, and what it held is no longer logged, nor
\* cut by a ROLLBACK TO.
NestedBegin(t) ==
  /\ Free(t) /\ eng.tx.open /\ ~eng.tx.aborted
  /\ buffer' = [NoBuffer EXCEPT !.on = TRUE]
  /\ mishaps' = mishaps \cup (IF buffer.stmts # <<>> \/ buffer.marks # <<>> THEN {"nested"} ELSE {})
  /\ UNCHANGED <<eng, lsn, logVars, call, worker, front, db, count, told>>

\* COMMIT, as far as the engine accepts it.  It answers the COMMIT of an
\* aborted block by rolling back, and one outside a transaction by a warning;
\* the buffer is logged in each case.  With an empty buffer no record is made,
\* and the answer is final.
Commit(t) ==
  LET kept == IF eng.tx.open /\ ~eng.tx.aborted THEN ToSet(eng.tx.shadow) ELSE {}
      ws   == ToSet(buffer.stmts)
  IN  /\ Free(t) /\ (eng.tx.open \/ buffer.on)
      /\ eng' = [tx |-> NoTx, base |-> Plus(eng.base, kept)]
      /\ buffer' = NoBuffer
      /\ mishaps' = mishaps \cup (IF eng.tx.aborted /\ ws # {} THEN {"aborted"} ELSE {})
      /\ IF ws # {}
         THEN LogAndTrigger(t, ws, kept)
         ELSE NoRecord /\ Tell(ToSet(eng.tx.shadow), kept, "acked")
      /\ UNCHANGED <<chunks, synced, file, front, db>>

\* A deferred constraint fails the COMMIT: the engine rolls back and returns
\* an error, and the buffer stays.
RefuseCommit(t) ==
  /\ Free(t) /\ eng.tx.open /\ ~eng.tx.aborted /\ eng.tx.shadow # <<>>
  /\ MayFail
  /\ eng' = EngineAt(eng.base)
  /\ Tell(ToSet(eng.tx.shadow), {}, "undone")
  /\ mishaps' = mishaps \cup {"refused"}
  /\ UNCHANGED <<buffer, lsn, logVars, call, worker, front, db>>

Rollback(t) ==
  /\ Free(t) /\ (eng.tx.open \/ buffer.on)
  /\ eng' = EngineAt(eng.base)
  /\ buffer' = NoBuffer
  /\ Tell(ToSet(eng.tx.shadow), {}, "undone")
  /\ UNCHANGED <<lsn, logVars, call, worker, front, db, count, mishaps>>

\* Positions of the savepoint n in a stack; the engine and the buffer both
\* keep at most one of a name.
Place(stack, n) == { i \in DOMAIN stack : stack[i].name = n }

Push(stack, n, v) ==
  Append(IF Place(stack, n) = {} THEN stack
         ELSE RemoveAt(stack, CHOOSE i \in Place(stack, n) : TRUE),
         [name |-> n, at |-> v])

Savepoint(t, n) ==
  /\ Free(t) /\ eng.tx.open /\ ~eng.tx.aborted
  /\ count.saves < MaxSaves /\ Used("saves")
  /\ eng' = [eng EXCEPT !.tx.saves = Push(@, n, eng.tx.shadow)]
  /\ buffer' = [buffer EXCEPT !.marks = Push(@, n, Len(buffer.stmts))]
  /\ UNCHANGED <<lsn, logVars, call, worker, front, db, told, mishaps>>

\* Back to the savepoint, which survives; it revives an aborted block.
RollbackTo(t, n) ==
  /\ Free(t) /\ eng.tx.open
  /\ \E i \in Place(eng.tx.saves, n) :
       /\ eng' = [eng EXCEPT !.tx = [open |-> TRUE, aborted |-> FALSE,
                                     shadow |-> eng.tx.saves[i].at,
                                     saves |-> SubSeq(eng.tx.saves, 1, i)]]
       /\ Tell(ToSet(eng.tx.shadow) \ ToSet(eng.tx.saves[i].at), {}, "undone")
  /\ buffer' = IF Place(buffer.marks, n) = {} THEN buffer
               ELSE LET i == CHOOSE j \in Place(buffer.marks, n) : TRUE
                    IN  [buffer EXCEPT !.stmts = SubSeq(@, 1, buffer.marks[i].at),
                                       !.marks = SubSeq(@, 1, i)]
  /\ UNCHANGED <<lsn, logVars, call, worker, front, db, count, mishaps>>

\* The engine forgets the savepoint and the later ones; the buffer does not.
Release(t, n) ==
  /\ Free(t) /\ eng.tx.open /\ ~eng.tx.aborted
  /\ \E i \in Place(eng.tx.saves, n) :
       eng' = [eng EXCEPT !.tx.saves = SubSeq(@, 1, i - 1)]
  /\ UNCHANGED <<buffer, lsn, logVars, call, worker, front, db, count, told, mishaps>>

---------------------------------------------------------------------------
(* WalGroup.                                                               *)

\* The batch is in the file, and its fsync under way, under the file lock.
WriteOut(who, batch) ==
  /\ file = {}
  /\ file' = {who}
  /\ chunks' = [chunks EXCEPT ![Len(chunks)] = @ \o batch]

SyncOut == file' = {} /\ synced' = Len(Active)

\* flushed_seq is about to say `to`, and another flush has records up to there
\* in its hands that are not on the disk.
Overtakes(to, others) ==
  mishaps' = mishaps \cup
    (IF \E o \in others : o.at \in {"taken", "written"} /\ o.batch # <<>> /\ o.to <= to
     THEN {"overtaken"} ELSE {})

\* The top of wait_flushed's loop when it ends.
Answer(t) ==
  /\ call[t].at = "waiting" /\ (group.failed \/ group.flushed >= call[t].seq)
  /\ Tell({}, call[t].ws, IF group.failed THEN "unknown" ELSE "acked")
  /\ call' = [call EXCEPT ![t] = Idle]
  /\ UNCHANGED <<eng, buffer, lsn, logVars, worker, front, db, count, mishaps>>

\* Mutant: a second leader.
ElectMutant(t) ==
  /\ call[t].at = "waiting" /\ ~group.failed /\ group.flushed < call[t].seq
  /\ group' = [group EXCEPT !.leader = TRUE]
  /\ call' = [call EXCEPT ![t].at = "elected"]
  /\ UNCHANGED <<eng, buffer, lsn, chunks, synced, file, worker, front, db, count, told, mishaps>>

Elect(t) ==
  /\ call[t].at = "waiting" /\ ~group.failed /\ group.flushed < call[t].seq
  /\ ~group.leader
  /\ group' = [group EXCEPT !.leader = TRUE]
  /\ call' = [call EXCEPT ![t].at = "elected"]
  /\ UNCHANGED <<eng, buffer, lsn, chunks, synced, file, worker, front, db, count, told, mishaps>>

\* After commit_delay: the batch and the sequence number it reaches to.
Take(t) ==
  /\ call[t].at = "elected"
  /\ call' = [call EXCEPT ![t].at = "taken", ![t].batch = group.buf, ![t].to = group.enqueued]
  /\ group' = [group EXCEPT !.buf = <<>>]
  /\ UNCHANGED <<eng, buffer, lsn, chunks, synced, file, worker, front, db, count, told, mishaps>>

Write(t) ==
  /\ call[t].at = "taken" /\ WriteOut(t, call[t].batch)
  /\ call' = [call EXCEPT ![t].at = "written"]
  /\ UNCHANGED <<eng, buffer, lsn, group, synced, worker, front, db, count, told, mishaps>>

Sync(t) ==
  /\ call[t].at = "written" /\ SyncOut
  /\ call' = [call EXCEPT ![t].at = "synced"]
  /\ UNCHANGED <<eng, buffer, lsn, group, chunks, worker, front, db, count, told, mishaps>>

\* Mutant: leader_active is not reset.
FlushedMutant(t) ==
  /\ call[t].at = "synced"
  /\ group' = [group EXCEPT !.flushed = call[t].to]
  /\ Overtakes(call[t].to, {worker})
  /\ call' = [call EXCEPT ![t].at = "waiting", ![t].batch = <<>>, ![t].to = 0]
  /\ UNCHANGED <<eng, buffer, lsn, chunks, synced, file, worker, front, db, count, told>>

Flushed(t) ==
  /\ call[t].at = "synced"
  /\ group' = [group EXCEPT !.leader = FALSE, !.flushed = call[t].to]
  /\ Overtakes(call[t].to, {worker})
  /\ call' = [call EXCEPT ![t].at = "waiting", ![t].batch = <<>>, ![t].to = 0]
  /\ UNCHANGED <<eng, buffer, lsn, chunks, synced, file, worker, front, db, count, told>>

\* SPG_DATA_SYNC_RETRY=on: the failure poisons the log.
SyncFails(t) ==
  /\ call[t].at = "written" /\ MayFail
  /\ file' = {}
  /\ group' = [group EXCEPT !.leader = FALSE, !.failed = TRUE]
  /\ call' = [call EXCEPT ![t].at = "waiting", ![t].batch = <<>>, ![t].to = 0]
  /\ UNCHANGED <<eng, buffer, lsn, chunks, synced, worker, front, db, told, mishaps>>

---------------------------------------------------------------------------
(* Checkpoints.                                                            *)

\* checkpoint() and CHECKPOINT, under the database lock: wait for the worker,
\* return the error it kept, or capture a job and wait for that.
Checkpoint(t) ==
  /\ Free(t) /\ count.ckpts < MaxCkpts /\ Used("ckpts")
  /\ front' = "drain"
  /\ UNCHANGED <<eng, buffer, lsn, logVars, call, worker, db, told, mishaps>>

Capture ==
  /\ front = "drain" /\ worker.at = "idle"
  /\ IF worker.error
     THEN /\ worker' = [worker EXCEPT !.error = FALSE]
          /\ front' = "free"
     ELSE /\ worker' = Job(eng.base, lsn)
          /\ front' = "wait"
  /\ UNCHANGED <<eng, buffer, lsn, logVars, call, db, count, told, mishaps>>

Return ==
  /\ front = "wait" /\ worker.at = "idle"
  /\ front' = "free"
  /\ worker' = [worker EXCEPT !.error = FALSE]
  /\ UNCHANGED <<eng, buffer, lsn, logVars, call, db, count, told, mishaps>>

Failed == [NoJob EXCEPT !.error = TRUE]

\* execute_checkpoint_job.  The snapshot is fsynced and renamed over the old.
Rename ==
  /\ worker.at = "pending"
  /\ db' = [data |-> worker.snap, lsn |-> worker.lsn]
  /\ worker' = [worker EXCEPT !.at = "renamed"]
  /\ UNCHANGED <<eng, buffer, lsn, logVars, call, front, count, told, mishaps>>

RenameFails ==
  /\ worker.at = "pending" /\ MayFail
  /\ worker' = Failed
  /\ UNCHANGED <<eng, buffer, lsn, logVars, call, front, db, told, mishaps>>

\* Mutant: the marker takes the LSN of now, not the captured one.
MarkMutant ==
  /\ worker.at = "renamed"
  /\ group' = Enqueued(Marker(lsn))
  /\ worker' = [worker EXCEPT !.at = "marked"]
  /\ UNCHANGED <<eng, buffer, lsn, chunks, synced, file, call, front, db, count, told, mishaps>>

Mark ==
  /\ worker.at = "renamed"
  /\ group' = Enqueued(Marker(worker.lsn))
  /\ worker' = [worker EXCEPT !.at = "marked"]
  /\ UNCHANGED <<eng, buffer, lsn, chunks, synced, file, call, front, db, count, told, mishaps>>

\* flush_now.  With nothing to take it is done: a leader has the marker.
FlushTake ==
  /\ worker.at = "marked"
  /\ worker' = IF group.failed THEN Failed
               ELSE IF group.buf = <<>> THEN [worker EXCEPT !.at = "rotate"]
               ELSE [worker EXCEPT !.at = "taken", !.batch = group.buf, !.to = group.enqueued]
  /\ group' = IF group.failed THEN group ELSE [group EXCEPT !.buf = <<>>]
  /\ UNCHANGED <<eng, buffer, lsn, chunks, synced, file, call, front, db, count, told, mishaps>>

FlushWrite ==
  /\ worker.at = "taken" /\ WriteOut("worker", worker.batch)
  /\ worker' = [worker EXCEPT !.at = "written"]
  /\ UNCHANGED <<eng, buffer, lsn, group, synced, call, front, db, count, told, mishaps>>

FlushSync ==
  /\ worker.at = "written" /\ SyncOut
  /\ worker' = [worker EXCEPT !.at = "synced"]
  /\ UNCHANGED <<eng, buffer, lsn, group, chunks, call, front, db, count, told, mishaps>>

FlushDone ==
  /\ worker.at = "synced"
  /\ group' = [group EXCEPT !.flushed = worker.to]
  /\ Overtakes(worker.to, { call[t] : t \in Callers })
  /\ worker' = [worker EXCEPT !.at = "rotate", !.batch = <<>>, !.to = 0]
  /\ UNCHANGED <<eng, buffer, lsn, chunks, synced, file, call, front, db, count, told>>

FlushFails ==
  /\ worker.at = "written" /\ MayFail
  /\ file' = {}
  /\ group' = [group EXCEPT !.failed = TRUE]
  /\ worker' = Failed
  /\ UNCHANGED <<eng, buffer, lsn, chunks, synced, call, front, db, told, mishaps>>

\* A new chunk, and rotate_file under both locks.  Nobody syncs the old chunk any
\* more: what a leader's failed fsync left volatile in it stays so, and k says how
\* much of it a later crash will find (a torn rest does not matter there, nothing
\* is appended behind it).
Rotate ==
  /\ worker.at = "rotate" /\ file = {}
  /\ \E k \in synced..Len(Active) : chunks' = Append(Kept(k, FALSE), <<>>)
  /\ synced' = 0
  /\ worker' = NoJob
  /\ UNCHANGED <<eng, buffer, lsn, group, file, call, front, db, count, told, mishaps>>

---------------------------------------------------------------------------
(* A crash, and open_path with the checkpoint it makes if it replayed any. *)

Crash ==
  /\ count.crashes < MaxCrashes /\ Used("crashes")
  /\ \E k \in synced..Len(Active), torn \in BOOLEAN :
       LET cs   == Kept(k, torn)
           base == Reopened(db.data, cs)
           more == Replayable(cs) # {}
       IN  /\ torn => k < Len(Active) /\ Active[k + 1].kind # "TORN"
           /\ chunks' = cs
           /\ synced' = Len(cs[Len(cs)])
           /\ eng' = EngineAt(base)
           /\ lsn' = LastLsn(cs)
           /\ worker' = IF more THEN [NoJob EXCEPT !.at = "pending", !.snap = base, !.lsn = LastLsn(cs)]
                        ELSE NoJob
           /\ front' = IF more THEN "wait" ELSE "free"
           /\ mishaps' = mishaps \cup (IF torn THEN {"torn"} ELSE {})
                                 \cup (IF db.lsn > Floor(cs) THEN {"window"} ELSE {})
  /\ buffer' = NoBuffer
  /\ group' = NewGroup
  /\ file' = {}
  /\ call' = [t \in Callers |-> Idle]
  /\ told' = [w \in Writes |-> CASE told[w] = "sent" -> "unknown"
                                 [] told[w] = "open" -> "undone"
                                 [] OTHER -> told[w]]
  /\ UNCHANGED db

---------------------------------------------------------------------------

\* Everybody at rest: a caller may ask for something the engine answers
\* without a change.
Read ==
  /\ front = "free" /\ worker.at = "idle" /\ \A t \in Callers : call[t].at = "idle"
  /\ UNCHANGED vars

Init ==
  /\ eng = EngineAt(Nothing) /\ buffer = NoBuffer /\ lsn = 0
  /\ group = NewGroup /\ chunks = <<<<>>>> /\ synced = 0 /\ file = {}
  /\ call = [t \in Callers |-> Idle] /\ worker = NoJob /\ front = "free"
  /\ db = [data |-> Nothing, lsn |-> 0]
  /\ count = [tx |-> 0, saves |-> 0, failures |-> 0, ckpts |-> 0, crashes |-> 0]
  /\ told = [w \in Writes |-> "new"] /\ mishaps = {}

Database(t) ==
  \/ Statement(t) \/ FailStatement(t) \/ Begin(t) \/ NestedBegin(t)
  \/ Commit(t) \/ RefuseCommit(t) \/ Rollback(t)
  \/ \E n \in Names : Savepoint(t, n) \/ RollbackTo(t, n) \/ Release(t, n)
  \/ Checkpoint(t)

Wait(t) == Answer(t) \/ Elect(t) \/ Take(t) \/ Write(t) \/ Sync(t) \/ Flushed(t) \/ SyncFails(t)

Work ==
  \/ Rename \/ RenameFails \/ Mark \/ FlushTake \/ FlushWrite \/ FlushSync \/ FlushDone
  \/ FlushFails \/ Rotate

Next ==
  \/ \E t \in Callers : Database(t) \/ Wait(t)
  \/ Capture \/ Return \/ Work \/ Crash \/ Read

\* A thread inside wait_flushed, the worker and the caller of checkpoint() run
\* on their own threads, and each mutex they take is held for a bounded time.
Fairness ==
  /\ \A t \in Callers : WF_vars(Wait(t))
  /\ WF_vars(Work) /\ WF_vars(Capture \/ Return)

EmbSpec == Init /\ [][Next]_vars /\ Fairness

---------------------------------------------------------------------------
(* Properties.                                                             *)

RecordsT == [kind : {"DATA", "MARK", "TORN"}, lsn : Nat, ws : SUBSET Writes]

\* Types; the file lock is held by whoever is between write and fsync; one
\* leader at a time (the RAII flag leader_active); nothing is synced that is not
\* in the chunk; a marker never names a snapshot newer than the one on disk.
EmbTypeOK ==
  /\ eng.base \in Databases /\ Range(eng.tx.shadow) \subseteq Writes
  /\ Range(buffer.stmts) \subseteq Writes
  /\ lsn \in Nat /\ synced \in 0..Len(Active)
  /\ \A c \in Range(chunks) : Range(c) \subseteq RecordsT
  /\ group.flushed <= group.enqueued
  /\ file = { t \in Callers : call[t].at = "written" }
             \cup (IF worker.at = "written" THEN {"worker"} ELSE {})
  /\ Cardinality(file) <= 1
  /\ group.leader = (\E t \in Callers : call[t].at \in {"elected", "taken", "written", "synced"})
  /\ Cardinality({ t \in Callers : call[t].at \notin {"idle", "waiting"} }) <= 1
  /\ Floor(chunks) <= db.lsn
  /\ told \in [Writes -> {"new", "open", "sent", "acked", "unknown", "undone"}]
  /\ mishaps \subseteq {"overtaken", "torn", "window", "refused", "aborted", "nested"}

\* wait() returns Ok only for what survives a crash in this very state
\* ("block until the record it covers is durable"): through the log, or the
\* snapshot once a marker cuts the log off.  Four schedules void it: a flush
\* that overtakes another one, appends behind a torn record, a buffer left
\* behind by a refused COMMIT, and one that a nested BEGIN threw away.
AckedSurvive ==
  mishaps \cap {"overtaken", "torn", "refused", "nested"} = {}
    => LET after == Reopened(db.data, Kept(synced, FALSE))
       IN  \A w \in Writes : told[w] = "acked" => after[w] > 0

\* Replay is exact.  It re-applies nothing the snapshot has (with redo records a
\* write comes back twice otherwise): it takes a crash between the rename of a
\* snapshot and the fsync of its marker, or a marker no boot can read, to break
\* that.  And what the engine rolled back (ROLLBACK, ROLLBACK TO, a failed
\* block, an open transaction at a crash) comes back neither in memory nor
\* through the log, because the buffer follows the engine's savepoints; COMMIT
\* of an aborted block, a refused COMMIT and a BEGIN inside the block, which drops
\* the buffer's marks, are the exceptions.
ReplayIsExact ==
  /\ mishaps \cap {"window", "refused"} = {} => \A w \in Writes : eng.base[w] <= 1
  /\ mishaps \cap {"aborted", "refused", "nested"} = {}
       => LET after == Reopened(db.data, Kept(Len(Active), FALSE))
          IN  \A w \in Writes : told[w] = "undone" => eng.base[w] = 0 /\ after[w] = 0

\* No caller waits for ever for its ticket or in checkpoint(), whatever fails:
\* the leader's hand-over and the worker's state machine lose no wake-up.
EveryCallReturns ==
  /\ \A t \in Callers : call[t].at # "idle" ~> call[t].at = "idle"
  /\ front # "free" ~> front = "free"

\* "BEGIN; INSERT 1; BEGIN; INSERT 2; COMMIT": "both rows are committed, as in PG"
\* (e2e_with_transaction.rs), and a committed transaction is not "lost across
\* crash".  AckedSurvive without the exemption of the nested BEGIN.
NestedBlocksSurvive ==
  mishaps \cap {"overtaken", "torn", "refused"} = {}
    => LET after == Reopened(db.data, Kept(synced, FALSE))
       IN  \A w \in Writes : told[w] = "acked" => after[w] > 0

\* "A crash any time during the worker's sequence is safe": no record is applied
\* on top of a snapshot that already has it.
AppliedOnce == \A w \in Writes : eng.base[w] <= 1
=============================================================================
