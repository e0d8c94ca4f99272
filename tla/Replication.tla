---------------------------- MODULE Replication -----------------------------
(***************************************************************************)
(* Replication of spg-server (replication.rs): a primary and one receiver, *)
(* which is a follower (MAGIC_V2: snapshot, then every byte of the WAL     *)
(* file) or a subscriber (MAGIC_SUB: the records of published tables).     *)
(*                                                                         *)
(* Positions are offsets in the primary's WAL file.  A record is two units *)
(* long, so that a frame can end in the middle of one: the tail sends what *)
(* a read of the file returned, whatever that cuts through.  Two halves    *)
(* that do not belong together are what length and CRC checks refuse.      *)
(*                                                                         *)
(* One connection writes on the primary; how several share its log is      *)
(* ServerWal's subject.  Status frames (lag metrics), protocol V1, cold    *)
(* segments, DROP SUBSCRIPTION and statements the receiver's engine        *)
(* refuses are left out.                                                   *)
(*                                                                         *)
(* Some schedules make the two sides part.  The model has them and notes   *)
(* each in `mishaps`, so that a property says what it depends on.          *)
(***************************************************************************)
EXTENDS WalRecords, FiniteSets

CONSTANTS Roles,       \* subset of {"follower", "subscriber"}
          FrameMax,    \* units one read of the WAL file returns at most
          NetMax,      \* bound: frames in flight
          Published,   \* writes to tables of the requested publications
          Volatile,    \* writes whose statement reads the clock or the PRNG
          MaxTx,       \* bound: transactions on the primary
          MaxMarks,    \* bound: durability markers
          MaxCkpts,    \* bound: CHECKPOINTs, on either side
          MaxCuts,     \* bound: lost connections
          MaxCrashes   \* bound: crashes of the receiver

ASSUME ReplicationAssumption ==
  /\ Roles \subseteq {"follower", "subscriber"}
  /\ {FrameMax, NetMax} \subseteq Nat \ {0}
  /\ Published \subseteq Writes /\ Volatile \subseteq Writes
  /\ {MaxTx, MaxMarks, MaxCkpts, MaxCuts, MaxCrashes} \subseteq Nat

VARIABLES role,    \* which kind of receiver this behaviour is about
          mem,     \* the primary's committed database
          prim,    \* the primary's one writing connection
          log,     \* the primary's WAL file, in records
          link,    \* "none", "up", or "cut": the sender is gone
          net,     \* frames on the way
          sent,    \* the sender's current_offset
          eng,     \* the receiver's engine
          peer,    \* follow_once / subscribe_once
          atom,    \* follower_applied_pos / last_received_pos
          disk,    \* the receiver's files
          count,   \* how much of each bound is used
          logged,  \* history: every record ever logged
          start,   \* history: {n}: the subscriber began after record n
          drift,   \* history: writes re-executed without the primary's readings
          mishaps  \* history: the schedules the code does not cope with

primVars == <<mem, prim, log, logged>>
linkVars == <<link, net, sent>>
peerVars == <<eng, peer, atom, disk, start, drift>>
vars == <<role, mishaps, primVars, linkVars, peerVars, count>>

Spend(what) == count' = [count EXCEPT ![what] = @ + 1]

Meets(kinds) == mishaps' = mishaps \cup kinds

When(b, kinds) == IF b THEN kinds ELSE {}

---------------------------------------------------------------------------
(* Units of the WAL file.                                                  *)

Unit(r, half) == [rec |-> r, half |-> half]

UnitsOf(lg) == [k \in 1..(2 * Len(lg)) |-> Unit(lg[(k + 1) \div 2], 2 - (k % 2))]

Size == 2 * Len(log)

\* The first record of a stream is there, and passes its length and CRC checks.
Whole(us) == Len(us) >= 2
Sound(us) == us[1].half = 1 /\ us[2].half = 2 /\ us[1].rec = us[2].rec

Rest(us, n) == SubSeq(us, n + 1, Len(us))

\* How many records can be read before the first damage.
Readable(us) ==
  CHOOSE n \in 0..(Len(us) \div 2) :
    /\ \A i \in 0..(n - 1) : Sound(Rest(us, 2 * i))
    /\ Whole(Rest(us, 2 * n)) => ~Sound(Rest(us, 2 * n))

RecordsIn(us) == [i \in 1..Readable(us) |-> us[2 * i].rec]

---------------------------------------------------------------------------
(* The primary.  The engine runs a statement before its records are        *)
(* appended, and does not keep the engine lock in between.                 *)

NoStmt == [open |-> FALSE, begun |-> FALSE, shadow |-> {}, recs |-> <<>>]

NewWrite == count.writes + 1

\* encode_statement_frames: the readings stand right before the statement.
Frames(w) ==
  (IF w \in Volatile THEN <<Record("INPUTS", 0, w)>> ELSE <<>>) \o <<Record("SQL", 0, w)>>

Idle == prim.recs = <<>>

Execute ==
  /\ Idle /\ ~prim.open /\ count.writes < MaxWrites
  /\ mem' = Plus(mem, {NewWrite})
  /\ prim' = [prim EXCEPT !.recs = Frames(NewWrite)]
  /\ Spend("writes")
  /\ UNCHANGED <<role, mishaps, log, logged, linkVars, peerVars>>

\* BEGIN reaches the log with the first statement after it.
Begin ==
  /\ Idle /\ ~prim.open /\ count.txs < MaxTx
  /\ prim' = [NoStmt EXCEPT !.open = TRUE]
  /\ Spend("txs")
  /\ UNCHANGED <<role, mishaps, mem, log, logged, linkVars, peerVars>>

Statement ==
  /\ Idle /\ prim.open /\ count.writes < MaxWrites
  /\ prim' = [prim EXCEPT !.begun = TRUE, !.shadow = @ \cup {NewWrite},
                !.recs = (IF prim.begun THEN <<>> ELSE <<Record("BEGIN", 0, 0)>>)
                         \o Frames(NewWrite)]
  /\ Spend("writes")
  /\ UNCHANGED <<role, mishaps, mem, log, logged, linkVars, peerVars>>

End(kind) ==
  /\ Idle /\ prim.open
  /\ mem' = IF kind = "COMMIT" THEN Plus(mem, prim.shadow) ELSE mem
  /\ prim' = [NoStmt EXCEPT !.recs = IF prim.begun THEN <<Record(kind, 0, 0)>> ELSE <<>>]
  /\ UNCHANGED <<role, mishaps, log, logged, linkVars, peerVars, count>>

Log ==
  /\ ~Idle
  /\ log' = log \o prim.recs /\ logged' = logged \o prim.recs
  /\ prim' = [prim EXCEPT !.recs = <<>>]
  /\ UNCHANGED <<role, mishaps, mem, linkVars, peerVars, count>>

\* append_durability_marker, when sessions commit asynchronously.
Mark ==
  /\ count.marks < MaxMarks /\ Spend("marks")
  /\ Meets(When(role = "follower", {"marker"}))
  /\ log' = Append(log, Record("MARK", 0, 0))
  /\ logged' = Append(logged, Record("MARK", 0, 0))
  /\ UNCHANGED <<role, mem, prim, linkVars, peerVars>>

\* perform_checkpoint empties the file; readers of it keep their offsets.
Unread == link = "none" /\ atom = 0 /\ disk.side = 0 /\ disk.wal = <<>>

Truncate ==
  /\ count.ckpts < MaxCkpts /\ Spend("ckpts")
  /\ Idle /\ ~prim.open /\ log # <<>>
  /\ Meets(When(~Unread, {"truncate"}))
  /\ log' = <<>>
  /\ UNCHANGED <<role, mem, prim, logged, linkVars, peerVars>>

---------------------------------------------------------------------------
(* The connection.                                                         *)

Down == [pc |-> "down", pos |-> 0, pend |-> <<>>, vol |-> 0]

Frame(kind) == [kind |-> kind, units |-> <<>>, db |-> {}, n |-> 0]
WalFrame(us) == [Frame("wal") EXCEPT !.units = us]

\* A lost connection loses any suffix of what is on the way.
Cut ==
  /\ link = "up" /\ count.cuts < MaxCuts /\ Spend("cuts")
  /\ link' = "cut"
  /\ \E n \in 0..Len(net) : net' = SubSeq(net, 1, n)
  /\ UNCHANGED <<role, mishaps, primVars, sent, peerVars>>

\* Readings are counted as applied before the statement they are for.
Forgets == When(role = "follower" /\ peer.vol # 0, {"volatile"})

\* The receiver meets the end of the stream and will reconnect.  What its
\* function kept on the stack is gone.
HangUp ==
  /\ link = "cut" /\ net = <<>> /\ peer.pc \in {"hello", "restore", "stream"}
  /\ link' = "none" /\ sent' = 0
  /\ peer' = Down
  /\ Meets(Forgets)
  /\ UNCHANGED <<role, primVars, net, eng, atom, disk, start, drift, count>>

---------------------------------------------------------------------------
(* A follower.                                                             *)

\* The position in memory, or the sidecar's after a restart.
Seeded == IF atom = 0 THEN disk.side ELSE atom

\* Without a position: the length of the local WAL, if there is a database.
StartOffset ==
  IF disk.db # {} THEN IF Seeded > 0 THEN Seeded ELSE Len(disk.wal) ELSE 0

\* What the snapshot shows and what the log position says agree.
Quiet == Idle /\ ~prim.begun

\* Mutant: the tail starts at the head of the file, not at the snapshot.
ConnectMutant ==
  /\ role = "follower" /\ peer.pc = "down" /\ link = "none"
  /\ Meets(When(StartOffset = 0 /\ ~Quiet, {"snapshot"})
             \cup When(StartOffset > 0 /\ Seeded = 0, {"fallback"}))
  /\ link' = "up" /\ atom' = Seeded
  /\ IF StartOffset = 0
     THEN /\ net' = <<[Frame("snapshot") EXCEPT !.db = {mem}], [Frame("position") EXCEPT !.n = Size]>>
          /\ sent' = 0
     ELSE net' = <<Frame("resume")>> /\ sent' = StartOffset
  /\ peer' = [Down EXCEPT !.pc = "hello", !.pos = StartOffset]
  /\ UNCHANGED <<role, primVars, eng, disk, start, drift, count>>

\* The handshake: capture_snapshot, or resume at the offset the follower names.
Connect ==
  /\ role = "follower" /\ peer.pc = "down" /\ link = "none"
  /\ Meets(When(StartOffset = 0 /\ ~Quiet, {"snapshot"})
             \cup When(StartOffset > 0 /\ Seeded = 0, {"fallback"}))
  /\ link' = "up" /\ atom' = Seeded
  /\ IF StartOffset = 0
     THEN /\ net' = <<[Frame("snapshot") EXCEPT !.db = {mem}], [Frame("position") EXCEPT !.n = Size]>>
          /\ sent' = Size
     ELSE net' = <<Frame("resume")>> /\ sent' = StartOffset
  /\ peer' = [Down EXCEPT !.pc = "hello", !.pos = StartOffset]
  /\ UNCHANGED <<role, primVars, eng, disk, start, drift, count>>

Arrives(pc, kind) == peer.pc = pc /\ net # <<>> /\ Head(net).kind = kind

\* applied_offset is stored in memory and in the sidecar.
StorePosition(p) ==
  /\ atom' = p
  /\ disk' = [disk EXCEPT !.side = p]

Resume ==
  /\ role = "follower" /\ Arrives("hello", "resume")
  /\ net' = Tail(net)
  /\ StorePosition(peer.pos)
  /\ peer' = [peer EXCEPT !.pc = "stream"]
  /\ UNCHANGED <<role, mishaps, primVars, link, sent, eng, start, drift, count>>

\* The snapshot file is written before the position that goes with it is read.
WriteSnapshot ==
  /\ role = "follower" /\ Arrives("hello", "snapshot")
  /\ net' = Tail(net)
  /\ disk' = [disk EXCEPT !.db = Head(net).db]
  /\ peer' = [peer EXCEPT !.pc = "restore"]
  /\ UNCHANGED <<role, mishaps, primVars, link, sent, eng, atom, start, drift, count>>

Restore ==
  /\ role = "follower" /\ Arrives("restore", "position")
  /\ net' = Tail(net)
  /\ atom' = Head(net).n
  /\ disk' = [disk EXCEPT !.wal = <<>>, !.side = Head(net).n]
  /\ \E d \in disk.db : eng' = Engine(d)
  /\ peer' = [peer EXCEPT !.pc = "stream", !.pos = Head(net).n]
  /\ drift' = {}
  /\ UNCHANGED <<role, mishaps, primVars, link, sent, start, count>>

\* Mutant: only full buffers are sent.
SendBytesMutant ==
  /\ role = "follower" /\ link = "up" /\ Len(net) < NetMax
  /\ sent + FrameMax <= Size
  /\ net' = Append(net, WalFrame(SubSeq(UnitsOf(log), sent + 1, sent + FrameMax)))
  /\ sent' = sent + FrameMax
  /\ UNCHANGED <<role, mishaps, primVars, link, peerVars, count>>

\* tail_wal_v2: one read of the file, one frame.
SendBytes ==
  /\ role = "follower" /\ link = "up" /\ Len(net) < NetMax
  /\ \E n \in 1..FrameMax :
       /\ sent + n <= Size
       /\ net' = Append(net, WalFrame(SubSeq(UnitsOf(log), sent + 1, sent + n)))
       /\ sent' = sent + n
  /\ UNCHANGED <<role, mishaps, primVars, link, peerVars, count>>

\* Mutant: what has been received counts as applied.
ReceiveBytesMutant ==
  /\ role = "follower" /\ Arrives("stream", "wal")
  /\ net' = Tail(net)
  /\ disk' = [disk EXCEPT !.wal = @ \o Head(net).units]
  /\ peer' = [peer EXCEPT !.pc = "drain", !.pend = @ \o Head(net).units]
  /\ atom' = peer.pos + Len(peer'.pend)
  /\ UNCHANGED <<role, mishaps, primVars, link, sent, eng, start, drift, count>>

\* A frame goes to the local WAL, fsynced, before any of it is applied.
ReceiveBytes ==
  /\ role = "follower" /\ Arrives("stream", "wal")
  /\ net' = Tail(net)
  /\ disk' = [disk EXCEPT !.wal = @ \o Head(net).units]
  /\ peer' = [peer EXCEPT !.pc = "drain", !.pend = @ \o Head(net).units]
  /\ UNCHANGED <<role, mishaps, primVars, link, sent, eng, atom, start, drift, count>>

\* The record types the two receivers' loops accept.
Accepted == {"SQL", "BEGIN", "COMMIT", "ROLLBACK", "INPUTS"}

\* Statements that read the clock get the readings kept from the last INPUTS.
Executed(r) ==
  drift' = IF r.kind = "SQL" /\ r.w \in Volatile /\ peer.vol # r.w THEN drift \cup {r.w} ELSE drift

\* One round of the drain loop.  apply_replicated runs under the engine lock,
\* which is free between records.  A record that fails its checks, or of a type
\* the loop does not know, ends follow_once, and the position of what this frame
\* had applied is not stored.
DrainRecord ==
  /\ peer.pc = "drain" /\ Whole(peer.pend)
  /\ LET r == peer.pend[1].rec
     IN  IF Sound(peer.pend) /\ r.kind \in Accepted
         THEN /\ eng' = ReplayRecord(eng, r)
              /\ Executed(r)
              /\ peer' = [peer EXCEPT !.pend = Rest(@, 2), !.pos = @ + 2,
                                      !.vol = IF r.kind = "INPUTS" THEN r.w ELSE 0]
              /\ UNCHANGED <<linkVars, mishaps>>
         ELSE /\ peer' = Down /\ link' = "none" /\ net' = <<>> /\ sent' = 0
              /\ Meets(Forgets)
              /\ UNCHANGED <<eng, drift>>
  /\ UNCHANGED <<role, primVars, atom, disk, start, count>>

\* The end of a frame's drain.
Drained ==
  /\ peer.pc = "drain" /\ ~Whole(peer.pend)
  /\ StorePosition(peer.pos)
  /\ peer' = [peer EXCEPT !.pc = "stream"]
  /\ UNCHANGED <<role, mishaps, primVars, linkVars, eng, start, drift, count>>

\* A restart finds what it needs: no record is half applied, half counted, half
\* received twice, or inside a transaction whose end is still to come.
Restartable ==
  /\ peer.pc # "drain" /\ ~eng.open
  /\ Len(disk.wal) < 2 * Readable(disk.wal) + 2

Blind(lg) ==
  {w \in Writes : w \in Volatile /\ \E i \in 1..Len(lg) :
     /\ lg[i] = Record("SQL", 0, w)
     /\ i = 1 \/ lg[i - 1] # Record("INPUTS", 0, w)}

\* The process dies and boots: snapshot file, then the local WAL, which is cut
\* where it stops making sense (replay_wal_into_engine).
CrashFollower ==
  /\ role = "follower" /\ count.crashes < MaxCrashes /\ Spend("crashes")
  /\ Meets(When(~Restartable, {"crash"}) \cup Forgets)
  /\ LET kept == RecordsIn(disk.wal)
         base == IF disk.db = {} THEN Nothing ELSE CHOOSE d \in disk.db : TRUE
     IN  /\ eng' = Engine(Recovered(base, kept))
         /\ disk' = [disk EXCEPT !.wal = UnitsOf(kept)]
         /\ drift' = Blind(kept)
  /\ peer' = Down /\ atom' = 0
  /\ link' = "none" /\ net' = <<>> /\ sent' = 0
  /\ UNCHANGED <<role, primVars, start>>

---------------------------------------------------------------------------
(* A subscriber.  It has no snapshot and no local log of what it applies:  *)
(* rows and position are in its engine, and reach the disk together.       *)

\* start_offset 0 asks for the current end of the log.
Subscribe ==
  /\ role = "subscriber" /\ peer.pc = "down" /\ link = "none"
  /\ LET from == IF atom = 0 THEN Size ELSE atom
     IN  /\ sent' = from
         /\ peer' = [Down EXCEPT !.pc = "stream", !.pos = from]
         /\ start' = IF start = {} THEN {Len(logged) - Len(log) + from \div 2} ELSE start
  /\ Meets(When(atom = 0 /\ start # {}, {"baseline"}))
  /\ link' = "up" /\ net' = <<>>
  /\ UNCHANGED <<role, primVars, eng, atom, disk, drift, count>>

\* Mutant: readings name no table, so they are filtered out.
ForwardedMutant(r) == r.kind = "SQL" /\ r.w \in Published

\* extract_owner_from_sql and accepts_owner; readings go to every subscriber.
Forwarded(r) == r.kind = "INPUTS" \/ (r.kind = "SQL" /\ r.w \in Published)

\* tail_wal_v2_filtered: a record per frame, and one frame for a run of skipped
\* records within a read.
SendRecord ==
  /\ role = "subscriber" /\ link = "up" /\ Len(net) < NetMax /\ sent < Size
  /\ LET i == sent \div 2 + 1
     IN  \/ /\ Forwarded(log[i])
            /\ net' = Append(net, WalFrame(SubSeq(UnitsOf(log), sent + 1, sent + 2)))
            /\ sent' = sent + 2
         \/ \E j \in i..Len(log) :
              /\ \A k \in i..j : ~Forwarded(log[k])
              /\ net' = Append(net, [Frame("skip") EXCEPT !.n = 2 * (j - i + 1)])
              /\ sent' = 2 * j
  /\ UNCHANGED <<role, mishaps, primVars, link, peerVars, count>>

\* Mutant: the record is counted twice.
AdvanceMutant(p) == atom' = p + 2

\* subscription_advance: never backwards.
Advance(p) == atom' = IF p > atom THEN p ELSE atom

\* Apply and advance under one engine lock; readings advance nothing.
ReceiveRecord ==
  /\ role = "subscriber" /\ Arrives("stream", "wal")
  /\ net' = Tail(net)
  /\ LET r == Head(net).units[1].rec
     IN  /\ eng' = ReplayRecord(eng, r)
         /\ Executed(r)
         /\ peer' = [peer EXCEPT !.pos = @ + 2, !.vol = IF r.kind = "INPUTS" THEN r.w ELSE 0]
         /\ IF r.kind = "INPUTS" THEN UNCHANGED atom ELSE Advance(peer.pos + 2)
  /\ UNCHANGED <<role, mishaps, primVars, link, sent, disk, start, count>>

ReceiveSkip ==
  /\ role = "subscriber" /\ Arrives("stream", "skip")
  /\ net' = Tail(net)
  /\ peer' = [peer EXCEPT !.pos = @ + Head(net).n]
  /\ Advance(peer.pos + Head(net).n)
  /\ UNCHANGED <<role, mishaps, primVars, link, sent, eng, disk, start, drift, count>>

\* CHECKPOINT on the subscriber: one snapshot of rows and position.
SaveSubscriber ==
  /\ role = "subscriber" /\ count.ckpts < MaxCkpts /\ Spend("ckpts")
  /\ disk' = [disk EXCEPT !.db = {eng.base}, !.side = atom]
  /\ UNCHANGED <<role, mishaps, primVars, linkVars, eng, peer, atom, start, drift>>

CrashSubscriber ==
  /\ role = "subscriber" /\ count.crashes < MaxCrashes /\ Spend("crashes")
  /\ \E d \in disk.db : eng' = Engine(d)
  /\ atom' = disk.side
  /\ peer' = Down /\ link' = "none" /\ net' = <<>> /\ sent' = 0
  /\ UNCHANGED <<role, mishaps, primVars, disk, start, drift>>

\* The tail finds nothing to read and sleeps.  It is a step only when all has
\* arrived, so that a receiver stuck before that is a deadlock.
Poll ==
  /\ link = "up" /\ net = <<>> /\ sent >= Size /\ peer.pc = "stream"
  /\ UNCHANGED vars

---------------------------------------------------------------------------

ReplInit ==
  /\ role \in Roles
  /\ mem = Nothing /\ prim = NoStmt /\ log = <<>> /\ logged = <<>>
  /\ link = "none" /\ net = <<>> /\ sent = 0
  /\ eng = Engine(Nothing) /\ peer = Down /\ atom = 0
  /\ disk = [db |-> IF role = "follower" THEN {} ELSE {Nothing}, wal |-> <<>>, side |-> 0]
  /\ start = {} /\ drift = {} /\ mishaps = {}
  /\ count = [writes |-> 0, txs |-> 0, marks |-> 0, ckpts |-> 0, cuts |-> 0, crashes |-> 0]

Client == Execute \/ Begin \/ Statement \/ End("COMMIT") \/ End("ROLLBACK")

Sender == SendBytes \/ SendRecord

Receiver ==
  \/ Connect \/ Resume \/ WriteSnapshot \/ Restore
  \/ ReceiveBytes \/ DrainRecord \/ Drained
  \/ Subscribe \/ ReceiveRecord \/ ReceiveSkip
  \/ HangUp

ReplNext ==
  \/ Client \/ Log \/ Mark \/ Truncate
  \/ Sender \/ Receiver
  \/ Poll \/ SaveSubscriber \/ Cut \/ CrashFollower \/ CrashSubscriber

\* Threads run: the primary finishes its append, the tail polls the file, the
\* receiver reads and reconnects.  Clients, faults and checkpoints owe nothing.
ReplSpec ==
  ReplInit /\ [][ReplNext]_vars /\ WF_vars(Log) /\ WF_vars(Sender) /\ WF_vars(Receiver)

---------------------------------------------------------------------------
(* Properties.                                                             *)

\* The receiver's state after the first n records the primary ever logged: all
\* of them for a follower; for a subscriber those of published tables since
\* it began, each by itself.
After(n) ==
  IF role = "follower" THEN Recovered(Nothing, SubSeq(logged, 1, n))
  ELSE [w \in Writes |->
          Cardinality({i \in 1..n : /\ \A s \in start : i > s
                                    /\ start # {}
                                    /\ Forwarded(logged[i])
                                    /\ logged[i].kind = "SQL" /\ logged[i].w = w})]

Met(kinds) == mishaps \cap kinds # {}

\* The types of the receiver and of the link; a follower's position is never
\* past what the primary has written.
ReplTypeOK ==
  /\ mem \in Databases /\ eng.base \in Databases
  /\ link \in {"none", "up", "cut"}
  /\ peer.pc \in {"down", "hello", "restore", "stream", "drain"}
  /\ ~Met({"truncate"}) => {sent, peer.pos, atom, disk.side} \subseteq 0..Size
  /\ Len(net) <= NetMax + 1 /\ Cardinality(disk.db) <= 1
  /\ peer.pc = "down" <=> link = "none"

\* Readers of the receiver see the primary's past, in order: no record is
\* skipped, applied twice or out of order, however often the connection is lost
\* in the middle of a frame or of a record.
Copy == INSTANCE PrefixCopy WITH
          feed <- [n \in 1..(Len(logged) + 1) |-> After(n - 1)],
          replica <- eng.base,
          durable <- (role = "follower"),
          broken <- Met({"truncate", "snapshot", "crash", "marker", "fallback", "baseline"})

ReplicaIsAPrefix == Copy!CopySpec

\* WAIT FOR WAL POSITION ("consistent-read barrier for follower-based
\* read-after-write"): once the applied position has reached the end of a
\* record, a read shows all that the log had committed by then.
BarrierHolds ==
  role = "follower" /\ ~Met({"truncate", "snapshot", "crash", "marker"}) =>
    \A n \in 1..Len(log) : 2 * n <= atom =>
      \A w \in Writes : eng.base[w] >= After(Len(logged) - Len(log) + n)[w]

\* A statement that drew from the clock or the PRNG is re-executed with the
\* primary's readings ("without it ... the two held different rows").
SameReadings == ~Met({"truncate", "crash", "marker", "volatile"}) => drift = {}

\* Once connections stop breaking and no transaction is left open on the primary,
\* the receiver ends up with all of the log.
CatchesUp ==
  <>[](Quiet /\ ~Met({"truncate", "snapshot", "crash", "fallback", "baseline", "marker"}))
    => <>[](eng.base = After(Len(logged)))

\* "... so the replica holds the primary's readings": without exception.
ReadingsKept == drift = {}
=============================================================================
