--------------------------- MODULE ServerWalProofs --------------------------
(***************************************************************************)
(* What is proved about the log of spg-server.  The first part is about    *)
(* replay alone: a well-bracketed log brings back a write exactly when the *)
(* log commits it.  The second types the server.  The third, for the load  *)
(* without Overlap, is the inductive invariant behind recovery: who owns a *)
(* write at each moment, where its records are, and what that says of the  *)
(* database in memory and of the snapshot.  The last is about memory alone, *)
(* whatever overlaps with what.                                            *)
(***************************************************************************)
EXTENDS ServerWal, WalRecordsProofs, SequenceTheorems

---------------------------------------------------------------------------
(* The invariant.                                                          *)

LogRecs == [kind : {"BEGIN", "SQL"} \cup Ends, tx : 0 .. MaxTx, w : 0 .. MaxWrites]

Conns == [pc : {"idle", "queued", "acked", "log", "sync"}, tx : 0 .. MaxTx,
          shadow : SUBSET Writes, good : SUBSET Writes, aborted : BOOLEAN,
          unlogged : BOOLEAN, w : 0 .. MaxWrites, rec : LogRecs]

Rounds == [stage : {"none", "drained", "applied", "written", "synced", "failed"},
           tasks : Seq(Sessions), pre : Databases]

Ckpts == [pc : {"idle", "snapshot", "installed"}, snap : Databases, anyTx : BOOLEAN]

Counts == [writes : 0 .. MaxWrites, txs : 0 .. MaxTx, errors : Nat, faults : Nat,
           ckpts : Nat, crashes : Nat]

Fates == {"nothing", "acked", "refused", "unsure", "undone"}

\* A line persist_wire_write is about to append, or has appended.
Pending(s) == conn[s].pc \in {"log", "sync"}

TypeInv ==
  /\ mem \in Databases /\ db \in Databases
  /\ log \in Seq(LogRecs) /\ synced \in 0 .. Len(log)
  /\ mutex \subseteq Sessions /\ mark \in 0 .. Len(log) /\ (mutex = {} => mark = 0)
  /\ conn \in [Sessions -> Conns]
  /\ queue \in Seq(Sessions) /\ leader \subseteq Sessions
  /\ round \in Rounds /\ ckpt \in Ckpts /\ count \in Counts
  /\ told \in [Writes -> Fates] /\ clean \in BOOLEAN

\* The line that waits belongs to what the connection is doing.
Lined(c) ==
  /\ c.tx = 0 => c.shadow = {}
  /\ c.pc = "sync" => c.tx = 0
  /\ c.pc \in {"log", "sync"} =>
       /\ c.rec.kind # "BEGIN"
       /\ c.tx # 0 => c.rec.kind = "SQL" /\ c.rec.tx = c.tx
       /\ c.tx = 0 /\ c.rec.kind = "SQL" => c.rec.tx = 0
       /\ c.rec.kind = "SQL" => c.rec.w \in Writes
       /\ c.rec.kind = "COMMIT" /\ c.rec.tx = 0 => c.good = {}

LineInv == \A s \in Sessions : Lined(conn[s])

\* The server is in one of three modes: one connection alone, writers of the
\* commit queue, or everybody at rest and perhaps a checkpoint.
Solo(s) == conn[s].tx # 0 \/ Pending(s)

Member(q) == {q[i] : i \in DOMAIN q}

Distinct(q) == \A i, j \in DOMAIN q : q[i] = q[j] => i = j

SoloInv ==
  /\ \A s \in Sessions : Solo(s) =>
       /\ ckpt.pc = "idle" /\ leader = {}
       /\ \A o \in Sessions \ {s} : AtRest(o)
  /\ ckpt.pc # "idle" => \A s \in Sessions : AtRest(s)

QueueInv ==
  /\ \A s, o \in leader : s = o
  /\ \A s \in leader : conn[s].pc \in {"queued", "acked"}
  /\ leader = {} => queue = <<>> /\ round.stage = "none"
  /\ \A s \in Sessions : conn[s].pc = "acked" => s \in leader
  /\ \A s \in Sessions : conn[s].pc \in {"queued", "acked"} => conn[s].tx = 0
  /\ \A s \in Sessions :
       conn[s].pc = "queued" <=> (s \in Member(queue) \/ s \in Member(round.tasks))
  /\ Distinct(queue) /\ Distinct(round.tasks)
  /\ Member(queue) \cap Member(round.tasks) = {}
  /\ round.stage = "none" => round.tasks = <<>>

\* The WAL mutex is held across a write and its fsync, and no longer.
MutexInv ==
  mutex # {} <=> (round.stage = "written" \/ \E s \in Sessions : conn[s].pc = "sync")

ModeInv == SoloInv /\ QueueInv /\ MutexInv

\* The log commits w with its first n records.
CommitsIn(lg, n, w) ==
  \E i \in 1 .. n :
    /\ lg[i].kind = "SQL" /\ lg[i].w = w
    /\ lg[i].tx = 0 \/ \E k \in 1 .. n : lg[k].kind = "COMMIT" /\ lg[k].tx = lg[i].tx

HasLine(lg, t, w) == \E i \in 1 .. Len(lg) : lg[i].kind = "SQL" /\ lg[i].tx = t /\ lg[i].w = w

HasWrite(lg, w) == \E i \in 1 .. Len(lg) : lg[i].kind = "SQL" /\ lg[i].w = w

HasEnd(lg, t) == \E i \in 1 .. Len(lg) : lg[i].kind \in Ends /\ lg[i].tx = t

\* No write has two lines, and a transaction has none after its end.
OneLineEach(lg) ==
  \A i, j \in 1 .. Len(lg) : lg[i].kind = "SQL" /\ lg[j].kind = "SQL" /\ lg[i].w = lg[j].w => i = j

EndsLast(lg) ==
  \A i, j \in 1 .. Len(lg) :
    i < j /\ lg[i].kind \in Ends /\ lg[i].tx # 0 => lg[j].tx # lg[i].tx

InGroup(s) == s \in Member(round.tasks)

\* A log, given how many writes and transactions there have been.
GoodLog(lg, cnt) ==
  /\ OneLineEach(lg) /\ EndsLast(lg)
  /\ \A i \in 1 .. Len(lg) :
       /\ lg[i].kind = "SQL" => lg[i].w \in 1 .. cnt.writes
       /\ lg[i].tx <= cnt.txs

\* The lines of an open transaction.
TxLog(c, lg, cnt) ==
  c.tx # 0 =>
    /\ c.tx <= cnt.txs /\ ~HasEnd(lg, c.tx)
    /\ \A w \in c.shadow : w <= cnt.writes
    /\ \A w \in Writes : HasLine(lg, c.tx, w) => w \in c.shadow
    /\ \A w \in c.good : HasLine(lg, c.tx, w)
    /\ c.pc \in {"log", "sync"} => c.rec.w \in c.shadow

\* The line that waits to be appended (log) or to be fsynced (sync).
LineLog(c, lg, cnt, mk) ==
  /\ c.pc \in {"log", "sync"} =>
       /\ c.rec.kind = "SQL" => c.rec.w <= cnt.writes
       /\ c.rec.tx <= cnt.txs
       /\ c.rec.kind = "COMMIT" => \A w \in c.good : HasLine(lg, c.rec.tx, w)
  /\ c.pc = "log" =>
       /\ c.rec.kind = "SQL" => ~HasWrite(lg, c.rec.w)
       /\ c.rec.kind \in Ends /\ c.rec.tx # 0 => ~HasEnd(lg, c.rec.tx)
  /\ c.pc = "sync" => Len(lg) = mk + 1 /\ lg[mk + 1] = c.rec

\* A write in the commit queue.
QueuedLog(s) ==
  conn[s].pc = "queued" =>
    /\ conn[s].w \in 1 .. count.writes
    /\ \A o \in Sessions : conn[o].pc = "queued" /\ conn[o].w = conn[s].w => o = s
    /\ ~(InGroup(s) /\ round.stage \in {"written", "synced"}) => ~HasWrite(log, conn[s].w)

GroupLog ==
  /\ round.stage = "written" =>
       /\ Len(log) = mark + Len(round.tasks)
       /\ \A i \in 1 .. Len(round.tasks) :
            log[mark + i] = Record("SQL", 0, conn[round.tasks[i]].w)
  /\ round.stage = "synced" =>
       \A s \in Member(round.tasks) : CommitsIn(log, synced, conn[s].w)

LogInv ==
  /\ GoodLog(log, count)
  /\ \A s \in Sessions :
       TxLog(conn[s], log, count) /\ LineLog(conn[s], log, count, mark) /\ QueuedLog(s)
  /\ GroupLog

\* What is on the disk whatever becomes of the append under way.
Safe == IF mutex # {} /\ mark < synced THEN mark ELSE synced

ToldOf(c, f, w) ==
  /\ w \in c.shadow => f \in {"nothing", "unsure"}
  /\ c.pc \in {"log", "sync"} /\ c.rec = Record("SQL", 0, w) => f = "nothing"
  /\ c.pc = "queued" /\ c.w = w => f = "nothing"

ToldInv == \A w \in Writes :
  /\ w > count.writes => told[w] = "nothing"
  /\ \A s \in Sessions : ToldOf(conn[s], told[w], w)

\* A write in memory, in the snapshot, in the log and in its client's eyes.
MemLog(w) ==
  /\ mem[w] \in {0, 1} /\ db[w] <= mem[w]
  /\ w > count.writes => mem[w] = 0
  /\ CommitsIn(log, Len(log), w) => mem[w] = 1
  /\ HasWrite(log, w) /\ ckpt.pc # "installed" => db[w] = 0
  /\ told[w] = "acked" => mem[w] = 1 /\ (db[w] = 1 \/ CommitsIn(log, Safe, w))
  /\ told[w] \in {"refused", "undone"} => mem[w] = 0

\* A write of a connection's transaction or of the line it is about to append.
MemOf(c, lg, m, d, w) ==
  /\ w \in c.shadow => m[w] = 0
  /\ c.pc \in {"log", "sync"} /\ c.rec = Record("SQL", 0, w) => m[w] = 1 /\ d[w] = 0
  /\ c.pc \in {"log", "sync"} /\ c.rec.kind = "COMMIT" /\ c.rec.tx # 0
       /\ HasLine(lg, c.rec.tx, w) => m[w] = 1

QueuedMem(s) ==
  conn[s].pc = "queued" =>
    /\ db[conn[s].w] = 0
    /\ mem[conn[s].w] = IF InGroup(s) /\ round.stage # "drained" THEN 1 ELSE 0

GroupMem ==
  round.stage \in {"applied", "written", "synced", "failed"} =>
    mem = Plus(round.pre, WritesOf(Member(round.tasks)))

CkptMem ==
  /\ ckpt.pc # "idle" => ckpt.snap = mem /\ ~ckpt.anyTx
  /\ ckpt.pc = "installed" => db = mem

MemInv ==
  /\ \A w \in Writes : MemLog(w) /\ \A s \in Sessions : MemOf(conn[s], log, mem, db, w)
  /\ \A s \in Sessions : QueuedMem(s)
  /\ GroupMem /\ CkptMem

RecoveryInv ==
  TypeInv /\ LineInv /\ ModeInv /\ LogInv /\ ToldInv /\ (clean => MemInv)

---------------------------------------------------------------------------
(* Replay of a well-bracketed log.                                         *)

\* A log that replays to what it commits.
Trusted(lg) == lg \in Seq(LogRecs) /\ WellBracketed(lg) /\ OneLineEach(lg) /\ EndsLast(lg)

OpenAt(lg, n) == \E j \in 1 .. n : Inside(lg, j, n + 1)

\* No transaction ended between record i and record n.
StillOpen(lg, i, n) == \A k \in (i + 1) .. n : lg[k].kind \notin Ends

HeldAt(lg, n) ==
  {w \in 0 .. MaxWrites : \E i \in 1 .. n :
     lg[i].kind = "SQL" /\ lg[i].w = w /\ lg[i].tx # 0 /\ StillOpen(lg, i, n)}

\* The engine after n records of the log.
StateAt(d, lg, n, st) ==
  /\ \A w \in Writes : st.base[w] = d[w] + (IF CommitsIn(lg, n, w) THEN 1 ELSE 0)
  /\ st.open <=> OpenAt(lg, n)
  /\ st.open => st.shadow = HeldAt(lg, n)

\* A statement of a transaction after which nothing ended is inside that
\* transaction's BEGIN.
LEMMA HeldIsInside ==
  ASSUME NEW lg, Trusted(lg), NEW n \in 0 .. Len(lg), NEW i \in 1 .. n,
         lg[i].tx # 0, lg[i].kind = "SQL", StillOpen(lg, i, n)
  PROVE  \E j \in 1 .. (i - 1) : Inside(lg, j, n + 1) /\ lg[j].tx = lg[i].tx
<1>1. i \in 1 .. Len(lg) /\ Len(lg) \in Nat
  BY DEF Trusted
<1>2. PICK j \in 1 .. (i - 1) : Inside(lg, j, i)
  BY <1>1 DEF Trusted, WellBracketed
<1>3. lg[j].tx = lg[i].tx
  BY <1>1, <1>2 DEF Trusted, WellBracketed
<1>4. Inside(lg, j, n + 1)
  <2>1. ASSUME NEW k \in (j + 1) .. ((n + 1) - 1) PROVE lg[k].kind \notin Ends
    <3>1. CASE k < i
      BY <1>2, <3>1 DEF Inside
    <3>2. CASE k = i
      BY <3>2 DEF Ends
    <3>3. CASE k > i
      BY <1>1, <3>3 DEF StillOpen
    <3> QED BY <1>1, <3>1, <3>2, <3>3
  <2> QED BY <1>2, <2>1 DEF Inside
<1> QED BY <1>3, <1>4

\* A statement whose transaction has a COMMIT further on has no other end in
\* between.
LEMMA OpenUntilCommit ==
  ASSUME NEW lg, Trusted(lg), NEW n \in 1 .. Len(lg), NEW i \in 1 .. (n - 1),
         lg[i].tx # 0, lg[i].kind = "SQL", lg[n].tx = lg[i].tx
  PROVE  StillOpen(lg, i, n - 1)
<1> DEFINE T == {k \in (i + 1) .. (n - 1) : lg[k].kind \in Ends}
<1>0. Len(lg) \in Nat /\ i \in 1 .. Len(lg)
  BY DEF Trusted
<1>1. SUFFICES ASSUME T # {} PROVE FALSE
  BY DEF StillOpen
<1>2. PICK m \in T : \A k \in T : m <= k
  <2>1. T \in SUBSET Nat
    OBVIOUS
  <2> HIDE DEF T
  <2> QED BY <1>1, <2>1, LeastNatural
<1>3. m \in 1 .. Len(lg) /\ i < m /\ m < n /\ lg[m].kind \in Ends
  BY <1>0, <1>2
<1>4. StillOpen(lg, i, m - 1)
  BY <1>0, <1>2, <1>3 DEF StillOpen
<1>5. PICK j \in 1 .. (i - 1) : Inside(lg, j, (m - 1) + 1) /\ lg[j].tx = lg[i].tx
  <2>1. m - 1 \in 0 .. Len(lg) /\ i \in 1 .. (m - 1)
    BY <1>0, <1>3
  <2> QED BY <1>4, <2>1, HeldIsInside
<1>6. lg[m].tx = lg[i].tx
  <2>1. (m - 1) + 1 = m /\ j \in 1 .. (m - 1)
    BY <1>0, <1>3
  <2>2. Inside(lg, j, m)
    BY <1>5, <2>1
  <2> QED BY <1>3, <1>5, <2>1, <2>2 DEF Trusted, WellBracketed
<1> QED BY <1>0, <1>3, <1>6 DEF Trusted, EndsLast

\* Whether a transaction is open after one more record.
LEMMA OpenNext ==
  ASSUME NEW lg, Trusted(lg), NEW n \in 0 .. (Len(lg) - 1)
  PROVE  /\ lg[n + 1].kind = "BEGIN" => OpenAt(lg, n + 1)
         /\ lg[n + 1].kind = "SQL" => (OpenAt(lg, n + 1) <=> OpenAt(lg, n))
         /\ lg[n + 1].kind \in Ends => OpenAt(lg, n) /\ ~OpenAt(lg, n + 1)
         /\ OpenAt(lg, n) => \E j \in 1 .. n : Inside(lg, j, n + 1) /\ lg[n + 1].tx = lg[j].tx
         /\ OpenAt(lg, n) => lg[n + 1].tx # 0
         /\ lg[n + 1].kind = "SQL" /\ ~OpenAt(lg, n) => lg[n + 1].tx = 0
<1>0. Len(lg) \in Nat /\ n + 1 \in 1 .. Len(lg) /\ n \in Nat /\ (n + 1) - 1 = n /\ (n + 2) - 1 = n + 1 /\ (n + 1) + 1 = n + 2
  BY DEF Trusted
<1>1. lg[n + 1].kind = "BEGIN" => OpenAt(lg, n + 1)
  BY <1>0 DEF OpenAt, Inside
<1>2. lg[n + 1].kind \notin Ends /\ OpenAt(lg, n) => OpenAt(lg, n + 1)
  BY <1>0 DEF OpenAt, Inside
<1>3. lg[n + 1].kind # "BEGIN" /\ OpenAt(lg, n + 1) => OpenAt(lg, n)
  BY <1>0 DEF OpenAt, Inside
<1>4. lg[n + 1].kind \in Ends => ~OpenAt(lg, n + 1)
  <2> SUFFICES ASSUME lg[n + 1].kind \in Ends, OpenAt(lg, n + 1) PROVE FALSE
    OBVIOUS
  <2>1. PICK j \in 1 .. (n + 1) : Inside(lg, j, n + 2)
    BY <1>0 DEF OpenAt
  <2>2. j # n + 1
    BY <2>1 DEF Inside, Ends
  <2>3. n + 1 \in (j + 1) .. ((n + 2) - 1)
    BY <1>0, <2>1, <2>2
  <2> QED BY <2>1, <2>3 DEF Inside
<1>5. OpenAt(lg, n) => \E j \in 1 .. n : Inside(lg, j, n + 1) /\ lg[n + 1].tx = lg[j].tx
  BY <1>0 DEF OpenAt, Trusted, WellBracketed
<1>6. OpenAt(lg, n) => lg[n + 1].tx # 0
  <2> SUFFICES ASSUME OpenAt(lg, n), lg[n + 1].tx = 0 PROVE FALSE
    OBVIOUS
  <2>1. PICK j \in 1 .. n : Inside(lg, j, n + 1) /\ lg[n + 1].tx = lg[j].tx
    BY <1>5
  <2>2. j \in 1 .. Len(lg) /\ lg[j].kind = "BEGIN" /\ lg[j].tx = 0
    BY <1>0, <2>1 DEF Inside
  <2> QED BY <2>2 DEF Trusted, WellBracketed
<1>7. lg[n + 1].tx # 0 /\ lg[n + 1].kind # "BEGIN" => OpenAt(lg, n)
  BY <1>0 DEF Trusted, WellBracketed, OpenAt
<1>8. lg[n + 1].kind # "SQL" => lg[n + 1].tx # 0
  BY <1>0 DEF Trusted, WellBracketed
<1> QED BY <1>1, <1>2, <1>3, <1>4, <1>5, <1>6, <1>7, <1>8 DEF Ends

\* One more record: what it commits.
LEMMA CommitsNext ==
  ASSUME NEW lg, Trusted(lg), NEW n \in 0 .. (Len(lg) - 1), NEW w \in Writes
  PROVE  /\ lg[n + 1].kind \in {"BEGIN", "ROLLBACK"} => (CommitsIn(lg, n + 1, w) <=> CommitsIn(lg, n, w))
         /\ lg[n + 1].kind = "SQL" /\ lg[n + 1].tx # 0 => (CommitsIn(lg, n + 1, w) <=> CommitsIn(lg, n, w))
         /\ lg[n + 1].kind = "SQL" /\ lg[n + 1].tx = 0 /\ lg[n + 1].w # w =>
              (CommitsIn(lg, n + 1, w) <=> CommitsIn(lg, n, w))
         /\ lg[n + 1].kind = "SQL" /\ lg[n + 1].tx = 0 /\ lg[n + 1].w = w =>
              CommitsIn(lg, n + 1, w) /\ ~CommitsIn(lg, n, w)
         /\ lg[n + 1].kind = "COMMIT" /\ w \notin HeldAt(lg, n) =>
              (CommitsIn(lg, n + 1, w) <=> CommitsIn(lg, n, w))
         /\ lg[n + 1].kind = "COMMIT" /\ w \in HeldAt(lg, n) =>
              CommitsIn(lg, n + 1, w) /\ ~CommitsIn(lg, n, w)
<1>0. Len(lg) \in Nat /\ n + 1 \in 1 .. Len(lg) /\ n \in Nat /\ (n + 1) - 1 = n /\ n \in 0 .. Len(lg)
      /\ \A i \in 1 .. n : i \in 1 .. (n + 1) /\ i \in 1 .. Len(lg) /\ i # n + 1
  BY DEF Trusted
<1>1. CommitsIn(lg, n, w) => CommitsIn(lg, n + 1, w)
  BY <1>0 DEF CommitsIn
<1>2. lg[n + 1].kind \in {"BEGIN", "ROLLBACK"} /\ CommitsIn(lg, n + 1, w) => CommitsIn(lg, n, w)
  BY <1>0 DEF CommitsIn
<1>3. ASSUME lg[n + 1].kind = "SQL", lg[n + 1].tx # 0, CommitsIn(lg, n + 1, w) PROVE CommitsIn(lg, n, w)
  <2>1. PICK i \in 1 .. (n + 1) :
          /\ lg[i].kind = "SQL" /\ lg[i].w = w
          /\ lg[i].tx = 0 \/ \E k \in 1 .. (n + 1) : lg[k].kind = "COMMIT" /\ lg[k].tx = lg[i].tx
    BY <1>3 DEF CommitsIn
  <2>2. i # n + 1
    <3> SUFFICES ASSUME i = n + 1 PROVE FALSE
      OBVIOUS
    <3>1. PICK k \in 1 .. (n + 1) : lg[k].kind = "COMMIT" /\ lg[k].tx = lg[n + 1].tx
      BY <1>3, <2>1
    <3>2. k \in 1 .. Len(lg) /\ k < n + 1
      BY <1>0, <1>3, <3>1
    <3> QED BY <1>0, <1>3, <3>1, <3>2 DEF Trusted, EndsLast, Ends
  <2> QED BY <1>0, <1>3, <2>1, <2>2 DEF CommitsIn
<1>4. ASSUME lg[n + 1].kind = "SQL", lg[n + 1].w # w, CommitsIn(lg, n + 1, w) PROVE CommitsIn(lg, n, w)
  BY <1>0, <1>4 DEF CommitsIn
<1>5. lg[n + 1].kind = "SQL" /\ lg[n + 1].tx = 0 /\ lg[n + 1].w = w => CommitsIn(lg, n + 1, w)
  BY <1>0 DEF CommitsIn
<1>6. lg[n + 1].kind = "SQL" /\ lg[n + 1].w = w => ~CommitsIn(lg, n, w)
  BY <1>0 DEF CommitsIn, Trusted, OneLineEach
<1>7. ASSUME lg[n + 1].kind = "COMMIT", w \notin HeldAt(lg, n), CommitsIn(lg, n + 1, w)
      PROVE  CommitsIn(lg, n, w)
  <2>1. PICK i \in 1 .. (n + 1) :
          /\ lg[i].kind = "SQL" /\ lg[i].w = w
          /\ lg[i].tx = 0 \/ \E k \in 1 .. (n + 1) : lg[k].kind = "COMMIT" /\ lg[k].tx = lg[i].tx
    BY <1>7 DEF CommitsIn
  <2>2. i \in 1 .. n
    BY <1>0, <1>7, <2>1
  <2>3. CASE lg[i].tx = 0
    BY <2>1, <2>2, <2>3 DEF CommitsIn
  <2>4. CASE lg[i].tx # 0
    <3>1. PICK k \in 1 .. (n + 1) : lg[k].kind = "COMMIT" /\ lg[k].tx = lg[i].tx
      BY <2>1, <2>4
    <3>2. CASE k \in 1 .. n
      BY <2>1, <2>2, <3>1, <3>2 DEF CommitsIn
    <3>3. CASE k = n + 1
      <4>1. StillOpen(lg, i, (n + 1) - 1)
        <5>1. i \in 1 .. ((n + 1) - 1)
          BY <1>0, <2>2
        <5> QED BY <1>0, <2>1, <2>4, <3>1, <3>3, <5>1, OpenUntilCommit
      <4>2. StillOpen(lg, i, n)
        BY <1>0, <4>1
      <4>3. w \in HeldAt(lg, n)
        BY <2>1, <2>2, <2>4, <4>2 DEF HeldAt, Writes
      <4> QED BY <1>7, <4>3
    <3> QED BY <1>0, <3>2, <3>3
  <2> QED BY <2>3, <2>4
<1>8. ASSUME lg[n + 1].kind = "COMMIT", w \in HeldAt(lg, n)
      PROVE  CommitsIn(lg, n + 1, w) /\ ~CommitsIn(lg, n, w)
  <2>1. PICK i \in 1 .. n : lg[i].kind = "SQL" /\ lg[i].w = w /\ lg[i].tx # 0 /\ StillOpen(lg, i, n)
    BY <1>8 DEF HeldAt
  <2>2. PICK j \in 1 .. (i - 1) : Inside(lg, j, n + 1) /\ lg[j].tx = lg[i].tx
    BY <1>0, <2>1, HeldIsInside
  <2>3. lg[n + 1].tx = lg[i].tx
    <3>1. j \in 1 .. ((n + 1) - 1)
      BY <1>0, <2>1
    <3> QED BY <1>0, <2>2, <3>1 DEF Trusted, WellBracketed
  <2>4. CommitsIn(lg, n + 1, w)
    BY <1>0, <1>8, <2>1, <2>3 DEF CommitsIn
  <2>5. ASSUME CommitsIn(lg, n, w) PROVE FALSE
    <3>1. PICK m \in 1 .. n :
            /\ lg[m].kind = "SQL" /\ lg[m].w = w
            /\ lg[m].tx = 0 \/ \E k \in 1 .. n : lg[k].kind = "COMMIT" /\ lg[k].tx = lg[m].tx
      BY <2>5 DEF CommitsIn
    <3>2. m = i
      BY <1>0, <2>1, <3>1 DEF Trusted, OneLineEach
    <3>3. PICK k \in 1 .. n : lg[k].kind = "COMMIT" /\ lg[k].tx = lg[i].tx
      BY <2>1, <3>1, <3>2
    <3>4. k > i => FALSE
      BY <1>0, <2>1, <3>3 DEF StillOpen, Ends
    <3>5. k < i => FALSE
      BY <1>0, <2>1, <3>3 DEF Trusted, EndsLast, Ends
    <3>6. k # i
      BY <2>1, <3>3
    <3> QED BY <1>0, <3>3, <3>4, <3>5, <3>6
  <2> QED BY <2>4, <2>5
<1> QED BY <1>1, <1>2, <1>3, <1>4, <1>5, <1>6, <1>7, <1>8

\* One more record: what an open transaction holds.
LEMMA HeldNext ==
  ASSUME NEW lg, Trusted(lg), NEW n \in 0 .. (Len(lg) - 1)
  PROVE  /\ lg[n + 1].kind = "BEGIN" => HeldAt(lg, n + 1) = HeldAt(lg, n)
         /\ lg[n + 1].kind = "SQL" /\ lg[n + 1].tx # 0 =>
              HeldAt(lg, n + 1) = HeldAt(lg, n) \cup {lg[n + 1].w}
         /\ ~OpenAt(lg, n) => HeldAt(lg, n) = {}
<1>0. Len(lg) \in Nat /\ n + 1 \in 1 .. Len(lg) /\ n \in Nat /\ n \in 0 .. Len(lg)
      /\ lg[n + 1].w \in 0 .. MaxWrites
      /\ (\A i \in 1 .. n : i \in 1 .. (n + 1))
      /\ (\A i \in 1 .. (n + 1) : i = n + 1 \/ i \in 1 .. n)
  <2>1. Len(lg) \in Nat /\ lg \in Seq(LogRecs)
    BY DEF Trusted
  <2>2. n \in Nat /\ n + 1 \in 1 .. Len(lg) /\ n \in 0 .. Len(lg)
    BY <2>1
  <2>3. lg[n + 1] \in LogRecs
    BY <2>1, <2>2
  <2>4. lg[n + 1].w \in 0 .. MaxWrites
    BY <2>3 DEF LogRecs
  <2>5. (\A i \in 1 .. n : i \in 1 .. (n + 1)) /\ (\A i \in 1 .. (n + 1) : i = n + 1 \/ i \in 1 .. n)
    BY <2>2
  <2> QED BY <2>1, <2>2, <2>4, <2>5
<1>1. ASSUME NEW i \in 1 .. n, lg[n + 1].kind \notin Ends
      PROVE  StillOpen(lg, i, n + 1) <=> StillOpen(lg, i, n)
  <2>1. \A k \in (i + 1) .. (n + 1) : k \in (i + 1) .. n \/ k = n + 1
    BY <1>0
  <2>2. \A k \in (i + 1) .. n : k \in (i + 1) .. (n + 1)
    BY <1>0
  <2> QED BY <1>1, <2>1, <2>2 DEF StillOpen
<1>2. StillOpen(lg, n + 1, n + 1)
  BY <1>0 DEF StillOpen
<1>3. lg[n + 1].kind = "BEGIN" => HeldAt(lg, n + 1) = HeldAt(lg, n)
  <2> SUFFICES ASSUME lg[n + 1].kind = "BEGIN", NEW w \in 0 .. MaxWrites
               PROVE  w \in HeldAt(lg, n + 1) <=> w \in HeldAt(lg, n)
    BY DEF HeldAt
  <2>1. lg[n + 1].kind \notin Ends
    BY DEF Ends
  <2> QED BY <1>0, <1>1, <2>1 DEF HeldAt
<1>4. lg[n + 1].kind = "SQL" /\ lg[n + 1].tx # 0 =>
        HeldAt(lg, n + 1) = HeldAt(lg, n) \cup {lg[n + 1].w}
  <2> SUFFICES ASSUME lg[n + 1].kind = "SQL", lg[n + 1].tx # 0, NEW w \in 0 .. MaxWrites
               PROVE  w \in HeldAt(lg, n + 1) <=> (w \in HeldAt(lg, n) \/ w = lg[n + 1].w)
    BY <1>0 DEF HeldAt
  <2>1. lg[n + 1].kind \notin Ends
    BY DEF Ends
  <2> QED BY <1>0, <1>1, <1>2, <2>1 DEF HeldAt
<1>5. ASSUME ~OpenAt(lg, n), NEW w \in HeldAt(lg, n) PROVE FALSE
  <2>1. PICK i \in 1 .. n : lg[i].kind = "SQL" /\ lg[i].w = w /\ lg[i].tx # 0 /\ StillOpen(lg, i, n)
    BY <1>5 DEF HeldAt
  <2>2. PICK j \in 1 .. (i - 1) : Inside(lg, j, n + 1)
    BY <1>0, <2>1, HeldIsInside
  <2> QED BY <1>0, <1>5, <2>1, <2>2 DEF OpenAt
<1> QED BY <1>3, <1>4, <1>5

\* The replay loop keeps StateAt.
LEMMA ReplayKeepsState ==
  ASSUME NEW d \in Databases, NEW lg, Trusted(lg), NEW n \in 0 .. (Len(lg) - 1),
         NEW st \in Engines, StateAt(d, lg, n, st)
  PROVE  StateAt(d, lg, n + 1, ReplayRecord(st, lg[n + 1]))
<1> DEFINE r == lg[n + 1]
<1>0. /\ r \in LogRecs /\ r.kind \in {"BEGIN", "SQL"} \cup Ends
      /\ st = [base |-> st.base, open |-> st.open, shadow |-> st.shadow]
      /\ st.base \in Databases /\ st.open \in BOOLEAN
  <2>1. Len(lg) \in Nat /\ lg \in Seq(LogRecs)
    BY DEF Trusted
  <2>2. n + 1 \in 1 .. Len(lg)
    BY <2>1
  <2>3. r \in LogRecs
    BY <2>1, <2>2
  <2> QED BY <2>3 DEF LogRecs, Engines
<1>1. /\ \A w \in Writes : st.base[w] = d[w] + (IF CommitsIn(lg, n, w) THEN 1 ELSE 0)
      /\ st.open <=> OpenAt(lg, n)
      /\ st.open => st.shadow = HeldAt(lg, n)
  BY DEF StateAt
<1>2. \A w \in Writes : d[w] \in Nat
  BY DEF Databases
<1>3. CASE r.kind = "BEGIN"
  <2>1. OpenAt(lg, n + 1) /\ HeldAt(lg, n + 1) = HeldAt(lg, n) /\ (~OpenAt(lg, n) => HeldAt(lg, n) = {})
    BY <1>3, OpenNext, HeldNext
  <2>2. \A w \in Writes : CommitsIn(lg, n + 1, w) <=> CommitsIn(lg, n, w)
    BY <1>3, CommitsNext
  <2>3. ReplayRecord(st, r) = IF st.open THEN st ELSE [st EXCEPT !.open = TRUE, !.shadow = {}]
    BY <1>3 DEF ReplayRecord
  <2>4. /\ ReplayRecord(st, r).base = st.base /\ ReplayRecord(st, r).open
        /\ ReplayRecord(st, r).shadow = HeldAt(lg, n)
    BY <1>0, <1>1, <2>1, <2>3
  <2> HIDE DEF r
  <2> QED BY <1>1, <2>1, <2>2, <2>4 DEF StateAt, r
<1>4. CASE r.kind = "SQL" /\ OpenAt(lg, n)
  <2>1. OpenAt(lg, n + 1) /\ r.tx # 0
    BY <1>4, OpenNext
  <2>2. HeldAt(lg, n + 1) = HeldAt(lg, n) \cup {r.w}
    BY <1>4, <2>1, HeldNext
  <2>3. \A w \in Writes : CommitsIn(lg, n + 1, w) <=> CommitsIn(lg, n, w)
    BY <1>4, <2>1, CommitsNext
  <2>4. ReplayRecord(st, r) = [st EXCEPT !.shadow = @ \cup {r.w}]
    BY <1>1, <1>4 DEF ReplayRecord
  <2>5. /\ ReplayRecord(st, r).base = st.base /\ ReplayRecord(st, r).open
        /\ ReplayRecord(st, r).shadow = HeldAt(lg, n) \cup {r.w}
    BY <1>0, <1>1, <1>4, <2>4
  <2> HIDE DEF r
  <2> QED BY <1>1, <2>1, <2>2, <2>3, <2>5 DEF StateAt, r
<1>5. CASE r.kind = "SQL" /\ ~OpenAt(lg, n)
  <2>1. ~OpenAt(lg, n + 1) /\ r.tx = 0
    BY <1>5, OpenNext
  <2>2. \A w \in Writes : r.w # w => (CommitsIn(lg, n + 1, w) <=> CommitsIn(lg, n, w))
    BY <1>5, <2>1, CommitsNext
  <2>3. \A w \in Writes : r.w = w => CommitsIn(lg, n + 1, w) /\ ~CommitsIn(lg, n, w)
    BY <1>5, <2>1, CommitsNext
  <2>4. ReplayRecord(st, r) = [st EXCEPT !.base = Plus(@, {r.w})]
    BY <1>1, <1>5 DEF ReplayRecord
  <2>5. ReplayRecord(st, r).base = Plus(st.base, {r.w}) /\ ~ReplayRecord(st, r).open
    BY <1>0, <1>1, <1>5, <2>4
  <2>6. \A w \in Writes : Plus(st.base, {r.w})[w] = IF w = r.w THEN st.base[w] + 1 ELSE st.base[w]
    BY <1>0, PlusType
  <2> HIDE DEF r
  <2>7. ASSUME NEW w \in Writes
        PROVE  Plus(st.base, {r.w})[w] = d[w] + (IF CommitsIn(lg, n + 1, w) THEN 1 ELSE 0)
    <3>1. CASE w = r.w
      <4>1. Plus(st.base, {r.w})[w] = st.base[w] + 1 /\ CommitsIn(lg, n + 1, w) /\ ~CommitsIn(lg, n, w)
        BY <2>3, <2>6, <3>1
      <4>2. st.base[w] = d[w] + (IF CommitsIn(lg, n, w) THEN 1 ELSE 0) /\ d[w] \in Nat
        BY <1>1, <1>2
      <4> QED BY <4>1, <4>2
    <3>2. CASE w # r.w
      <4>1. Plus(st.base, {r.w})[w] = st.base[w] /\ (CommitsIn(lg, n + 1, w) <=> CommitsIn(lg, n, w))
        BY <2>2, <2>6, <3>2
      <4>2. st.base[w] = d[w] + (IF CommitsIn(lg, n, w) THEN 1 ELSE 0)
        BY <1>1
      <4> QED BY <4>1, <4>2
    <3> QED BY <3>1, <3>2
  <2> QED BY <2>1, <2>5, <2>7 DEF StateAt, r
<1>6. CASE r.kind = "COMMIT"
  <2>1. OpenAt(lg, n) /\ ~OpenAt(lg, n + 1)
    BY <1>6, OpenNext DEF Ends
  <2>2. \A w \in Writes : w \notin HeldAt(lg, n) => (CommitsIn(lg, n + 1, w) <=> CommitsIn(lg, n, w))
    BY <1>6, CommitsNext
  <2>3. \A w \in Writes : w \in HeldAt(lg, n) => CommitsIn(lg, n + 1, w) /\ ~CommitsIn(lg, n, w)
    BY <1>6, CommitsNext
  <2>4. ReplayRecord(st, r) = [st EXCEPT !.open = FALSE, !.base = Plus(@, st.shadow)]
    BY <1>1, <1>6, <2>1 DEF ReplayRecord
  <2>5. ReplayRecord(st, r).base = Plus(st.base, HeldAt(lg, n)) /\ ~ReplayRecord(st, r).open
    BY <1>0, <1>1, <2>1, <2>4
  <2>6. \A w \in Writes : Plus(st.base, HeldAt(lg, n))[w] = IF w \in HeldAt(lg, n) THEN st.base[w] + 1 ELSE st.base[w]
    BY <1>0, PlusType
  <2> HIDE DEF r
  <2>7. \A w \in Writes : Plus(st.base, HeldAt(lg, n))[w] = d[w] + (IF CommitsIn(lg, n + 1, w) THEN 1 ELSE 0)
    BY <1>1, <1>2, <2>2, <2>3, <2>6
  <2> QED BY <2>1, <2>5, <2>7 DEF StateAt, r
<1>7. CASE r.kind = "ROLLBACK"
  <2>1. ~OpenAt(lg, n + 1)
    BY <1>7, OpenNext DEF Ends
  <2>2. \A w \in Writes : CommitsIn(lg, n + 1, w) <=> CommitsIn(lg, n, w)
    BY <1>7, CommitsNext
  <2>3. ReplayRecord(st, r) = [st EXCEPT !.open = FALSE]
    BY <1>7 DEF ReplayRecord
  <2>4. ReplayRecord(st, r).base = st.base /\ ~ReplayRecord(st, r).open
    BY <1>0, <2>3
  <2> HIDE DEF r
  <2> QED BY <1>1, <2>1, <2>2, <2>4 DEF StateAt, r
<1> QED BY <1>0, <1>3, <1>4, <1>5, <1>6, <1>7 DEF Ends

\* A boot brings back a write exactly when the log commits it.
LEMMA RecoveredIs ==
  ASSUME NEW d \in Databases, NEW lg, Trusted(lg), NEW w \in Writes
  PROVE  Recovered(d, lg)[w] = d[w] + (IF CommitsIn(lg, Len(lg), w) THEN 1 ELSE 0)
<1>1. Engine(d) \in Engines /\ Engine(d).base = d /\ ~Engine(d).open
  BY DEF Engine, Engines
<1>2. lg \in Seq(LinesT) /\ Len(lg) \in Nat
  <2>1. lg \in Seq(LogRecs)
    BY DEF Trusted
  <2>2. LogRecs \subseteq LinesT
    BY ServerWalAssumption DEF LogRecs, LinesT, Ends
  <2> QED BY <2>1, <2>2
<1>3. PICK f \in [0 .. Len(lg) -> Engines] :
        /\ f[0] = Engine(d)
        /\ \A i \in 1 .. Len(lg) : f[i] = ReplayRecord(f[i - 1], lg[i])
        /\ Replayed(Engine(d), lg) = f[Len(lg)]
  BY <1>1, <1>2, ReplayLoop
<1> DEFINE S == {i \in 0 .. Len(lg) : StateAt(d, lg, i, f[i])}
<1>4. 0 \in S
  <2>1. StateAt(d, lg, 0, Engine(d))
    <3>1. \A x \in Writes : ~CommitsIn(lg, 0, x) /\ d[x] \in Nat
      BY DEF CommitsIn, Databases
    <3>2. ~OpenAt(lg, 0)
      BY DEF OpenAt
    <3> QED BY <1>1, <3>1, <3>2 DEF StateAt
  <2> QED BY <1>2, <1>3, <2>1
<1>5. ASSUME NEW i \in 0 .. (Len(lg) - 1), i \in S PROVE i + 1 \in S
  <2>1. i + 1 \in 1 .. Len(lg) /\ (i + 1) - 1 = i /\ i + 1 \in 0 .. Len(lg) /\ i \in 0 .. Len(lg)
    BY <1>2
  <2>2. f[i + 1] = ReplayRecord(f[i], lg[i + 1]) /\ f[i] \in Engines
    BY <1>3, <2>1
  <2>3. StateAt(d, lg, i, f[i])
    BY <1>5
  <2>4. StateAt(d, lg, i + 1, ReplayRecord(f[i], lg[i + 1]))
    BY <2>2, <2>3, ReplayKeepsState
  <2> QED BY <2>1, <2>2, <2>4
<1>6. 0 .. Len(lg) \subseteq S
  <2> HIDE DEF S
  <2> QED BY <1>2, <1>4, <1>5, UpTo
<1>7. StateAt(d, lg, Len(lg), f[Len(lg)])
  BY <1>2, <1>6
<1> QED BY <1>3, <1>7 DEF StateAt, Recovered

\* What a crash leaves of a log is as good as the log.
LEMMA PrefixTrusted ==
  ASSUME NEW lg \in Seq(LogRecs), OneLineEach(lg), EndsLast(lg), NEW n \in 0 .. Len(lg)
  PROVE  LET p == SubSeq(lg, 1, n)
         IN  /\ p \in Seq(LogRecs) /\ Len(p) = n /\ OneLineEach(p) /\ EndsLast(p)
             /\ \A i \in 1 .. n : p[i] = lg[i]
             /\ WellBracketed(lg) => WellBracketed(p)
             /\ \A w : CommitsIn(p, n, w) <=> CommitsIn(lg, n, w)
<1> DEFINE p == SubSeq(lg, 1, n)
<1>1. p \in Seq(LogRecs) /\ Len(p) = n /\ (\A i \in 1 .. n : p[i] = lg[i]) /\ Len(lg) \in Nat
  OBVIOUS
<1>2. \A i \in 1 .. n : i \in 1 .. Len(lg)
  BY <1>1
<1> HIDE DEF p
<1>3. OneLineEach(p) /\ EndsLast(p)
  BY <1>1, <1>2 DEF OneLineEach, EndsLast
<1>4. \A w : CommitsIn(p, n, w) <=> CommitsIn(lg, n, w)
  BY <1>1 DEF CommitsIn
<1>5. ASSUME NEW i \in 1 .. n, NEW j \in 1 .. (i - 1) PROVE Inside(p, j, i) <=> Inside(lg, j, i)
  <2>1. j \in 1 .. n /\ \A k \in (j + 1) .. (i - 1) : k \in 1 .. n
    BY <1>1
  <2> QED BY <1>1, <2>1 DEF Inside
<1>6. WellBracketed(lg) => WellBracketed(p)
  <2> SUFFICES ASSUME WellBracketed(lg), NEW i \in 1 .. n
               PROVE  /\ p[i].tx = 0 => p[i].kind = "SQL"
                      /\ \A j \in 1 .. (i - 1) : Inside(p, j, i) => p[j].tx = p[i].tx
                      /\ p[i].tx # 0 /\ p[i].kind # "BEGIN" => \E j \in 1 .. (i - 1) : Inside(p, j, i)
    BY <1>1 DEF WellBracketed
  <2>1. p[i] = lg[i] /\ i \in 1 .. Len(lg) /\ \A j \in 1 .. (i - 1) : p[j] = lg[j]
    BY <1>1, <1>2
  <2> QED BY <1>5, <2>1 DEF WellBracketed
<1> QED BY <1>1, <1>3, <1>4, <1>6 DEF p

---------------------------------------------------------------------------
(* Types.                                                                  *)

\* A connection whose state is replaced.
LEMMA ConnUpdate ==
  ASSUME NEW s \in Sessions, NEW c \in Conns, conn \in [Sessions -> Conns], LineInv,
         Lined(c), conn' = [conn EXCEPT ![s] = c]
  PROVE  conn' \in [Sessions -> Conns] /\ LineInv'
<1>1. conn' \in [Sessions -> Conns] /\ \A o \in Sessions : conn'[o] = IF o = s THEN c ELSE conn[o]
  OBVIOUS
<1>2. \A o \in Sessions : Lined(conn'[o])
  BY <1>1 DEF LineInv
<1> QED BY <1>1, <1>2 DEF LineInv

\* The answers to a group touch neither transaction nor line.
LEMMA AckedType ==
  ASSUME conn \in [Sessions -> Conns], LineInv, NEW ss, conn' = Acked(ss)
  PROVE  conn' \in [Sessions -> Conns] /\ LineInv'
<1>1. ASSUME NEW o \in Sessions PROVE conn'[o] \in Conns /\ Lined(conn'[o])
  <2>1. conn[o] \in Conns /\ Lined(conn[o])
    BY DEF LineInv
  <2>2. CASE o \notin ss
    BY <2>1, <2>2 DEF Acked
  <2>3. CASE o \in ss
    <3> DEFINE p == IF o \in leader THEN "acked" ELSE "idle"
               c == [conn[o] EXCEPT !.w = 0, !.pc = p]
    <3>0. p \in {"acked", "idle"} /\ 0 \in 0 .. MaxWrites
      BY WalRecordsAssumption
    <3>1. conn'[o] = c
      BY <2>3 DEF Acked
    <3> HIDE DEF p
    <3>2. c \in Conns
      BY <2>1, <3>0 DEF Conns
    <3>3. /\ c.tx = conn[o].tx /\ c.shadow = conn[o].shadow
          /\ c.pc \in {"acked", "idle"}
      BY <2>1, <3>0 DEF Conns
    <3> HIDE DEF c
    <3> QED BY <2>1, <3>1, <3>2, <3>3 DEF Lined
  <2> QED BY <2>2, <2>3
<1>2. conn' = [o \in Sessions |-> conn'[o]]
  BY DEF Acked
<1> QED BY <1>1, <1>2 DEF LineInv

\* Told changes only what is told.
LEMMA ToldType ==
  ASSUME told \in [Writes -> Fates], NEW ws, NEW f \in Fates
  PROVE  Told(ws, f) \in [Writes -> Fates]
BY DEF Told

\* The initial values have their types.
LEMMA FreshType == Fresh \in Conns /\ Lined(Fresh) /\ NoRound \in Rounds /\ NoCkpt \in Ckpts /\ Nothing \in Databases
<1>1. Record("SQL", 0, 0) \in LogRecs
  BY WalRecordsAssumption, ServerWalAssumption DEF Record, LogRecs
<1>2. Fresh \in Conns /\ Lined(Fresh)
  BY <1>1, WalRecordsAssumption, ServerWalAssumption DEF Fresh, Conns, Lined
<1>3. Nothing \in Databases
  BY DEF Nothing, Databases
<1> QED BY <1>2, <1>3 DEF NoRound, NoCkpt, Rounds, Ckpts

\* An answer leaves the connection with its transaction, or as new.
LEMMA AnswerType ==
  ASSUME TypeInv, LineInv, NEW s \in Sessions, Pending(s), NEW ok \in BOOLEAN, NEW u \in BOOLEAN,
         Answer(s, ok, u)
  PROVE  conn' \in [Sessions -> Conns] /\ LineInv' /\ told' \in [Writes -> Fates]
<1>1. conn[s] \in Conns /\ Lined(conn[s]) /\ conn \in [Sessions -> Conns] /\ told \in [Writes -> Fates]
  BY DEF TypeInv, LineInv
<1> DEFINE c == conn[s]
           d == IF c.tx = 0 THEN [Fresh EXCEPT !.unlogged = u]
                ELSE [c EXCEPT !.pc = "idle", !.unlogged = u,
                               !.good = IF ok THEN @ \cup {c.rec.w} ELSE @]
<1>2. conn' = [conn EXCEPT ![s] = d]
  BY DEF Answer
<1>3. d \in Conns /\ Lined(d)
  <2>1. CASE c.tx = 0
    <3>1. d = [Fresh EXCEPT !.unlogged = u]
      BY <2>1
    <3> QED BY <3>1, FreshType DEF Conns, Lined, Fresh
  <2>2. CASE c.tx # 0
    <3>1. c.rec.w \in Writes /\ c.good \subseteq Writes
      BY <1>1, <2>2 DEF Lined, Pending, Conns
    <3>2. d \in Conns
      BY <1>1, <2>2, <3>1 DEF Conns
    <3>3. d.pc = "idle" /\ d.tx = c.tx
      BY <1>1, <2>2 DEF Conns
    <3> HIDE DEF d
    <3> QED BY <1>1, <2>2, <3>2, <3>3 DEF Lined
  <2> QED BY <2>1, <2>2
<1>4. told' \in [Writes -> Fates]
  BY <1>1 DEF Answer, Told, Fates
<1> HIDE DEF c, d
<1> QED BY <1>1, <1>2, <1>3, <1>4, ConnUpdate

\* The loop of Survivors.
LEMMA SurvivorsLoop ==
  ASSUME NEW q \in Seq(Sessions), NEW failing
  PROVE  \E f \in [0 .. Len(q) -> Seq(Sessions)] :
           /\ f[0] = <<>>
           /\ \A i \in 1 .. Len(q) : f[i] = IF q[i] \in failing THEN f[i - 1] ELSE Append(f[i - 1], q[i])
           /\ Survivors(q, failing) = f[Len(q)]
<1> DEFINE n == Len(q)
           none == <<>>
           Pass(x, i) == IF q[i] \in failing THEN x ELSE Append(x, q[i])
           step == [xi \in Seq(Sessions) \X (1 .. n) |-> Pass(xi[1], xi[2])]
           Eq(g) == g = [i \in 0 .. n |->
                           IF i = 0 THEN none
                           ELSE IF q[i] \in failing THEN g[i - 1] ELSE Append(g[i - 1], q[i])]
           upto == CHOOSE g : Eq(g)
<1>1. n \in Nat /\ none \in Seq(Sessions)
  OBVIOUS
<1>2. ASSUME NEW x \in Seq(Sessions), NEW i \in 1 .. n
      PROVE  Pass(x, i) \in Seq(Sessions) /\ step[<<x, i>>] = Pass(x, i)
  <2>1. q[i] \in Sessions
    OBVIOUS
  <2> QED BY <2>1
<1> HIDE DEF n, step, none
<1>3. IsStep(step, n, Seq(Sessions))
  BY <1>2 DEF IsStep
<1>4. PICK f : IsLoop(f, n, Seq(Sessions), none, step)
  BY <1>1, <1>3, LoopExists
<1>5. \A i \in 1 .. n : i - 1 \in 0 .. n /\ f[i - 1] \in Seq(Sessions) /\ i # 0 /\ i \in 0 .. n
  BY <1>1, <1>4 DEF IsLoop
<1>6. f[0] = none /\ \A i \in 1 .. n : f[i] = Pass(f[i - 1], i)
  <2> HIDE DEF Pass
  <2> QED BY <1>1, <1>2, <1>4, <1>5 DEF IsLoop
<1>7. Eq(f)
  <2>1. \A i \in 0 .. n : f[i] = IF i = 0 THEN none ELSE IF q[i] \in failing THEN f[i - 1] ELSE Append(f[i - 1], q[i])
    BY <1>1, <1>6
  <2>2. f = [i \in 0 .. n |-> f[i]]
    BY <1>4 DEF IsLoop
  <2> QED BY <2>1, <2>2
<1>8. Eq(upto)
  <2> HIDE DEF Eq
  <2>1. \E g : Eq(g)
    BY <1>7
  <2> QED BY <2>1, Zenon
<1>9. Survivors(q, failing) = upto[n]
  BY Zenon DEF Survivors, n, none
<1> HIDE DEF upto
<1>10. upto[0] = none /\ \A i \in 1 .. n : upto[i] = Pass(upto[i - 1], i)
  <2>1. \A i \in 0 .. n : upto[i] = IF i = 0 THEN none ELSE Pass(upto[i - 1], i)
    BY <1>8
  <2> HIDE DEF Pass
  <2>2. upto[0] = none
    BY <1>1, <2>1
  <2>3. \A i \in 1 .. n : i # 0 /\ i \in 0 .. n
    BY <1>1
  <2> QED BY <2>1, <2>2, <2>3
<1> HIDE DEF Pass
<1>11. 0 .. n \subseteq {i \in 0 .. n : upto[i] \in Seq(Sessions)}
  <2> DEFINE S == {i \in 0 .. n : upto[i] \in Seq(Sessions)}
  <2>1. 0 \in S
    BY <1>1, <1>10
  <2>2. ASSUME NEW i \in 0 .. (n - 1), i \in S PROVE i + 1 \in S
    <3>1. i + 1 \in 1 .. n /\ i + 1 \in 0 .. n /\ (i + 1) - 1 = i
      BY <1>1, <2>2
    <3>2. upto[i + 1] = Pass(upto[i], i + 1)
      BY <1>10, <3>1
    <3> QED BY <1>2, <2>2, <3>1, <3>2
  <2> HIDE DEF S
  <2> QED BY <1>1, <2>1, <2>2, UpTo DEF S
<1>12. upto \in [0 .. n -> Seq(Sessions)]
  BY <1>8, <1>11
<1> QED BY <1>9, <1>10, <1>12 DEF n, Pass, none

\* The survivors are the tasks that did not fail, each once.
LEMMA SurvivorsAre ==
  ASSUME NEW q \in Seq(Sessions), NEW failing
  PROVE  /\ Survivors(q, failing) \in Seq(Sessions)
         /\ Member(Survivors(q, failing)) = Member(q) \ failing
         /\ Distinct(q) => Distinct(Survivors(q, failing))
<1>1. PICK f \in [0 .. Len(q) -> Seq(Sessions)] :
        /\ f[0] = <<>>
        /\ \A i \in 1 .. Len(q) : f[i] = IF q[i] \in failing THEN f[i - 1] ELSE Append(f[i - 1], q[i])
        /\ Survivors(q, failing) = f[Len(q)]
  BY SurvivorsLoop
<1> DEFINE Seen(i) == {q[j] : j \in 1 .. i}
           S == {i \in 0 .. Len(q) : /\ Member(f[i]) = Seen(i) \ failing
                                     /\ Distinct(q) => Distinct(f[i])}
<1>2. Len(q) \in Nat /\ DOMAIN q = 1 .. Len(q) /\ Seen(Len(q)) = Member(q) /\ Seen(0) = {}
  BY DEF Member
<1>3. 0 \in S
  BY <1>1, <1>2 DEF Member, Distinct
<1>4. ASSUME NEW i \in 0 .. (Len(q) - 1), i \in S PROVE i + 1 \in S
  <2>1. i + 1 \in 1 .. Len(q) /\ (i + 1) - 1 = i /\ i + 1 \in 0 .. Len(q) /\ i \in 0 .. Len(q)
    BY <1>2
  <2>2. f[i + 1] = IF q[i + 1] \in failing THEN f[i] ELSE Append(f[i], q[i + 1])
    BY <1>1, <2>1
  <2>3. f[i] \in Seq(Sessions) /\ Member(f[i]) = Seen(i) \ failing /\ (Distinct(q) => Distinct(f[i]))
    BY <1>1, <1>4, <2>1
  <2>4. Seen(i + 1) = Seen(i) \cup {q[i + 1]}
    <3>1. 1 .. (i + 1) = (1 .. i) \cup {i + 1}
      BY <1>2
    <3> QED BY <3>1
  <2>5. Distinct(q) => q[i + 1] \notin Seen(i)
    <3> SUFFICES ASSUME Distinct(q), NEW j \in 1 .. i, q[j] = q[i + 1] PROVE FALSE
      OBVIOUS
    <3>1. j \in DOMAIN q /\ i + 1 \in DOMAIN q /\ j # i + 1
      BY <1>2, <2>1
    <3> QED BY <3>1 DEF Distinct
  <2>6. ASSUME q[i + 1] \notin failing
        PROVE  /\ Member(Append(f[i], q[i + 1])) = Member(f[i]) \cup {q[i + 1]}
               /\ Distinct(q) => Distinct(Append(f[i], q[i + 1]))
    <3> DEFINE x == f[i]
               e == q[i + 1]
    <3>1. x \in Seq(Sessions) /\ Len(x) \in Nat
      BY <2>3
    <3>2. /\ DOMAIN Append(x, e) = (1 .. Len(x)) \cup {Len(x) + 1} /\ DOMAIN x = 1 .. Len(x)
          /\ Append(x, e)[Len(x) + 1] = e /\ \A k \in 1 .. Len(x) : Append(x, e)[k] = x[k] /\ k # Len(x) + 1
      BY <3>1
    <3>3. Distinct(q) => e \notin Member(x)
      BY <2>3, <2>5
    <3> HIDE DEF x, e
    <3>4. Member(Append(x, e)) = Member(x) \cup {e}
      BY <3>2 DEF Member
    <3>5. Distinct(x) /\ e \notin Member(x) => Distinct(Append(x, e))
      BY <3>2 DEF Distinct, Member
    <3> QED BY <2>3, <3>3, <3>4, <3>5 DEF x, e
  <2> HIDE DEF Seen
  <2>7. /\ Member(f[i + 1]) = Seen(i + 1) \ failing
        /\ Distinct(q) => Distinct(f[i + 1])
    <3>1. CASE q[i + 1] \in failing
      BY <2>2, <2>3, <2>4, <3>1
    <3>2. CASE q[i + 1] \notin failing
      BY <2>2, <2>3, <2>4, <2>6, <3>2
    <3> QED BY <3>1, <3>2
  <2> QED BY <2>1, <2>7
<1>5. Len(q) \in S
  <2> HIDE DEF S
  <2>1. 0 .. Len(q) \subseteq S
    BY <1>2, <1>3, <1>4, UpTo
  <2> QED BY <1>2, <2>1
<1>6. f[Len(q)] \in Seq(Sessions)
  BY <1>1, <1>2
<1> HIDE DEF Seen
<1> QED BY <1>1, <1>2, <1>5, <1>6

\* Lines and counters stay within their types.
LEMMA LineType ==
  ASSUME NEW k \in {"BEGIN", "SQL"} \cup Ends, NEW t \in 0 .. MaxTx, NEW w \in 0 .. MaxWrites
  PROVE  Record(k, t, w) \in LogRecs /\ Record(k, t, w).kind = k /\ Record(k, t, w).tx = t /\ Record(k, t, w).w = w
BY DEF Record, LogRecs

\* Counters count.
LEMMA CountType ==
  ASSUME count \in Counts
  PROVE  /\ count.writes \in 0 .. MaxWrites /\ count.txs \in 0 .. MaxTx
         /\ count.writes < MaxWrites => /\ NewWrite \in Writes /\ NewWrite \in 0 .. MaxWrites
                                       /\ [count EXCEPT !.writes = NewWrite] \in Counts
         /\ count.txs < MaxTx => [count EXCEPT !.txs = @ + 1] \in Counts /\ count.txs + 1 \in 1 .. MaxTx
         /\ [count EXCEPT !.errors = @ + 1] \in Counts
         /\ [count EXCEPT !.faults = @ + 1] \in Counts
         /\ [count EXCEPT !.ckpts = @ + 1] \in Counts
         /\ [count EXCEPT !.crashes = @ + 1] \in Counts
<1>1. count.writes \in 0 .. MaxWrites /\ count.txs \in 0 .. MaxTx /\ count.errors \in Nat
      /\ count.faults \in Nat /\ count.ckpts \in Nat /\ count.crashes \in Nat
  BY DEF Counts
<1>2. MaxWrites \in Nat /\ MaxTx \in Nat
  BY WalRecordsAssumption, ServerWalAssumption
<1>3. count.writes < MaxWrites => NewWrite \in Writes /\ NewWrite \in 0 .. MaxWrites
  BY <1>1, <1>2 DEF NewWrite, Writes
<1>4. count.txs < MaxTx => count.txs + 1 \in 1 .. MaxTx /\ count.txs + 1 \in 0 .. MaxTx
  BY <1>1, <1>2
<1>5. count.errors + 1 \in Nat /\ count.faults + 1 \in Nat /\ count.ckpts + 1 \in Nat /\ count.crashes + 1 \in Nat
  BY <1>1
<1> QED BY <1>1, <1>3, <1>4, <1>5 DEF Counts

\* The end of a transaction.
LEMMA EndTxType ==
  ASSUME TypeInv, LineInv, NEW s \in Sessions, InTx(s), NEW line \in LogRecs, NEW good \in SUBSET Writes,
         line.kind \in Ends, line.kind = "COMMIT" /\ line.tx = 0 => good = {},
         EndTx(s, line, good)
  PROVE  conn' \in [Sessions -> Conns] /\ LineInv'
<1> DEFINE c == IF conn[s].unlogged THEN Fresh ELSE [Fresh EXCEPT !.pc = "log", !.good = good, !.rec = line]
<1>1. conn' = [conn EXCEPT ![s] = c] /\ conn \in [Sessions -> Conns]
  BY DEF EndTx, TypeInv
<1>2. c \in Conns
  BY FreshType DEF Conns
<1>3. Lined(c)
  <2>1. CASE conn[s].unlogged
    BY <2>1, FreshType
  <2>2. CASE ~conn[s].unlogged
    <3>1. c.tx = 0 /\ c.shadow = {} /\ c.pc = "log" /\ c.good = good /\ c.rec = line
      BY <2>2 DEF Fresh
    <3> HIDE DEF c
    <3> QED BY <3>1 DEF Lined, Ends
  <2> QED BY <2>1, <2>2
<1> HIDE DEF c
<1> QED BY <1>1, <1>2, <1>3, ConnUpdate

\* Types: what the commit queue does.
LEMMA QueueTypes ==
  ASSUME TypeInv, LineInv, NEW s \in Sessions,
         Enqueue(s) \/ Lead(s) \/ AuditFails(s)
  PROVE  TypeInv' /\ LineInv'
<1>0. /\ mem \in Databases /\ db \in Databases
      /\ log \in Seq(LogRecs) /\ synced \in 0 .. Len(log)
      /\ mutex \subseteq Sessions /\ mark \in 0 .. Len(log) /\ (mutex = {} => mark = 0)
      /\ conn \in [Sessions -> Conns]
      /\ queue \in Seq(Sessions) /\ leader \subseteq Sessions
      /\ round \in Rounds /\ ckpt \in Ckpts /\ count \in Counts
      /\ told \in [Writes -> Fates] /\ clean \in BOOLEAN
  BY DEF TypeInv
<1>00. conn[s] \in Conns /\ Lined(conn[s])
  BY <1>0 DEF LineInv
<1>1. CASE Enqueue(s)
  <2> DEFINE c == [conn[s] EXCEPT !.pc = "queued", !.w = NewWrite]
  <2>1. NewWrite \in 0 .. MaxWrites /\ count' \in Counts
    BY <1>0, <1>1, CountType DEF Enqueue
  <2>2. c \in Conns
    BY <1>00, <2>1 DEF Conns
  <2>3. c.tx = conn[s].tx /\ c.shadow = conn[s].shadow /\ c.pc = "queued"
    BY <1>00 DEF Conns
  <2>4. conn' = [conn EXCEPT ![s] = c]
    BY <1>0, <1>1 DEF Enqueue
  <2> HIDE DEF c
  <2>5. Lined(c)
    BY <1>00, <2>3 DEF Lined
  <2>6. conn' \in [Sessions -> Conns] /\ LineInv'
    BY <1>0, <2>2, <2>4, <2>5, ConnUpdate
  <2>7. queue' \in Seq(Sessions) /\ leader' \subseteq Sessions
    BY <1>0, <1>1 DEF Enqueue
  <2> QED BY <1>0, <1>1, <2>1, <2>6, <2>7 DEF Enqueue, TypeInv, logVars
<1>2. CASE Drain(s)
  <2>1. round' \in Rounds /\ queue' \in Seq(Sessions)
    <3> DEFINE n == IF Len(queue) < GroupMax THEN Len(queue) ELSE GroupMax
    <3>1. n \in 0 .. Len(queue)
      BY <1>0, ServerWalAssumption
    <3> HIDE DEF n
    <3>2. SubSeq(queue, 1, n) \in Seq(Sessions) /\ SubSeq(queue, n + 1, Len(queue)) \in Seq(Sessions)
      BY <1>0, <3>1
    <3>3. round' = [NoRound EXCEPT !.stage = "drained", !.tasks = SubSeq(queue, 1, n)]
          /\ queue' = SubSeq(queue, n + 1, Len(queue))
      BY <1>2 DEF Drain, n
    <3> QED BY <3>2, <3>3, FreshType DEF NoRound, Rounds
  <2> QED BY <1>0, <1>2, <2>1 DEF Drain, TypeInv, LineInv, logVars
<1>3. CASE DropBaton(s)
  <2> DEFINE c == [conn[s] EXCEPT !.pc = IF @ = "acked" THEN "idle" ELSE @]
  <2>1. c \in Conns
    BY <1>00 DEF Conns
  <2>2. c.tx = conn[s].tx /\ c.shadow = conn[s].shadow /\ (c = conn[s] \/ c.pc = "idle")
    BY <1>00 DEF Conns
  <2>3. conn' = [conn EXCEPT ![s] = c]
    BY <1>0, <1>3 DEF DropBaton
  <2> HIDE DEF c
  <2>4. Lined(c)
    BY <1>00, <2>2 DEF Lined
  <2>5. conn' \in [Sessions -> Conns] /\ LineInv'
    BY <1>0, <2>1, <2>3, <2>4, ConnUpdate
  <2> QED BY <1>0, <1>3, <2>5 DEF DropBaton, TypeInv, logVars
<1>4. CASE Apply(s)
  <2>1. PICK failing \in SUBSET Tasks :
          /\ mem' = Plus(mem, WritesOf(Tasks \ failing))
          /\ told' = Told(WritesOf(failing), "refused")
          /\ conn' = Acked(failing)
          /\ round' = IF Survivors(round.tasks, failing) = <<>> THEN NoRound
                      ELSE [stage |-> "applied", tasks |-> Survivors(round.tasks, failing), pre |-> mem]
    BY <1>4 DEF Apply
  <2>2. mem' \in Databases
    BY <1>0, <2>1, PlusType
  <2>3. told' \in [Writes -> Fates]
    BY <1>0, <2>1, ToldType DEF Fates
  <2>4. conn' \in [Sessions -> Conns] /\ LineInv'
    BY <1>0, <2>1, AckedType
  <2>5. round' \in Rounds
    <3>1. round.tasks \in Seq(Sessions)
      BY <1>0 DEF Rounds
    <3>2. Survivors(round.tasks, failing) \in Seq(Sessions)
      BY <3>1, SurvivorsAre
    <3> QED BY <1>0, <2>1, <3>2, FreshType DEF Rounds
  <2> QED BY <1>0, <1>4, <2>2, <2>3, <2>4, <2>5 DEF Apply, TypeInv, logVars
<1>5. CASE GroupWrite(s)
  <2> DEFINE ls == [i \in DOMAIN round.tasks |-> Record("SQL", 0, conn[round.tasks[i]].w)]
  <2>1. ls \in Seq(LogRecs)
    <3>1. round.tasks \in Seq(Sessions)
      BY <1>0 DEF Rounds
    <3>2. ASSUME NEW i \in 1 .. Len(round.tasks) PROVE Record("SQL", 0, conn[round.tasks[i]].w) \in LogRecs
      <4>1. conn[round.tasks[i]] \in Conns
        BY <1>0, <3>1
      <4>2. conn[round.tasks[i]].w \in 0 .. MaxWrites
        BY <4>1 DEF Conns
      <4> QED BY <4>2, LineType, ServerWalAssumption
    <3>3. DOMAIN round.tasks = 1 .. Len(round.tasks) /\ Len(round.tasks) \in Nat
      BY <3>1
    <3> QED BY <3>2, <3>3
  <2> HIDE DEF ls
  <2>2. log' = log \o ls
    BY <1>5 DEF GroupWrite, ls
  <2>3. log' \in Seq(LogRecs) /\ Len(log') >= Len(log) /\ Len(log') \in Nat
    BY <1>0, <2>1, <2>2
  <2>4. synced' \in 0 .. Len(log') /\ mark' \in 0 .. Len(log') /\ mutex' \subseteq Sessions /\ mutex' # {}
    BY <1>0, <1>5, <2>3 DEF GroupWrite
  <2>5. round' \in Rounds
    BY <1>0, <1>5 DEF GroupWrite, Rounds
  <2> QED BY <1>0, <1>5, <2>3, <2>4, <2>5 DEF GroupWrite, TypeInv, LineInv
<1>6. CASE GroupSync(s)
  <2>1. log' \in Seq(LogRecs) /\ synced' \in 0 .. Len(log') /\ count' \in Counts
    <3>1. CASE SyncOk /\ UNCHANGED count
      BY <1>0, <3>1 DEF SyncOk
    <3>2. CASE Fault /\ CutBack
      <4>1. log' = SubSeq(log, 1, mark) /\ log' \in Seq(LogRecs) /\ Len(log') = mark
        BY <1>0, <3>2 DEF CutBack
      <4>2. synced' \in 0 .. Len(log')
        BY <1>0, <3>2, <4>1 DEF CutBack
      <4>3. count' \in Counts
        BY <1>0, <3>2, CountType DEF Fault
      <4> QED BY <4>1, <4>2, <4>3
    <3> QED BY <1>6, <3>1, <3>2 DEF GroupSync
  <2>2. round' \in Rounds
    BY <1>0, <1>6 DEF GroupSync, Rounds
  <2> QED BY <1>0, <1>6, <2>1, <2>2 DEF GroupSync, TypeInv, LineInv
<1>7. CASE Restore(s) \/ AckGroup(s)
  <2>1. conn' \in [Sessions -> Conns] /\ LineInv'
    BY <1>0, <1>7, AckedType DEF Restore, AckGroup
  <2>2. mem' \in Databases
    BY <1>0, <1>7 DEF Restore, AckGroup, Rounds
  <2>3. told' \in [Writes -> Fates]
    BY <1>0, <1>7, ToldType DEF Restore, AckGroup, Fates
  <2> QED BY <1>0, <1>7, <2>1, <2>2, <2>3, FreshType DEF Restore, AckGroup, TypeInv, logVars
<1>8. CASE AuditFails(s)
  <2>1. round' \in Rounds
    BY <1>0, <1>8 DEF AuditFails, Rounds
  <2>2. count' \in Counts
    BY <1>0, <1>8, CountType DEF AuditFails, Fault
  <2> QED BY <1>0, <1>8, <2>1, <2>2 DEF AuditFails, TypeInv, LineInv, logVars
<1> QED BY <1>1, <1>2, <1>3, <1>4, <1>5, <1>6, <1>7, <1>8 DEF Lead

\* Types: what a connection does by itself.
LEMMA InlineTypes ==
  ASSUME TypeInv, LineInv, NEW s \in Sessions,
         \/ Inline(s) \/ Begin(s) \/ Statement(s) \/ StatementFails(s) \/ Commit(s)
         \/ CommitAborted(s) \/ CommitFails(s) \/ Rollback(s) \/ Disconnect(s)
         \/ Persist(s) \/ InlineAuditFails(s)
  PROVE  TypeInv' /\ LineInv'
<1>0. /\ mem \in Databases /\ db \in Databases
      /\ log \in Seq(LogRecs) /\ synced \in 0 .. Len(log)
      /\ mutex \subseteq Sessions /\ mark \in 0 .. Len(log) /\ (mutex = {} => mark = 0)
      /\ conn \in [Sessions -> Conns]
      /\ queue \in Seq(Sessions) /\ leader \subseteq Sessions
      /\ round \in Rounds /\ ckpt \in Ckpts /\ count \in Counts
      /\ told \in [Writes -> Fates] /\ clean \in BOOLEAN
  BY DEF TypeInv
<1>00. conn[s] \in Conns /\ Lined(conn[s]) /\ conn[s].rec \in LogRecs /\ conn[s].tx \in 0 .. MaxTx
       /\ conn[s].shadow \in SUBSET Writes /\ conn[s].good \in SUBSET Writes /\ conn[s].unlogged \in BOOLEAN
  BY <1>0 DEF LineInv, Conns
<1>000. 0 \in 0 .. MaxTx /\ 0 \in 0 .. MaxWrites
  BY WalRecordsAssumption, ServerWalAssumption
<1>1. CASE Inline(s)
  <2> DEFINE r == Record("SQL", 0, NewWrite)
             c == [conn[s] EXCEPT !.pc = "log", !.rec = r]
  <2>1. NewWrite \in Writes /\ NewWrite \in 0 .. MaxWrites /\ count' \in Counts
    BY <1>0, <1>1, CountType DEF Inline
  <2>2. r \in LogRecs /\ r.kind = "SQL" /\ r.tx = 0 /\ r.w = NewWrite
    BY <1>000, <2>1, LineType
  <2>3. conn' = [conn EXCEPT ![s] = c]
    BY <1>0, <1>1 DEF Inline
  <2> HIDE DEF r
  <2>4. c \in Conns
    BY <1>00, <2>2 DEF Conns
  <2>5. c.tx = 0 /\ c.shadow = conn[s].shadow /\ c.pc = "log" /\ c.rec = r
    BY <1>00, <1>1 DEF Conns, Inline, AtRest
  <2> HIDE DEF c
  <2>6. Lined(c)
    BY <1>00, <1>1, <2>1, <2>2, <2>5 DEF Lined, Inline, AtRest
  <2>7. conn' \in [Sessions -> Conns] /\ LineInv'
    BY <1>0, <2>3, <2>4, <2>6, ConnUpdate
  <2>8. mem' \in Databases
    BY <1>0, <1>1, PlusType DEF Inline
  <2> QED BY <1>0, <1>1, <2>1, <2>7, <2>8 DEF Inline, TypeInv, logVars, queueVars
<1>2. CASE Begin(s)
  <2> DEFINE c == [Fresh EXCEPT !.tx = count'.txs, !.unlogged = TRUE]
  <2>1. count' \in Counts /\ count'.txs \in 1 .. MaxTx /\ count'.txs \in 0 .. MaxTx
    <3>1. count' \in Counts /\ count'.txs = count.txs + 1 /\ count.txs + 1 \in 1 .. MaxTx
      BY <1>0, <1>2, CountType DEF Begin, Counts
    <3> QED BY <3>1, ServerWalAssumption
  <2>2. c \in Conns
    BY <2>1, FreshType DEF Conns
  <2>3. Lined(c)
    BY <2>1 DEF Lined, Fresh
  <2>4. conn' = [conn EXCEPT ![s] = c]
    BY <1>2 DEF Begin
  <2> HIDE DEF c
  <2>5. conn' \in [Sessions -> Conns] /\ LineInv'
    BY <1>0, <2>2, <2>3, <2>4, ConnUpdate
  <2> QED BY <1>0, <1>2, <2>1, <2>5 DEF Begin, TypeInv, logVars, queueVars
<1>3. CASE Statement(s)
  <2> DEFINE r == Record("SQL", conn[s].tx, NewWrite)
             c == [conn[s] EXCEPT !.pc = "log", !.shadow = @ \cup {NewWrite}, !.rec = r]
  <2>1. NewWrite \in Writes /\ NewWrite \in 0 .. MaxWrites /\ count' \in Counts
    BY <1>0, <1>3, CountType DEF Statement
  <2>2. r \in LogRecs /\ r.kind = "SQL" /\ r.tx = conn[s].tx /\ r.w = NewWrite
    BY <1>00, <2>1, LineType
  <2>3. conn' = [conn EXCEPT ![s] = c]
    BY <1>0, <1>3 DEF Statement
  <2> HIDE DEF r
  <2>4. c \in Conns
    BY <1>00, <2>1, <2>2 DEF Conns
  <2>5. c.tx = conn[s].tx /\ c.pc = "log" /\ c.rec = r
    BY <1>00 DEF Conns
  <2> HIDE DEF c
  <2>6. Lined(c)
    BY <1>3, <2>1, <2>2, <2>5 DEF Lined, Statement, InTx
  <2>7. conn' \in [Sessions -> Conns] /\ LineInv'
    BY <1>0, <2>3, <2>4, <2>6, ConnUpdate
  <2> QED BY <1>0, <1>3, <2>1, <2>7 DEF Statement, TypeInv, logVars, queueVars
<1>4. CASE StatementFails(s)
  <2> DEFINE c == [conn[s] EXCEPT !.aborted = TRUE]
  <2>1. conn' = [conn EXCEPT ![s] = c]
    BY <1>0, <1>4 DEF StatementFails
  <2>2. c \in Conns
    BY <1>00 DEF Conns
  <2>3. c.tx = conn[s].tx /\ c.pc = "idle"
    BY <1>00, <1>4 DEF Conns, StatementFails, InTx
  <2> HIDE DEF c
  <2>4. Lined(c)
    BY <1>4, <2>3 DEF Lined, StatementFails, InTx
  <2>5. conn' \in [Sessions -> Conns] /\ LineInv' /\ count' \in Counts
    BY <1>0, <1>4, <2>1, <2>2, <2>4, ConnUpdate, CountType DEF StatementFails, EngineError
  <2> QED BY <1>0, <1>4, <2>5 DEF StatementFails, TypeInv, logVars, queueVars
<1>5. CASE Commit(s)
  <2> DEFINE r == Record("COMMIT", conn[s].tx, 0)
  <2>1. r \in LogRecs /\ r.kind = "COMMIT" /\ r.tx = conn[s].tx /\ r.kind \in Ends
    BY <1>00, <1>000, LineType DEF Ends
  <2>2. EndTx(s, r, conn[s].good) /\ InTx(s) /\ conn[s].tx # 0
    BY <1>5 DEF Commit, InTx
  <2> HIDE DEF r
  <2>3. conn' \in [Sessions -> Conns] /\ LineInv'
    BY <1>00, <2>1, <2>2, EndTxType
  <2>4. mem' \in Databases
    BY <1>0, <1>5, PlusType DEF Commit
  <2> QED BY <1>0, <1>5, <2>3, <2>4 DEF Commit, TypeInv, logVars, queueVars
<1>6. CASE CommitAborted(s)
  <2> DEFINE r == Record("COMMIT", 0, 0)
  <2>1. r \in LogRecs /\ r.kind = "COMMIT" /\ r.kind \in Ends
    BY <1>000, LineType DEF Ends
  <2>2. EndTx(s, r, {}) /\ InTx(s)
    BY <1>6 DEF CommitAborted
  <2> HIDE DEF r
  <2>3. conn' \in [Sessions -> Conns] /\ LineInv'
    BY <2>1, <2>2, EndTxType
  <2>4. told' \in [Writes -> Fates]
    BY <1>0, <1>6, ToldType DEF CommitAborted, Fates
  <2> QED BY <1>0, <1>6, <2>3, <2>4 DEF CommitAborted, TypeInv, logVars, queueVars
<1>7. CASE CommitFails(s)
  <2> DEFINE c == [Fresh EXCEPT !.unlogged = conn[s].unlogged]
  <2>1. c \in Conns /\ Lined(c)
    BY <1>00, FreshType DEF Conns, Lined, Fresh
  <2>2. conn' = [conn EXCEPT ![s] = c]
    BY <1>7 DEF CommitFails
  <2> HIDE DEF c
  <2>3. conn' \in [Sessions -> Conns] /\ LineInv'
    BY <1>0, <2>1, <2>2, ConnUpdate
  <2>4. told' \in [Writes -> Fates] /\ count' \in Counts
    BY <1>0, <1>7, ToldType, CountType DEF CommitFails, Fates, EngineError
  <2> QED BY <1>0, <1>7, <2>3, <2>4 DEF CommitFails, TypeInv, logVars, queueVars
<1>8. CASE Rollback(s)
  <2> DEFINE r == Record("ROLLBACK", conn[s].tx, 0)
  <2>1. r \in LogRecs /\ r.kind = "ROLLBACK" /\ r.kind \in Ends
    BY <1>00, <1>000, LineType DEF Ends
  <2>2. EndTx(s, r, {}) /\ InTx(s)
    BY <1>8 DEF Rollback
  <2> HIDE DEF r
  <2>3. conn' \in [Sessions -> Conns] /\ LineInv'
    BY <2>1, <2>2, EndTxType
  <2>4. told' \in [Writes -> Fates]
    BY <1>0, <1>8, ToldType DEF Rollback, Fates
  <2> QED BY <1>0, <1>8, <2>3, <2>4 DEF Rollback, TypeInv, logVars, queueVars
<1>9. CASE Disconnect(s)
  <2>3. conn' \in [Sessions -> Conns] /\ LineInv'
    BY <1>0, <1>9, FreshType, ConnUpdate DEF Disconnect
  <2>4. told' \in [Writes -> Fates]
    BY <1>0, <1>9, ToldType DEF Disconnect, Fates
  <2> QED BY <1>0, <1>9, <2>3, <2>4 DEF Disconnect, TypeInv, logVars, queueVars
<1>10. CASE InlineAuditFails(s)
  <2>1. Answer(s, FALSE, conn[s].unlogged) /\ Pending(s)
    BY <1>10 DEF InlineAuditFails, Pending
  <2>2. conn' \in [Sessions -> Conns] /\ LineInv' /\ told' \in [Writes -> Fates]
    BY <1>00, <2>1, AnswerType
  <2>3. count' \in Counts
    BY <1>0, <1>10, CountType DEF InlineAuditFails, Fault
  <2> QED BY <1>0, <1>10, <2>2, <2>3 DEF InlineAuditFails, TypeInv, logVars, queueVars
<1>11. CASE LogBegin(s)
  <2>1. Pending(s)
    BY <1>11 DEF LogBegin, Pending
  <2>2. CASE log' = Append(log, Record("BEGIN", conn[s].tx, 0))
             /\ conn' = [conn EXCEPT ![s].unlogged = FALSE] /\ UNCHANGED <<count, told>>
    <3>1. Record("BEGIN", conn[s].tx, 0) \in LogRecs
      BY <1>00, <1>000, LineType
    <3>2. log' \in Seq(LogRecs) /\ Len(log') = Len(log) + 1 /\ Len(log) \in Nat
      BY <1>0, <2>2, <3>1
    <3> DEFINE c == [conn[s] EXCEPT !.unlogged = FALSE]
    <3>3. c \in Conns
      BY <1>00 DEF Conns
    <3>4. c.tx = conn[s].tx /\ c.pc = conn[s].pc /\ c.rec = conn[s].rec /\ c.shadow = conn[s].shadow
          /\ c.good = conn[s].good
      BY <1>00 DEF Conns
    <3>5. conn' = [conn EXCEPT ![s] = c]
      BY <1>0, <2>2
    <3> HIDE DEF c
    <3>6. Lined(c)
      BY <1>00, <3>4 DEF Lined
    <3>7. conn' \in [Sessions -> Conns] /\ LineInv'
      BY <1>0, <3>3, <3>5, <3>6, ConnUpdate
    <3>8. synced' \in 0 .. Len(log') /\ mark' \in 0 .. Len(log')
      BY <1>0, <1>11, <3>2 DEF LogBegin
    <3> QED BY <1>0, <1>11, <2>2, <3>2, <3>7, <3>8 DEF LogBegin, TypeInv, queueVars
  <2>3. CASE Fault /\ Answer(s, FALSE, FALSE) /\ UNCHANGED log
    <3>1. conn' \in [Sessions -> Conns] /\ LineInv' /\ told' \in [Writes -> Fates]
      BY <2>1, <2>3, AnswerType
    <3>2. count' \in Counts
      BY <1>0, <2>3, CountType DEF Fault
    <3> QED BY <1>0, <1>11, <2>3, <3>1, <3>2 DEF LogBegin, TypeInv, queueVars
  <2> QED BY <1>11, <2>2, <2>3 DEF LogBegin
<1>12. CASE LogStatement(s)
  <2>1. Pending(s)
    BY <1>12 DEF LogStatement, Pending
  <2>2. CASE log' = Append(log, conn[s].rec) /\ Answer(s, TRUE, FALSE) /\ UNCHANGED count
    <3>1. log' \in Seq(LogRecs) /\ Len(log') = Len(log) + 1 /\ Len(log) \in Nat
      BY <1>0, <1>00, <2>2
    <3>2. conn' \in [Sessions -> Conns] /\ LineInv' /\ told' \in [Writes -> Fates]
      BY <2>1, <2>2, AnswerType
    <3>3. synced' \in 0 .. Len(log') /\ mark' \in 0 .. Len(log')
      BY <1>0, <1>12, <3>1 DEF LogStatement
    <3> QED BY <1>0, <1>12, <2>2, <3>1, <3>2, <3>3 DEF LogStatement, TypeInv, queueVars
  <2>3. CASE Fault /\ Answer(s, FALSE, FALSE) /\ UNCHANGED log
    <3>1. conn' \in [Sessions -> Conns] /\ LineInv' /\ told' \in [Writes -> Fates]
      BY <2>1, <2>3, AnswerType
    <3>2. count' \in Counts
      BY <1>0, <2>3, CountType DEF Fault
    <3> QED BY <1>0, <1>12, <2>3, <3>1, <3>2 DEF LogStatement, TypeInv, queueVars
  <2> QED BY <1>12, <2>2, <2>3 DEF LogStatement
<1>13. CASE LogWrite(s)
  <2> DEFINE c == [conn[s] EXCEPT !.pc = "sync"]
  <2>1. log' \in Seq(LogRecs) /\ Len(log') = Len(log) + 1 /\ Len(log) \in Nat
    BY <1>0, <1>00, <1>13 DEF LogWrite
  <2>2. conn' = [conn EXCEPT ![s] = c]
    BY <1>0, <1>13 DEF LogWrite
  <2>3. c \in Conns
    BY <1>00 DEF Conns
  <2>4. c.tx = 0 /\ c.pc = "sync" /\ c.rec = conn[s].rec /\ c.shadow = conn[s].shadow /\ c.good = conn[s].good
        /\ conn[s].pc = "log" /\ conn[s].tx = 0
    BY <1>00, <1>13 DEF Conns, LogWrite
  <2> HIDE DEF c
  <2>5. Lined(c)
    BY <1>00, <2>4 DEF Lined
  <2>6. conn' \in [Sessions -> Conns] /\ LineInv'
    BY <1>0, <2>2, <2>3, <2>5, ConnUpdate
  <2>7. synced' \in 0 .. Len(log') /\ mark' \in 0 .. Len(log') /\ mutex' \subseteq Sessions /\ mutex' # {}
    BY <1>0, <1>13, <2>1 DEF LogWrite
  <2> QED BY <1>0, <1>13, <2>1, <2>6, <2>7 DEF LogWrite, TypeInv, queueVars
<1>14. CASE LogSync(s)
  <2>1. Pending(s)
    BY <1>14 DEF LogSync, Pending
  <2>2. conn' \in [Sessions -> Conns] /\ LineInv' /\ told' \in [Writes -> Fates]
    BY <1>14, <2>1, AnswerType DEF LogSync
  <2>3. log' \in Seq(LogRecs) /\ synced' \in 0 .. Len(log') /\ count' \in Counts
    <3>1. CASE SyncOk /\ UNCHANGED count
      BY <1>0, <3>1 DEF SyncOk
    <3>2. CASE Fault /\ CutBack
      <4>1. log' = SubSeq(log, 1, mark) /\ log' \in Seq(LogRecs) /\ Len(log') = mark
        BY <1>0, <3>2 DEF CutBack
      <4>2. synced' \in 0 .. Len(log')
        BY <1>0, <3>2, <4>1 DEF CutBack
      <4>3. count' \in Counts
        BY <1>0, <3>2, CountType DEF Fault
      <4> QED BY <4>1, <4>2, <4>3
    <3> QED BY <1>14, <3>1, <3>2 DEF LogSync
  <2> QED BY <1>0, <1>14, <2>2, <2>3 DEF LogSync, TypeInv, queueVars
<1> QED BY <1>1, <1>2, <1>3, <1>4, <1>5, <1>6, <1>7, <1>8, <1>9, <1>10, <1>11, <1>12, <1>13, <1>14 DEF Persist

\* Types: the flusher, CHECKPOINT and a crash.
LEMMA OtherTypes ==
  ASSUME TypeInv, LineInv,
         Flush \/ CkptSnapshot \/ CkptInstall \/ CkptTruncate \/ Crash \/ Read \/ UNCHANGED vars
  PROVE  TypeInv' /\ LineInv'
<1>0. /\ mem \in Databases /\ db \in Databases
      /\ log \in Seq(LogRecs) /\ synced \in 0 .. Len(log)
      /\ mutex \subseteq Sessions /\ mark \in 0 .. Len(log) /\ (mutex = {} => mark = 0)
      /\ conn \in [Sessions -> Conns]
      /\ queue \in Seq(Sessions) /\ leader \subseteq Sessions
      /\ round \in Rounds /\ ckpt \in Ckpts /\ count \in Counts
      /\ told \in [Writes -> Fates] /\ clean \in BOOLEAN
  BY DEF TypeInv
<1>1. CASE Flush
  <2>1. synced' \in 0 .. Len(log)
    BY <1>0, <1>1 DEF Flush
  <2> QED BY <1>0, <1>1, <2>1 DEF Flush, TypeInv, LineInv, queueVars
<1>2. CASE CkptSnapshot
  <2>1. ckpt' \in Ckpts
    BY <1>0, <1>2 DEF CkptSnapshot, Ckpts
  <2>2. count' \in Counts
    BY <1>0, <1>2, CountType DEF CkptSnapshot
  <2> QED BY <1>0, <1>2, <2>1, <2>2 DEF CkptSnapshot, TypeInv, LineInv, queueVars, logVars
<1>3. CASE CkptInstall
  <2>1. ckpt' \in Ckpts /\ db' \in Databases
    BY <1>0, <1>3, FreshType DEF CkptInstall, Ckpts
  <2> QED BY <1>0, <1>3, <2>1 DEF CkptInstall, TypeInv, LineInv, queueVars, logVars
<1>4. CASE CkptTruncate
  <2>1. log' \in Seq(LogRecs) /\ Len(log') = 0 /\ synced' = 0 /\ mark' = 0
    BY <1>0, <1>4 DEF CkptTruncate
  <2> QED BY <1>0, <1>4, <2>1, FreshType DEF CkptTruncate, TypeInv, LineInv, queueVars
<1>5. CASE Crash
  <2>1. PICK n \in synced .. Len(log) :
          /\ log' = SubSeq(log, 1, n) /\ synced' = Len(SubSeq(log, 1, n))
          /\ mem' = Recovered(db, SubSeq(log, 1, n))
          /\ clean' = (clean /\ Replayable(SubSeq(log, 1, n)))
    BY <1>5 DEF Crash, Kept
  <2>2. log' \in Seq(LogRecs) /\ Len(log') = n /\ synced' = n /\ n \in Nat
    BY <1>0, <2>1
  <2>3. mem' \in Databases
    <3>1. LogRecs \subseteq LinesT
      BY ServerWalAssumption DEF LogRecs, LinesT, Ends
    <3>2. log' \in Seq(LinesT)
      BY <2>2, <3>1
    <3>3. Engine(db) \in Engines
      BY <1>0 DEF Engine, Engines
    <3>4. PICK f \in [0 .. Len(log') -> Engines] : Replayed(Engine(db), log') = f[Len(log')]
      BY <3>2, <3>3, ReplayLoop
    <3>5. f[Len(log')] \in Engines
      BY <2>2, <3>4
    <3> QED BY <2>1, <3>4, <3>5 DEF Recovered, Engines
  <2>4. conn' \in [Sessions -> Conns] /\ LineInv'
    BY <1>5, FreshType DEF Crash, LineInv
  <2>5. count' \in Counts
    BY <1>0, <1>5, CountType DEF Crash
  <2>6. clean' \in BOOLEAN
    BY <2>1
  <2>7. /\ queue' \in Seq(Sessions) /\ leader' \subseteq Sessions /\ round' \in Rounds /\ ckpt' \in Ckpts
        /\ mutex' = {} /\ mark' = 0 /\ db' = db /\ told' = told
    BY <1>5, FreshType DEF Crash
  <2> QED BY <1>0, <2>2, <2>3, <2>4, <2>5, <2>6, <2>7 DEF TypeInv
<1>6. CASE Read \/ UNCHANGED vars
  BY <1>6 DEF Read, vars, TypeInv, LineInv, logVars, queueVars
<1> QED BY <1>1, <1>2, <1>3, <1>4, <1>5, <1>6

\* The initial state has its types.
LEMMA InitTypes == WalInit => TypeInv /\ LineInv
<1> SUFFICES ASSUME WalInit PROVE TypeInv /\ LineInv
  OBVIOUS
<1>1. count \in Counts /\ told \in [Writes -> Fates]
  BY WalRecordsAssumption, ServerWalAssumption DEF WalInit, Counts, Fates
<1> QED BY <1>1, FreshType DEF WalInit, TypeInv, LineInv

\* Every step keeps the types.
LEMMA StepTypes == TypeInv /\ LineInv /\ [WalNext]_vars => TypeInv' /\ LineInv'
<1> SUFFICES ASSUME TypeInv, LineInv, [WalNext]_vars PROVE TypeInv' /\ LineInv'
  OBVIOUS
<1> QED BY QueueTypes, InlineTypes, OtherTypes DEF WalNext, Client

\* The types of the server's log, queue and connections, whatever overlaps with
\* what; and the length an append noted before its write is still within the
\* file when a failed fsync cuts back to it, whatever CHECKPOINT truncates
\* (append_wal_v3_group, append_wal_dialect, perform_checkpoint).
THEOREM WalTypes == WalSpec => []WalTypeOK
<1>1. TypeInv => WalTypeOK
  <2> SUFFICES ASSUME TypeInv PROVE WalTypeOK
    OBVIOUS
  <2>1. \A s \in Sessions : conn[s] \in Conns
    BY DEF TypeInv
  <2> QED BY <2>1 DEF TypeInv, WalTypeOK, Conns, Rounds, Ckpts, Databases, LogRecs, Fates
<1> QED BY <1>1, InitTypes, StepTypes, PTL DEF WalSpec

---------------------------------------------------------------------------
(* Without Overlap the server is in one mode at a time.                    *)

\* What the answers to a group change in a connection.
LEMMA AckedIs ==
  ASSUME conn \in [Sessions -> Conns], NEW ss, conn' = Acked(ss), NEW o \in Sessions
  PROVE  /\ conn'[o].tx = conn[o].tx /\ conn'[o].shadow = conn[o].shadow
         /\ conn'[o].good = conn[o].good /\ conn'[o].rec = conn[o].rec
         /\ conn'[o].unlogged = conn[o].unlogged
         /\ o \notin ss => conn'[o] = conn[o]
         /\ o \in ss => conn'[o].pc = IF o \in leader THEN "acked" ELSE "idle"
<1>1. conn[o] \in Conns
  OBVIOUS
<1>2. CASE o \in ss
  <2>1. conn'[o] = [conn[o] EXCEPT !.w = 0, !.pc = IF o \in leader THEN "acked" ELSE "idle"]
    BY <1>2 DEF Acked
  <2> QED BY <1>1, <1>2, <2>1 DEF Conns
<1>3. CASE o \notin ss
  BY <1>3 DEF Acked
<1> QED BY <1>2, <1>3

\* Adding to a queue.
LEMMA AppendMember ==
  ASSUME NEW q \in Seq(Sessions), NEW e \in Sessions
  PROVE  /\ Member(Append(q, e)) = Member(q) \cup {e}
         /\ Distinct(q) /\ e \notin Member(q) => Distinct(Append(q, e))
<1>1. /\ DOMAIN Append(q, e) = (1 .. Len(q)) \cup {Len(q) + 1} /\ DOMAIN q = 1 .. Len(q)
      /\ Append(q, e)[Len(q) + 1] = e /\ \A k \in 1 .. Len(q) : Append(q, e)[k] = q[k] /\ k # Len(q) + 1
  OBVIOUS
<1>2. Member(Append(q, e)) = Member(q) \cup {e}
  BY <1>1 DEF Member
<1>3. Distinct(q) /\ e \notin Member(q) => Distinct(Append(q, e))
  BY <1>1 DEF Distinct, Member
<1> QED BY <1>2, <1>3

\* Taking a group off the queue.
LEMMA SplitMember ==
  ASSUME NEW q \in Seq(Sessions), NEW n \in 0 .. Len(q), Distinct(q)
  PROVE  LET a == SubSeq(q, 1, n)
             b == SubSeq(q, n + 1, Len(q))
         IN  /\ Member(q) = Member(a) \cup Member(b) /\ Member(a) \cap Member(b) = {}
             /\ Distinct(a) /\ Distinct(b)
<1> DEFINE a == SubSeq(q, 1, n)
           b == SubSeq(q, n + 1, Len(q))
           m == Len(q) - n
<1>1. Len(q) \in Nat /\ n \in Nat /\ m \in Nat /\ DOMAIN q = 1 .. Len(q)
  OBVIOUS
<1>2. DOMAIN a = 1 .. n /\ \A i \in 1 .. n : a[i] = q[i]
  OBVIOUS
<1>3. DOMAIN b = 1 .. m /\ \A i \in 1 .. m : b[i] = q[n + i]
  <2>1. \A i \in (n + 1) .. Len(q) : q[i] \in Sessions
    OBVIOUS
  <2>2. n + 1 \in Int /\ Len(q) \in Int
    BY <1>1
  <2>3. /\ b \in Seq(Sessions)
        /\ Len(b) = IF n + 1 <= Len(q) THEN Len(q) - (n + 1) + 1 ELSE 0
        /\ \A i \in 1 .. (Len(q) - (n + 1) + 1) : b[i] = q[(n + 1) + i - 1]
    BY <2>1, <2>2, SubSeqProperties
  <2> HIDE DEF b
  <2>4. Len(b) = m /\ Len(q) - (n + 1) + 1 = m
    <3> DEFINE l == Len(q)
    <3>1. l \in Nat /\ n \in 0 .. l /\ m = l - n
      BY <1>1
    <3>2. Len(b) = IF n + 1 <= l THEN l - (n + 1) + 1 ELSE 0
      BY <2>3
    <3> HIDE DEF l, m
    <3>3. Len(b) = m /\ l - (n + 1) + 1 = m
      BY <3>1, <3>2
    <3> QED BY <3>3 DEF l
  <2>5. \A i \in 1 .. m : (n + 1) + i - 1 = n + i
    BY <1>1
  <2>6. DOMAIN b = 1 .. m
    BY <2>3, <2>4
  <2> HIDE DEF m
  <2> QED BY <2>3, <2>4, <2>5, <2>6
<1> HIDE DEF a, b
<1>4. \A i \in 1 .. Len(q) : i \in 1 .. n \/ (i - n \in 1 .. m /\ i = n + (i - n))
  BY <1>1 DEF m
<1>5. (\A i \in 1 .. n : i \in 1 .. Len(q)) /\ (\A i \in 1 .. m : n + i \in 1 .. Len(q) /\ n + i \notin 1 .. n)
  BY <1>1 DEF m
<1>6. Distinct(a)
  BY <1>1, <1>2, <1>5 DEF Distinct
<1>7. Distinct(b)
  <2> SUFFICES ASSUME NEW i \in 1 .. m, NEW j \in 1 .. m, b[i] = b[j] PROVE i = j
    BY <1>3 DEF Distinct
  <2>1. n + i = n + j
    BY <1>1, <1>3, <1>5 DEF Distinct
  <2> QED BY <1>1, <2>1
<1> HIDE DEF m
<1>8. Member(q) \subseteq Member(a) \cup Member(b)
  <2> SUFFICES ASSUME NEW i \in 1 .. Len(q) PROVE q[i] \in Member(a) \cup Member(b)
    BY <1>1 DEF Member
  <2>1. CASE i \in 1 .. n
    BY <1>2, <2>1 DEF Member
  <2>2. CASE i - n \in 1 .. m /\ i = n + (i - n)
    BY <1>3, <2>2 DEF Member
  <2> QED BY <1>4, <2>1, <2>2
<1>9. Member(a) \subseteq Member(q) /\ Member(b) \subseteq Member(q)
  BY <1>1, <1>2, <1>3, <1>5 DEF Member
<1>10. Member(a) \cap Member(b) = {}
  <2> SUFFICES ASSUME NEW i \in 1 .. n, NEW j \in 1 .. m, a[i] = b[j] PROVE FALSE
    BY <1>2, <1>3 DEF Member
  <2>1. i = n + j
    BY <1>1, <1>2, <1>3, <1>5 DEF Distinct
  <2> QED BY <1>5, <2>1
<1> QED BY <1>6, <1>7, <1>8, <1>9, <1>10 DEF a, b

\* While there is a leader nobody works alone and no checkpoint runs.
LEMMA LeaderMode ==
  ASSUME TypeInv, ModeInv, NEW s \in Sessions, leader = {s}
  PROVE  /\ ckpt.pc = "idle" /\ \A o \in Sessions : ~Solo(o)
         /\ (mutex # {} <=> round.stage = "written")
<1>1. \A o \in Sessions : ~Solo(o)
  BY DEF ModeInv, SoloInv
<1>2. ckpt.pc = "idle"
  <2>1. conn[s].pc \in {"queued", "acked"}
    BY DEF ModeInv, QueueInv
  <2> QED BY <2>1 DEF ModeInv, SoloInv, AtRest
<1>3. \A o \in Sessions : conn[o].pc # "sync"
  BY <1>1 DEF Solo, Pending
<1> QED BY <1>1, <1>2, <1>3 DEF ModeInv, MutexInv

\* A connection at work alone has the server to itself.
LEMMA SoloMode ==
  ASSUME TypeInv, ModeInv, NEW s \in Sessions, Solo(s)
  PROVE  /\ ckpt.pc = "idle" /\ leader = {} /\ \A o \in Sessions : o # s => AtRest(o) /\ ~Solo(o)
         /\ queue = <<>> /\ round.stage = "none" /\ round.tasks = <<>>
         /\ (mutex # {} <=> conn[s].pc = "sync")
<1>1. ckpt.pc = "idle" /\ leader = {} /\ \A o \in Sessions : o # s => AtRest(o)
  BY DEF ModeInv, SoloInv
<1>2. queue = <<>> /\ round.stage = "none" /\ round.tasks = <<>>
  BY <1>1 DEF ModeInv, QueueInv
<1>3. \A o \in Sessions : o # s => ~Solo(o) /\ conn[o].pc # "sync"
  BY <1>1 DEF Solo, AtRest, Pending
<1> QED BY <1>1, <1>2, <1>3 DEF ModeInv, MutexInv

\* Modes: what the commit queue does.
LEMMA QueueModes ==
  ASSUME Overlap = FALSE, TypeInv, ModeInv, NEW s \in Sessions,
         Enqueue(s) \/ Lead(s) \/ AuditFails(s)
  PROVE  ModeInv'
<1>0. /\ conn \in [Sessions -> Conns] /\ queue \in Seq(Sessions) /\ leader \subseteq Sessions
      /\ round \in Rounds /\ round.tasks \in Seq(Sessions) /\ conn[s] \in Conns
  BY DEF TypeInv, Rounds
<1>1. CASE Enqueue(s)
  <2>1. /\ \A o \in Sessions : conn'[o].pc = (IF o = s THEN "queued" ELSE conn[o].pc) /\ conn'[o].tx = conn[o].tx
        /\ queue' = Append(queue, s) /\ leader' = (IF leader = {} THEN {s} ELSE leader)
        /\ round' = round /\ ckpt' = ckpt /\ mutex' = mutex
        /\ conn[s].pc = "idle" /\ conn[s].tx = 0 /\ AmongWriters(s)
    <3>1. \A o \in Sessions : conn[o] \in Conns
      BY <1>0
    <3> QED BY <1>0, <1>1, <3>1 DEF Enqueue, AtRest, logVars, Conns
  <2>2. ckpt.pc = "idle" /\ \A o \in Sessions : conn[o].tx = 0 /\ conn[o].pc \notin {"log", "sync"}
    BY <2>1 DEF AmongWriters
  <2>3. s \notin Member(queue) /\ s \notin Member(round.tasks) /\ s \notin leader
    BY <2>1 DEF ModeInv, QueueInv
  <2>4. Member(queue') = Member(queue) \cup {s} /\ Distinct(queue')
    BY <1>0, <2>1, <2>3, AppendMember DEF ModeInv, QueueInv
  <2>5. SoloInv'
    BY <2>1, <2>2 DEF SoloInv, Solo, Pending
  <2>6. QueueInv'
    <3>1. /\ \A x, y \in leader' : x = y
          /\ \A x \in leader' : conn'[x].pc \in {"queued", "acked"}
          /\ leader' # {}
          /\ \A x \in Sessions : conn'[x].pc = "acked" => x \in leader'
      BY <1>0, <2>1 DEF ModeInv, QueueInv
    <3>2. /\ \A x \in Sessions : conn'[x].pc \in {"queued", "acked"} => conn'[x].tx = 0
          /\ \A x \in Sessions : conn'[x].pc = "queued" <=> (x \in Member(queue') \/ x \in Member(round'.tasks))
      BY <2>1, <2>4 DEF ModeInv, QueueInv
    <3>3. Distinct(round'.tasks) /\ Member(queue') \cap Member(round'.tasks) = {}
          /\ (round'.stage = "none" => round'.tasks = <<>>)
      BY <2>1, <2>3, <2>4 DEF ModeInv, QueueInv
    <3> QED BY <2>4, <3>1, <3>2, <3>3 DEF QueueInv
  <2>7. MutexInv'
    BY <2>1 DEF ModeInv, MutexInv
  <2> QED BY <2>5, <2>6, <2>7 DEF ModeInv
<1>2. ASSUME leader = {s}, Drain(s) PROVE ModeInv'
  <2> DEFINE n == IF Len(queue) < GroupMax THEN Len(queue) ELSE GroupMax
             a == SubSeq(queue, 1, n)
             b == SubSeq(queue, n + 1, Len(queue))
  <2>1. n \in 0 .. Len(queue)
    BY <1>0, ServerWalAssumption
  <2>2. round' = [stage |-> "drained", tasks |-> a, pre |-> Nothing] /\ queue' = b
        /\ leader' = leader /\ ckpt' = ckpt /\ conn' = conn /\ mutex' = mutex
    BY <1>2 DEF Drain, NoRound, logVars
  <2>3. round.tasks = <<>> /\ round.stage = "none" /\ Member(round.tasks) = {}
    BY <1>2 DEF Drain, ModeInv, QueueInv, Member
  <2> HIDE DEF n
  <2>4. Member(queue) = Member(a) \cup Member(b) /\ Member(a) \cap Member(b) = {} /\ Distinct(a) /\ Distinct(b)
    BY <1>0, <2>1, SplitMember DEF ModeInv, QueueInv
  <2> HIDE DEF a, b
  <2>5. SoloInv' /\ MutexInv'
    BY <2>2, <2>3 DEF ModeInv, SoloInv, MutexInv, Solo, Pending, AtRest
  <2>6. QueueInv'
    BY <1>2, <2>2, <2>3, <2>4 DEF ModeInv, QueueInv
  <2> QED BY <2>5, <2>6 DEF ModeInv
<1>3. ASSUME leader = {s}, DropBaton(s) PROVE ModeInv'
  <2>0. ckpt.pc = "idle" /\ (\A o \in Sessions : ~Solo(o)) /\ (mutex # {} <=> round.stage = "written")
    BY <1>3, LeaderMode
  <2>1. round.stage = "none" /\ round.tasks = <<>> /\ queue = <<>> /\ Member(round.tasks) = {} /\ Member(queue) = {}
    BY <1>3 DEF DropBaton, ModeInv, QueueInv, Member
  <2>2. conn[s].pc = "acked"
    BY <1>3, <2>1 DEF ModeInv, QueueInv
  <2>3. /\ \A o \in Sessions : conn'[o].pc = (IF o = s THEN "idle" ELSE conn[o].pc) /\ conn'[o].tx = conn[o].tx
        /\ queue' = queue /\ leader' = {} /\ round' = round /\ ckpt' = ckpt /\ mutex' = mutex
    <3>1. \A o \in Sessions : conn[o] \in Conns
      BY <1>0
    <3> QED BY <1>0, <1>3, <2>2, <3>1 DEF DropBaton, logVars, Conns
  <2>4. SoloInv'
    BY <2>0, <2>3 DEF SoloInv, Solo, Pending
  <2>5. MutexInv'
    BY <2>0, <2>1, <2>3 DEF MutexInv, Solo, Pending
  <2>6. QueueInv'
    BY <1>3, <2>1, <2>3 DEF ModeInv, QueueInv
  <2> QED BY <2>4, <2>5, <2>6 DEF ModeInv
\* The answers to some of the tasks.
<1>4. ASSUME leader = {s}, mutex = {}, mutex' = {}, NEW ss \in SUBSET Member(round.tasks), conn' = Acked(ss),
             queue' = queue, leader' = leader, ckpt' = ckpt, Member(round'.tasks) = Member(round.tasks) \ ss,
             Distinct(round'.tasks), round'.stage # "written", round'.stage = "none" => round'.tasks = <<>>
      PROVE  ModeInv'
  <2>0. ckpt.pc = "idle" /\ (\A o \in Sessions : ~Solo(o))
    BY <1>4, LeaderMode
  <2>1. \A o \in Sessions : /\ conn'[o].tx = conn[o].tx
                            /\ o \notin ss => conn'[o] = conn[o]
                            /\ o \in ss => conn'[o].pc = IF o = s THEN "acked" ELSE "idle"
    BY <1>0, <1>4, AckedIs
  <2>2. SoloInv'
    BY <1>4, <2>0, <2>1 DEF SoloInv, Solo, Pending
  <2>3. MutexInv'
    BY <1>4, <2>0, <2>1 DEF MutexInv, Solo, Pending
  <2>4. QueueInv'
    <3>1. /\ \A x, y \in leader' : x = y
          /\ \A x \in leader' : conn'[x].pc \in {"queued", "acked"}
          /\ leader' # {}
          /\ \A x \in Sessions : conn'[x].pc = "acked" => x \in leader'
      BY <1>4, <2>1 DEF ModeInv, QueueInv
    <3>2. \A x \in Sessions : conn'[x].pc \in {"queued", "acked"} => conn'[x].tx = 0
      BY <1>4, <2>1 DEF ModeInv, QueueInv
    <3>3. \A x \in Sessions : conn'[x].pc = "queued" <=> (x \in Member(queue') \/ x \in Member(round'.tasks))
      BY <1>4, <2>1 DEF ModeInv, QueueInv
    <3>4. Distinct(queue') /\ Member(queue') \cap Member(round'.tasks) = {}
      BY <1>4 DEF ModeInv, QueueInv
    <3> QED BY <1>4, <3>1, <3>2, <3>3, <3>4 DEF QueueInv
  <2> QED BY <2>2, <2>3, <2>4 DEF ModeInv
<1>5. NoRound.stage = "none" /\ NoRound.tasks = <<>> /\ Member(<<>>) = {} /\ Distinct(<<>>)
  BY DEF NoRound, Member, Distinct
<1>6. ASSUME leader = {s}, Apply(s) PROVE ModeInv'
  <2>1. PICK failing \in SUBSET Tasks :
          /\ conn' = Acked(failing)
          /\ round' = IF Survivors(round.tasks, failing) = <<>> THEN NoRound
                      ELSE [stage |-> "applied", tasks |-> Survivors(round.tasks, failing), pre |-> mem]
    BY <1>6 DEF Apply
  <2>2. /\ Member(Survivors(round.tasks, failing)) = Member(round.tasks) \ failing
        /\ Distinct(Survivors(round.tasks, failing))
    BY <1>0, SurvivorsAre DEF ModeInv, QueueInv
  <2>3. Tasks = Member(round.tasks)
    BY DEF Tasks, Member
  <2>4. /\ Member(round'.tasks) = Member(round.tasks) \ failing /\ Distinct(round'.tasks)
        /\ round'.stage # "written" /\ (round'.stage = "none" => round'.tasks = <<>>)
    BY <1>5, <2>1, <2>2
  <2>5. mutex = {} /\ mutex' = {} /\ queue' = queue /\ leader' = leader /\ ckpt' = ckpt
    BY <1>6, LeaderMode DEF Apply, logVars
  <2> QED BY <1>4, <1>6, <2>1, <2>3, <2>4, <2>5
<1>7. ASSUME leader = {s}, Restore(s) \/ AckGroup(s) PROVE ModeInv'
  <2>1. conn' = Acked(Tasks) /\ Tasks = Member(round.tasks) /\ round' = NoRound
        /\ mutex = {} /\ mutex' = {} /\ queue' = queue /\ leader' = leader /\ ckpt' = ckpt
    BY <1>7, LeaderMode DEF Restore, AckGroup, logVars, Tasks, Member
  <2>2. Member(round'.tasks) = Member(round.tasks) \ Tasks /\ Distinct(round'.tasks)
        /\ round'.stage # "written" /\ (round'.stage = "none" => round'.tasks = <<>>)
    BY <1>5, <2>1
  <2> QED BY <1>4, <1>7, <2>1, <2>2
\* The leader's own steps on the file.
<1>8. ASSUME leader = {s}, AuditFails(s) \/ GroupWrite(s) \/ GroupSync(s) PROVE ModeInv'
  <2>0. ckpt.pc = "idle" /\ (\A o \in Sessions : ~Solo(o)) /\ (mutex # {} <=> round.stage = "written")
    BY <1>8, LeaderMode
  <2>1. conn' = conn /\ queue' = queue /\ leader' = leader /\ ckpt' = ckpt /\ round'.tasks = round.tasks
        /\ round'.stage # "none" /\ (mutex' # {} <=> round'.stage = "written")
    BY <1>0, <1>8, <2>0 DEF AuditFails, GroupWrite, GroupSync, logVars, Rounds
  <2>2. SoloInv' /\ QueueInv'
    BY <1>8, <2>1 DEF ModeInv, SoloInv, QueueInv, Solo, Pending, AtRest
  <2>3. MutexInv'
    BY <2>0, <2>1 DEF MutexInv, Solo, Pending
  <2> QED BY <2>2, <2>3 DEF ModeInv
<1>9. Lead(s) \/ AuditFails(s) => leader = {s}
  BY DEF Lead, Drain, DropBaton, Apply, GroupWrite, GroupSync, Restore, AckGroup, AuditFails
<1> QED BY <1>1, <1>2, <1>3, <1>6, <1>7, <1>8, <1>9 DEF Lead

\* s has the server to itself, or may start to.
Sole(s) ==
  /\ ckpt.pc = "idle" /\ leader = {} /\ \A o \in Sessions : o # s => AtRest(o)
  /\ queue = <<>> /\ round.stage = "none" /\ round.tasks = <<>>
  /\ mutex # {} <=> conn[s].pc = "sync"
  /\ conn[s].pc \in {"idle", "log", "sync"}

\* A connection that starts alone has the server to itself.
LEMMA SoleStart ==
  ASSUME Overlap = FALSE, TypeInv, ModeInv, NEW s \in Sessions, AtRest(s), Alone(s)
  PROVE  Sole(s)
<1>1. ckpt.pc = "idle" /\ \A o \in Sessions : AtRest(o)
  BY DEF Alone
<1>2. leader = {}
  BY <1>1 DEF TypeInv, ModeInv, QueueInv, AtRest
<1>3. queue = <<>> /\ round.stage = "none" /\ round.tasks = <<>>
  BY <1>2 DEF ModeInv, QueueInv
<1>4. mutex = {} /\ conn[s].pc = "idle"
  BY <1>1, <1>3 DEF ModeInv, MutexInv, AtRest
<1> QED BY <1>1, <1>2, <1>3, <1>4 DEF Sole

\* A connection inside a block or an inline write has it too.
LEMMA SoleGoesOn ==
  ASSUME TypeInv, ModeInv, NEW s \in Sessions, Solo(s)
  PROVE  Sole(s)
<1>1. conn[s].pc \in {"idle", "log", "sync", "queued", "acked"}
  BY DEF TypeInv, Conns
<1>2. conn[s].pc \in {"queued", "acked"} => FALSE
  BY DEF ModeInv, QueueInv, Solo, Pending
<1> QED BY <1>1, <1>2, SoloMode DEF Sole

\* Every step of the inline path is taken by a connection alone.
LEMMA InlineIsSole ==
  ASSUME Overlap = FALSE, TypeInv, ModeInv, NEW s \in Sessions,
         \/ Inline(s) \/ Begin(s) \/ Statement(s) \/ StatementFails(s) \/ Commit(s)
         \/ CommitAborted(s) \/ CommitFails(s) \/ Rollback(s) \/ Disconnect(s)
         \/ Persist(s) \/ InlineAuditFails(s)
  PROVE  Sole(s)
<1>1. CASE Inline(s) \/ Begin(s)
  BY <1>1, SoleStart DEF Inline, Begin
<1>2. CASE ~(Inline(s) \/ Begin(s))
  <2>1. Solo(s)
    BY <1>2 DEF Statement, StatementFails, Commit, CommitAborted, CommitFails, Rollback, Disconnect, Persist,
       InlineAuditFails, LogBegin, LogStatement, LogWrite, LogSync, Solo, Pending, InTx
  <2> QED BY <2>1, SoleGoesOn
<1> QED BY <1>1, <1>2

\* A step of that connection keeps it so.
LEMMA SoleStep ==
  ASSUME NEW s \in Sessions, Sole(s), NEW c, conn \in [Sessions -> Conns],
         conn' = [conn EXCEPT ![s] = c], c.pc \in {"idle", "log", "sync"},
         queue' = queue, leader' = leader, round' = round, ckpt' = ckpt,
         mutex' # {} <=> c.pc = "sync"
  PROVE  ModeInv' /\ Sole(s)'
<1>1. \A o \in Sessions : conn'[o] = IF o = s THEN c ELSE conn[o]
  OBVIOUS
<1>2. \A o \in Sessions : o # s => conn'[o].pc = "idle" /\ conn'[o].tx = 0
  BY <1>1 DEF Sole, AtRest
<1>3. SoloInv'
  BY <1>1, <1>2 DEF Sole, SoloInv, Solo, AtRest, Pending
<1>4. QueueInv'
  <2>1. \A o \in Sessions : conn'[o].pc \notin {"queued", "acked"}
    BY <1>1, <1>2
  <2>2. leader' = {} /\ queue' = <<>> /\ round'.stage = "none" /\ round'.tasks = <<>>
    BY DEF Sole
  <2>3. Member(<<>>) = {} /\ Distinct(<<>>)
    BY DEF Member, Distinct
  <2> QED BY <2>1, <2>2, <2>3 DEF QueueInv
<1>5. MutexInv'
  BY <1>1, <1>2 DEF Sole, MutexInv
<1>6. Sole(s)'
  BY <1>1, <1>2 DEF Sole, AtRest
<1> QED BY <1>3, <1>4, <1>5, <1>6 DEF ModeInv

\* What an answer makes of the connection.
Answered(c, ok, u) ==
  IF c.tx = 0 THEN [Fresh EXCEPT !.unlogged = u]
  ELSE [c EXCEPT !.pc = "idle", !.unlogged = u, !.good = IF ok THEN @ \cup {c.rec.w} ELSE @]

\* The state a step of the inline path leaves the connection in.
LEMMA InlineConn ==
  ASSUME TypeInv, LineInv, NEW s \in Sessions,
         \/ Inline(s) \/ Begin(s) \/ Statement(s) \/ StatementFails(s) \/ Commit(s)
         \/ CommitAborted(s) \/ CommitFails(s) \/ Rollback(s) \/ Disconnect(s)
         \/ Persist(s) \/ InlineAuditFails(s)
  PROVE  \E c \in Conns : /\ conn' = [conn EXCEPT ![s] = c] /\ c.pc \in {"idle", "log", "sync"}
                          /\ c.pc = "sync" <=> LogWrite(s)
<1>0. conn \in [Sessions -> Conns] /\ conn[s] \in Conns
  BY DEF TypeInv
<1>1. conn' \in [Sessions -> Conns]
  BY InlineTypes DEF TypeInv
<1> DEFINE c == conn'[s]
<1>2. c \in Conns
  BY <1>1
<1>3. \A u : [Fresh EXCEPT !.unlogged = u].pc = "idle"
  BY DEF Fresh
<1>4. Fresh.pc = "idle" /\ \A g, r : [Fresh EXCEPT !.pc = "log", !.good = g, !.rec = r].pc = "log"
  BY DEF Fresh
<1>5. \A t : [Fresh EXCEPT !.tx = t, !.unlogged = TRUE].pc = "idle"
  BY DEF Fresh
<1>6. ASSUME NEW ok, NEW u, Answer(s, ok, u)
      PROVE  conn' = [conn EXCEPT ![s] = Answered(conn[s], ok, u)] /\ Answered(conn[s], ok, u).pc = "idle"
  <2>1. conn' = [conn EXCEPT ![s] = Answered(conn[s], ok, u)]
    BY <1>6 DEF Answer, Answered
  <2>2. conn[s].tx # 0 => Answered(conn[s], ok, u).pc = "idle"
    BY <1>0 DEF Answered, Conns
  <2> QED BY <1>3, <2>1, <2>2 DEF Answered
<1>7. CASE Inline(s) \/ Begin(s) \/ Statement(s) \/ StatementFails(s)
  <2>1. conn' = [conn EXCEPT ![s] = c] /\ c.pc \in {"idle", "log"}
    <3>1. CASE Inline(s)
      <4> DEFINE e == [conn[s] EXCEPT !.pc = "log", !.rec = Record("SQL", 0, NewWrite)]
      <4>1. conn' = [conn EXCEPT ![s] = e]
        BY <1>0, <3>1 DEF Inline
      <4>2. e.pc = "log"
        BY <1>0 DEF Conns
      <4> QED BY <1>0, <4>1, <4>2
    <3>2. CASE Begin(s)
      BY <1>0, <1>5, <3>2 DEF Begin
    <3>3. CASE Statement(s)
      <4> DEFINE e == [conn[s] EXCEPT !.pc = "log", !.shadow = @ \cup {NewWrite},
                                      !.rec = Record("SQL", conn[s].tx, NewWrite)]
      <4>1. conn' = [conn EXCEPT ![s] = e]
        BY <1>0, <3>3 DEF Statement
      <4>2. e.pc = "log"
        BY <1>0 DEF Conns
      <4> QED BY <1>0, <4>1, <4>2
    <3>4. CASE StatementFails(s)
      <4> DEFINE e == [conn[s] EXCEPT !.aborted = TRUE]
      <4>1. conn' = [conn EXCEPT ![s] = e]
        BY <1>0, <3>4 DEF StatementFails
      <4>2. e.pc = "idle"
        BY <1>0, <3>4 DEF Conns, StatementFails, InTx
      <4> QED BY <1>0, <4>1, <4>2
    <3> QED BY <1>7, <3>1, <3>2, <3>3, <3>4
  <2>2. ~LogWrite(s)
    BY <1>7 DEF LogWrite, Inline, Begin, Statement, StatementFails, AtRest, InTx
  <2> QED BY <1>2, <2>1, <2>2
<1>8. CASE Commit(s) \/ CommitAborted(s) \/ CommitFails(s) \/ Rollback(s) \/ Disconnect(s)
  <2>1. conn' = [conn EXCEPT ![s] = c] /\ c.pc \in {"idle", "log"}
    <3>1. ASSUME NEW line, NEW good, EndTx(s, line, good)
          PROVE  conn' = [conn EXCEPT ![s] = c] /\ c.pc \in {"idle", "log"}
      <4>1. CASE conn[s].unlogged
        BY <1>0, <1>4, <3>1, <4>1 DEF EndTx
      <4>2. CASE ~conn[s].unlogged
        <5> DEFINE e == [Fresh EXCEPT !.pc = "log", !.good = good, !.rec = line]
        <5>1. conn' = [conn EXCEPT ![s] = e]
          BY <3>1, <4>2 DEF EndTx
        <5>2. e.pc = "log"
          BY <1>4
        <5> QED BY <1>0, <5>1, <5>2
      <4> QED BY <4>1, <4>2
    <3>2. CASE CommitFails(s)
      BY <1>0, <1>3, <3>2 DEF CommitFails
    <3>3. CASE Disconnect(s)
      BY <1>0, <1>4, <3>3 DEF Disconnect
    <3>4. CASE Commit(s) \/ CommitAborted(s) \/ Rollback(s)
      BY <3>1, <3>4 DEF Commit, CommitAborted, Rollback
    <3> QED BY <1>8, <3>2, <3>3, <3>4
  <2>2. ~LogWrite(s)
    BY <1>8 DEF LogWrite, Commit, CommitAborted, CommitFails, Rollback, Disconnect, InTx
  <2> QED BY <1>2, <2>1, <2>2
<1>9. CASE LogWrite(s)
  <2>1. conn' = [conn EXCEPT ![s] = c] /\ c.pc = "sync"
    BY <1>0, <1>9 DEF LogWrite, Conns
  <2> QED BY <1>2, <1>9, <2>1
<1>10. CASE InlineAuditFails(s) \/ LogStatement(s) \/ LogSync(s) \/ LogBegin(s)
  <2>1. conn' = [conn EXCEPT ![s] = c] /\ c.pc \in {"idle", "log"}
    <3>1. CASE conn' = [conn EXCEPT ![s].unlogged = FALSE] /\ LogBegin(s)
      BY <1>0, <3>1 DEF LogBegin, Conns
    <3>2. CASE \E ok, u \in BOOLEAN : Answer(s, ok, u)
      BY <1>0, <1>6, <3>2
    <3>3. conn[s].unlogged \in BOOLEAN
      BY <1>0 DEF Conns
    <3> QED BY <1>10, <3>1, <3>2, <3>3 DEF InlineAuditFails, LogStatement, LogSync, LogBegin
  <2>2. ~LogWrite(s)
    <3>1. ASSUME LogWrite(s) PROVE c.pc = "sync"
      BY <1>0, <3>1 DEF LogWrite, Conns
    <3> QED BY <2>1, <3>1
  <2> QED BY <1>2, <2>1, <2>2
<1> QED BY <1>7, <1>8, <1>9, <1>10 DEF Persist

\* Modes: what a connection does by itself.
LEMMA InlineModes ==
  ASSUME Overlap = FALSE, TypeInv, LineInv, ModeInv, NEW s \in Sessions,
         \/ Inline(s) \/ Begin(s) \/ Statement(s) \/ StatementFails(s) \/ Commit(s)
         \/ CommitAborted(s) \/ CommitFails(s) \/ Rollback(s) \/ Disconnect(s)
         \/ Persist(s) \/ InlineAuditFails(s)
  PROVE  ModeInv' /\ Sole(s) /\ Sole(s)'
<1>1. Sole(s)
  BY InlineIsSole
<1>2. PICK c \in Conns : /\ conn' = [conn EXCEPT ![s] = c] /\ c.pc \in {"idle", "log", "sync"}
                         /\ c.pc = "sync" <=> LogWrite(s)
  BY InlineConn
<1>3. queue' = queue /\ leader' = leader /\ round' = round /\ ckpt' = ckpt
  BY DEF Inline, Begin, Statement, StatementFails, Commit, CommitAborted, CommitFails, Rollback, Disconnect,
     Persist, InlineAuditFails, LogBegin, LogStatement, LogWrite, LogSync, queueVars
<1>4. mutex' # {} <=> c.pc = "sync"
  <2>1. CASE LogWrite(s)
    BY <1>2, <2>1 DEF LogWrite
  <2>2. CASE ~LogWrite(s) /\ LogSync(s)
    BY <1>2, <2>2 DEF LogSync
  <2>3. CASE ~LogWrite(s) /\ ~LogSync(s)
    <3>1. mutex' = mutex /\ conn[s].pc # "sync"
      BY <2>3 DEF Inline, Begin, Statement, StatementFails, Commit, CommitAborted, CommitFails, Rollback, Disconnect,
         Persist, InlineAuditFails, LogBegin, LogStatement, logVars, AtRest, InTx
    <3> QED BY <1>1, <1>2, <2>3, <3>1 DEF Sole
  <2> QED BY <2>1, <2>2, <2>3
<1>5. conn \in [Sessions -> Conns]
  BY DEF TypeInv
<1> QED BY <1>1, <1>2, <1>3, <1>4, <1>5, SoleStep

\* Modes: the flusher, CHECKPOINT and a crash.
LEMMA OtherModes ==
  ASSUME Overlap = FALSE, TypeInv, ModeInv,
         Flush \/ CkptSnapshot \/ CkptInstall \/ CkptTruncate \/ Crash \/ Read \/ UNCHANGED vars
  PROVE  ModeInv'
<1>1. CASE Crash
  <2>1. /\ \A s \in Sessions : conn'[s].pc = "idle" /\ conn'[s].tx = 0
        /\ queue' = <<>> /\ leader' = {} /\ round'.stage = "none" /\ round'.tasks = <<>> /\ ckpt'.pc = "idle"
        /\ mutex' = {}
    BY <1>1 DEF Crash, Fresh, NoRound, NoCkpt
  <2>2. Member(<<>>) = {} /\ Distinct(<<>>)
    BY DEF Member, Distinct
  <2>3. SoloInv' /\ MutexInv'
    BY <2>1 DEF SoloInv, MutexInv, Solo, Pending
  <2>4. QueueInv'
    BY <2>1, <2>2 DEF QueueInv
  <2> QED BY <2>3, <2>4 DEF ModeInv
<1>2. CASE ~Crash
  <2>1. conn' = conn /\ queue' = queue /\ leader' = leader /\ round' = round /\ mutex' = mutex
    BY <1>2 DEF Flush, CkptSnapshot, CkptInstall, CkptTruncate, Read, vars, logVars, queueVars
  <2>2. ckpt'.pc # "idle" => \A s \in Sessions : AtRest(s)
    <3>1. CASE CkptSnapshot
      BY <3>1 DEF CkptSnapshot
    <3>2. CASE ~CkptSnapshot
      <4>1. ckpt'.pc # "idle" => ckpt.pc # "idle"
        BY <1>2, <3>2 DEF Flush, CkptInstall, CkptTruncate, Read, vars, NoCkpt
      <4> QED BY <4>1 DEF ModeInv, SoloInv
    <3> QED BY <3>1, <3>2
  <2>3. SoloInv'
    BY <2>1, <2>2 DEF ModeInv, SoloInv, Solo, Pending, AtRest
  <2>4. QueueInv' /\ MutexInv'
    BY <2>1 DEF ModeInv, QueueInv, MutexInv
  <2> QED BY <2>3, <2>4 DEF ModeInv
<1> QED BY <1>1, <1>2

---------------------------------------------------------------------------
(* What appending, cutting back and truncating do to a log.                *)

\* One more record: the lines, the ends and the commits the log then has.
LEMMA AppendLog ==
  ASSUME NEW lg \in Seq(LogRecs), NEW r \in LogRecs
  PROVE  LET l2 == Append(lg, r)
         IN  /\ \A w : HasWrite(l2, w) <=> HasWrite(lg, w) \/ (r.kind = "SQL" /\ r.w = w)
             /\ \A t, w : HasLine(l2, t, w) <=> HasLine(lg, t, w) \/ (r.kind = "SQL" /\ r.tx = t /\ r.w = w)
             /\ \A t : HasEnd(l2, t) <=> HasEnd(lg, t) \/ (r.kind \in Ends /\ r.tx = t)
             /\ \A w, n : n \in 0 .. Len(lg) => (CommitsIn(l2, n, w) <=> CommitsIn(lg, n, w))
             /\ \A w : CommitsIn(l2, Len(l2), w) =>
                  \/ CommitsIn(lg, Len(lg), w)
                  \/ r.kind = "SQL" /\ r.w = w /\ (r.tx = 0 \/ HasEnd(lg, r.tx))
                  \/ r.kind = "COMMIT" /\ r.tx # 0 /\ HasLine(lg, r.tx, w)
             /\ \A w : r.kind = "SQL" /\ r.w = w /\ r.tx = 0 => CommitsIn(l2, Len(l2), w)
             /\ \A w : r.kind = "COMMIT" /\ HasLine(lg, r.tx, w) => CommitsIn(l2, Len(l2), w)
             /\ Len(l2) = Len(lg) + 1 /\ l2[Len(lg) + 1] = r
<1> DEFINE l2 == Append(lg, r)
           n == Len(lg)
<1>1. n \in Nat /\ Len(l2) = n + 1 /\ l2[n + 1] = r /\ \A i \in 1 .. n : l2[i] = lg[i]
  OBVIOUS
<1>2. \A i : i \in 1 .. (n + 1) <=> i \in 1 .. n \/ i = n + 1
  BY <1>1
<1> HIDE DEF l2, n
<1>3. \A w : HasWrite(l2, w) <=> HasWrite(lg, w) \/ (r.kind = "SQL" /\ r.w = w)
  BY <1>1, <1>2 DEF HasWrite, n
<1>4. \A t, w : HasLine(l2, t, w) <=> HasLine(lg, t, w) \/ (r.kind = "SQL" /\ r.tx = t /\ r.w = w)
  BY <1>1, <1>2 DEF HasLine, n
<1>5. \A t : HasEnd(l2, t) <=> HasEnd(lg, t) \/ (r.kind \in Ends /\ r.tx = t)
  BY <1>1, <1>2 DEF HasEnd, n
<1>6. ASSUME NEW w, NEW k \in 0 .. n PROVE CommitsIn(l2, k, w) <=> CommitsIn(lg, k, w)
  <2>1. \A i \in 1 .. k : l2[i] = lg[i]
    BY <1>1
  <2> QED BY <2>1 DEF CommitsIn
<1>7. ASSUME NEW w, CommitsIn(l2, n + 1, w)
      PROVE  \/ CommitsIn(lg, n, w)
             \/ r.kind = "SQL" /\ r.w = w /\ (r.tx = 0 \/ HasEnd(lg, r.tx))
             \/ r.kind = "COMMIT" /\ r.tx # 0 /\ HasLine(lg, r.tx, w)
  <2>1. PICK i \in 1 .. (n + 1) :
          /\ l2[i].kind = "SQL" /\ l2[i].w = w
          /\ l2[i].tx = 0 \/ \E k \in 1 .. (n + 1) : l2[k].kind = "COMMIT" /\ l2[k].tx = l2[i].tx
    BY <1>7 DEF CommitsIn
  <2>2. CASE i = n + 1
    BY <1>1, <1>2, <2>1, <2>2 DEF HasEnd, Ends, n
  <2>3. CASE i \in 1 .. n /\ l2[i].tx = 0
    BY <1>1, <2>1, <2>3 DEF CommitsIn
  <2>4. CASE i \in 1 .. n /\ l2[i].tx # 0
    <3>1. PICK k \in 1 .. (n + 1) : l2[k].kind = "COMMIT" /\ l2[k].tx = l2[i].tx
      BY <2>1, <2>4
    <3>2. CASE k = n + 1
      BY <1>1, <2>1, <2>4, <3>1, <3>2 DEF HasLine, n
    <3>3. CASE k \in 1 .. n
      BY <1>1, <2>1, <2>4, <3>1, <3>3 DEF CommitsIn
    <3> QED BY <1>2, <3>2, <3>3
  <2> QED BY <1>2, <2>2, <2>3, <2>4
<1>8. \A w : r.kind = "SQL" /\ r.w = w /\ r.tx = 0 => CommitsIn(l2, n + 1, w)
  BY <1>1, <1>2 DEF CommitsIn
<1>9. \A w : r.kind = "COMMIT" /\ HasLine(lg, r.tx, w) => CommitsIn(l2, n + 1, w)
  BY <1>1, <1>2 DEF CommitsIn, HasLine, n
<1> QED BY <1>1, <1>3, <1>4, <1>5, <1>6, <1>7, <1>8, <1>9 DEF l2, n

\* One more record: the log stays good if the write is new and its
\* transaction has not ended.
LEMMA AppendGood ==
  ASSUME NEW lg \in Seq(LogRecs), NEW r \in LogRecs, NEW cnt, GoodLog(lg, cnt), cnt \in Counts,
         r.kind = "SQL" => r.w \in 1 .. cnt.writes /\ ~HasWrite(lg, r.w),
         r.tx # 0 => ~HasEnd(lg, r.tx), r.tx <= cnt.txs
  PROVE  GoodLog(Append(lg, r), cnt)
<1> DEFINE l2 == Append(lg, r)
           n == Len(lg)
<1>1. n \in Nat /\ Len(l2) = n + 1 /\ l2[n + 1] = r /\ \A i \in 1 .. n : l2[i] = lg[i]
  OBVIOUS
<1>2. \A i : i \in 1 .. (n + 1) <=> i \in 1 .. n \/ i = n + 1
  BY <1>1
<1> HIDE DEF l2, n
<1>3. OneLineEach(l2)
  BY <1>1, <1>2 DEF GoodLog, OneLineEach, HasWrite, n
<1>4. EndsLast(l2)
  <2> SUFFICES ASSUME NEW i \in 1 .. (n + 1), NEW j \in 1 .. (n + 1), i < j, l2[i].kind \in Ends, l2[i].tx # 0
               PROVE  l2[j].tx # l2[i].tx
    BY <1>1 DEF EndsLast
  <2>1. i \in 1 .. n
    BY <1>1
  <2>2. CASE j \in 1 .. n
    BY <1>1, <2>1, <2>2 DEF GoodLog, EndsLast, n
  <2>3. CASE j = n + 1
    BY <1>1, <2>1, <2>3 DEF HasEnd, n
  <2> QED BY <1>2, <2>2, <2>3
<1>5. \A i \in 1 .. (n + 1) : /\ l2[i].kind = "SQL" => l2[i].w \in 1 .. cnt.writes
                              /\ l2[i].tx <= cnt.txs
  BY <1>1, <1>2 DEF GoodLog, n
<1> QED BY <1>1, <1>3, <1>4, <1>5 DEF GoodLog, l2

\* A log that is cut off.
LEMMA CutLog ==
  ASSUME NEW lg \in Seq(LogRecs), NEW cnt, GoodLog(lg, cnt), NEW n \in 0 .. Len(lg)
  PROVE  LET p == SubSeq(lg, 1, n)
         IN  /\ p \in Seq(LogRecs) /\ Len(p) = n /\ GoodLog(p, cnt)
             /\ \A i \in 1 .. n : p[i] = lg[i]
             /\ WellBracketed(lg) => WellBracketed(p)
             /\ \A w : HasWrite(p, w) => HasWrite(lg, w)
             /\ \A w, k : k \in 0 .. n => (CommitsIn(p, k, w) <=> CommitsIn(lg, k, w))
<1> DEFINE p == SubSeq(lg, 1, n)
<1>1. /\ p \in Seq(LogRecs) /\ Len(p) = n /\ OneLineEach(p) /\ EndsLast(p)
      /\ \A i \in 1 .. n : p[i] = lg[i]
      /\ WellBracketed(lg) => WellBracketed(p)
  BY PrefixTrusted DEF GoodLog
<1>2. \A i \in 1 .. n : i \in 1 .. Len(lg)
  OBVIOUS
<1> HIDE DEF p
<1>3. GoodLog(p, cnt)
  BY <1>1, <1>2 DEF GoodLog
<1>4. \A w : HasWrite(p, w) => HasWrite(lg, w)
  BY <1>1, <1>2 DEF HasWrite
<1>5. ASSUME NEW w, NEW k \in 0 .. n PROVE CommitsIn(p, k, w) <=> CommitsIn(lg, k, w)
  <2>1. \A i \in 1 .. k : p[i] = lg[i]
    BY <1>1
  <2> QED BY <2>1 DEF CommitsIn
<1> QED BY <1>1, <1>3, <1>4, <1>5 DEF p

\* The more of the log is read, the more it commits; what it commits it has.
LEMMA CommitsMore ==
  ASSUME NEW lg \in Seq(LogRecs), NEW n \in 0 .. Len(lg), NEW m \in 0 .. n, NEW w
  PROVE  /\ CommitsIn(lg, m, w) => CommitsIn(lg, n, w)
         /\ CommitsIn(lg, n, w) => HasWrite(lg, w)
<1>1. \A i \in 1 .. m : i \in 1 .. n
  OBVIOUS
<1>2. \A i \in 1 .. n : i \in 1 .. Len(lg)
  OBVIOUS
<1> QED BY <1>1, <1>2 DEF CommitsIn, HasWrite

---------------------------------------------------------------------------
(* One connection alone: what the invariant asks then.                     *)

\* The log, when all but s are at rest.
LEMMA SoleLog ==
  ASSUME NEW s \in Sessions, Sole(s)',
         GoodLog(log', count'), TxLog(conn'[s], log', count'), LineLog(conn'[s], log', count', mark')
  PROVE  LogInv'
<1>1. \A o \in Sessions : o # s => conn'[o].pc = "idle" /\ conn'[o].tx = 0
  BY DEF Sole, AtRest
<1>2. conn'[s].pc \in {"idle", "log", "sync"} /\ round'.stage = "none"
  BY DEF Sole
<1>3. \A o \in Sessions : TxLog(conn'[o], log', count') /\ LineLog(conn'[o], log', count', mark')
  BY <1>1 DEF TxLog, LineLog
<1>4. \A o \in Sessions : QueuedLog(o)'
  BY <1>1, <1>2 DEF QueuedLog
<1>5. GroupLog'
  BY <1>2 DEF GroupLog
<1> QED BY <1>3, <1>4, <1>5 DEF LogInv

\* What the clients know.
LEMMA SoleTold ==
  ASSUME NEW s \in Sessions, Sole(s)', LineInv',
         NEW w \in Writes, w > count'.writes => told'[w] = "nothing",
         ToldOf(conn'[s], told'[w], w)
  PROVE  /\ w > count'.writes => told'[w] = "nothing"
         /\ \A o \in Sessions : ToldOf(conn'[o], told'[w], w)
<1>1. \A o \in Sessions : o # s => conn'[o].pc = "idle" /\ conn'[o].tx = 0 /\ conn'[o].shadow = {}
  BY DEF Sole, AtRest, LineInv, Lined
<1> QED BY <1>1 DEF ToldOf

\* Memory and snapshot.
LEMMA SoleMem ==
  ASSUME NEW s \in Sessions, Sole(s)', LineInv',
         \A w \in Writes : MemLog(w)' /\ MemOf(conn'[s], log', mem', db', w)
  PROVE  MemInv'
<1>1. \A o \in Sessions : o # s => conn'[o].pc = "idle" /\ conn'[o].tx = 0 /\ conn'[o].shadow = {}
  BY DEF Sole, AtRest, LineInv, Lined
<1>2. conn'[s].pc \in {"idle", "log", "sync"} /\ round'.stage = "none" /\ ckpt'.pc = "idle"
  BY DEF Sole
<1>3. \A w \in Writes : \A o \in Sessions : MemOf(conn'[o], log', mem', db', w)
  BY <1>1 DEF MemOf
<1>4. \A o \in Sessions : QueuedMem(o)'
  BY <1>1, <1>2 DEF QueuedMem
<1>5. GroupMem' /\ CkptMem'
  BY <1>2 DEF GroupMem, CkptMem
<1> QED BY <1>3, <1>4, <1>5 DEF MemInv

\* Alone, s carries the whole invariant.
LEMMA SoleKeeps ==
  ASSUME NEW s \in Sessions, Sole(s)', LineInv', clean' = clean,
         GoodLog(log', count'), TxLog(conn'[s], log', count'), LineLog(conn'[s], log', count', mark'),
         \A w \in Writes : /\ w > count'.writes => told'[w] = "nothing"
                           /\ ToldOf(conn'[s], told'[w], w),
         clean => \A w \in Writes : MemLog(w)' /\ MemOf(conn'[s], log', mem', db', w)
  PROVE  LogInv' /\ ToldInv' /\ (clean' => MemInv')
<1>1. LogInv'
  BY SoleLog
<1>2. ToldInv'
  BY SoleTold DEF ToldInv
<1>3. clean' => MemInv'
  BY SoleMem
<1> QED BY <1>1, <1>2, <1>3

\* What the invariant says of s.
LEMMA SoleHas ==
  ASSUME RecoveryInv, NEW s \in Sessions
  PROVE  /\ conn[s] \in Conns /\ Lined(conn[s]) /\ conn \in [Sessions -> Conns] /\ log \in Seq(LogRecs)
         /\ conn[s].shadow \in SUBSET Writes /\ conn[s].good \in SUBSET Writes /\ conn[s].rec \in LogRecs
         /\ conn[s].tx \in Nat /\ count \in Counts /\ count.writes \in Nat /\ count.txs \in Nat
         /\ mem \in Databases /\ db \in Databases /\ told \in [Writes -> Fates]
         /\ synced \in 0 .. Len(log) /\ mark \in 0 .. Len(log) /\ Len(log) \in Nat
         /\ GoodLog(log, count) /\ TxLog(conn[s], log, count) /\ LineLog(conn[s], log, count, mark)
         /\ \A w \in Writes : /\ w > count.writes => told[w] = "nothing"
                              /\ ToldOf(conn[s], told[w], w)
         /\ clean => \A w \in Writes : MemLog(w) /\ MemOf(conn[s], log, mem, db, w)
<1>1. conn[s] \in Conns /\ conn \in [Sessions -> Conns] /\ count \in Counts /\ log \in Seq(LogRecs)
      /\ mem \in Databases /\ db \in Databases /\ told \in [Writes -> Fates]
      /\ synced \in 0 .. Len(log) /\ mark \in 0 .. Len(log) /\ Len(log) \in Nat
  BY DEF RecoveryInv, TypeInv
<1>2. /\ conn[s].shadow \in SUBSET Writes /\ conn[s].good \in SUBSET Writes /\ conn[s].rec \in LogRecs
      /\ conn[s].tx \in 0 .. MaxTx /\ count.writes \in 0 .. MaxWrites /\ count.txs \in 0 .. MaxTx
  BY <1>1 DEF Conns, Counts
<1>3. Lined(conn[s])
  BY DEF RecoveryInv, LineInv
<1>4. GoodLog(log, count) /\ TxLog(conn[s], log, count) /\ LineLog(conn[s], log, count, mark)
  BY DEF RecoveryInv, LogInv
<1>5. \A w \in Writes : /\ w > count.writes => told[w] = "nothing"
                        /\ ToldOf(conn[s], told[w], w)
  BY DEF RecoveryInv, ToldInv
<1>6. clean => \A w \in Writes : MemLog(w) /\ MemOf(conn[s], log, mem, db, w)
  BY DEF RecoveryInv, MemInv
<1> QED BY <1>1, <1>2, <1>3, <1>4, <1>5, <1>6, WalRecordsAssumption, ServerWalAssumption

\* A write that has not been given out is in no line.
LEMMA NewIsNew ==
  ASSUME NEW lg \in Seq(LogRecs), NEW cnt \in Counts, GoodLog(lg, cnt), NEW w \in Nat, w > cnt.writes
  PROVE  ~HasWrite(lg, w)
<1>1. cnt.writes \in Nat
  BY WalRecordsAssumption DEF Counts
<1> QED BY <1>1 DEF GoodLog, HasWrite

\* The ghost of a line is a number.
LEMMA LineTx ==
  ASSUME NEW lg \in Seq(LogRecs), NEW i \in 1 .. Len(lg)
  PROVE  lg[i].tx \in Nat
<1>1. MaxTx \in Nat
  BY ServerWalAssumption
<1>2. lg[i] \in LogRecs
  OBVIOUS
<1>3. lg[i].tx \in 0 .. MaxTx
  BY <1>2 DEF LogRecs
<1> QED BY <1>1, <1>3

\* Fewer writes and transactions than there now are.
LEMMA GoodGrows ==
  ASSUME NEW lg \in Seq(LogRecs), NEW cnt, GoodLog(lg, cnt), NEW cnt2,
         cnt.writes \in Nat, cnt.txs \in Nat, cnt2.writes \in Nat, cnt2.txs \in Nat,
         cnt.writes <= cnt2.writes, cnt.txs <= cnt2.txs
  PROVE  GoodLog(lg, cnt2)
<1>1. \A i \in 1 .. Len(lg) : lg[i].tx \in Nat
  BY LineTx
<1> QED BY <1>1 DEF GoodLog

\* The invariant: an autocommit statement on the inline path.
LEMMA InlineKeeps ==
  ASSUME RecoveryInv, NEW s \in Sessions, Sole(s)', LineInv', Inline(s)
  PROVE  LogInv' /\ ToldInv' /\ (clean' => MemInv')
<1> DEFINE c == conn'[s]
<1>1. /\ NewWrite \in Writes /\ NewWrite = count.writes + 1 /\ count'.writes = NewWrite /\ count'.txs = count.txs
      /\ count.writes \in Nat /\ count.txs \in Nat /\ NewWrite \in Nat
  BY SoleHas, CountType DEF Inline, Counts, NewWrite
<1>2. c.pc = "log" /\ c.tx = 0 /\ c.shadow = {} /\ c.rec = Record("SQL", 0, NewWrite)
  <2> DEFINE e == [conn[s] EXCEPT !.pc = "log", !.rec = Record("SQL", 0, NewWrite)]
  <2>1. c = e
    BY SoleHas DEF Inline
  <2>2. e.pc = "log" /\ e.tx = conn[s].tx /\ e.shadow = conn[s].shadow /\ e.rec = Record("SQL", 0, NewWrite)
    BY SoleHas DEF Conns
  <2>3. conn[s].tx = 0 /\ conn[s].shadow = {}
    BY SoleHas DEF Inline, AtRest, Lined
  <2> HIDE DEF e
  <2> QED BY <2>1, <2>2, <2>3
<1>3. c.rec.kind = "SQL" /\ c.rec.tx = 0 /\ c.rec.w = NewWrite
  BY <1>2 DEF Record
<1>4. log' = log /\ mark' = mark /\ db' = db /\ ckpt' = ckpt /\ told' = told /\ Safe' = Safe /\ clean' = clean
  BY DEF Inline, logVars, Safe
<1> HIDE DEF c
<1>5. GoodLog(log', count')
  BY <1>1, <1>4, SoleHas, GoodGrows
<1>6. ~HasWrite(log, NewWrite)
  BY <1>1, SoleHas, NewIsNew
<1>7. TxLog(c, log', count') /\ LineLog(c, log', count', mark')
  BY <1>1, <1>2, <1>3, <1>4, <1>6 DEF TxLog, LineLog, Ends
<1>8. \A w \in Writes : /\ w > count'.writes => told'[w] = "nothing"
                        /\ ToldOf(c, told'[w], w)
  <2> SUFFICES ASSUME NEW w \in Writes
               PROVE  /\ w > count'.writes => told'[w] = "nothing"
                      /\ ToldOf(c, told'[w], w)
    OBVIOUS
  <2>1. w > count.writes => told[w] = "nothing"
    BY SoleHas
  <2>2. c.rec = Record("SQL", 0, w) => w = NewWrite
    BY <1>3 DEF Record
  <2>3. w \in Nat
    BY DEF Writes
  <2> QED BY <1>1, <1>2, <1>4, <2>1, <2>2, <2>3 DEF ToldOf
<1>9. ASSUME clean, NEW w \in Writes PROVE MemLog(w)' /\ MemOf(c, log', mem', db', w)
  <2>1. MemLog(w) /\ w \in Nat
    BY <1>9, SoleHas DEF Writes
  <2>2. mem'[w] = IF w = NewWrite THEN mem[w] + 1 ELSE mem[w]
    BY DEF Inline, Plus
  <2>3. CASE w = NewWrite
    <3>1. mem[w] = 0 /\ db[w] = 0 /\ told[w] = "nothing" /\ mem'[w] = 1
      BY <1>1, <2>1, <2>2, <2>3, SoleHas DEF MemLog, Databases
    <3> QED BY <1>1, <1>2, <1>3, <1>4, <2>3, <3>1 DEF MemLog, MemOf
  <2>4. CASE w # NewWrite
    <3>1. mem'[w] = mem[w]
      BY <2>2, <2>4
    <3>2. w > count'.writes => w > count.writes
      BY <1>1, <2>1
    <3>3. c.rec # Record("SQL", 0, w)
      BY <1>3, <2>4 DEF Record
    <3> QED BY <1>2, <1>3, <1>4, <2>1, <3>1, <3>2, <3>3 DEF MemLog, MemOf
  <2> QED BY <2>3, <2>4
<1> QED BY <1>4, <1>5, <1>7, <1>8, <1>9, SoleKeeps DEF c

\* The invariant: BEGIN.
LEMMA BeginKeeps ==
  ASSUME RecoveryInv, NEW s \in Sessions, Sole(s)', LineInv', Begin(s)
  PROVE  LogInv' /\ ToldInv' /\ (clean' => MemInv')
<1> DEFINE c == conn'[s]
<1>1. /\ count'.writes = count.writes /\ count'.txs = count.txs + 1
      /\ count.writes \in Nat /\ count.txs \in Nat
  BY SoleHas DEF Begin, Counts
<1>2. c.pc = "idle" /\ c.tx = count.txs + 1 /\ c.shadow = {} /\ c.good = {}
  BY <1>1, SoleHas DEF Begin, Fresh
<1>4. log' = log /\ mark' = mark /\ db' = db /\ ckpt' = ckpt /\ told' = told /\ Safe' = Safe /\ clean' = clean
      /\ mem' = mem
  BY DEF Begin, logVars, Safe
<1> HIDE DEF c
<1>5. GoodLog(log', count')
  BY <1>1, <1>4, SoleHas, GoodGrows
<1>6. \A i \in 1 .. Len(log) : log[i].tx # c.tx
  <2>1. \A i \in 1 .. Len(log) : log[i].tx <= count.txs /\ log[i].tx \in Nat
    BY SoleHas, LineTx DEF GoodLog
  <2> QED BY <1>1, <1>2, <2>1
<1>7. TxLog(c, log', count') /\ LineLog(c, log', count', mark')
  BY <1>1, <1>2, <1>4, <1>6 DEF TxLog, LineLog, HasEnd, HasLine
<1>8. \A w \in Writes : /\ w > count'.writes => told'[w] = "nothing"
                        /\ ToldOf(c, told'[w], w)
  BY <1>1, <1>2, <1>4, SoleHas DEF ToldOf
<1>9. ASSUME clean, NEW w \in Writes PROVE MemLog(w)' /\ MemOf(c, log', mem', db', w)
  <2>1. MemLog(w)
    BY <1>9, SoleHas
  <2> QED BY <1>1, <1>2, <1>4, <2>1 DEF MemLog, MemOf
<1> QED BY <1>4, <1>5, <1>7, <1>8, <1>9, SoleKeeps DEF c

\* The invariant: a statement of a transaction.
LEMMA StatementKeeps ==
  ASSUME RecoveryInv, NEW s \in Sessions, Sole(s)', LineInv', Statement(s)
  PROVE  LogInv' /\ ToldInv' /\ (clean' => MemInv')
<1> DEFINE c == conn'[s]
<1>1. /\ NewWrite \in Writes /\ NewWrite = count.writes + 1 /\ count'.writes = NewWrite /\ count'.txs = count.txs
      /\ count.writes \in Nat /\ count.txs \in Nat /\ NewWrite \in Nat
  BY SoleHas, CountType DEF Statement, Counts, NewWrite
<1>2. c.pc = "log" /\ c.tx = conn[s].tx /\ c.shadow = conn[s].shadow \cup {NewWrite} /\ c.good = conn[s].good
      /\ c.rec = Record("SQL", conn[s].tx, NewWrite) /\ conn[s].tx # 0
  <2> DEFINE e == [conn[s] EXCEPT !.pc = "log", !.shadow = @ \cup {NewWrite},
                                  !.rec = Record("SQL", conn[s].tx, NewWrite)]
  <2>1. c = e
    BY SoleHas DEF Statement
  <2>2. e.pc = "log" /\ e.tx = conn[s].tx /\ e.shadow = conn[s].shadow \cup {NewWrite} /\ e.good = conn[s].good
        /\ e.rec = Record("SQL", conn[s].tx, NewWrite)
    BY SoleHas DEF Conns
  <2> HIDE DEF e
  <2> QED BY <2>1, <2>2 DEF Statement, InTx
<1>3. c.rec.kind = "SQL" /\ c.rec.tx = conn[s].tx /\ c.rec.w = NewWrite
  BY <1>2 DEF Record
<1>4. log' = log /\ mark' = mark /\ db' = db /\ ckpt' = ckpt /\ told' = told /\ Safe' = Safe /\ clean' = clean
      /\ mem' = mem
  BY DEF Statement, logVars, Safe
<1> HIDE DEF c
<1>5. GoodLog(log', count')
  BY <1>1, <1>4, SoleHas, GoodGrows
<1>6. ~HasWrite(log, NewWrite)
  BY <1>1, SoleHas, NewIsNew
<1>7. TxLog(c, log', count') /\ LineLog(c, log', count', mark')
  <2>1. TxLog(conn[s], log, count)
    BY SoleHas
  <2>2. \A w \in conn[s].shadow : w \in Nat
    BY SoleHas DEF Writes
  <2>3. TxLog(c, log', count')
    BY <1>1, <1>2, <1>3, <1>4, <2>1, <2>2 DEF TxLog
  <2>4. LineLog(c, log', count', mark')
    BY <1>1, <1>2, <1>3, <1>4, <1>6, <2>1 DEF TxLog, LineLog, Ends
  <2> QED BY <2>3, <2>4
<1>8. \A w \in Writes : /\ w > count'.writes => told'[w] = "nothing"
                        /\ ToldOf(c, told'[w], w)
  <2> SUFFICES ASSUME NEW w \in Writes
               PROVE  /\ w > count'.writes => told'[w] = "nothing"
                      /\ ToldOf(c, told'[w], w)
    OBVIOUS
  <2>1. (w > count.writes => told[w] = "nothing") /\ ToldOf(conn[s], told[w], w)
    BY SoleHas
  <2>2. c.rec # Record("SQL", 0, w)
    BY <1>2, <1>3 DEF Record
  <2>3. w \in Nat
    BY DEF Writes
  <2> QED BY <1>1, <1>2, <1>4, <2>1, <2>2, <2>3 DEF ToldOf
<1>9. ASSUME clean, NEW w \in Writes PROVE MemLog(w)' /\ MemOf(c, log', mem', db', w)
  <2>1. MemLog(w) /\ MemOf(conn[s], log, mem, db, w) /\ w \in Nat
    BY <1>9, SoleHas DEF Writes
  <2>2. c.rec # Record("SQL", 0, w)
    BY <1>2, <1>3 DEF Record
  <2>3. w > count'.writes => w > count.writes
    BY <1>1, <2>1
  <2>4. w = NewWrite => w > count.writes
    BY <1>1
  <2>5. MemLog(w)'
    BY <1>4, <2>1, <2>3 DEF MemLog
  <2>6. MemOf(c, log', mem', db', w)
    BY <1>2, <1>3, <1>4, <2>1, <2>2, <2>4 DEF MemLog, MemOf
  <2> QED BY <2>5, <2>6
<1> QED BY <1>4, <1>5, <1>7, <1>8, <1>9, SoleKeeps DEF c

\* Errors and faults are counted apart.
LEMMA SameCounts ==
  ASSUME count \in Counts, EngineError \/ Fault \/ UNCHANGED count
  PROVE  count'.writes = count.writes /\ count'.txs = count.txs
BY DEF EngineError, Fault, Counts

\* Counts that agree say the same of the log.
LEMMA CountsAgree ==
  ASSUME NEW lg, NEW c, NEW mk, NEW cnt, NEW cnt2, cnt2.writes = cnt.writes, cnt2.txs = cnt.txs
  PROVE  /\ GoodLog(lg, cnt) => GoodLog(lg, cnt2)
         /\ TxLog(c, lg, cnt) => TxLog(c, lg, cnt2)
         /\ LineLog(c, lg, cnt, mk) => LineLog(c, lg, cnt2, mk)
BY DEF GoodLog, TxLog, LineLog

\* The invariant: a statement the engine fails.
LEMMA StatementFailsKeeps ==
  ASSUME RecoveryInv, NEW s \in Sessions, Sole(s)', LineInv', StatementFails(s)
  PROVE  LogInv' /\ ToldInv' /\ (clean' => MemInv')
<1> DEFINE c == conn'[s]
<1>1. count'.writes = count.writes /\ count'.txs = count.txs
  BY SoleHas, SameCounts DEF StatementFails
<1>2. c.pc = "idle" /\ c.tx = conn[s].tx /\ c.shadow = conn[s].shadow /\ c.good = conn[s].good
  BY SoleHas DEF StatementFails, InTx, Conns
<1>4. log' = log /\ mark' = mark /\ db' = db /\ ckpt' = ckpt /\ told' = told /\ Safe' = Safe /\ clean' = clean
      /\ mem' = mem
  BY DEF StatementFails, logVars, Safe
<1> HIDE DEF c
<1>5. GoodLog(log', count')
  BY <1>1, <1>4, SoleHas, CountsAgree
<1>6. TxLog(conn[s], log, count) /\ \A w \in Writes : ToldOf(conn[s], told[w], w)
  BY SoleHas
<1>7. TxLog(c, log', count') /\ LineLog(c, log', count', mark')
  BY <1>1, <1>2, <1>4, <1>6 DEF TxLog, LineLog
<1>8. \A w \in Writes : /\ w > count'.writes => told'[w] = "nothing"
                        /\ ToldOf(c, told'[w], w)
  BY <1>1, <1>2, <1>4, <1>6, SoleHas DEF ToldOf
<1>9. ASSUME clean, NEW w \in Writes PROVE MemLog(w)' /\ MemOf(c, log', mem', db', w)
  <2>1. MemLog(w) /\ MemOf(conn[s], log, mem, db, w)
    BY <1>9, SoleHas
  <2> QED BY <1>1, <1>2, <1>4, <2>1 DEF MemLog, MemOf
<1> QED BY <1>4, <1>5, <1>7, <1>8, <1>9, SoleKeeps DEF c

\* The line that ends a transaction.
LEMMA EndTxIs ==
  ASSUME conn \in [Sessions -> Conns], NEW s \in Sessions, NEW line, NEW good, EndTx(s, line, good)
  PROVE  /\ conn'[s].tx = 0 /\ conn'[s].shadow = {} /\ conn'[s].pc \in {"idle", "log"}
         /\ conn'[s].pc = "log" => conn'[s].rec = line /\ conn'[s].good = good
<1>1. CASE conn[s].unlogged
  <2>1. conn'[s] = Fresh
    BY <1>1 DEF EndTx
  <2> QED BY <2>1 DEF Fresh
<1>2. CASE ~conn[s].unlogged
  <2> DEFINE e == [Fresh EXCEPT !.pc = "log", !.good = good, !.rec = line]
  <2>1. conn'[s] = e
    BY <1>2 DEF EndTx
  <2>2. e.tx = 0 /\ e.shadow = {} /\ e.pc = "log" /\ e.rec = line /\ e.good = good
    BY DEF Fresh
  <2> HIDE DEF e
  <2> QED BY <2>1, <2>2
<1> QED BY <1>1, <1>2

\* The invariant: COMMIT.
LEMMA CommitKeeps ==
  ASSUME RecoveryInv, NEW s \in Sessions, Sole(s)', LineInv', Commit(s)
  PROVE  LogInv' /\ ToldInv' /\ (clean' => MemInv')
<1> DEFINE c == conn'[s]
           line == Record("COMMIT", conn[s].tx, 0)
<1>1. count'.writes = count.writes /\ count'.txs = count.txs
  BY DEF Commit
<1>2. c.tx = 0 /\ c.shadow = {} /\ c.pc \in {"idle", "log"}
      /\ (c.pc = "log" => c.rec = line /\ c.good = conn[s].good)
  BY SoleHas, EndTxIs DEF Commit
<1>3. line.kind = "COMMIT" /\ line.tx = conn[s].tx /\ conn[s].tx # 0
  BY DEF Record, Commit, InTx
<1>4. log' = log /\ mark' = mark /\ db' = db /\ ckpt' = ckpt /\ told' = told /\ Safe' = Safe /\ clean' = clean
  BY DEF Commit, logVars, Safe
<1> HIDE DEF c, line
<1>5. GoodLog(log', count')
  BY <1>1, <1>4, SoleHas, CountsAgree
<1>6. TxLog(conn[s], log, count)
  BY SoleHas
<1>7. TxLog(c, log', count') /\ LineLog(c, log', count', mark')
  BY <1>1, <1>2, <1>3, <1>4, <1>6 DEF TxLog, LineLog
<1>8. \A w : c.pc = "log" => c.rec # Record("SQL", 0, w)
  BY <1>2, <1>3 DEF Record
<1>9. \A w \in Writes : /\ w > count'.writes => told'[w] = "nothing"
                        /\ ToldOf(c, told'[w], w)
  BY <1>1, <1>2, <1>4, <1>8, SoleHas DEF ToldOf
<1>10. ASSUME clean, NEW w \in Writes PROVE MemLog(w)' /\ MemOf(c, log', mem', db', w)
  <2>1. MemLog(w) /\ MemOf(conn[s], log, mem, db, w) /\ ToldOf(conn[s], told[w], w) /\ w \in Nat
        /\ db \in Databases /\ count.writes \in Nat
    BY <1>10, SoleHas DEF Writes
  <2>2. mem'[w] = IF w \in conn[s].shadow THEN mem[w] + 1 ELSE mem[w]
    BY DEF Commit, Plus
  <2>3. CASE w \in conn[s].shadow
    <3>1. mem[w] = 0 /\ db[w] = 0 /\ mem'[w] = 1 /\ told[w] \in {"nothing", "unsure"} /\ w <= count.writes
      BY <1>3, <1>6, <2>1, <2>2, <2>3 DEF MemLog, MemOf, ToldOf, TxLog, Databases
    <3>2. MemLog(w)'
      BY <1>1, <1>4, <2>1, <3>1 DEF MemLog
    <3>3. MemOf(c, log', mem', db', w)
      BY <1>2, <1>4, <1>8, <3>1 DEF MemOf
    <3> QED BY <3>2, <3>3
  <2>4. CASE w \notin conn[s].shadow
    <3>1. mem'[w] = mem[w]
      BY <2>2, <2>4
    <3>2. MemLog(w)'
      BY <1>1, <1>4, <2>1, <3>1 DEF MemLog
    <3>3. ~HasLine(log, conn[s].tx, w)
      BY <1>3, <1>6, <2>4 DEF TxLog
    <3>4. MemOf(c, log', mem', db', w)
      BY <1>2, <1>3, <1>4, <1>8, <3>3 DEF MemOf
    <3> QED BY <3>2, <3>4
  <2> QED BY <2>3, <2>4
<1> QED BY <1>4, <1>5, <1>7, <1>9, <1>10, SoleKeeps DEF c

\* The invariant: a transaction that is rolled back, by whatever means.
LEMMA UndoneKeeps ==
  ASSUME RecoveryInv, NEW s \in Sessions, Sole(s)', LineInv', InTx(s),
         told' = Told(conn[s].shadow, "undone"), UNCHANGED <<mem, db, logVars, ckpt, clean>>,
         count'.writes = count.writes, count'.txs = count.txs,
         conn'[s].tx = 0, conn'[s].shadow = {}, conn'[s].pc \in {"idle", "log"},
         conn'[s].pc = "log" => /\ conn'[s].rec.kind \in Ends
                                /\ conn'[s].rec.tx = 0 \/ conn'[s].rec.tx = conn[s].tx
                                /\ conn'[s].rec.kind = "COMMIT" => conn'[s].rec.tx = 0 /\ conn'[s].good = {}
  PROVE  LogInv' /\ ToldInv' /\ (clean' => MemInv')
<1> DEFINE c == conn'[s]
<1>4. log' = log /\ mark' = mark /\ db' = db /\ ckpt' = ckpt /\ Safe' = Safe /\ clean' = clean /\ mem' = mem
  BY DEF logVars, Safe
<1>5. GoodLog(log', count')
  BY <1>4, SoleHas, CountsAgree
<1>6. TxLog(conn[s], log, count) /\ conn[s].tx # 0 /\ count.writes \in Nat /\ count.txs \in Nat
  BY SoleHas DEF InTx
<1>7. TxLog(c, log', count') /\ LineLog(c, log', count', mark')
  BY <1>4, <1>6 DEF TxLog, LineLog, Ends
<1>8. \A w : c.pc = "log" => c.rec # Record("SQL", 0, w)
  BY DEF Record, Ends
<1>9. ASSUME NEW w \in Writes
      PROVE  /\ told'[w] = IF w \in conn[s].shadow THEN "undone" ELSE told[w]
             /\ w \in conn[s].shadow => w <= count.writes
             /\ w \in Nat
  BY <1>6 DEF Told, TxLog, Writes
<1>10. \A w \in Writes : /\ w > count'.writes => told'[w] = "nothing"
                        /\ ToldOf(c, told'[w], w)
  <2> SUFFICES ASSUME NEW w \in Writes
               PROVE  (w > count'.writes => told'[w] = "nothing") /\ ToldOf(c, told'[w], w)
    OBVIOUS
  <2>1. w > count.writes => told[w] = "nothing"
    BY SoleHas
  <2> QED BY <1>6, <1>8, <1>9, <2>1 DEF ToldOf
<1>11. ASSUME clean, NEW w \in Writes PROVE MemLog(w)' /\ MemOf(c, log', mem', db', w)
  <2>1. MemLog(w) /\ MemOf(conn[s], log, mem, db, w)
    BY <1>11, SoleHas
  <2>2. MemLog(w)'
    BY <1>4, <1>9, <2>1 DEF MemLog, MemOf
  <2>3. MemOf(c, log', mem', db', w)
    BY <1>4, <1>8 DEF MemOf
  <2> QED BY <2>2, <2>3
<1> QED BY <1>4, <1>5, <1>7, <1>10, <1>11, SoleKeeps DEF c

\* The invariant: the ways a transaction is rolled back.
LEMMA RolledBackKeeps ==
  ASSUME RecoveryInv, NEW s \in Sessions, Sole(s)', LineInv',
         CommitAborted(s) \/ CommitFails(s) \/ Rollback(s) \/ Disconnect(s)
  PROVE  LogInv' /\ ToldInv' /\ (clean' => MemInv')
<1>1. /\ InTx(s) /\ told' = Told(conn[s].shadow, "undone") /\ UNCHANGED <<mem, db, logVars, ckpt, clean>>
  BY DEF CommitAborted, CommitFails, Rollback, Disconnect
<1>2. count'.writes = count.writes /\ count'.txs = count.txs
  BY SoleHas, SameCounts DEF CommitAborted, CommitFails, Rollback, Disconnect
<1> DEFINE End == /\ conn'[s].tx = 0 /\ conn'[s].shadow = {} /\ conn'[s].pc \in {"idle", "log"}
                  /\ conn'[s].pc = "log" =>
                       /\ conn'[s].rec.kind \in Ends
                       /\ conn'[s].rec.tx = 0 \/ conn'[s].rec.tx = conn[s].tx
                       /\ conn'[s].rec.kind = "COMMIT" => conn'[s].rec.tx = 0 /\ conn'[s].good = {}
<1>3. CASE CommitAborted(s)
  <2> DEFINE line == Record("COMMIT", 0, 0)
  <2>1. line.kind = "COMMIT" /\ line.tx = 0 /\ EndTx(s, line, {})
    BY <1>3 DEF CommitAborted, Record
  <2> HIDE DEF line
  <2>2. End
    BY <2>1, SoleHas, EndTxIs DEF Ends
  <2> QED BY <1>1, <1>2, <2>2, UndoneKeeps
<1>4. CASE Rollback(s)
  <2> DEFINE line == Record("ROLLBACK", conn[s].tx, 0)
  <2>1. line.kind = "ROLLBACK" /\ line.tx = conn[s].tx /\ EndTx(s, line, {})
    BY <1>4 DEF Rollback, Record
  <2> HIDE DEF line
  <2>2. End
    BY <2>1, SoleHas, EndTxIs DEF Ends
  <2> QED BY <1>1, <1>2, <2>2, UndoneKeeps
<1>5. CASE CommitFails(s) \/ Disconnect(s)
  <2>1. conn'[s].tx = 0 /\ conn'[s].shadow = {} /\ conn'[s].pc = "idle"
    BY <1>5, SoleHas DEF CommitFails, Disconnect, Fresh
  <2> QED BY <1>1, <1>2, <2>1, UndoneKeeps
<1> QED BY <1>3, <1>4, <1>5

\* The writes whose fate an answer tells.
Done(c, ok) ==
  {w \in Writes : \/ c.rec.kind = "COMMIT" /\ w \in c.good
                  \/ c.rec.kind = "SQL" /\ w = c.rec.w /\ (c.rec.tx = 0 \/ ~ok)}

\* An answer: what becomes of the connection and what its client learns.
LEMMA AnswerSays ==
  ASSUME TypeInv, LineInv, NEW s \in Sessions, Pending(s), NEW ok \in BOOLEAN, NEW u \in BOOLEAN, Answer(s, ok, u)
  PROVE  /\ conn'[s].pc = "idle" /\ conn'[s].tx = conn[s].tx /\ conn'[s].shadow = conn[s].shadow
         /\ conn[s].tx # 0 => conn'[s].good = IF ok THEN conn[s].good \cup {conn[s].rec.w} ELSE conn[s].good
         /\ \A w \in Writes :
              told'[w] = IF w \in Done(conn[s], ok) THEN (IF ok THEN "acked" ELSE "unsure") ELSE told[w]
         /\ conn[s].tx # 0 => conn[s].rec.kind = "SQL" /\ conn[s].rec.tx # 0
<1> DEFINE c == conn[s]
           d == conn'[s]
<1>0. c \in Conns /\ Lined(c) /\ c.rec \in LogRecs /\ conn \in [Sessions -> Conns]
      /\ c.shadow \in SUBSET Writes /\ c.good \in SUBSET Writes /\ c.pc \in {"log", "sync"}
  BY DEF Pending, TypeInv, LineInv, Conns
<1>1. c.tx = 0 => d = [Fresh EXCEPT !.unlogged = u] /\ c.shadow = {}
  BY <1>0 DEF Answer, Lined
<1>2. c.tx # 0 => d = [c EXCEPT !.pc = "idle", !.unlogged = u, !.good = IF ok THEN @ \cup {c.rec.w} ELSE @]
  BY <1>0 DEF Answer
<1>3. d.pc = "idle" /\ d.tx = c.tx /\ d.shadow = c.shadow
  <2>1. CASE c.tx = 0
    BY <1>1, <2>1 DEF Fresh
  <2>2. CASE c.tx # 0
    BY <1>0, <1>2, <2>2 DEF Conns
  <2> QED BY <2>1, <2>2
<1>4. c.tx # 0 => d.good = IF ok THEN c.good \cup {c.rec.w} ELSE c.good
  BY <1>0, <1>2 DEF Conns
<1>5. c.tx # 0 => c.rec.kind = "SQL" /\ c.rec.tx # 0
  BY <1>0 DEF Lined
<1>6. \A w \in Writes :
        told'[w] = IF w \in Done(c, ok) THEN (IF ok THEN "acked" ELSE "unsure") ELSE told[w]
  <2> SUFFICES ASSUME NEW w \in Writes
               PROVE  told'[w] = IF w \in Done(c, ok) THEN (IF ok THEN "acked" ELSE "unsure") ELSE told[w]
    OBVIOUS
  <2>1. CASE c.rec.kind = "COMMIT"
    <3>1. told' = Told(c.good, IF ok THEN "acked" ELSE "unsure")
      BY <2>1 DEF Answer
    <3> QED BY <2>1, <3>1 DEF Told, Done
  <2>2. CASE c.rec.kind = "ROLLBACK"
    <3>1. told' = Told({}, IF ok THEN "acked" ELSE "unsure")
      BY <2>2 DEF Answer
    <3> QED BY <2>2, <3>1 DEF Told, Done
  <2>3. CASE c.rec.kind = "SQL" /\ c.rec.tx = 0
    <3>1. told' = Told({c.rec.w}, IF ok THEN "acked" ELSE "unsure")
      BY <2>3 DEF Answer
    <3> QED BY <2>3, <3>1 DEF Told, Done
  <2>4. CASE c.rec.kind = "SQL" /\ c.rec.tx # 0
    <3>1. told' = Told({c.rec.w} \ {v \in Writes : ok}, IF ok THEN "acked" ELSE "unsure")
      BY <2>4 DEF Answer
    <3>2. c.rec.w \in Writes
      BY <1>0, <2>4 DEF Lined
    <3> QED BY <2>4, <3>1, <3>2 DEF Told, Done
  <2>5. c.rec.kind \in {"SQL", "COMMIT", "ROLLBACK"}
    BY <1>0 DEF Lined, LogRecs, Ends
  <2> QED BY <2>1, <2>2, <2>3, <2>4, <2>5
<1> QED BY <1>3, <1>4, <1>5, <1>6

\* An answer tells of writes there have been.
LEMMA AnswerIs ==
  ASSUME RecoveryInv, NEW s \in Sessions, Pending(s), NEW ok \in BOOLEAN, NEW u \in BOOLEAN, Answer(s, ok, u)
  PROVE  /\ conn'[s].pc = "idle" /\ conn'[s].tx = conn[s].tx /\ conn'[s].shadow = conn[s].shadow
         /\ conn[s].tx # 0 => conn'[s].good = IF ok THEN conn[s].good \cup {conn[s].rec.w} ELSE conn[s].good
         /\ \A w \in Writes :
              told'[w] = IF w \in Done(conn[s], ok) THEN (IF ok THEN "acked" ELSE "unsure") ELSE told[w]
         /\ \A w \in Done(conn[s], ok) : w <= count.writes
         /\ conn[s].tx # 0 => conn[s].rec.kind = "SQL" /\ conn[s].rec.tx # 0
<1> DEFINE c == conn[s]
<1>0. c \in Conns /\ Lined(c) /\ c.rec \in LogRecs /\ conn \in [Sessions -> Conns]
      /\ c.shadow \in SUBSET Writes /\ c.good \in SUBSET Writes /\ c.pc \in {"log", "sync"}
  BY SoleHas DEF Pending
<1>7. \A w \in Done(c, ok) : w <= count.writes
  <2>1. LineLog(c, log, count, mark) /\ GoodLog(log, count) /\ count.writes \in Nat
    BY SoleHas
  <2>2. \A w \in c.good : c.rec.kind = "COMMIT" => HasLine(log, c.rec.tx, w)
    BY <1>0, <2>1 DEF LineLog
  <2>3. \A t, w : HasLine(log, t, w) => w <= count.writes
    BY <2>1 DEF HasLine, GoodLog
  <2>4. c.rec.kind = "SQL" => c.rec.w <= count.writes
    BY <1>0, <2>1 DEF LineLog
  <2> QED BY <2>2, <2>3, <2>4 DEF Done
<1> QED BY <1>7, AnswerSays DEF RecoveryInv

\* The invariant: an answer, given what became of the log.
LEMMA AnswerKeeps ==
  ASSUME RecoveryInv, NEW s \in Sessions, Sole(s)', LineInv', Pending(s), NEW ok \in BOOLEAN, NEW u \in BOOLEAN,
         Answer(s, ok, u), UNCHANGED <<mem, db, ckpt, clean>>, count'.writes = count.writes, count'.txs = count.txs,
         GoodLog(log', count'), TxLog(conn'[s], log', count'),
         clean => \A w \in Writes :
           /\ CommitsIn(log', Len(log'), w) => mem[w] = 1
           /\ HasWrite(log', w) /\ ckpt.pc # "installed" => db[w] = 0
           /\ told'[w] = "acked" => mem[w] = 1 /\ (db[w] = 1 \/ CommitsIn(log', Safe', w))
  PROVE  LogInv' /\ ToldInv' /\ (clean' => MemInv')
<1> DEFINE c == conn[s]
           d == conn'[s]
<1>1. /\ d.pc = "idle" /\ d.tx = c.tx /\ d.shadow = c.shadow
      /\ \A w \in Writes :
           told'[w] = IF w \in Done(c, ok) THEN (IF ok THEN "acked" ELSE "unsure") ELSE told[w]
      /\ \A w \in Done(c, ok) : w <= count.writes
      /\ c.tx # 0 => c.rec.kind = "SQL" /\ c.rec.tx # 0
  BY AnswerIs
<1>2. LineLog(d, log', count', mark')
  BY <1>1 DEF LineLog
<1>3. c.tx = 0 => c.shadow = {}
  BY SoleHas DEF Lined
<1>4. count.writes \in Nat
  BY SoleHas
<1>5. ASSUME NEW w \in Writes
      PROVE  (w > count'.writes => told'[w] = "nothing") /\ ToldOf(d, told'[w], w)
  <2>1. (w > count.writes => told[w] = "nothing") /\ ToldOf(c, told[w], w) /\ w \in Nat
    BY SoleHas DEF Writes
  <2>2. w > count'.writes => told'[w] = "nothing"
    BY <1>1, <1>4, <2>1
  <2>3. w \in d.shadow => told'[w] \in {"nothing", "unsure"}
    <3> SUFFICES ASSUME w \in d.shadow PROVE told'[w] \in {"nothing", "unsure"}
      OBVIOUS
    <3>1. c.tx # 0 /\ c.rec.kind = "SQL" /\ c.rec.tx # 0
      BY <1>1, <1>3
    <3>2. w \in Done(c, ok) => ~ok
      BY <3>1 DEF Done
    <3>3. told[w] \in {"nothing", "unsure"}
      BY <1>1, <2>1 DEF ToldOf
    <3> QED BY <1>1, <3>2, <3>3
  <2> QED BY <1>1, <2>2, <2>3 DEF ToldOf
<1>6. ASSUME clean, NEW w \in Writes PROVE MemLog(w)' /\ MemOf(d, log', mem', db', w)
  <2>1. MemLog(w) /\ MemOf(c, log, mem, db, w)
    BY <1>6, SoleHas
  <2>2. told'[w] \in {"refused", "undone"} => told'[w] = told[w]
    BY <1>1
  <2>3. MemLog(w)'
    BY <1>6, <2>1, <2>2 DEF MemLog
  <2>4. MemOf(d, log', mem', db', w)
    BY <1>1, <2>1 DEF MemOf
  <2> QED BY <2>3, <2>4
<1> QED BY <1>2, <1>5, <1>6, SoleKeeps

\* The invariant: "durability append failed", and nothing was appended.
LEMMA FailedKeeps ==
  ASSUME RecoveryInv, NEW s \in Sessions, Sole(s)', LineInv', conn[s].pc = "log", NEW u \in BOOLEAN,
         Answer(s, FALSE, u), UNCHANGED <<mem, db, logVars, ckpt, clean>>, Fault
  PROVE  LogInv' /\ ToldInv' /\ (clean' => MemInv')
<1>1. Pending(s) /\ count'.writes = count.writes /\ count'.txs = count.txs
  BY SoleHas, SameCounts DEF Pending
<1>2. log' = log /\ Safe' = Safe
  BY DEF logVars, Safe
<1>3. GoodLog(log', count') /\ TxLog(conn[s], log, count)
  BY <1>1, <1>2, SoleHas, CountsAgree
<1>4. /\ conn'[s].pc = "idle" /\ conn'[s].tx = conn[s].tx /\ conn'[s].shadow = conn[s].shadow
      /\ conn[s].tx # 0 => conn'[s].good = conn[s].good
      /\ \A w \in Writes : told'[w] = IF w \in Done(conn[s], FALSE) THEN "unsure" ELSE told[w]
  BY <1>1, AnswerIs
<1>5. TxLog(conn'[s], log', count')
  BY <1>1, <1>2, <1>3, <1>4 DEF TxLog
<1>6. ASSUME clean, NEW w \in Writes
      PROVE  /\ CommitsIn(log', Len(log'), w) => mem[w] = 1
             /\ HasWrite(log', w) /\ ckpt.pc # "installed" => db[w] = 0
             /\ told'[w] = "acked" => mem[w] = 1 /\ (db[w] = 1 \/ CommitsIn(log', Safe', w))
  <2>1. MemLog(w)
    BY <1>6, SoleHas
  <2>2. told'[w] = "acked" => told[w] = "acked"
    BY <1>4
  <2> QED BY <1>2, <2>1, <2>2 DEF MemLog
<1> QED BY <1>1, <1>3, <1>5, <1>6, AnswerKeeps

\* The invariant: flush_deferred_begin appends the BEGIN.
LEMMA LogBeginKeeps ==
  ASSUME RecoveryInv, NEW s \in Sessions, Sole(s)', LineInv', LogBegin(s)
  PROVE  LogInv' /\ ToldInv' /\ (clean' => MemInv')
<1> DEFINE c == conn[s]
           d == conn'[s]
           r == Record("BEGIN", c.tx, 0)
<1>1. CASE Fault /\ Answer(s, FALSE, FALSE) /\ UNCHANGED log
  <2>1. UNCHANGED <<mem, db, logVars, ckpt, clean>> /\ c.pc = "log"
    BY <1>1 DEF LogBegin, logVars
  <2> QED BY <1>1, <2>1, FailedKeeps
<1>2. CASE log' = Append(log, r) /\ conn' = [conn EXCEPT ![s].unlogged = FALSE] /\ UNCHANGED <<count, told>>
  <2>1. /\ d.pc = "log" /\ d.tx = c.tx /\ d.shadow = c.shadow /\ d.good = c.good /\ d.rec = c.rec
        /\ c.pc = "log"
    BY <1>2, SoleHas DEF LogBegin, Conns
  <2>2. mem' = mem /\ db' = db /\ ckpt' = ckpt /\ clean' = clean /\ synced' = synced /\ mark' = mark
        /\ mutex' = mutex /\ mutex = {} /\ count' = count /\ told' = told
    BY <1>2 DEF LogBegin
  <2>3. r \in LogRecs /\ r.kind = "BEGIN" /\ r.tx = c.tx
    <3>1. c.tx \in 0 .. MaxTx
      BY SoleHas DEF Conns
    <3> QED BY <3>1, LineType, WalRecordsAssumption
  <2> HIDE DEF r
  <2>4. TxLog(c, log, count) /\ LineLog(c, log, count, mark) /\ GoodLog(log, count) /\ log \in Seq(LogRecs)
        /\ count \in Counts /\ synced \in 0 .. Len(log)
    BY SoleHas
  <2>5. GoodLog(log', count')
    <3>1. c.tx <= count.txs
      BY <2>4, SoleHas DEF TxLog
    <3>2. r.tx # 0 => ~HasEnd(log, r.tx)
      BY <2>3, <2>4 DEF TxLog
    <3> QED BY <1>2, <2>2, <2>3, <2>4, <3>1, <3>2, AppendGood
  <2>6. /\ \A w : HasWrite(log', w) <=> HasWrite(log, w)
        /\ \A t, w : HasLine(log', t, w) <=> HasLine(log, t, w)
        /\ \A t : HasEnd(log', t) <=> HasEnd(log, t)
        /\ \A w, n : n \in 0 .. Len(log) => (CommitsIn(log', n, w) <=> CommitsIn(log, n, w))
        /\ \A w : CommitsIn(log', Len(log'), w) => CommitsIn(log, Len(log), w)
    BY <1>2, <2>3, <2>4, AppendLog DEF Ends
  <2>7. TxLog(d, log', count') /\ LineLog(d, log', count', mark')
    <3>1. TxLog(d, log', count')
      BY <2>1, <2>2, <2>4, <2>6 DEF TxLog
    <3>2. LineLog(d, log', count', mark')
      BY <2>1, <2>2, <2>4, <2>6 DEF LineLog
    <3> QED BY <3>1, <3>2
  <2>8. \A w \in Writes : (w > count'.writes => told'[w] = "nothing") /\ ToldOf(d, told'[w], w)
    <3>1. \A w \in Writes : (w > count.writes => told[w] = "nothing") /\ ToldOf(c, told[w], w)
      BY SoleHas
    <3> QED BY <2>1, <2>2, <3>1 DEF ToldOf
  <2>9. ASSUME clean, NEW w \in Writes PROVE MemLog(w)' /\ MemOf(d, log', mem', db', w)
    <3>1. MemLog(w) /\ MemOf(c, log, mem, db, w)
      BY <2>9, SoleHas
    <3>2. Safe' = Safe /\ Safe = synced
      BY <2>2 DEF Safe
    <3>3. MemLog(w)'
      BY <2>2, <2>4, <2>6, <3>1, <3>2 DEF MemLog
    <3>4. MemOf(d, log', mem', db', w)
      BY <2>1, <2>2, <2>6, <3>1 DEF MemOf
    <3> QED BY <3>3, <3>4
  <2> QED BY <2>2, <2>5, <2>7, <2>8, <2>9, SoleKeeps
<1> QED BY <1>1, <1>2 DEF LogBegin

\* The invariant: a statement's line inside a transaction.
LEMMA LogStatementKeeps ==
  ASSUME RecoveryInv, NEW s \in Sessions, Sole(s)', LineInv', LogStatement(s)
  PROVE  LogInv' /\ ToldInv' /\ (clean' => MemInv')
<1> DEFINE c == conn[s]
           d == conn'[s]
           r == c.rec
<1>1. CASE Fault /\ Answer(s, FALSE, FALSE) /\ UNCHANGED log
  <2>1. UNCHANGED <<mem, db, logVars, ckpt, clean>> /\ c.pc = "log"
    BY <1>1 DEF LogStatement, logVars
  <2> QED BY <1>1, <2>1, FailedKeeps
<1>2. CASE log' = Append(log, r) /\ Answer(s, TRUE, FALSE) /\ UNCHANGED count
  <2>0. Pending(s) /\ c.pc = "log" /\ c.tx # 0
    BY DEF LogStatement, Pending
  <2>1. /\ d.pc = "idle" /\ d.tx = c.tx /\ d.shadow = c.shadow /\ d.good = c.good \cup {r.w}
        /\ \A w \in Writes : told'[w] = IF w \in Done(c, TRUE) THEN "acked" ELSE told[w]
        /\ r.kind = "SQL" /\ r.tx # 0
    BY <1>2, <2>0, AnswerIs
  <2>2. mem' = mem /\ db' = db /\ ckpt' = ckpt /\ clean' = clean /\ synced' = synced /\ mark' = mark
        /\ mutex' = mutex /\ mutex = {} /\ count' = count
    BY <1>2 DEF LogStatement
  <2>3. r \in LogRecs /\ r.tx = c.tx /\ r.w \in Writes
    BY <2>0, SoleHas DEF Lined
  <2>4. TxLog(c, log, count) /\ LineLog(c, log, count, mark) /\ GoodLog(log, count) /\ log \in Seq(LogRecs)
        /\ count \in Counts /\ synced \in 0 .. Len(log) /\ count.writes \in Nat
    BY SoleHas
  <2>5. r.w \in c.shadow /\ ~HasEnd(log, r.tx)
    BY <2>0, <2>3, <2>4 DEF TxLog
  <2> HIDE DEF r
  <2>6. GoodLog(log', count')
    <3>1. r.tx <= count.txs /\ ~HasWrite(log, r.w) /\ r.w <= count.writes
      BY <2>0, <2>1, <2>4 DEF LineLog, r
    <3>2. r.w \in 1 .. count.writes
      BY <2>3, <2>4, <3>1 DEF Writes
    <3> QED BY <1>2, <2>2, <2>3, <2>4, <2>5, <3>1, <3>2, AppendGood
  <2>7. /\ \A w : HasWrite(log', w) <=> HasWrite(log, w) \/ w = r.w
        /\ \A t, w : HasLine(log', t, w) <=> HasLine(log, t, w) \/ (t = r.tx /\ w = r.w)
        /\ \A t : HasEnd(log', t) <=> HasEnd(log, t)
        /\ \A w, n : n \in 0 .. Len(log) => (CommitsIn(log', n, w) <=> CommitsIn(log, n, w))
        /\ \A w : CommitsIn(log', Len(log'), w) => CommitsIn(log, Len(log), w)
    BY <1>2, <2>1, <2>3, <2>4, <2>5, AppendLog DEF Ends
  <2>8. TxLog(d, log', count')
    BY <2>1, <2>2, <2>3, <2>4, <2>5, <2>7 DEF TxLog
  <2>9. Done(c, TRUE) = {}
    BY <2>1 DEF Done, r
  <2>10. ASSUME clean, NEW w \in Writes
         PROVE  /\ CommitsIn(log', Len(log'), w) => mem[w] = 1
                /\ HasWrite(log', w) /\ ckpt.pc # "installed" => db[w] = 0
                /\ told'[w] = "acked" => mem[w] = 1 /\ (db[w] = 1 \/ CommitsIn(log', Safe', w))
    <3>1. MemLog(w) /\ MemOf(c, log, mem, db, w) /\ db \in Databases
      BY <2>10, SoleHas
    <3>2. Safe' = Safe /\ Safe = synced
      BY <2>2 DEF Safe
    <3>3. told'[w] = told[w]
      BY <2>1, <2>9
    <3>4. w = r.w => db[w] = 0
      BY <2>5, <3>1 DEF MemLog, MemOf, Databases
    <3> QED BY <2>4, <2>7, <3>1, <3>2, <3>3, <3>4 DEF MemLog
  <2> QED BY <1>2, <2>0, <2>2, <2>6, <2>8, <2>10, AnswerKeeps
<1> QED BY <1>1, <1>2 DEF LogStatement

\* The invariant: a line outside a transaction is written.
LEMMA LogWriteKeeps ==
  ASSUME RecoveryInv, NEW s \in Sessions, Sole(s)', LineInv', LogWrite(s)
  PROVE  LogInv' /\ ToldInv' /\ (clean' => MemInv')
<1> DEFINE c == conn[s]
           d == conn'[s]
           r == c.rec
<1>0. /\ c.pc = "log" /\ c.tx = 0 /\ c.shadow = {} /\ r \in LogRecs /\ r.kind # "BEGIN"
      /\ (r.kind = "SQL" => r.tx = 0 /\ r.w \in Writes)
  BY SoleHas DEF LogWrite, Lined
<1>1. d.pc = "sync" /\ d.tx = c.tx /\ d.shadow = c.shadow /\ d.good = c.good /\ d.rec = r
  BY SoleHas DEF LogWrite, Conns
<1>2. mem' = mem /\ db' = db /\ ckpt' = ckpt /\ clean' = clean /\ synced' = synced /\ mark' = Len(log)
      /\ mutex' = {s} /\ mutex = {} /\ count' = count /\ told' = told /\ log' = Append(log, r)
  BY DEF LogWrite
<1>3. LineLog(c, log, count, mark) /\ GoodLog(log, count) /\ log \in Seq(LogRecs)
      /\ count \in Counts /\ synced \in 0 .. Len(log) /\ count.writes \in Nat /\ Len(log) \in Nat
  BY SoleHas
<1>4. /\ r.tx <= count.txs /\ (r.kind = "SQL" => r.w <= count.writes /\ ~HasWrite(log, r.w))
      /\ (r.tx # 0 => ~HasEnd(log, r.tx))
      /\ (r.kind = "COMMIT" => \A w \in c.good : HasLine(log, r.tx, w))
  <2>1. r.tx # 0 => r.kind \in Ends
    BY <1>0 DEF LogRecs
  <2> QED BY <1>0, <1>3, <2>1 DEF LineLog
<1> HIDE DEF r
<1>5. GoodLog(log', count')
  <2>1. r.kind = "SQL" => r.w \in 1 .. count.writes
    BY <1>0, <1>3, <1>4 DEF Writes
  <2> QED BY <1>0, <1>2, <1>3, <1>4, <2>1, AppendGood
<1>6. /\ \A w : HasWrite(log', w) <=> HasWrite(log, w) \/ (r.kind = "SQL" /\ r.w = w)
      /\ \A t, w : r.kind # "SQL" => (HasLine(log', t, w) <=> HasLine(log, t, w))
      /\ \A w, n : n \in 0 .. Len(log) => (CommitsIn(log', n, w) <=> CommitsIn(log, n, w))
      /\ \A w : CommitsIn(log', Len(log'), w) =>
           \/ CommitsIn(log, Len(log), w)
           \/ r.kind = "SQL" /\ r.w = w
           \/ r.kind = "COMMIT" /\ r.tx # 0 /\ HasLine(log, r.tx, w)
      /\ Len(log') = Len(log) + 1 /\ log'[Len(log) + 1] = r
  BY <1>0, <1>2, <1>3, AppendLog
<1>7. TxLog(d, log', count') /\ LineLog(d, log', count', mark')
  <2>1. TxLog(d, log', count')
    BY <1>0, <1>1 DEF TxLog
  <2>2. LineLog(d, log', count', mark')
    BY <1>0, <1>1, <1>2, <1>3, <1>4, <1>6 DEF LineLog
  <2> QED BY <2>1, <2>2
<1>8. \A w \in Writes : (w > count'.writes => told'[w] = "nothing") /\ ToldOf(d, told'[w], w)
  <2>1. \A w \in Writes : (w > count.writes => told[w] = "nothing") /\ ToldOf(c, told[w], w)
    BY SoleHas
  <2> QED BY <1>0, <1>1, <1>2, <2>1 DEF ToldOf, r
<1>9. ASSUME clean, NEW w \in Writes PROVE MemLog(w)' /\ MemOf(d, log', mem', db', w)
  <2>1. MemLog(w) /\ MemOf(c, log, mem, db, w)
    BY <1>9, SoleHas
  <2>2. Safe' = synced /\ Safe = synced
    BY <1>2, <1>3 DEF Safe
  <2>3. r.kind = "SQL" /\ r.w = w => r = Record("SQL", 0, w)
    BY <1>0 DEF LogRecs, Record
  <2>4. r.kind = "SQL" /\ r.w = w => mem[w] = 1 /\ db[w] = 0
    BY <1>0, <2>1, <2>3 DEF MemOf, r
  <2>5. r.kind = "COMMIT" /\ r.tx # 0 /\ HasLine(log, r.tx, w) => mem[w] = 1
    BY <1>0, <2>1 DEF MemOf, r
  <2>6. MemLog(w)'
    BY <1>2, <1>3, <1>6, <2>1, <2>2, <2>4, <2>5 DEF MemLog
  <2>7. r = Record("SQL", 0, w) => mem[w] = 1 /\ db[w] = 0
    BY <1>0, <2>1 DEF MemOf, r
  <2>8. r.kind = "COMMIT" => (HasLine(log', r.tx, w) <=> HasLine(log, r.tx, w))
    BY <1>6
  <2>9. MemOf(d, log', mem', db', w)
    BY <1>0, <1>1, <1>2, <2>5, <2>7, <2>8 DEF MemOf
  <2> QED BY <2>6, <2>9
<1> QED BY <1>2, <1>5, <1>7, <1>8, <1>9, SoleKeeps

\* The invariant: its fsync, or the cut back when that fails.
LEMMA LogSyncKeeps ==
  ASSUME RecoveryInv, NEW s \in Sessions, Sole(s), Sole(s)', LineInv', LogSync(s)
  PROVE  LogInv' /\ ToldInv' /\ (clean' => MemInv')
<1> DEFINE c == conn[s]
           d == conn'[s]
           r == c.rec
<1>0. /\ c.pc = "sync" /\ c.tx = 0 /\ r \in LogRecs /\ Pending(s) /\ mutex # {}
      /\ (r.kind = "SQL" => r.tx = 0) /\ (r.kind = "COMMIT" /\ r.tx = 0 => c.good = {})
  BY SoleHas DEF LogSync, Lined, Pending, Sole
<1>1. mem' = mem /\ db' = db /\ ckpt' = ckpt /\ clean' = clean /\ mark' = 0 /\ mutex' = {}
      /\ count'.writes = count.writes /\ count'.txs = count.txs
  BY SoleHas, SameCounts DEF LogSync
<1>2. LineLog(c, log, count, mark) /\ GoodLog(log, count) /\ log \in Seq(LogRecs)
      /\ count \in Counts /\ synced \in 0 .. Len(log) /\ Len(log) \in Nat /\ mark \in 0 .. Len(log)
  BY SoleHas
<1>3. Len(log) = mark + 1 /\ log[mark + 1] = r /\ (r.kind = "COMMIT" => \A w \in c.good : HasLine(log, r.tx, w))
  BY <1>0, <1>2 DEF LineLog
<1>4. GoodLog(log, count')
  BY <1>1, <1>2, CountsAgree
<1>5. CASE SyncOk /\ Answer(s, TRUE, FALSE)
  <2>1. log' = log /\ synced' = Len(log) /\ Safe' = Len(log)
    BY <1>1, <1>5 DEF SyncOk, Safe
  <2>2. /\ d.tx = 0
        /\ \A w \in Writes : told'[w] = IF w \in Done(c, TRUE) THEN "acked" ELSE told[w]
    BY <1>0, <1>5, AnswerIs
  <2>3. TxLog(d, log', count')
    BY <2>2 DEF TxLog
  <2>4. ASSUME clean, NEW w \in Writes
        PROVE  /\ CommitsIn(log', Len(log'), w) => mem[w] = 1
               /\ HasWrite(log', w) /\ ckpt.pc # "installed" => db[w] = 0
               /\ told'[w] = "acked" => mem[w] = 1 /\ (db[w] = 1 \/ CommitsIn(log', Safe', w))
    <3>1. MemLog(w) /\ MemOf(c, log, mem, db, w)
      BY <2>4, SoleHas
    <3>2. ASSUME w \in Done(c, TRUE) PROVE mem[w] = 1 /\ CommitsIn(log, Len(log), w)
      <4>1. CASE r.kind = "COMMIT"
        <5>1. w \in c.good /\ r.tx # 0
          BY <1>0, <3>2, <4>1 DEF Done
        <5>2. HasLine(log, r.tx, w) /\ log[mark + 1].kind = "COMMIT" /\ log[mark + 1].tx = r.tx
              /\ mark + 1 \in 1 .. Len(log)
          BY <1>2, <1>3, <4>1, <5>1
        <5>3. CommitsIn(log, Len(log), w)
          BY <5>2 DEF CommitsIn, HasLine
        <5> QED BY <3>1, <5>3 DEF MemLog
      <4>2. CASE r.kind = "SQL"
        <5>1. log[mark + 1].kind = "SQL" /\ log[mark + 1].w = w /\ log[mark + 1].tx = 0 /\ mark + 1 \in 1 .. Len(log)
          BY <1>0, <1>2, <1>3, <3>2, <4>2 DEF Done
        <5>2. CommitsIn(log, Len(log), w)
          BY <5>1 DEF CommitsIn
        <5> QED BY <3>1, <5>2 DEF MemLog
      <4> QED BY <3>2, <4>1, <4>2 DEF Done
    <3>3. ASSUME told[w] = "acked" PROVE mem[w] = 1 /\ (db[w] = 1 \/ CommitsIn(log, Len(log), w))
      <4>1. mem[w] = 1 /\ (db[w] = 1 \/ CommitsIn(log, Safe, w))
        BY <3>1, <3>3 DEF MemLog
      <4>2. Safe \in 0 .. Len(log) /\ Len(log) \in 0 .. Len(log)
        BY <1>2 DEF Safe
      <4> QED BY <1>2, <4>1, <4>2, CommitsMore
    <3>4. told'[w] = "acked" => w \in Done(c, TRUE) \/ told[w] = "acked"
      BY <2>2
    <3> QED BY <2>1, <3>1, <3>2, <3>3, <3>4 DEF MemLog
  <2> QED BY <1>0, <1>1, <1>4, <1>5, <2>1, <2>3, <2>4, AnswerKeeps
<1>6. CASE CutBack /\ Answer(s, FALSE, FALSE)
  <2>1. log' = SubSeq(log, 1, mark) /\ synced' = (IF synced < mark THEN synced ELSE mark) /\ Safe' = synced'
    BY <1>1, <1>6 DEF CutBack, Safe
  <2>2. /\ d.tx = 0
        /\ \A w \in Writes : told'[w] = IF w \in Done(c, FALSE) THEN "unsure" ELSE told[w]
    BY <1>0, <1>6, AnswerIs
  <2>3. TxLog(d, log', count')
    BY <2>2 DEF TxLog
  <2>4. /\ GoodLog(log', count') /\ Len(log') = mark
        /\ \A w : HasWrite(log', w) => HasWrite(log, w)
        /\ \A w, k : k \in 0 .. mark => (CommitsIn(log', k, w) <=> CommitsIn(log, k, w))
    BY <1>2, <1>4, <2>1, CutLog
  <2>5. Safe = Safe' /\ Safe \in 0 .. mark
    BY <1>0, <1>2, <2>1 DEF Safe
  <2>6. ASSUME clean, NEW w \in Writes
        PROVE  /\ CommitsIn(log', Len(log'), w) => mem[w] = 1
               /\ HasWrite(log', w) /\ ckpt.pc # "installed" => db[w] = 0
               /\ told'[w] = "acked" => mem[w] = 1 /\ (db[w] = 1 \/ CommitsIn(log', Safe', w))
    <3>1. MemLog(w)
      BY <2>6, SoleHas
    <3>2. told'[w] = "acked" => told[w] = "acked"
      BY <2>2
    <3>3. CommitsIn(log', Len(log'), w) => CommitsIn(log, Len(log), w)
      <4>1. mark \in 0 .. mark /\ Len(log) \in 0 .. Len(log)
        BY <1>2
      <4> QED BY <1>2, <2>4, <4>1, CommitsMore
    <3> QED BY <2>4, <2>5, <3>1, <3>2, <3>3 DEF MemLog
  <2> QED BY <1>0, <1>1, <1>6, <2>3, <2>4, <2>6, AnswerKeeps
<1> QED BY <1>5, <1>6 DEF LogSync

---------------------------------------------------------------------------
(* The commit queue: what the invariant asks while it works.               *)

\* No connection is in a transaction or on the inline path.
Crowd == ckpt.pc = "idle" /\ \A o \in Sessions : ~Solo(o)

\* The writers carry the whole invariant.
LEMMA CrowdKeeps ==
  ASSUME Crowd', LineInv', clean' = clean, GoodLog(log', count'),
         \A o \in Sessions : QueuedLog(o)', GroupLog',
         \A w \in Writes : w > count'.writes => told'[w] = "nothing",
         \A o \in Sessions : conn'[o].pc = "queued" => told'[conn'[o].w] = "nothing",
         clean => (\A w \in Writes : MemLog(w)') /\ (\A o \in Sessions : QueuedMem(o)') /\ GroupMem'
  PROVE  LogInv' /\ ToldInv' /\ (clean' => MemInv')
<1>1. \A o \in Sessions : conn'[o].tx = 0 /\ conn'[o].pc \notin {"log", "sync"} /\ conn'[o].shadow = {}
  BY DEF Crowd, Solo, Pending, LineInv, Lined
<1>2. \A o \in Sessions : TxLog(conn'[o], log', count') /\ LineLog(conn'[o], log', count', mark')
  BY <1>1 DEF TxLog, LineLog
<1>3. LogInv'
  BY <1>2 DEF LogInv
<1>4. \A w \in Writes : \A o \in Sessions : ToldOf(conn'[o], told'[w], w)
  BY <1>1 DEF ToldOf
<1>5. \A w \in Writes : \A o \in Sessions : MemOf(conn'[o], log', mem', db', w)
  BY <1>1 DEF MemOf
<1>6. CkptMem'
  BY DEF CkptMem, Crowd
<1> QED BY <1>3, <1>4, <1>5, <1>6 DEF ToldInv, MemInv

\* What the invariant says of the writers.
LEMMA CrowdHas ==
  ASSUME RecoveryInv
  PROVE  /\ conn \in [Sessions -> Conns] /\ log \in Seq(LogRecs) /\ count \in Counts
         /\ count.writes \in Nat /\ count.txs \in Nat /\ round \in Rounds /\ round.tasks \in Seq(Sessions)
         /\ mem \in Databases /\ db \in Databases /\ round.pre \in Databases /\ told \in [Writes -> Fates]
         /\ synced \in 0 .. Len(log) /\ mark \in 0 .. Len(log) /\ Len(log) \in Nat
         /\ GoodLog(log, count) /\ GroupLog
         /\ \A o \in Sessions : /\ conn[o] \in Conns /\ QueuedLog(o)
                                /\ conn[o].pc = "queued" =>
                                     /\ conn[o].w \in Writes /\ told[conn[o].w] = "nothing"
                                     /\ conn[o].w \in Nat /\ conn[o].w <= count.writes
                                /\ InGroup(o) => conn[o].pc = "queued"
         /\ \A w \in Writes : w > count.writes => told[w] = "nothing"
         /\ \A w \in Writes : w \in Nat
         /\ clean => (\A w \in Writes : MemLog(w)) /\ (\A o \in Sessions : QueuedMem(o)) /\ GroupMem
<1>1. /\ conn \in [Sessions -> Conns] /\ log \in Seq(LogRecs) /\ count \in Counts /\ round \in Rounds
      /\ mem \in Databases /\ db \in Databases /\ told \in [Writes -> Fates]
      /\ synced \in 0 .. Len(log) /\ mark \in 0 .. Len(log) /\ Len(log) \in Nat
  BY DEF RecoveryInv, TypeInv
<1>2. count.writes \in 0 .. MaxWrites /\ count.txs \in 0 .. MaxTx /\ round.tasks \in Seq(Sessions)
      /\ round.pre \in Databases
  BY <1>1 DEF Counts, Rounds
<1>3. count.writes \in Nat /\ count.txs \in Nat /\ count.writes <= MaxWrites /\ \A w \in Writes : w \in Nat
  BY <1>2, WalRecordsAssumption, ServerWalAssumption DEF Writes
<1>4. GoodLog(log, count) /\ GroupLog /\ \A o \in Sessions : QueuedLog(o)
  BY DEF RecoveryInv, LogInv
<1>5. /\ \A w \in Writes : w > count.writes => told[w] = "nothing"
      /\ \A w \in Writes : \A o \in Sessions : ToldOf(conn[o], told[w], w)
  BY DEF RecoveryInv, ToldInv
<1>6. clean => (\A w \in Writes : MemLog(w)) /\ (\A o \in Sessions : QueuedMem(o)) /\ GroupMem
  BY DEF RecoveryInv, MemInv
<1>7. ASSUME NEW o \in Sessions, conn[o].pc = "queued"
      PROVE  conn[o].w \in Writes /\ told[conn[o].w] = "nothing" /\ conn[o].w \in Nat /\ conn[o].w <= count.writes
  <2>1. conn[o].w \in 1 .. count.writes
    BY <1>4, <1>7 DEF QueuedLog
  <2>2. conn[o].w \in Writes /\ conn[o].w \in Nat /\ conn[o].w <= count.writes
    BY <1>3, <2>1, WalRecordsAssumption DEF Writes
  <2> QED BY <1>5, <1>7, <2>2 DEF ToldOf
<1>8. \A o \in Sessions : InGroup(o) => conn[o].pc = "queued"
  BY DEF RecoveryInv, ModeInv, QueueInv, InGroup
<1> QED BY <1>1, <1>2, <1>3, <1>4, <1>5, <1>6, <1>7, <1>8

\* The invariant: a writer joins the queue.
LEMMA EnqueueKeeps ==
  ASSUME RecoveryInv, NEW s \in Sessions, Crowd', LineInv', Enqueue(s)
  PROVE  LogInv' /\ ToldInv' /\ (clean' => MemInv')
<1>1. /\ NewWrite \in Writes /\ NewWrite = count.writes + 1 /\ count'.writes = NewWrite /\ count'.txs = count.txs
      /\ count.writes \in Nat /\ count.txs \in Nat /\ NewWrite \in Nat
  BY CrowdHas, CountType DEF Enqueue, Counts, NewWrite
<1>2. /\ conn'[s].pc = "queued" /\ conn'[s].w = NewWrite /\ conn[s].pc # "queued"
      /\ \A o \in Sessions : o # s => conn'[o] = conn[o]
  <2> DEFINE e == [conn[s] EXCEPT !.pc = "queued", !.w = NewWrite]
  <2>1. conn' = [conn EXCEPT ![s] = e]
    BY CrowdHas DEF Enqueue
  <2>2. e.pc = "queued" /\ e.w = NewWrite
    BY CrowdHas DEF Conns
  <2> HIDE DEF e
  <2> QED BY <2>1, <2>2, CrowdHas DEF Enqueue, AtRest
<1>3. /\ log' = log /\ mark' = mark /\ synced' = synced /\ mem' = mem /\ db' = db /\ ckpt' = ckpt
      /\ told' = told /\ Safe' = Safe /\ clean' = clean /\ round' = round
  BY DEF Enqueue, logVars, Safe
<1>4. ~InGroup(s) /\ \A o : InGroup(o)' <=> InGroup(o)
  BY <1>2, <1>3, CrowdHas DEF InGroup
<1>5. ~HasWrite(log, NewWrite)
  BY <1>1, CrowdHas, NewIsNew
<1>6. GoodLog(log', count')
  BY <1>1, <1>3, CrowdHas, GoodGrows
<1>7. ASSUME NEW o \in Sessions PROVE QueuedLog(o)'
  <2>1. \A p \in Sessions : p # s /\ conn[p].pc = "queued" => conn[p].w # NewWrite /\ conn[p].w \in 1 .. count'.writes
    <3>1. \A p \in Sessions : conn[p].pc = "queued" => conn[p].w \in 1 .. count.writes
      BY CrowdHas DEF QueuedLog
    <3> QED BY <1>1, <3>1
  <2>2. CASE o = s
    <3>1. NewWrite \in 1 .. count'.writes
      BY <1>1
    <3> QED BY <1>2, <1>3, <1>5, <2>1, <2>2, <3>1 DEF QueuedLog
  <2>3. CASE o # s
    <3>1. QueuedLog(o)
      BY CrowdHas
    <3> QED BY <1>2, <1>3, <1>4, <2>1, <2>3, <3>1 DEF QueuedLog
  <2> QED BY <2>2, <2>3
<1>8. \A o \in Member(round.tasks) : o \in Sessions /\ conn'[o] = conn[o]
  <2>1. \A o \in Member(round.tasks) : o \in Sessions
    BY CrowdHas DEF Member
  <2> QED BY <1>2, <1>4, <2>1 DEF InGroup
<1>9. GroupLog'
  <2>1. GroupLog
    BY CrowdHas
  <2>2. \A i \in 1 .. Len(round.tasks) : round.tasks[i] \in Member(round.tasks)
    BY CrowdHas DEF Member
  <2> QED BY <1>3, <1>8, <2>1, <2>2 DEF GroupLog
<1>10. \A w \in Writes : w > count'.writes => told'[w] = "nothing"
  <2>1. \A w \in Writes : w \in Nat /\ (w > count.writes => told[w] = "nothing")
    BY CrowdHas
  <2> QED BY <1>1, <1>3, <2>1
<1>11. \A o \in Sessions : conn'[o].pc = "queued" => told'[conn'[o].w] = "nothing"
  <2>1. told[NewWrite] = "nothing"
    BY <1>1, CrowdHas
  <2> QED BY <1>2, <1>3, <2>1, CrowdHas
<1>12. ASSUME clean
       PROVE  (\A w \in Writes : MemLog(w)') /\ (\A o \in Sessions : QueuedMem(o)') /\ GroupMem'
  <2>1. ASSUME NEW w \in Writes PROVE MemLog(w)'
    <3>1. MemLog(w) /\ w \in Nat
      BY <1>12, CrowdHas
    <3>2. w > count'.writes => w > count.writes
      BY <1>1, <3>1
    <3> QED BY <1>3, <3>1, <3>2 DEF MemLog
  <2>2. mem[NewWrite] = 0 /\ db[NewWrite] = 0
    <3>1. MemLog(NewWrite) /\ db \in Databases
      BY <1>1, <1>12, CrowdHas
    <3> QED BY <1>1, <3>1 DEF MemLog, Databases
  <2>3. ASSUME NEW o \in Sessions PROVE QueuedMem(o)'
    <3>1. QueuedMem(o)
      BY <1>12, CrowdHas
    <3>2. CASE o = s
      BY <1>2, <1>3, <1>4, <2>2, <3>2 DEF QueuedMem
    <3>3. CASE o # s
      BY <1>2, <1>3, <1>4, <3>1, <3>3 DEF QueuedMem
    <3> QED BY <3>2, <3>3
  <2>4. GroupMem'
    <3>1. GroupMem
      BY <1>12, CrowdHas
    <3> QED BY <1>3, <1>8, <3>1 DEF GroupMem, WritesOf
  <2> QED BY <2>1, <2>3, <2>4
<1> QED BY <1>3, <1>6, <1>7, <1>9, <1>10, <1>11, <1>12, CrowdKeeps

\* The invariant: the leader takes a group.
LEMMA DrainKeeps ==
  ASSUME RecoveryInv, NEW s \in Sessions, Crowd', LineInv', Drain(s)
  PROVE  LogInv' /\ ToldInv' /\ (clean' => MemInv')
<1>1. /\ log' = log /\ mark' = mark /\ synced' = synced /\ mem' = mem /\ db' = db /\ ckpt' = ckpt
      /\ told' = told /\ Safe' = Safe /\ clean' = clean /\ conn' = conn /\ count' = count
  BY DEF Drain, logVars, Safe
<1>2. round'.stage = "drained" /\ round.stage = "none" /\ round.tasks = <<>>
  BY DEF Drain, NoRound, RecoveryInv, ModeInv, QueueInv
<1>3. \A o : ~InGroup(o)
  BY <1>2 DEF InGroup, Member
<1>4. \A o \in Sessions : QueuedLog(o)'
  <2>1. \A o \in Sessions : QueuedLog(o)
    BY CrowdHas
  <2> QED BY <1>1, <1>3, <2>1 DEF QueuedLog
<1>5. GroupLog' /\ GroupMem'
  BY <1>2 DEF GroupLog, GroupMem
<1>6. \A o \in Sessions : conn'[o].pc = "queued" => told'[conn'[o].w] = "nothing"
  BY <1>1, CrowdHas
<1>7. ASSUME clean PROVE (\A w \in Writes : MemLog(w)') /\ (\A o \in Sessions : QueuedMem(o)')
  <2>1. (\A w \in Writes : MemLog(w)) /\ (\A o \in Sessions : QueuedMem(o))
    BY <1>7, CrowdHas
  <2>2. \A w \in Writes : MemLog(w)'
    BY <1>1, <2>1 DEF MemLog
  <2>3. \A o \in Sessions : QueuedMem(o)'
    BY <1>1, <1>2, <1>3, <2>1 DEF QueuedMem
  <2> QED BY <2>2, <2>3
<1>8. GoodLog(log', count') /\ \A w \in Writes : w > count'.writes => told'[w] = "nothing"
  BY <1>1, CrowdHas
<1> QED BY <1>1, <1>4, <1>5, <1>6, <1>7, <1>8, CrowdKeeps

\* The invariant: the leader lays the baton down.
LEMMA DropBatonKeeps ==
  ASSUME RecoveryInv, NEW s \in Sessions, Crowd', LineInv', DropBaton(s)
  PROVE  LogInv' /\ ToldInv' /\ (clean' => MemInv')
<1>1. /\ log' = log /\ mark' = mark /\ synced' = synced /\ mem' = mem /\ db' = db /\ ckpt' = ckpt
      /\ told' = told /\ Safe' = Safe /\ clean' = clean /\ round' = round /\ count' = count
  BY DEF DropBaton, logVars, Safe
<1>2. \A o \in Sessions : (conn'[o].pc = "queued" <=> conn[o].pc = "queued") /\ conn'[o].w = conn[o].w
  <2> DEFINE e == [conn[s] EXCEPT !.pc = IF @ = "acked" THEN "idle" ELSE @]
  <2>1. conn' = [conn EXCEPT ![s] = e]
    BY CrowdHas DEF DropBaton
  <2>2. (e.pc = "queued" <=> conn[s].pc = "queued") /\ e.w = conn[s].w
    BY CrowdHas DEF Conns
  <2> HIDE DEF e
  <2> QED BY <2>1, <2>2, CrowdHas
<1>3. round.stage = "none" /\ \A o : InGroup(o)' <=> InGroup(o)
  BY <1>1 DEF DropBaton, InGroup
<1>4. \A o \in Sessions : QueuedLog(o)'
  <2>1. \A o \in Sessions : QueuedLog(o)
    BY CrowdHas
  <2> QED BY <1>1, <1>2, <1>3, <2>1 DEF QueuedLog
<1>5. GroupLog' /\ GroupMem'
  BY <1>1, <1>3 DEF GroupLog, GroupMem
<1>6. \A o \in Sessions : conn'[o].pc = "queued" => told'[conn'[o].w] = "nothing"
  BY <1>1, <1>2, CrowdHas
<1>7. ASSUME clean PROVE (\A w \in Writes : MemLog(w)') /\ (\A o \in Sessions : QueuedMem(o)')
  <2>1. (\A w \in Writes : MemLog(w)) /\ (\A o \in Sessions : QueuedMem(o))
    BY <1>7, CrowdHas
  <2>2. \A w \in Writes : MemLog(w)'
    BY <1>1, <2>1 DEF MemLog
  <2>3. \A o \in Sessions : QueuedMem(o)'
    BY <1>1, <1>2, <1>3, <2>1 DEF QueuedMem
  <2> QED BY <2>2, <2>3
<1>8. GoodLog(log', count') /\ \A w \in Writes : w > count'.writes => told'[w] = "nothing"
  BY <1>1, CrowdHas
<1> QED BY <1>1, <1>4, <1>5, <1>6, <1>7, <1>8, CrowdKeeps

\* Two writers have two writes.
LEMMA OneWriteEach ==
  ASSUME RecoveryInv, NEW o \in Sessions, conn[o].pc = "queued", NEW ss,
         \A p \in ss : p \in Sessions /\ conn[p].pc = "queued", conn[o].w \in WritesOf(ss)
  PROVE  o \in ss
<1>1. PICK p \in ss : conn[p].w = conn[o].w
  BY DEF WritesOf
<1>2. QueuedLog(o) /\ p \in Sessions /\ conn[p].pc = "queued"
  BY CrowdHas
<1>3. p = o
  BY <1>1, <1>2 DEF QueuedLog
<1> QED BY <1>1, <1>3

\* The tasks of the round are queued connections.
LEMMA TasksQueued ==
  ASSUME RecoveryInv
  PROVE  /\ Tasks = Member(round.tasks)
         /\ \A p \in Tasks : p \in Sessions /\ conn[p].pc = "queued" /\ InGroup(p)
<1>1. Tasks = Member(round.tasks)
  BY DEF Tasks, Member
<1>2. \A p \in Tasks : p \in Sessions
  BY CrowdHas DEF Tasks
<1> QED BY <1>1, <1>2, CrowdHas DEF InGroup

\* The invariant: the group runs on the engine.
LEMMA ApplyKeeps ==
  ASSUME RecoveryInv, NEW s \in Sessions, Crowd', LineInv', Apply(s)
  PROVE  LogInv' /\ ToldInv' /\ (clean' => MemInv')
<1>1. PICK failing \in SUBSET Tasks :
        LET left == Survivors(round.tasks, failing)
        IN  /\ mem' = Plus(mem, WritesOf(Tasks \ failing))
            /\ told' = Told(WritesOf(failing), "refused")
            /\ conn' = Acked(failing)
            /\ round' = IF left = <<>> THEN NoRound
                        ELSE [stage |-> "applied", tasks |-> left, pre |-> mem]
  BY DEF Apply
<1> DEFINE left == Survivors(round.tasks, failing)
           kept == Tasks \ failing
<1>2. Member(left) = kept /\ round.stage = "drained"
  BY SurvivorsAre, TasksQueued, CrowdHas DEF Apply
<1>3. /\ log' = log /\ mark' = mark /\ synced' = synced /\ db' = db /\ ckpt' = ckpt
      /\ Safe' = Safe /\ clean' = clean /\ count' = count
  BY DEF Apply, logVars, Safe
<1>4. /\ round'.stage \in {"none", "applied"}
      /\ round'.stage = "applied" => round'.pre = mem
      /\ Member(round'.tasks) = kept
      /\ kept # {} => round'.stage = "applied"
  <2>1. Member(<<>>) = {}
    BY DEF Member
  <2>2. CASE left = <<>>
    BY <1>1, <1>2, <2>1, <2>2 DEF NoRound
  <2>3. CASE left # <<>>
    BY <1>1, <1>2, <2>3
  <2> QED BY <2>2, <2>3
<1> HIDE DEF left
<1>5. \A o \in Sessions : conn'[o].pc = "queued" => o \notin failing /\ conn'[o] = conn[o]
  BY <1>1, AckedIs, CrowdHas
<1>6. \A o \in kept : o \in Sessions /\ conn[o].pc = "queued" /\ conn'[o] = conn[o] /\ InGroup(o)
  BY <1>1, TasksQueued, AckedIs, CrowdHas
<1>7. \A o \in failing : o \in Sessions /\ conn[o].pc = "queued" /\ InGroup(o)
  BY TasksQueued
<1>8. \A o : InGroup(o)' <=> o \in kept
  BY <1>4 DEF InGroup
<1>9. \A o \in Sessions : QueuedLog(o)'
  <2>1. \A o \in Sessions : QueuedLog(o)
    BY CrowdHas
  <2> QED BY <1>2, <1>3, <1>5, <2>1 DEF QueuedLog
<1>10. GroupLog'
  BY <1>4 DEF GroupLog
<1>11. ASSUME NEW w \in Writes
       PROVE  told'[w] = IF w \in WritesOf(failing) THEN "refused" ELSE told[w]
  BY <1>1 DEF Told
<1>12. \A w \in WritesOf(failing) \cup WritesOf(kept) : w <= count.writes /\ w \in Nat
  BY <1>6, <1>7, CrowdHas DEF WritesOf
<1>13. \A w \in Writes : w > count'.writes => told'[w] = "nothing"
  BY <1>3, <1>11, <1>12, CrowdHas
<1>14. ASSUME NEW o \in Sessions, conn'[o].pc = "queued" PROVE told'[conn'[o].w] = "nothing"
  <2>1. conn'[o] = conn[o] /\ o \notin failing
    BY <1>5, <1>14
  <2>2. conn[o].w \notin WritesOf(failing)
    BY <1>7, <1>14, <2>1, OneWriteEach
  <2> QED BY <1>11, <1>14, <2>1, <2>2, CrowdHas
<1>15. ASSUME clean
       PROVE  (\A w \in Writes : MemLog(w)') /\ (\A o \in Sessions : QueuedMem(o)') /\ GroupMem'
  <2>0. (\A w \in Writes : MemLog(w)) /\ (\A o \in Sessions : QueuedMem(o))
    BY <1>15, CrowdHas
  <2>1. \A w \in Writes : mem'[w] = IF w \in WritesOf(kept) THEN mem[w] + 1 ELSE mem[w]
    BY <1>1 DEF Plus
  <2>2. ASSUME NEW w \in WritesOf(kept)
        PROVE  w \in Writes /\ mem[w] = 0 /\ db[w] = 0 /\ mem'[w] = 1 /\ told'[w] = "nothing"
    <3>1. PICK o \in kept : conn[o].w = w
      BY DEF WritesOf
    <3>2. w \in Writes /\ mem[w] = 0 /\ db[w] = 0 /\ told[w] = "nothing"
      BY <1>2, <1>6, <2>0, <3>1, CrowdHas DEF QueuedMem
    <3>3. w \notin WritesOf(failing)
      BY <1>6, <1>7, <3>1, OneWriteEach
    <3> QED BY <1>11, <2>1, <3>2, <3>3
  <2>3. ASSUME NEW w \in WritesOf(failing)
        PROVE  w \in Writes /\ mem'[w] = 0 /\ mem[w] = 0 /\ told'[w] = "refused"
    <3>1. PICK o \in failing : conn[o].w = w
      BY DEF WritesOf
    <3>2. w \in Writes /\ mem[w] = 0
      BY <1>2, <1>7, <2>0, <3>1, CrowdHas DEF QueuedMem
    <3>3. w \notin WritesOf(kept)
      BY <1>6, <1>7, <3>1, OneWriteEach
    <3> QED BY <1>11, <2>1, <3>2, <3>3
  <2>4. ASSUME NEW w \in Writes PROVE MemLog(w)'
    <3>1. MemLog(w)
      BY <2>0
    <3>2. CASE w \in WritesOf(kept)
      <4>1. db'[w] = 0 /\ mem'[w] = 1 /\ told'[w] = "nothing"
        BY <1>3, <2>2, <3>2
      <4>2. ~(w > count'.writes)
        BY <1>3, <1>12, <3>2, CrowdHas
      <4> QED BY <4>1, <4>2 DEF MemLog
    <3>3. CASE w \in WritesOf(failing)
      BY <1>3, <2>3, <3>1, <3>3 DEF MemLog
    <3>4. CASE w \notin WritesOf(kept) /\ w \notin WritesOf(failing)
      BY <1>3, <1>11, <2>1, <3>1, <3>4 DEF MemLog
    <3> QED BY <3>2, <3>3, <3>4
  <2>5. ASSUME NEW o \in Sessions, conn'[o].pc = "queued"
        PROVE  /\ db'[conn'[o].w] = 0
               /\ mem'[conn'[o].w] = IF InGroup(o)' /\ round'.stage # "drained" THEN 1 ELSE 0
    <3>1. conn'[o] = conn[o] /\ conn[o].pc = "queued" /\ conn[o].w \in Writes
          /\ mem[conn[o].w] = 0 /\ db[conn[o].w] = 0
      BY <1>2, <1>5, <2>0, <2>5, CrowdHas DEF QueuedMem
    <3>2. CASE o \in kept
      <4>1. conn[o].w \in WritesOf(kept)
        BY <3>2 DEF WritesOf
      <4> QED BY <1>3, <1>4, <1>8, <2>2, <3>1, <3>2, <4>1
    <3>3. CASE o \notin kept
      <4>1. conn[o].w \notin WritesOf(kept)
        BY <1>6, <3>1, <3>3, OneWriteEach
      <4> QED BY <1>3, <1>8, <2>1, <3>1, <3>3, <4>1
    <3> QED BY <3>2, <3>3
  <2>6. GroupMem'
    <3>1. WritesOf(kept) = {conn'[o].w : o \in kept}
      BY <1>6 DEF WritesOf
    <3>2. round'.stage = "applied" => mem' = Plus(round'.pre, {conn'[o].w : o \in Member(round'.tasks)})
      BY <1>1, <1>4, <3>1
    <3> QED BY <1>4, <3>2 DEF GroupMem, WritesOf
  <2> QED BY <2>4, <2>5, <2>6 DEF QueuedMem
<1>16. GoodLog(log', count')
  BY <1>3, CrowdHas
<1> QED BY <1>3, <1>9, <1>10, <1>13, <1>14, <1>15, <1>16, CrowdKeeps

\* The invariant: the audit chain refuses the group.
LEMMA AuditFailsKeeps ==
  ASSUME RecoveryInv, NEW s \in Sessions, Crowd', LineInv', AuditFails(s)
  PROVE  LogInv' /\ ToldInv' /\ (clean' => MemInv')
<1>1. /\ log' = log /\ mark' = mark /\ synced' = synced /\ mem' = mem /\ db' = db /\ ckpt' = ckpt
      /\ told' = told /\ Safe' = Safe /\ clean' = clean /\ conn' = conn
      /\ count'.writes = count.writes /\ count'.txs = count.txs
  BY CrowdHas, SameCounts DEF AuditFails, logVars, Safe
<1>2. round'.stage = "failed" /\ round.stage = "applied" /\ round'.tasks = round.tasks /\ round'.pre = round.pre
  BY CrowdHas DEF AuditFails, Rounds
<1>3. \A o : InGroup(o)' <=> InGroup(o)
  BY <1>2 DEF InGroup
<1>4. \A o \in Sessions : QueuedLog(o)'
  <2>1. \A o \in Sessions : QueuedLog(o)
    BY CrowdHas
  <2> QED BY <1>1, <1>2, <1>3, <2>1 DEF QueuedLog
<1>5. GroupLog'
  BY <1>2 DEF GroupLog
<1>6. \A o \in Sessions : conn'[o].pc = "queued" => told'[conn'[o].w] = "nothing"
  BY <1>1, CrowdHas
<1>7. ASSUME clean
      PROVE  (\A w \in Writes : MemLog(w)') /\ (\A o \in Sessions : QueuedMem(o)') /\ GroupMem'
  <2>1. (\A w \in Writes : MemLog(w)) /\ (\A o \in Sessions : QueuedMem(o)) /\ GroupMem
    BY <1>7, CrowdHas
  <2>2. \A w \in Writes : MemLog(w)'
    BY <1>1, <2>1 DEF MemLog
  <2>3. \A o \in Sessions : QueuedMem(o)'
    BY <1>1, <1>2, <1>3, <2>1 DEF QueuedMem
  <2>4. GroupMem'
    BY <1>1, <1>2, <2>1 DEF GroupMem, WritesOf
  <2> QED BY <2>2, <2>3, <2>4
<1>8. GoodLog(log', count') /\ \A w \in Writes : w > count'.writes => told'[w] = "nothing"
  BY <1>1, CrowdHas, CountsAgree
<1> QED BY <1>1, <1>4, <1>5, <1>6, <1>7, <1>8, CrowdKeeps

\* Several autocommit lines at once.
LEMMA AppendGroup ==
  ASSUME NEW lg \in Seq(LogRecs), NEW ls \in Seq(LogRecs), NEW cnt \in Counts, GoodLog(lg, cnt),
         \A i \in 1 .. Len(ls) : /\ ls[i].kind = "SQL" /\ ls[i].tx = 0 /\ ls[i].w \in 1 .. cnt.writes
                                 /\ ~HasWrite(lg, ls[i].w),
         \A i, j \in 1 .. Len(ls) : ls[i].w = ls[j].w => i = j
  PROVE  LET l2 == lg \o ls
         IN  /\ GoodLog(l2, cnt) /\ Len(l2) = Len(lg) + Len(ls)
             /\ \A i \in 1 .. Len(ls) : l2[Len(lg) + i] = ls[i]
             /\ \A w : HasWrite(l2, w) => HasWrite(lg, w) \/ \E i \in 1 .. Len(ls) : ls[i].w = w
             /\ \A w, n : n \in 0 .. Len(lg) => (CommitsIn(l2, n, w) <=> CommitsIn(lg, n, w))
             /\ \A w : CommitsIn(l2, Len(l2), w) =>
                  CommitsIn(lg, Len(lg), w) \/ \E i \in 1 .. Len(ls) : ls[i].w = w
<1> DEFINE l2 == lg \o ls
           n == Len(lg)
           m == Len(ls)
<1>1. n \in Nat /\ m \in Nat /\ Len(l2) = n + m /\ (\A i \in 1 .. n : l2[i] = lg[i])
      /\ (\A i \in 1 .. m : l2[n + i] = ls[i])
  OBVIOUS
<1> HIDE DEF l2, n, m
<1>2. ASSUME NEW i \in 1 .. (n + m), i \notin 1 .. n
      PROVE  \E j \in 1 .. m : i = n + j /\ l2[i] = ls[j]
  <2>1. i - n \in 1 .. m /\ i = n + (i - n)
    BY <1>1, <1>2
  <2> QED BY <1>1, <2>1
<1>3. \A i \in 1 .. (n + m) : \/ i \in 1 .. n /\ l2[i] = lg[i]
                              \/ i \notin 1 .. n /\ \E j \in 1 .. m : i = n + j /\ l2[i] = ls[j]
  BY <1>1, <1>2
<1>4. OneLineEach(l2)
  <2> SUFFICES ASSUME NEW i \in 1 .. (n + m), NEW j \in 1 .. (n + m),
                      l2[i].kind = "SQL", l2[j].kind = "SQL", l2[i].w = l2[j].w
               PROVE  i = j
    BY <1>1 DEF OneLineEach
  <2>1. CASE i \in 1 .. n /\ j \in 1 .. n
    BY <1>3, <2>1 DEF GoodLog, OneLineEach, n
  <2>2. CASE i \in 1 .. n /\ j \notin 1 .. n
    <3>1. PICK b \in 1 .. m : l2[j] = ls[b]
      BY <1>3, <2>2
    <3>2. ~HasWrite(lg, ls[b].w) /\ l2[i] = lg[i]
      BY <1>3, <2>2 DEF m
    <3> QED BY <2>2, <3>1, <3>2 DEF HasWrite, n
  <2>3. CASE i \notin 1 .. n /\ j \in 1 .. n
    <3>1. PICK a \in 1 .. m : l2[i] = ls[a]
      BY <1>3, <2>3
    <3>2. ~HasWrite(lg, ls[a].w) /\ l2[j] = lg[j]
      BY <1>3, <2>3 DEF m
    <3> QED BY <2>3, <3>1, <3>2 DEF HasWrite, n
  <2>4. CASE i \notin 1 .. n /\ j \notin 1 .. n
    <3>1. PICK a \in 1 .. m : i = n + a /\ l2[i] = ls[a]
      BY <1>3, <2>4
    <3>2. PICK b \in 1 .. m : j = n + b /\ l2[j] = ls[b]
      BY <1>3, <2>4
    <3>3. a = b
      BY <3>1, <3>2 DEF m
    <3> QED BY <3>1, <3>2, <3>3
  <2> QED BY <2>1, <2>2, <2>3, <2>4
<1>5. EndsLast(l2)
  <2> SUFFICES ASSUME NEW i \in 1 .. (n + m), NEW j \in 1 .. (n + m),
                      i < j, l2[i].kind \in Ends, l2[i].tx # 0
               PROVE  l2[j].tx # l2[i].tx
    BY <1>1 DEF EndsLast
  <2>1. i \in 1 .. n /\ l2[i] = lg[i]
    BY <1>3 DEF m
  <2>2. CASE j \in 1 .. n
    BY <1>3, <2>1, <2>2 DEF GoodLog, EndsLast, n
  <2>3. CASE j \notin 1 .. n
    BY <1>3, <2>1, <2>3 DEF m
  <2> QED BY <2>2, <2>3
<1>6. \A i \in 1 .. (n + m) : /\ l2[i].kind = "SQL" => l2[i].w \in 1 .. cnt.writes
                              /\ l2[i].tx <= cnt.txs
  <2>1. MaxTx \in Nat
    BY ServerWalAssumption
  <2>2. cnt.txs \in 0 .. MaxTx
    BY DEF Counts
  <2>3. 0 <= cnt.txs
    BY <2>1, <2>2
  <2> QED BY <1>3, <2>3 DEF GoodLog, n, m
<1>7. ASSUME NEW w, HasWrite(l2, w) PROVE HasWrite(lg, w) \/ \E i \in 1 .. m : ls[i].w = w
  <2>1. PICK i \in 1 .. (n + m) : l2[i].kind = "SQL" /\ l2[i].w = w
    BY <1>1, <1>7 DEF HasWrite
  <2>2. CASE i \in 1 .. n
    BY <1>3, <2>1, <2>2 DEF HasWrite, n
  <2>3. CASE i \notin 1 .. n
    BY <1>3, <2>1, <2>3
  <2> QED BY <2>2, <2>3
<1>8. ASSUME NEW w, NEW k \in 0 .. n PROVE CommitsIn(l2, k, w) <=> CommitsIn(lg, k, w)
  <2>1. \A i \in 1 .. k : l2[i] = lg[i]
    BY <1>1
  <2> QED BY <2>1 DEF CommitsIn
<1>9. ASSUME NEW w, CommitsIn(l2, n + m, w), ~\E i \in 1 .. m : ls[i].w = w
      PROVE  CommitsIn(lg, n, w)
  <2>1. PICK i \in 1 .. (n + m) :
          /\ l2[i].kind = "SQL" /\ l2[i].w = w
          /\ l2[i].tx = 0 \/ \E k \in 1 .. (n + m) : l2[k].kind = "COMMIT" /\ l2[k].tx = l2[i].tx
    BY <1>9 DEF CommitsIn
  <2>2. i \in 1 .. n /\ l2[i] = lg[i]
    BY <1>3, <1>9, <2>1
  <2>3. \A k \in 1 .. (n + m) : l2[k].kind = "COMMIT" => k \in 1 .. n /\ l2[k] = lg[k]
    BY <1>3 DEF m
  <2> QED BY <2>1, <2>2, <2>3 DEF CommitsIn
<1>10. GoodLog(l2, cnt)
  BY <1>1, <1>4, <1>5, <1>6 DEF GoodLog
<1> QED BY <1>1, <1>7, <1>8, <1>9, <1>10 DEF l2, n, m

\* The invariant: append_wal_v3_group writes the lines of the group.
LEMMA GroupWriteKeeps ==
  ASSUME RecoveryInv, NEW s \in Sessions, Crowd', LineInv', GroupWrite(s)
  PROVE  LogInv' /\ ToldInv' /\ (clean' => MemInv')
<1> DEFINE q == round.tasks
           ls == [i \in DOMAIN q |-> Record("SQL", 0, conn[q[i]].w)]
<1>1. /\ log' = log \o ls /\ mark' = Len(log) /\ synced' = synced /\ mem' = mem /\ db' = db /\ ckpt' = ckpt
      /\ told' = told /\ clean' = clean /\ conn' = conn /\ count' = count /\ mutex' = {s} /\ mutex = {}
  BY DEF GroupWrite
<1>2. round'.stage = "written" /\ round.stage = "applied" /\ round'.tasks = q /\ round'.pre = round.pre
  BY CrowdHas DEF GroupWrite, Rounds
<1>3. \A o : InGroup(o)' <=> InGroup(o)
  BY <1>2 DEF InGroup
<1>4. q \in Seq(Sessions) /\ DOMAIN q = 1 .. Len(q) /\ Len(q) \in Nat /\ Distinct(q)
  BY CrowdHas DEF RecoveryInv, ModeInv, QueueInv
<1>5. ASSUME NEW i \in 1 .. Len(q)
      PROVE  q[i] \in Sessions /\ InGroup(q[i]) /\ conn[q[i]].pc = "queued" /\ ~HasWrite(log, conn[q[i]].w)
             /\ conn[q[i]].w \in 1 .. count.writes /\ conn[q[i]].w \in Writes
  <2>1. q[i] \in Sessions /\ InGroup(q[i])
    BY <1>4 DEF InGroup, Member
  <2>2. conn[q[i]].pc = "queued" /\ QueuedLog(q[i]) /\ conn[q[i]].w \in Writes
    BY <2>1, CrowdHas
  <2> QED BY <1>2, <2>1, <2>2 DEF QueuedLog
<1>6. /\ \A i \in 1 .. Len(q) : /\ ls[i] = Record("SQL", 0, conn[q[i]].w) /\ ls[i] \in LogRecs
                                /\ ls[i].kind = "SQL" /\ ls[i].tx = 0 /\ ls[i].w = conn[q[i]].w
      /\ ls \in Seq(LogRecs) /\ Len(ls) = Len(q)
  <2>1. ASSUME NEW i \in 1 .. Len(q)
        PROVE  /\ ls[i] = Record("SQL", 0, conn[q[i]].w) /\ ls[i] \in LogRecs
               /\ ls[i].kind = "SQL" /\ ls[i].tx = 0 /\ ls[i].w = conn[q[i]].w
    <3>1. conn[q[i]].w \in 0 .. MaxWrites /\ 0 \in 0 .. MaxTx
      BY <1>5, ServerWalAssumption DEF Writes
    <3>2. ls[i] = Record("SQL", 0, conn[q[i]].w)
      BY <1>4
    <3>3. \A w \in 0 .. MaxWrites : /\ Record("SQL", 0, w) \in LogRecs /\ Record("SQL", 0, w).kind = "SQL"
                                    /\ Record("SQL", 0, w).tx = 0 /\ Record("SQL", 0, w).w = w
      BY <3>1, LineType
    <3> HIDE DEF ls
    <3> QED BY <3>1, <3>2, <3>3
  <2>2. ls \in Seq(LogRecs) /\ Len(ls) = Len(q)
    <3>1. ls \in [1 .. Len(q) -> LogRecs]
      BY <1>4, <2>1
    <3> QED BY <1>4, <3>1
  <2> QED BY <2>1, <2>2
<1> HIDE DEF ls
<1>7. \A i, j \in 1 .. Len(ls) : ls[i].w = ls[j].w => i = j
  <2> SUFFICES ASSUME NEW i \in 1 .. Len(q), NEW j \in 1 .. Len(q), conn[q[i]].w = conn[q[j]].w
               PROVE  i = j
    BY <1>6
  <2>1. QueuedLog(q[i]) /\ conn[q[i]].pc = "queued" /\ conn[q[j]].pc = "queued" /\ q[i] \in Sessions /\ q[j] \in Sessions
    BY <1>5, CrowdHas
  <2>2. q[i] = q[j]
    BY <2>1 DEF QueuedLog
  <2> QED BY <1>4, <2>2 DEF Distinct
<1>8. /\ GoodLog(log', count) /\ Len(log') = Len(log) + Len(ls)
      /\ \A i \in 1 .. Len(ls) : log'[Len(log) + i] = ls[i]
      /\ \A w : HasWrite(log', w) => HasWrite(log, w) \/ \E i \in 1 .. Len(ls) : ls[i].w = w
      /\ \A w, n : n \in 0 .. Len(log) => (CommitsIn(log', n, w) <=> CommitsIn(log, n, w))
      /\ \A w : CommitsIn(log', Len(log'), w) =>
           CommitsIn(log, Len(log), w) \/ \E i \in 1 .. Len(ls) : ls[i].w = w
  <2>1. \A i \in 1 .. Len(ls) : /\ ls[i].kind = "SQL" /\ ls[i].tx = 0 /\ ls[i].w \in 1 .. count.writes
                                /\ ~HasWrite(log, ls[i].w)
    BY <1>5, <1>6
  <2>2. log \in Seq(LogRecs) /\ ls \in Seq(LogRecs) /\ count \in Counts /\ GoodLog(log, count)
    BY <1>6, CrowdHas
  <2>3. log' = log \o ls
    BY <1>1
  <2> QED BY <1>7, <2>1, <2>2, <2>3, AppendGroup, ZenonT(60)
<1>9. ASSUME NEW o \in Sessions, conn[o].pc = "queued" PROVE QueuedLog(o)'
  <2>1. QueuedLog(o)
    BY CrowdHas
  <2>2. ~InGroup(o) => ~HasWrite(log', conn[o].w)
    <3> SUFFICES ASSUME ~InGroup(o), HasWrite(log', conn[o].w) PROVE FALSE
      OBVIOUS
    <3>1. ~HasWrite(log, conn[o].w)
      BY <1>9, <2>1 DEF QueuedLog
    <3>2. PICK i \in 1 .. Len(q) : conn[q[i]].w = conn[o].w
      BY <1>6, <1>8, <3>1
    <3>3. q[i] = o
      BY <1>5, <1>9, <2>1, <3>2 DEF QueuedLog
    <3> QED BY <1>5, <3>3
  <2> QED BY <1>1, <1>2, <1>3, <1>9, <2>1, <2>2 DEF QueuedLog
<1>10. \A o \in Sessions : QueuedLog(o)'
  <2>1. \A o \in Sessions : conn[o].pc # "queued" => QueuedLog(o)'
    BY <1>1 DEF QueuedLog
  <2> QED BY <1>9, <2>1
<1>11. GroupLog'
  <2>1. Len(log') = mark' + Len(q)
    BY <1>1, <1>6, <1>8
  <2>2. \A i \in 1 .. Len(q) : log'[mark' + i] = Record("SQL", 0, conn'[q[i]].w)
    BY <1>1, <1>6, <1>8
  <2> QED BY <1>2, <2>1, <2>2 DEF GroupLog
<1>12. \A o \in Sessions : conn'[o].pc = "queued" => told'[conn'[o].w] = "nothing"
  BY <1>1, CrowdHas
<1>13. ASSUME clean
       PROVE  (\A w \in Writes : MemLog(w)') /\ (\A o \in Sessions : QueuedMem(o)') /\ GroupMem'
  <2>1. (\A w \in Writes : MemLog(w)) /\ (\A o \in Sessions : QueuedMem(o)) /\ GroupMem
    BY <1>13, CrowdHas
  <2>2. ASSUME NEW w \in Writes PROVE MemLog(w)'
    <3>1. MemLog(w)
      BY <2>1
    <3>2. (\E i \in 1 .. Len(ls) : ls[i].w = w) => mem[w] = 1 /\ db[w] = 0
      <4> SUFFICES ASSUME NEW i \in 1 .. Len(q), conn[q[i]].w = w PROVE mem[w] = 1 /\ db[w] = 0
        BY <1>6
      <4>1. QueuedMem(q[i]) /\ conn[q[i]].pc = "queued" /\ InGroup(q[i])
        BY <1>5, <2>1
      <4> QED BY <1>2, <4>1 DEF QueuedMem
    <3>3. Safe' = synced /\ Safe = synced /\ synced \in 0 .. Len(log)
      <4>1. synced \in 0 .. Len(log) /\ Len(log) \in Nat
        BY CrowdHas
      <4> QED BY <1>1, <4>1 DEF Safe
    <3> QED BY <1>1, <1>8, <3>1, <3>2, <3>3 DEF MemLog
  <2>3. \A o \in Sessions : QueuedMem(o)'
    BY <1>1, <1>2, <1>3, <2>1 DEF QueuedMem
  <2>4. GroupMem'
    BY <1>1, <1>2, <2>1 DEF GroupMem, WritesOf
  <2> QED BY <2>2, <2>3, <2>4
<1>14. GoodLog(log', count') /\ \A w \in Writes : w > count'.writes => told'[w] = "nothing"
  BY <1>1, <1>8, CrowdHas
<1> QED BY <1>1, <1>10, <1>11, <1>12, <1>13, <1>14, CrowdKeeps

\* The invariant: its fsync, or the cut back when that fails.
LEMMA GroupSyncKeeps ==
  ASSUME RecoveryInv, NEW s \in Sessions, Crowd', LineInv', GroupSync(s)
  PROVE  LogInv' /\ ToldInv' /\ (clean' => MemInv')
<1> DEFINE q == round.tasks
<1>1. /\ mem' = mem /\ db' = db /\ ckpt' = ckpt /\ told' = told /\ clean' = clean /\ conn' = conn
      /\ count'.writes = count.writes /\ count'.txs = count.txs /\ mutex' = {} /\ mark' = 0
  BY CrowdHas, SameCounts DEF GroupSync
<1>2. /\ round'.stage \in {"synced", "failed"} /\ round.stage = "written"
      /\ round'.tasks = q /\ round'.pre = round.pre
      /\ \/ SyncOk /\ round'.stage = "synced"
         \/ CutBack /\ round'.stage = "failed"
  BY CrowdHas DEF GroupSync, Rounds
<1>3. \A o : InGroup(o)' <=> InGroup(o)
  BY <1>2 DEF InGroup
<1>4. /\ q \in Seq(Sessions) /\ Len(q) \in Nat /\ log \in Seq(LogRecs) /\ Len(log) \in Nat
      /\ mark \in 0 .. Len(log) /\ synced \in 0 .. Len(log) /\ mutex # {} /\ GoodLog(log, count)
  BY <1>2, CrowdHas DEF RecoveryInv, ModeInv, MutexInv
<1>5. /\ Len(log) = mark + Len(q)
      /\ \A i \in 1 .. Len(q) : log[mark + i] = Record("SQL", 0, conn[q[i]].w)
  BY <1>2, CrowdHas DEF GroupLog
<1>6. ASSUME NEW o \in Sessions, InGroup(o)
      PROVE  \E k \in (mark + 1) .. Len(log) : log[k].kind = "SQL" /\ log[k].tx = 0 /\ log[k].w = conn[o].w
  <2>1. PICK i \in 1 .. Len(q) : q[i] = o
    BY <1>4, <1>6 DEF InGroup, Member
  <2>2. mark + i \in (mark + 1) .. Len(log) /\ log[mark + i] = Record("SQL", 0, conn[o].w)
    BY <1>4, <1>5, <2>1
  <2> QED BY <2>2 DEF Record
<1>7. GoodLog(log, count')
  BY <1>1, <1>4, CountsAgree
<1>8. ASSUME clean PROVE (\A o \in Sessions : QueuedMem(o)') /\ GroupMem'
  <2>1. (\A o \in Sessions : QueuedMem(o)) /\ GroupMem
    BY <1>8, CrowdHas
  <2> QED BY <1>1, <1>2, <1>3, <2>1 DEF QueuedMem, GroupMem, WritesOf
<1>9. /\ \A o \in Sessions : conn'[o].pc = "queued" => told'[conn'[o].w] = "nothing"
      /\ \A w \in Writes : w > count'.writes => told'[w] = "nothing"
  BY <1>1, CrowdHas
<1>10. \A o \in Sessions : QueuedLog(o)
  BY CrowdHas
<1>11. CASE SyncOk /\ round'.stage = "synced"
  <2>1. log' = log /\ synced' = Len(log) /\ Safe' = Len(log)
    BY <1>1, <1>11 DEF SyncOk, Safe
  <2>2. \A o \in Sessions : QueuedLog(o)'
    BY <1>1, <1>2, <1>3, <1>10, <1>11, <2>1 DEF QueuedLog
  <2>3. GroupLog'
    <3>1. ASSUME NEW o \in Member(q) PROVE CommitsIn(log, Len(log), conn[o].w)
      <4>1. o \in Sessions /\ InGroup(o)
        BY <1>4 DEF Member, InGroup
      <4>2. PICK k \in (mark + 1) .. Len(log) : log[k].kind = "SQL" /\ log[k].tx = 0 /\ log[k].w = conn[o].w
        BY <1>6, <4>1
      <4>3. k \in 1 .. Len(log)
        BY <1>4
      <4> QED BY <4>2, <4>3 DEF CommitsIn
    <3> QED BY <1>1, <1>2, <1>11, <2>1, <3>1 DEF GroupLog
  <2>4. ASSUME clean, NEW w \in Writes PROVE MemLog(w)'
    <3>1. MemLog(w)
      BY <2>4, CrowdHas
    <3>2. CommitsIn(log, Safe, w) => CommitsIn(log, Len(log), w)
      <4>1. Safe \in 0 .. Len(log) /\ Len(log) \in 0 .. Len(log)
        BY <1>4 DEF Safe
      <4> QED BY <1>4, <4>1, CommitsMore
    <3> QED BY <1>1, <2>1, <3>1, <3>2 DEF MemLog
  <2> QED BY <1>1, <1>7, <1>8, <1>9, <2>1, <2>2, <2>3, <2>4, CrowdKeeps
<1>12. CASE CutBack /\ round'.stage = "failed"
  <2>1. log' = SubSeq(log, 1, mark) /\ synced' = (IF synced < mark THEN synced ELSE mark) /\ Safe' = synced'
    BY <1>1, <1>12 DEF CutBack, Safe
  <2>2. /\ GoodLog(log', count') /\ Len(log') = mark
        /\ \A i \in 1 .. mark : log'[i] = log[i]
        /\ \A w : HasWrite(log', w) => HasWrite(log, w)
        /\ \A w, k : k \in 0 .. mark => (CommitsIn(log', k, w) <=> CommitsIn(log, k, w))
    BY <1>4, <1>7, <2>1, CutLog
  <2>3. Safe = Safe' /\ Safe \in 0 .. mark
    BY <1>4, <2>1 DEF Safe
  <2>4. ASSUME NEW o \in Sessions, conn[o].pc = "queued" PROVE ~HasWrite(log', conn[o].w)
    <3>1. CASE ~InGroup(o)
      BY <1>10, <2>2, <2>4, <3>1 DEF QueuedLog
    <3>2. CASE InGroup(o)
      <4> SUFFICES ASSUME HasWrite(log', conn[o].w) PROVE FALSE
        OBVIOUS
      <4>1. PICK i \in 1 .. mark : log[i].kind = "SQL" /\ log[i].w = conn[o].w
        BY <2>2 DEF HasWrite
      <4>2. PICK k \in (mark + 1) .. Len(log) : log[k].kind = "SQL" /\ log[k].w = conn[o].w
        BY <1>6, <3>2
      <4>3. i \in 1 .. Len(log) /\ k \in 1 .. Len(log) /\ i # k
        BY <1>4
      <4> QED BY <1>4, <4>1, <4>2, <4>3 DEF GoodLog, OneLineEach
    <3> QED BY <3>1, <3>2
  <2>5. \A o \in Sessions : QueuedLog(o)'
    BY <1>1, <1>2, <1>3, <1>10, <2>4 DEF QueuedLog
  <2>6. GroupLog'
    BY <1>12 DEF GroupLog
  <2>7. ASSUME clean, NEW w \in Writes PROVE MemLog(w)'
    <3>1. MemLog(w)
      BY <2>7, CrowdHas
    <3>2. CommitsIn(log', Len(log'), w) => CommitsIn(log, Len(log), w)
      <4>1. mark \in 0 .. mark /\ Len(log) \in 0 .. Len(log)
        BY <1>4
      <4> QED BY <1>4, <2>2, <4>1, CommitsMore
    <3> QED BY <1>1, <2>2, <2>3, <3>1, <3>2 DEF MemLog
  <2> QED BY <1>1, <1>8, <1>9, <2>2, <2>5, <2>6, <2>7, CrowdKeeps
<1> QED BY <1>2, <1>11, <1>12

\* The invariant: the pre-image comes back, or the group is acknowledged.
LEMMA AnswerGroupKeeps ==
  ASSUME RecoveryInv, NEW s \in Sessions, Crowd', LineInv', mutex = {}, Restore(s) \/ AckGroup(s)
  PROVE  LogInv' /\ ToldInv' /\ (clean' => MemInv')
<1> DEFINE ws == WritesOf(Tasks)
<1>1. /\ log' = log /\ mark' = mark /\ synced' = synced /\ db' = db /\ ckpt' = ckpt
      /\ Safe' = Safe /\ Safe = synced /\ clean' = clean /\ count' = count
      /\ conn' = Acked(Tasks) /\ round' = NoRound
  BY DEF Restore, AckGroup, logVars, Safe
<1>2. round'.stage = "none" /\ round'.tasks = <<>>
  BY <1>1 DEF NoRound
<1>3. \A o : ~InGroup(o)'
  BY <1>2 DEF InGroup, Member
<1>4. \A o \in Sessions : conn'[o].pc = "queued" => o \notin Tasks /\ conn'[o] = conn[o]
  BY <1>1, AckedIs, CrowdHas
<1>5. \A o \in Tasks : o \in Sessions /\ conn[o].pc = "queued" /\ InGroup(o)
  BY TasksQueued
<1>6. ASSUME NEW o \in Sessions, conn'[o].pc = "queued"
      PROVE  conn[o].w \notin ws /\ ~InGroup(o) /\ conn[o].pc = "queued" /\ conn'[o] = conn[o]
  BY <1>4, <1>5, <1>6, OneWriteEach, TasksQueued DEF InGroup
<1>7. \A o \in Sessions : QueuedLog(o)'
  <2>1. \A o \in Sessions : QueuedLog(o)
    BY CrowdHas
  <2> QED BY <1>1, <1>6, <2>1 DEF QueuedLog
<1>8. GroupLog' /\ GroupMem'
  BY <1>2 DEF GroupLog, GroupMem
<1>9. \A w \in Writes : w \notin ws => told'[w] = told[w]
  BY DEF Restore, AckGroup, Told
<1>10. \A w \in ws : w <= count.writes /\ w \in Nat /\ w \in Writes
  BY <1>5, CrowdHas DEF WritesOf
<1> HIDE DEF ws
<1>11. \A w \in Writes : w > count'.writes => told'[w] = "nothing"
  BY <1>1, <1>9, <1>10, CrowdHas
<1>12. \A o \in Sessions : conn'[o].pc = "queued" => told'[conn'[o].w] = "nothing"
  BY <1>6, <1>9, CrowdHas
<1>13. ASSUME clean PROVE (\A w \in Writes : MemLog(w)') /\ (\A o \in Sessions : QueuedMem(o)')
  <2>0. (\A w \in Writes : MemLog(w)) /\ (\A o \in Sessions : QueuedMem(o)) /\ GroupMem
    BY <1>13, CrowdHas
  <2>1. ASSUME NEW w \in ws
        PROVE  \E o \in Tasks : w = conn[o].w /\ mem[w] = 1 /\ db[w] = 0
    <3>1. PICK o \in Tasks : conn[o].w = w
      BY DEF WritesOf, ws
    <3>2. round.stage # "drained"
      BY DEF Restore, AckGroup
    <3> QED BY <1>5, <2>0, <3>1, <3>2 DEF QueuedMem
  <2>2. CASE Restore(s)
    <3>1. mem' = round.pre /\ mem = Plus(round.pre, ws) /\ round.stage = "failed" /\ round.pre \in Databases
      BY <2>0, <2>2, TasksQueued, CrowdHas DEF Restore, GroupMem, ws
    <3>2. \A w \in Writes : mem[w] = IF w \in ws THEN mem'[w] + 1 ELSE mem'[w]
      BY <3>1 DEF Plus
    <3>3. \A w \in Writes : mem'[w] \in Nat
      BY <3>1 DEF Databases
    <3>4. ASSUME NEW w \in ws PROVE mem'[w] = 0 /\ told'[w] = "refused" /\ ~HasWrite(log, w) /\ db[w] = 0
      <4>1. PICK o \in Tasks : w = conn[o].w /\ mem[w] = 1 /\ db[w] = 0
        BY <2>1
      <4>2. ~HasWrite(log, w)
        BY <1>5, <3>1, <4>1, CrowdHas DEF QueuedLog
      <4>3. told'[w] = "refused"
        BY <1>10, <2>2 DEF Restore, Told, ws
      <4>4. mem'[w] = 0
        BY <1>10, <3>2, <3>3, <4>1
      <4> QED BY <4>1, <4>2, <4>3, <4>4
    <3>5. ASSUME NEW w \in Writes PROVE MemLog(w)'
      <4>1. MemLog(w)
        BY <2>0
      <4>2. CASE w \in ws
        <5>1. ~CommitsIn(log, Len(log), w)
          <6>1. log \in Seq(LogRecs) /\ Len(log) \in 0 .. Len(log)
            BY CrowdHas
          <6> QED BY <3>4, <4>2, <6>1, CommitsMore
        <5> QED BY <1>1, <3>4, <4>2, <5>1 DEF MemLog
      <4>3. CASE w \notin ws
        BY <1>1, <1>9, <3>2, <4>1, <4>3 DEF MemLog
      <4> QED BY <4>2, <4>3
    <3>6. \A o \in Sessions : QueuedMem(o)'
      BY <1>1, <1>3, <1>6, <2>0, <3>2, CrowdHas DEF QueuedMem
    <3> QED BY <3>5, <3>6
  <2>3. CASE AckGroup(s)
    <3>1. mem' = mem /\ round.stage = "synced"
      BY <2>3 DEF AckGroup
    <3>2. ASSUME NEW w \in ws PROVE mem[w] = 1 /\ told'[w] = "acked" /\ CommitsIn(log, synced, w) /\ db[w] = 0
      <4>1. PICK o \in Tasks : w = conn[o].w /\ mem[w] = 1 /\ db[w] = 0
        BY <2>1
      <4>2. CommitsIn(log, synced, w)
        BY <3>1, <4>1, TasksQueued, CrowdHas DEF GroupLog
      <4>3. told'[w] = "acked"
        BY <1>10, <2>3 DEF AckGroup, Told, ws
      <4> QED BY <4>1, <4>2, <4>3
    <3>3. ASSUME NEW w \in Writes PROVE MemLog(w)'
      <4>1. MemLog(w)
        BY <2>0
      <4>2. CASE w \in ws
        BY <1>1, <3>1, <3>2, <4>1, <4>2 DEF MemLog
      <4>3. CASE w \notin ws
        BY <1>1, <1>9, <3>1, <4>1, <4>3 DEF MemLog
      <4> QED BY <4>2, <4>3
    <3>4. \A o \in Sessions : QueuedMem(o)'
      BY <1>1, <1>3, <1>6, <2>0, <3>1 DEF QueuedMem
    <3> QED BY <3>3, <3>4
  <2> QED BY <2>2, <2>3
<1>14. GoodLog(log', count')
  BY <1>1, CrowdHas
<1> QED BY <1>1, <1>7, <1>8, <1>11, <1>12, <1>13, <1>14, CrowdKeeps

---------------------------------------------------------------------------
(* The flusher, CHECKPOINT, a crash, and the theorems.                     *)

\* What a boot makes of any log a crash may leave.
LEMMA KeptIs ==
  ASSUME RecoveryInv, clean, ckpt.pc # "installed", NEW n \in synced .. Len(log),
         WellBracketed(SubSeq(log, 1, n)), NEW w \in Writes
  PROVE  LET kept == SubSeq(log, 1, n)
             r    == Recovered(db, kept)[w]
         IN  /\ r \in {0, 1} /\ db[w] <= r
             /\ CommitsIn(kept, n, w) => r = 1
             /\ HasWrite(kept, w) => db[w] = 0
             /\ told[w] = "acked" => r = 1 /\ (db[w] = 1 \/ CommitsIn(kept, n, w))
             /\ mem[w] = 0 => r = 0
<1> DEFINE kept == SubSeq(log, 1, n)
           r    == Recovered(db, kept)[w]
<1>1. /\ log \in Seq(LogRecs) /\ Len(log) \in Nat /\ synced \in 0 .. Len(log) /\ mark \in 0 .. Len(log)
      /\ GoodLog(log, count) /\ MemLog(w) /\ db \in Databases /\ mem \in Databases
  BY CrowdHas
<1>2. n \in 0 .. Len(log) /\ Len(log) \in 0 .. Len(log) /\ n \in 0 .. n
  BY <1>1
<1>3. /\ kept \in Seq(LogRecs) /\ Len(kept) = n /\ GoodLog(kept, count)
      /\ \A v : HasWrite(kept, v) => HasWrite(log, v)
      /\ \A v, k : k \in 0 .. n => (CommitsIn(kept, k, v) <=> CommitsIn(log, k, v))
  BY <1>1, <1>2, CutLog
<1>4. Trusted(kept)
  BY <1>3 DEF Trusted, GoodLog
<1> HIDE DEF kept
<1>5. r = db[w] + (IF CommitsIn(kept, n, w) THEN 1 ELSE 0)
  BY <1>1, <1>3, <1>4, RecoveredIs
<1>6. CommitsIn(kept, n, w) => HasWrite(kept, w) /\ CommitsIn(log, Len(log), w)
  BY <1>1, <1>2, <1>3, CommitsMore
<1>7. HasWrite(kept, w) => db[w] = 0
  BY <1>1, <1>3 DEF MemLog
<1>8. db[w] \in {0, 1} /\ mem[w] \in {0, 1} /\ db[w] <= mem[w]
  BY <1>1 DEF MemLog, Databases
<1>9. CommitsIn(kept, n, w) => r = 1 /\ db[w] = 0 /\ mem[w] = 1
  BY <1>1, <1>5, <1>6, <1>7 DEF MemLog
<1>10. ~CommitsIn(kept, n, w) => r = db[w]
  BY <1>5, <1>8
<1>11. told[w] = "acked" => db[w] = 1 \/ CommitsIn(kept, n, w)
  <2> SUFFICES ASSUME told[w] = "acked", db[w] # 1 PROVE CommitsIn(kept, n, w)
    OBVIOUS
  <2>1. CommitsIn(log, Safe, w)
    BY <1>1 DEF MemLog
  <2>2. Safe \in 0 .. n
    BY <1>1, <1>2 DEF Safe
  <2> QED BY <1>1, <1>2, <1>3, <2>1, <2>2, CommitsMore
<1> HIDE DEF r
<1> QED BY <1>7, <1>8, <1>9, <1>10, <1>11 DEF r, kept

\* The invariant: the flusher's fsync.
LEMMA FlushKeeps ==
  ASSUME RecoveryInv, Flush
  PROVE  LogInv' /\ ToldInv' /\ (clean' => MemInv')
<1>1. /\ log' = log /\ mark' = mark /\ mutex' = mutex /\ mem' = mem /\ db' = db /\ ckpt' = ckpt /\ conn' = conn
      /\ told' = told /\ clean' = clean /\ round' = round /\ count' = count /\ synced' = Len(log)
  BY DEF Flush, queueVars
<1>2. log \in Seq(LogRecs) /\ Len(log) \in Nat /\ synced \in 0 .. Len(log) /\ mark \in 0 .. Len(log)
  BY CrowdHas
<1>3. ASSUME NEW w PROVE (CommitsIn(log, synced, w) => CommitsIn(log, synced', w))
                         /\ (CommitsIn(log, Safe, w) => CommitsIn(log, Safe', w))
  <2>1. synced' \in 0 .. Len(log) /\ synced \in 0 .. synced'
    BY <1>1, <1>2
  <2>2. Safe' \in 0 .. Len(log) /\ Safe \in 0 .. Safe'
    BY <1>1, <1>2 DEF Safe
  <2> QED BY <1>2, <2>1, <2>2, CommitsMore
<1>4. LogInv'
  <2>1. LogInv
    BY DEF RecoveryInv
  <2>2. \A o \in Sessions : QueuedLog(o) => QueuedLog(o)'
    BY <1>1 DEF QueuedLog, InGroup
  <2>3. GroupLog => GroupLog'
    BY <1>1, <1>3 DEF GroupLog
  <2> QED BY <1>1, <2>1, <2>2, <2>3 DEF LogInv
<1>5. ToldInv'
  BY <1>1 DEF RecoveryInv, ToldInv
<1>6. ASSUME clean PROVE MemInv'
  <2>1. MemInv
    BY <1>6 DEF RecoveryInv
  <2>2. \A w \in Writes : MemLog(w) => MemLog(w)'
    BY <1>1, <1>3 DEF MemLog
  <2>3. \A o \in Sessions : QueuedMem(o) => QueuedMem(o)'
    BY <1>1 DEF QueuedMem, InGroup
  <2>4. (GroupMem => GroupMem') /\ (CkptMem => CkptMem')
    BY <1>1 DEF GroupMem, CkptMem, WritesOf
  <2> QED BY <1>1, <2>1, <2>2, <2>3, <2>4 DEF MemInv
<1> QED BY <1>1, <1>4, <1>5, <1>6

\* Everybody at rest carries little.
LEMMA RestKeeps ==
  ASSUME LineInv', round'.stage = "none",
         \A o \in Sessions : conn'[o].pc = "idle" /\ conn'[o].tx = 0,
         GoodLog(log', count'), \A w \in Writes : w > count'.writes => told'[w] = "nothing",
         clean' => (\A w \in Writes : MemLog(w)') /\ CkptMem'
  PROVE  LogInv' /\ ToldInv' /\ (clean' => MemInv')
<1>1. \A o \in Sessions : conn'[o].shadow = {}
  BY DEF LineInv, Lined
<1>2. \A o \in Sessions : /\ TxLog(conn'[o], log', count') /\ LineLog(conn'[o], log', count', mark')
                          /\ QueuedLog(o)' /\ QueuedMem(o)'
  BY DEF TxLog, LineLog, QueuedLog, QueuedMem
<1>3. \A w \in Writes : \A o \in Sessions : ToldOf(conn'[o], told'[w], w) /\ MemOf(conn'[o], log', mem', db', w)
  BY <1>1 DEF ToldOf, MemOf
<1>4. GroupLog' /\ GroupMem'
  BY DEF GroupLog, GroupMem
<1> QED BY <1>2, <1>3, <1>4 DEF LogInv, ToldInv, MemInv

\* The invariant: CHECKPOINT.
LEMMA CkptKeeps ==
  ASSUME Overlap = FALSE, RecoveryInv, LineInv', CkptSnapshot \/ CkptInstall \/ CkptTruncate
  PROVE  LogInv' /\ ToldInv' /\ (clean' => MemInv')
<1>1. \A o \in Sessions : AtRest(o)
  BY DEF CkptSnapshot, CkptInstall, CkptTruncate, RecoveryInv, ModeInv, SoloInv
<1>2. leader = {} /\ round.stage = "none" /\ mutex = {}
  <2>1. leader = {}
    BY <1>1 DEF RecoveryInv, TypeInv, ModeInv, QueueInv, AtRest
  <2>2. round.stage = "none"
    BY <2>1 DEF RecoveryInv, ModeInv, QueueInv
  <2>3. mutex = {}
    BY <1>1, <2>2 DEF RecoveryInv, ModeInv, MutexInv, AtRest
  <2> QED BY <2>1, <2>2, <2>3
<1>3. /\ round' = round /\ conn' = conn /\ told' = told /\ mem' = mem /\ clean' = clean
      /\ count'.writes = count.writes /\ count'.txs = count.txs
  BY CrowdHas DEF CkptSnapshot, CkptInstall, CkptTruncate, queueVars, Counts
<1>4. \A o \in Sessions : conn'[o].pc = "idle" /\ conn'[o].tx = 0
  BY <1>1, <1>3 DEF AtRest
<1>5. GoodLog(log, count') /\ \A w \in Writes : w > count'.writes => told'[w] = "nothing"
  BY <1>3, CrowdHas, CountsAgree
<1>6. clean => CkptMem /\ (\A w \in Writes : MemLog(w)) /\ mem \in Databases
  BY CrowdHas DEF RecoveryInv, MemInv
<1>7. CASE CkptSnapshot
  <2>1. log' = log /\ db' = db /\ Safe' = Safe /\ ckpt'.pc = "snapshot" /\ ckpt'.snap = mem /\ ~ckpt'.anyTx
        /\ ckpt.pc = "idle"
    BY <1>1, <1>7 DEF CkptSnapshot, logVars, Safe, AtRest
  <2>2. clean' => (\A w \in Writes : MemLog(w)') /\ CkptMem'
    BY <1>3, <1>6, <2>1 DEF MemLog, CkptMem
  <2> QED BY <1>2, <1>3, <1>4, <1>5, <2>1, <2>2, RestKeeps
<1>8. CASE CkptInstall
  <2>1. log' = log /\ db' = ckpt.snap /\ Safe' = Safe /\ ckpt.pc = "snapshot"
    BY <1>8 DEF CkptInstall, logVars, Safe
  <2>2. ASSUME clean' PROVE (\A w \in Writes : MemLog(w)') /\ CkptMem'
    <3>1. db' = mem /\ ckpt'.pc = "installed" /\ ckpt'.snap = mem /\ ~ckpt'.anyTx
      <4>1. ckpt.snap = mem /\ ~ckpt.anyTx
        BY <1>3, <1>6, <2>1, <2>2 DEF CkptMem
      <4>2. ckpt' = [ckpt EXCEPT !.pc = "installed"]
        BY <1>8, <4>1 DEF CkptInstall
      <4>3. ckpt \in Ckpts
        BY DEF RecoveryInv, TypeInv
      <4> QED BY <2>1, <4>1, <4>2, <4>3 DEF Ckpts
    <3>2. ASSUME NEW w \in Writes PROVE MemLog(w)'
      <4>1. MemLog(w) /\ mem[w] \in {0, 1}
        BY <1>3, <1>6, <2>2 DEF MemLog
      <4> QED BY <1>3, <2>1, <3>1, <4>1 DEF MemLog
    <3>3. CkptMem'
      BY <1>3, <3>1 DEF CkptMem
    <3> QED BY <3>2, <3>3
  <2> QED BY <1>2, <1>3, <1>4, <1>5, <2>1, <2>2, RestKeeps
<1>9. CASE CkptTruncate
  <2>1. log' = <<>> /\ db' = db /\ ckpt'.pc = "idle" /\ ckpt.pc = "installed"
    BY <1>9 DEF CkptTruncate, NoCkpt
  <2>2. GoodLog(log', count')
    BY <2>1 DEF GoodLog, OneLineEach, EndsLast
  <2>3. ASSUME clean' PROVE (\A w \in Writes : MemLog(w)') /\ CkptMem'
    <3>1. db = mem
      BY <1>3, <1>6, <2>1, <2>3 DEF CkptMem
    <3>2. ASSUME NEW w \in Writes PROVE MemLog(w)'
      <4>1. MemLog(w) /\ mem[w] \in {0, 1}
        BY <1>3, <1>6, <2>3 DEF MemLog
      <4>2. ~HasWrite(log', w) /\ ~CommitsIn(log', Len(log'), w)
        BY <2>1 DEF HasWrite, CommitsIn
      <4> QED BY <1>3, <2>1, <3>1, <4>1, <4>2 DEF MemLog
    <3>3. CkptMem'
      BY <2>1 DEF CkptMem
    <3> QED BY <3>2, <3>3
  <2> QED BY <1>2, <1>3, <1>4, <1>5, <2>2, <2>3, RestKeeps
<1> QED BY <1>7, <1>8, <1>9

\* The invariant: a crash, and the boot that replays what is left.
LEMMA CrashKeeps ==
  ASSUME RecoveryInv, LineInv', Crash
  PROVE  LogInv' /\ ToldInv' /\ (clean' => MemInv')
<1>1. PICK kept \in Kept : /\ log' = kept /\ synced' = Len(kept) /\ mem' = Recovered(db, kept)
                           /\ clean' = (clean /\ Replayable(kept))
  BY DEF Crash
<1>2. PICK n \in synced .. Len(log) : kept = SubSeq(log, 1, n)
  BY DEF Kept
<1>3. /\ round'.stage = "none" /\ ckpt'.pc = "idle" /\ db' = db /\ told' = told /\ mutex' = {}
      /\ count'.writes = count.writes /\ count'.txs = count.txs
      /\ \A o \in Sessions : conn'[o].pc = "idle" /\ conn'[o].tx = 0
  BY CrowdHas DEF Crash, NoRound, NoCkpt, Fresh, Counts
<1>4. /\ n \in 0 .. Len(log) /\ log \in Seq(LogRecs) /\ GoodLog(log, count')
  <2>1. log \in Seq(LogRecs) /\ Len(log) \in Nat /\ synced \in 0 .. Len(log) /\ GoodLog(log, count)
    BY CrowdHas
  <2>2. GoodLog(log, count')
    BY <1>3, <2>1, CountsAgree
  <2> QED BY <1>2, <2>1, <2>2
<1>5. Len(log') = n /\ GoodLog(log', count')
  BY <1>1, <1>2, <1>4, CutLog
<1>6. \A w \in Writes : w > count'.writes => told'[w] = "nothing"
  BY <1>3, CrowdHas
<1>7. ASSUME clean', NEW w \in Writes PROVE MemLog(w)'
  <2>1. clean /\ WellBracketed(kept) /\ ckpt.pc # "installed"
    BY <1>1, <1>7 DEF Replayable
  <2>2. /\ mem'[w] \in {0, 1} /\ db[w] <= mem'[w]
        /\ CommitsIn(log', n, w) => mem'[w] = 1
        /\ HasWrite(log', w) => db[w] = 0
        /\ told[w] = "acked" => mem'[w] = 1 /\ (db[w] = 1 \/ CommitsIn(log', n, w))
        /\ mem[w] = 0 => mem'[w] = 0
    BY <1>1, <1>2, <2>1, KeptIs
  <2>3. MemLog(w)
    BY <2>1, CrowdHas
  <2>4. Safe' = n
    BY <1>1, <1>3, <1>5 DEF Safe
  <2> QED BY <1>3, <1>5, <2>2, <2>3, <2>4 DEF MemLog
<1>8. CkptMem'
  BY <1>3 DEF CkptMem
<1> QED BY <1>3, <1>5, <1>6, <1>7, <1>8, RestKeeps

\* The invariant: a step of one connection's own.
LEMMA AloneKeeps ==
  ASSUME Overlap = FALSE, RecoveryInv, NEW s \in Sessions,
         \/ Inline(s) \/ Begin(s) \/ Statement(s) \/ StatementFails(s) \/ Commit(s)
         \/ CommitAborted(s) \/ CommitFails(s) \/ Rollback(s) \/ Disconnect(s)
         \/ Persist(s) \/ InlineAuditFails(s)
  PROVE  RecoveryInv'
<1>1. TypeInv' /\ LineInv'
  BY InlineTypes DEF RecoveryInv
<1>2. ModeInv' /\ Sole(s) /\ Sole(s)'
  BY InlineModes DEF RecoveryInv
<1>3. CASE InlineAuditFails(s)
  <2>1. conn[s].pc = "log" /\ Answer(s, FALSE, conn[s].unlogged) /\ Fault /\ conn[s].unlogged \in BOOLEAN
        /\ UNCHANGED <<mem, db, logVars, ckpt, clean>>
    BY <1>3, SoleHas DEF InlineAuditFails, Conns
  <2> QED BY <1>1, <1>2, <2>1, FailedKeeps DEF RecoveryInv
<1>4. CASE ~InlineAuditFails(s)
  <2>1. LogInv' /\ ToldInv' /\ (clean' => MemInv')
    BY <1>1, <1>2, <1>4, InlineKeeps, BeginKeeps, StatementKeeps, StatementFailsKeeps, CommitKeeps,
       RolledBackKeeps, LogBeginKeeps, LogStatementKeeps, LogWriteKeeps, LogSyncKeeps DEF Persist
  <2> QED BY <1>1, <1>2, <2>1 DEF RecoveryInv
<1> QED BY <1>3, <1>4

\* The invariant: a step of the commit queue.
LEMMA QueueKeeps ==
  ASSUME Overlap = FALSE, RecoveryInv, NEW s \in Sessions, Enqueue(s) \/ Lead(s) \/ AuditFails(s)
  PROVE  RecoveryInv'
<1>1. TypeInv' /\ LineInv'
  BY QueueTypes DEF RecoveryInv
<1>2. ModeInv'
  BY QueueModes DEF RecoveryInv
<1>3. Crowd'
  <2>1. ASSUME leader' # {} PROVE Crowd'
    <3>1. PICK l \in leader' : l \in Sessions
      BY <1>1, <2>1 DEF TypeInv
    <3>2. conn'[l].pc \in {"queued", "acked"}
      BY <1>2, <3>1 DEF ModeInv, QueueInv
    <3>3. ckpt'.pc = "idle"
      BY <1>2, <3>1, <3>2 DEF ModeInv, SoloInv, AtRest
    <3>4. \A o \in Sessions : ~Solo(o)'
      BY <1>2, <2>1 DEF ModeInv, SoloInv
    <3> QED BY <3>3, <3>4 DEF Crowd
  <2>2. CASE DropBaton(s)
    <3>1. ckpt.pc = "idle" /\ \A o \in Sessions : ~Solo(o)
      BY <2>2, LeaderMode DEF DropBaton, RecoveryInv
    <3> DEFINE e == [conn[s] EXCEPT !.pc = IF @ = "acked" THEN "idle" ELSE @]
    <3>2. conn' = [conn EXCEPT ![s] = e] /\ ckpt' = ckpt
      BY <2>2, CrowdHas DEF DropBaton
    <3>3. e.tx = conn[s].tx /\ e.pc \in {"idle", conn[s].pc}
      BY CrowdHas DEF Conns
    <3> HIDE DEF e
    <3> QED BY <3>1, <3>2, <3>3, CrowdHas DEF Crowd, Solo, Pending
  <2>3. CASE ~DropBaton(s)
    <3>1. leader' # {}
      BY <2>3 DEF Enqueue, Lead, Drain, Apply, GroupWrite, GroupSync, Restore, AckGroup, AuditFails
    <3> QED BY <2>1, <3>1
  <2> QED BY <2>2, <2>3
<1>4. Restore(s) \/ AckGroup(s) => mutex = {}
  BY LeaderMode DEF Restore, AckGroup, RecoveryInv
<1>5. LogInv' /\ ToldInv' /\ (clean' => MemInv')
  BY <1>1, <1>3, <1>4, EnqueueKeeps, DrainKeeps, DropBatonKeeps, ApplyKeeps, AuditFailsKeeps, GroupWriteKeeps,
     GroupSyncKeeps, AnswerGroupKeeps DEF Lead
<1> QED BY <1>1, <1>2, <1>5 DEF RecoveryInv

\* The invariant: the steps of no connection.
LEMMA OthersKeep ==
  ASSUME Overlap = FALSE, RecoveryInv,
         Flush \/ CkptSnapshot \/ CkptInstall \/ CkptTruncate \/ Crash \/ Read \/ UNCHANGED vars
  PROVE  RecoveryInv'
<1>1. TypeInv' /\ LineInv'
  BY OtherTypes DEF RecoveryInv
<1>2. ModeInv'
  BY OtherModes DEF RecoveryInv
<1>3. CASE Read \/ UNCHANGED vars
  <2>1. UNCHANGED vars
    BY <1>3 DEF Read
  <2>2. LogInv' /\ ToldInv' /\ (clean' => MemInv')
    BY <2>1 DEF RecoveryInv, vars, LogInv, ToldInv, MemInv, QueuedLog, GroupLog, MemLog, QueuedMem, GroupMem,
       CkptMem, InGroup, WritesOf, Safe
  <2> QED BY <1>1, <1>2, <2>2 DEF RecoveryInv
<1>4. CASE ~(Read \/ UNCHANGED vars)
  <2>1. LogInv' /\ ToldInv' /\ (clean' => MemInv')
    BY <1>1, <1>4, FlushKeeps, CkptKeeps, CrashKeeps
  <2> QED BY <1>1, <1>2, <2>1 DEF RecoveryInv
<1> QED BY <1>3, <1>4

\* The invariant holds at the start.
LEMMA RecoveryInit ==
  ASSUME WalInit
  PROVE  RecoveryInv
<1>1. TypeInv /\ LineInv
  BY InitTypes
<1>2. /\ \A s \in Sessions : conn[s].pc = "idle" /\ conn[s].tx = 0 /\ conn[s].shadow = {}
      /\ queue = <<>> /\ leader = {} /\ round.stage = "none" /\ round.tasks = <<>> /\ ckpt.pc = "idle"
      /\ mutex = {} /\ log = <<>> /\ (\A w \in Writes : mem[w] = 0 /\ db[w] = 0 /\ told[w] = "nothing")
  BY DEF WalInit, Fresh, NoRound, NoCkpt, Nothing
<1>3. Member(<<>>) = {} /\ Distinct(<<>>)
  BY DEF Member, Distinct
<1>4. ModeInv
  <2>1. SoloInv /\ MutexInv
    BY <1>2 DEF SoloInv, MutexInv, Solo, Pending, AtRest
  <2>2. QueueInv
    BY <1>2, <1>3 DEF QueueInv
  <2> QED BY <2>1, <2>2 DEF ModeInv
<1>5. LogInv
  <2>1. GoodLog(log, count)
    BY <1>2 DEF GoodLog, OneLineEach, EndsLast
  <2>2. \A s \in Sessions : TxLog(conn[s], log, count) /\ LineLog(conn[s], log, count, mark) /\ QueuedLog(s)
    BY <1>2 DEF TxLog, LineLog, QueuedLog
  <2>3. GroupLog
    BY <1>2 DEF GroupLog
  <2> QED BY <2>1, <2>2, <2>3 DEF LogInv
<1>6. ToldInv
  BY <1>2 DEF ToldInv, ToldOf
<1>7. MemInv
  <2>1. ASSUME NEW w \in Writes PROVE MemLog(w) /\ \A s \in Sessions : MemOf(conn[s], log, mem, db, w)
    <3>1. ~CommitsIn(log, Len(log), w) /\ ~HasWrite(log, w)
      BY <1>2 DEF CommitsIn, HasWrite
    <3> QED BY <1>2, <3>1 DEF MemLog, MemOf
  <2>2. (\A s \in Sessions : QueuedMem(s)) /\ GroupMem /\ CkptMem
    BY <1>2 DEF QueuedMem, GroupMem, CkptMem
  <2> QED BY <2>1, <2>2 DEF MemInv
<1> QED BY <1>1, <1>4, <1>5, <1>6, <1>7 DEF RecoveryInv

\* What the invariant says of recovery at any moment.
LEMMA RecoveryImplies ==
  ASSUME RecoveryInv
  PROVE  BracketedRecovery /\ (clean => AckedInMemory)
<1>1. clean => AckedInMemory
  BY CrowdHas DEF AckedInMemory, AckedWrites, MemLog
<1>2. ASSUME clean, Replayable(log) PROVE AckedSurvive /\ AppliedOnce /\ UnwantedStayOut
  <2>1. ASSUME NEW kept \in Kept, NEW w \in Writes
        PROVE  /\ Recovered(db, kept)[w] \in {0, 1}
               /\ told[w] = "acked" => Recovered(db, kept)[w] = 1
               /\ mem[w] = 0 => Recovered(db, kept)[w] = 0
    <3>1. PICK n \in synced .. Len(log) : kept = SubSeq(log, 1, n)
      BY DEF Kept
    <3>2. log \in Seq(LogRecs) /\ Len(log) \in Nat /\ synced \in 0 .. Len(log) /\ GoodLog(log, count)
      BY CrowdHas
    <3>3. n \in 0 .. Len(log)
      BY <3>1, <3>2
    <3>4. WellBracketed(SubSeq(log, 1, n))
      BY <1>2, <3>2, <3>3, CutLog DEF Replayable
    <3> QED BY <1>2, <3>1, <3>4, KeptIs DEF Replayable
  <2>2. AckedSurvive
    BY <2>1 DEF AckedSurvive, AckedWrites
  <2>3. AppliedOnce
    BY <2>1 DEF AppliedOnce
  <2>4. \A w \in Unwanted : w \in Writes /\ mem[w] = 0
    <3>1. \A w \in Writes : told[w] \in {"refused", "undone"} => mem[w] = 0
      BY <1>2, CrowdHas DEF MemLog
    <3>2. \A s \in Sessions : \A w \in conn[s].shadow : w \in Writes /\ mem[w] = 0
      BY <1>2, SoleHas DEF MemOf
    <3> QED BY <3>1, <3>2 DEF Unwanted
  <2>5. UnwantedStayOut
    BY <2>1, <2>4 DEF UnwantedStayOut
  <2> QED BY <2>2, <2>3, <2>5
<1> QED BY <1>1, <1>2 DEF BracketedRecovery

\* The invariant holds throughout.
LEMMA RecoveryHolds ==
  ASSUME Overlap = FALSE
  PROVE  WalSpec => []RecoveryInv
<1>1. WalInit => RecoveryInv
  BY RecoveryInit
<1>2. RecoveryInv /\ [WalNext]_vars => RecoveryInv'
  BY AloneKeeps, QueueKeeps, OthersKeep DEF WalNext, Client
<1> QED BY <1>1, <1>2, PTL DEF WalSpec

\* Recovery is exact: as long as the log is one replay may trust, a crash at
\* any moment, whatever the disk kept of the unsynced tail, brings back every
\* acknowledged write, none twice, and none that was refused, rolled back or
\* not committed (replay_wal_into_engine against the commit queue's and
\* persist_wire_write's order of engine, log and answer).  The load is the one
\* without Overlap: with it CHECKPOINT refutes the property.
THEOREM RecoveryIsExact ==
  ASSUME Overlap = FALSE
  PROVE  WalSpec => []BracketedRecovery
<1>1. RecoveryInv => BracketedRecovery
  BY RecoveryImplies
<1> QED BY <1>1, RecoveryHolds, PTL

---------------------------------------------------------------------------
(* What clients see, whatever overlaps with what and without a crash.       *)

\* Writes in the engine's catalog whose client waits for the answer.
Landing(c) ==
  {w \in Writes : /\ c.pc \in {"log", "sync"}
                  /\ \/ c.rec.kind = "SQL" /\ c.rec.tx = 0 /\ c.rec.w = w
                     \/ c.rec.kind = "COMMIT" /\ w \in c.good}

\* Writes whose fate is in the connection's hands.
Hold(c) == c.shadow \cup Landing(c) \cup {w \in Writes : c.pc = "queued" /\ c.w = w}

Group == WritesOf(Member(round.tasks))

\* The pending statement of a transaction is among its writes; who waits for the
\* queue has none.
TxHold(c) ==
  /\ c.tx # 0 => c.good \subseteq c.shadow /\ (c.pc \in {"log", "sync"} => c.rec.w \in c.shadow)
  /\ c.pc \in {"queued", "acked"} => c.tx = 0

InQueue ==
  /\ \A s \in Member(queue) \cup Member(round.tasks) : conn[s].pc = "queued"
  /\ Distinct(queue) /\ Member(queue) \cap Member(round.tasks) = {}
  /\ round.stage = "none" => round.tasks = <<>>

Visible(w) == mem[w] = 1 \/ w \in erased

SeenWrite(w) ==
  /\ w > count.writes => mem[w] = 0 /\ told[w] = "nothing"
  /\ told[w] = "acked" => Visible(w)

SeenConn(s) ==
  /\ TxHold(conn[s])
  /\ \A w \in Hold(conn[s]) : w <= count.writes /\ told[w] # "acked"
  /\ \A w \in conn[s].shadow : mem[w] = 0
  /\ \A w \in Landing(conn[s]) : Visible(w)
  /\ conn[s].pc = "queued" =>
       conn[s].w \in Writes /\ mem[conn[s].w] = IF InGroup(s) /\ InHand THEN 1 ELSE 0

\* No write is in two hands.
Apart == \A s, o \in Sessions : \A w \in Writes : w \in Hold(conn[s]) /\ w \in Hold(conn[o]) => s = o

\* The group's pre-image is the catalog without the group and without what came
\* beside it.
SeenGroup ==
  InHand => \A w \in Writes : mem[w] = IF w \in Group \cup beside THEN 1 ELSE round.pre[w]

VisInv ==
  /\ TypeInv /\ LineInv /\ InQueue
  /\ \A w \in Writes : SeenWrite(w)
  /\ \A s \in Sessions : SeenConn(s)
  /\ Apart /\ SeenGroup

\* A step of one connection: it takes up new writes, puts writes of its own that
\* were not there into the catalog (A), and answers for what it has there.
OwnMove(s, c, A) ==
  /\ conn' = [conn EXCEPT ![s] = c] /\ round' = round /\ erased' = erased
  /\ conn[s].pc # "queued"
  /\ count.writes <= count'.writes
  /\ A \subseteq Writes
  /\ \A w \in A : w <= count'.writes /\ (w \in conn[s].shadow \/ w > count.writes)
  /\ \A w \in Writes : mem'[w] = IF w \in A THEN mem[w] + 1 ELSE mem[w]
  /\ InHand => beside' = beside \cup A
  /\ \A w \in c.shadow : w \notin A /\ (w \in conn[s].shadow \/ w > count.writes)
  /\ \A w \in Landing(c) : w \in Landing(conn[s]) \/ w \in A
  /\ c.pc = "queued" => c.w \in Writes /\ c.w > count.writes /\ c.w \notin A
  /\ \A w \in Hold(c) : w <= count'.writes
  /\ TxHold(c)
  /\ \A w \in Writes : \/ told'[w] = told[w]
                       \/ told'[w] # "acked" /\ w \in Hold(conn[s])
                       \/ w \in Landing(conn[s]) /\ w \notin Hold(c)

\* Order on naturals.
LEMMA NotMore == \A a, b \in Nat : a <= b => ~(a > b)
OBVIOUS

\* Such a step keeps the invariant.
LEMMA OwnStep ==
  ASSUME VisInv, NEW s \in Sessions, TypeInv', LineInv', InQueue', NEW c, NEW A, OwnMove(s, c, A)
  PROVE  VisInv'
<1> USE DEF OwnMove
<1>0. /\ TypeInv /\ LineInv /\ InQueue /\ Apart /\ SeenGroup
      /\ \A w \in Writes : SeenWrite(w)
      /\ \A o \in Sessions : SeenConn(o)
  BY DEF VisInv
<1>1. /\ conn \in [Sessions -> Conns] /\ conn' \in [Sessions -> Conns] /\ c \in Conns
      /\ \A o \in Sessions : conn'[o] = IF o = s THEN c ELSE conn[o]
      /\ mem \in [Writes -> Nat] /\ mem' \in [Writes -> Nat]
      /\ count.writes \in Nat /\ count'.writes \in Nat /\ Writes \subseteq Nat
  <2>1. conn \in [Sessions -> Conns] /\ conn' \in [Sessions -> Conns]
    BY <1>0 DEF TypeInv
  <2>2. conn'[s] = c
    BY <2>1
  <2>3. c \in Conns
    BY <2>1, <2>2
  <2>4. count \in Counts /\ count' \in Counts /\ mem \in Databases /\ mem' \in Databases
    BY <1>0 DEF TypeInv
  <2> QED BY <2>1, <2>3, <2>4 DEF Counts, Databases, Writes
<1>2. ASSUME NEW o \in Sessions PROVE Hold(conn[o]) \subseteq Writes /\ conn[o].shadow \subseteq Hold(conn[o])
                                      /\ Landing(conn[o]) \subseteq Hold(conn[o])
  <2>1. conn[o].shadow \subseteq Writes
    BY <1>1 DEF Conns
  <2> QED BY <2>1 DEF Hold, Landing
<1>3. c.shadow \subseteq Writes /\ Hold(c) \subseteq Writes /\ c.shadow \subseteq Hold(c) /\ Landing(c) \subseteq Hold(c)
  <2>1. c.shadow \subseteq Writes
    BY <1>1 DEF Conns
  <2> QED BY <2>1 DEF Hold, Landing
<1>4. \A w \in Hold(c) : w \in Hold(conn[s]) \/ w > count.writes
  <2> SUFFICES ASSUME NEW w \in Hold(c) PROVE w \in Hold(conn[s]) \/ w > count.writes
    OBVIOUS
  <2>1. CASE w \in c.shadow
    BY <1>2, <2>1
  <2>2. CASE w \in Landing(c)
    BY <1>2, <2>2
  <2>3. CASE c.pc = "queued" /\ c.w = w
    BY <2>3
  <2> QED BY <2>1, <2>2, <2>3 DEF Hold
<1>5. \A w \in A : mem[w] = 0 /\ mem'[w] = 1 /\ told[w] # "acked"
  <2> SUFFICES ASSUME NEW w \in A PROVE mem[w] = 0 /\ mem'[w] = 1 /\ told[w] # "acked"
    OBVIOUS
  <2>1. SeenConn(s) /\ SeenWrite(w)
    BY <1>0
  <2>2. mem[w] = 0 /\ told[w] # "acked"
    BY <1>2, <2>1 DEF SeenConn, SeenWrite
  <2> QED BY <2>2
<1>6. \A w \in Writes : Visible(w) => Visible(w)'
  BY <1>5 DEF Visible
<1>7. ASSUME NEW w \in Writes PROVE SeenWrite(w)'
  <2>0. SeenWrite(w) /\ SeenConn(s)
    BY <1>0
  <2>1. w > count'.writes => w > count.writes /\ w \notin A /\ w \notin Hold(conn[s])
    BY <1>1, <1>2, <2>0 DEF SeenConn
  <2>2. w > count'.writes => mem'[w] = 0 /\ told'[w] = "nothing"
    BY <1>2, <2>0, <2>1 DEF SeenWrite
  <2>3. told'[w] = "acked" => Visible(w)
    BY <2>0 DEF SeenWrite, SeenConn
  <2> QED BY <1>6, <2>2, <2>3 DEF SeenWrite
<1>8. \A o \in Sessions : InGroup(o)' <=> InGroup(o)
  BY DEF InGroup
<1>9. InHand' <=> InHand
  BY DEF InHand
<1>10. ASSUME NEW o \in Sessions, o # s PROVE SeenConn(o)'
  <2>0. SeenConn(o) /\ conn'[o] = conn[o]
    BY <1>0, <1>1, <1>10
  <2>1. ASSUME NEW w \in Hold(conn[o]) PROVE w \in Writes /\ w <= count.writes /\ w \notin Hold(conn[s]) /\ w \notin A
    <3>1. w \in Writes /\ w <= count.writes
      BY <1>2, <2>0 DEF SeenConn
    <3>2. w \notin Hold(conn[s])
      BY <1>0, <1>10, <3>1 DEF Apart
    <3>3. w \notin conn[s].shadow
      BY <1>2, <3>2
    <3>4. ~(w > count.writes)
      <4>1. w \in Nat /\ count.writes \in Nat /\ w <= count.writes
        BY <1>1, <3>1
      <4> QED BY <4>1, NotMore
    <3>5. w \notin A
      BY <3>3, <3>4
    <3> QED BY <3>1, <3>2, <3>5
  <2>2. \A w \in Hold(conn[o]) : w <= count'.writes /\ told'[w] # "acked" /\ mem'[w] = mem[w]
    <3> SUFFICES ASSUME NEW w \in Hold(conn[o]) PROVE w <= count'.writes /\ told'[w] # "acked" /\ mem'[w] = mem[w]
      OBVIOUS
    <3>1. w \in Writes /\ w <= count.writes /\ w \notin Hold(conn[s]) /\ w \notin A /\ told[w] # "acked"
      BY <2>0, <2>1 DEF SeenConn
    <3>2. told'[w] = told[w]
      BY <1>2, <3>1
    <3> QED BY <1>1, <3>1, <3>2
  <2>3. conn[o].pc = "queued" /\ conn[o].w \in Writes => conn[o].w \in Hold(conn[o])
    BY DEF Hold
  <2>4. conn[o].pc = "queued" =>
          conn[o].w \in Writes /\ mem'[conn[o].w] = IF InGroup(o)' /\ InHand' THEN 1 ELSE 0
    BY <1>8, <1>9, <2>0, <2>2, <2>3 DEF SeenConn
  <2>5. \A w \in conn[o].shadow : mem'[w] = 0
    BY <1>2, <2>0, <2>2 DEF SeenConn
  <2>6. \A w \in Landing(conn[o]) : Visible(w)'
    BY <1>2, <1>6, <2>0 DEF SeenConn
  <2>7. TxHold(conn[o])
    BY <2>0 DEF SeenConn
  <2> QED BY <2>0, <2>2, <2>4, <2>5, <2>6, <2>7 DEF SeenConn
<1>11. SeenConn(s)'
  <2>0. SeenConn(s) /\ conn'[s] = c
    BY <1>0, <1>1
  <2>1. ASSUME NEW w \in Hold(c) PROVE told'[w] # "acked"
    <3>1. w \in Writes /\ SeenWrite(w)
      BY <1>0, <1>3
    <3>2. told[w] # "acked"
      BY <1>4, <2>0, <3>1 DEF SeenConn, SeenWrite
    <3> QED BY <2>1, <3>1, <3>2
  <2>2. ASSUME NEW w \in c.shadow PROVE mem'[w] = 0
    <3>1. w \in Writes /\ SeenWrite(w)
      BY <1>0, <1>3
    <3>2. mem[w] = 0
      BY <2>0, <3>1 DEF SeenConn, SeenWrite
    <3> QED BY <3>1, <3>2
  <2>3. ASSUME NEW w \in Landing(c) PROVE Visible(w)'
    <3>1. w \in Writes
      BY <1>3
    <3>2. CASE w \in A
      BY <1>5, <3>2 DEF Visible
    <3>3. CASE w \in Landing(conn[s])
      BY <1>6, <2>0, <3>1, <3>3 DEF SeenConn
    <3> QED BY <3>2, <3>3
  <2>4. ASSUME c.pc = "queued" PROVE c.w \in Writes /\ mem'[c.w] = IF InGroup(s)' /\ InHand' THEN 1 ELSE 0
    <3>1. ~InGroup(s)
      BY <1>0 DEF InQueue, InGroup
    <3>2. c.w \in Writes /\ c.w > count.writes /\ c.w \notin A
      BY <2>4
    <3>3. SeenWrite(c.w)
      BY <1>0, <3>2
    <3> QED BY <1>8, <3>1, <3>2, <3>3 DEF SeenWrite
  <2> QED BY <2>0, <2>1, <2>2, <2>3, <2>4 DEF SeenConn
<1>12. Apart'
  <2> SUFFICES ASSUME NEW p \in Sessions, NEW o \in Sessions, NEW w \in Writes,
                      w \in Hold(conn'[p]), w \in Hold(conn'[o]), p # o
               PROVE  FALSE
    BY DEF Apart
  <2>1. ASSUME NEW q \in Sessions, w \in Hold(conn[q]) PROVE ~(w > count.writes)
    BY <1>0, <1>1, <2>1 DEF SeenConn
  <2>2. \A q \in Sessions : w \in Hold(conn'[q]) => w \in Hold(conn[q]) \/ (q = s /\ w > count.writes)
    BY <1>1, <1>4
  <2>3. w \in Hold(conn[p]) /\ w \in Hold(conn[o])
    BY <2>1, <2>2
  <2> QED BY <1>0, <2>3 DEF Apart
<1>13. SeenGroup'
  <2> SUFFICES ASSUME InHand PROVE \A w \in Writes : mem'[w] = IF w \in Group' \cup beside' THEN 1 ELSE round.pre[w]
    BY <1>9 DEF SeenGroup
  <2>1. \A w \in Writes : mem[w] = IF w \in Group \cup beside THEN 1 ELSE round.pre[w]
    BY <1>0 DEF SeenGroup
  <2>2. Group' = Group
    <3>1. \A p \in Member(round.tasks) : p \in Sessions /\ p # s
      <4>1. round \in Rounds
        BY <1>0 DEF TypeInv
      <4>2. \A p \in Member(round.tasks) : p \in Sessions
        BY <4>1 DEF Rounds, Member
      <4> QED BY <1>0, <4>2 DEF InQueue
    <3>2. \A p \in Member(round.tasks) : conn'[p].w = conn[p].w
      BY <1>1, <3>1
    <3> QED BY <3>2 DEF Group, WritesOf
  <2> QED BY <1>5, <2>1, <2>2
<1> QED BY <1>0, <1>7, <1>10, <1>11, <1>12, <1>13 DEF VisInv

\* A step that leaves memory and answers alone, and what the connections hold.
LEMMA IdleStep ==
  ASSUME VisInv, TypeInv', LineInv', InQueue',
         mem' = mem, told' = told, erased' = erased, beside' = beside, count'.writes = count.writes,
         \A o \in Sessions : /\ conn'[o].tx = conn[o].tx /\ conn'[o].shadow = conn[o].shadow
                             /\ conn'[o].good = conn[o].good /\ conn'[o].rec = conn[o].rec
                             /\ conn'[o].w = conn[o].w
                             /\ conn'[o].pc = conn[o].pc \/ (conn[o].pc = "acked" /\ conn'[o].pc = "idle"),
         InHand' <=> InHand,
         InHand => round'.tasks = round.tasks /\ round'.pre = round.pre
  PROVE  VisInv'
<1>0. /\ TypeInv /\ LineInv /\ InQueue /\ Apart /\ SeenGroup
      /\ \A w \in Writes : SeenWrite(w)
      /\ \A o \in Sessions : SeenConn(o)
  BY DEF VisInv
<1>1. \A w \in Writes : SeenWrite(w)'
  BY <1>0 DEF SeenWrite, Visible
<1>2. \A o \in Sessions : /\ Landing(conn'[o]) = Landing(conn[o]) /\ Hold(conn'[o]) = Hold(conn[o])
                          /\ (TxHold(conn[o]) => TxHold(conn'[o]))
                          /\ (conn'[o].pc = "queued" <=> conn[o].pc = "queued")
  BY DEF Landing, Hold, TxHold
<1>3. \A o \in Sessions : InHand => (InGroup(o)' <=> InGroup(o))
  BY DEF InGroup
<1>4. ASSUME NEW o \in Sessions PROVE SeenConn(o)'
  <2>1. SeenConn(o)
    BY <1>0
  <2> QED BY <1>2, <1>3, <2>1 DEF SeenConn, Visible
<1>5. Apart'
  BY <1>0, <1>2 DEF Apart
<1>6. SeenGroup'
  <2>1. ASSUME InHand PROVE Group' = Group
    <3>1. \A p \in Member(round.tasks) : p \in Sessions
      <4>1. round \in Rounds
        BY <1>0 DEF TypeInv
      <4> QED BY <4>1 DEF Rounds, Member
    <3> QED BY <2>1, <3>1 DEF Group, WritesOf
  <2> QED BY <1>0, <2>1 DEF SeenGroup
<1> QED BY <1>0, <1>1, <1>4, <1>5, <1>6 DEF VisInv

\* Who is not in the queue may change without the queue's knowing.
LEMMA QueueStays ==
  ASSUME TypeInv, InQueue, NEW s \in Sessions, conn[s].pc # "queued", queue' = queue, round' = round,
         \A o \in Sessions : o # s => conn'[o].pc = conn[o].pc
  PROVE  InQueue'
<1>1. queue \in Seq(Sessions) /\ round.tasks \in Seq(Sessions)
  BY DEF TypeInv, Rounds
<1>2. \A o \in Member(queue) \cup Member(round.tasks) : o \in Sessions /\ o # s
  BY <1>1 DEF InQueue, Member
<1> QED BY <1>2 DEF InQueue

\* What a connection that may start or go on holds.
LEMMA OwnHas ==
  ASSUME VisInv, NEW s \in Sessions
  PROVE  /\ TypeInv /\ LineInv /\ InQueue
         /\ conn \in [Sessions -> Conns] /\ conn[s] \in Conns /\ Lined(conn[s]) /\ SeenConn(s)
         /\ conn[s].shadow \subseteq Writes /\ conn[s].good \subseteq Writes /\ conn[s].rec \in LogRecs
         /\ conn[s].shadow \subseteq Hold(conn[s]) /\ Landing(conn[s]) \subseteq Hold(conn[s])
         /\ Hold(conn[s]) \subseteq Writes
         /\ count \in Counts /\ count.writes \in Nat /\ mem \in [Writes -> Nat] /\ Writes \subseteq Nat
         /\ (conn[s].pc = "idle" => Landing(conn[s]) = {} /\ Hold(conn[s]) = conn[s].shadow)
<1>1. /\ TypeInv /\ LineInv /\ InQueue
      /\ conn \in [Sessions -> Conns] /\ conn[s] \in Conns /\ Lined(conn[s]) /\ SeenConn(s)
      /\ count \in Counts /\ mem \in [Writes -> Nat]
  BY DEF VisInv, TypeInv, LineInv, Databases
<1>2. conn[s].shadow \subseteq Writes /\ conn[s].good \subseteq Writes /\ conn[s].rec \in LogRecs
  BY <1>1 DEF Conns
<1>3. count.writes \in Nat /\ Writes \subseteq Nat
  BY <1>1 DEF Counts, Writes
<1>4. /\ conn[s].shadow \subseteq Hold(conn[s]) /\ Landing(conn[s]) \subseteq Hold(conn[s])
      /\ Hold(conn[s]) \subseteq Writes
      /\ (conn[s].pc = "idle" => Landing(conn[s]) = {} /\ Hold(conn[s]) = conn[s].shadow)
  BY <1>2 DEF Hold, Landing
<1> QED BY <1>1, <1>2, <1>3, <1>4

\* Memory: an autocommit write on the inline path.
LEMMA InlineSeen ==
  ASSUME VisInv, NEW s \in Sessions, Inline(s)
  PROVE  VisInv'
<1>0. TypeInv' /\ LineInv' /\ TypeInv /\ InQueue
  BY InlineTypes, OwnHas
<1> DEFINE c == [conn[s] EXCEPT !.pc = "log", !.rec = Record("SQL", 0, NewWrite)]
<1>1. /\ conn' = [conn EXCEPT ![s] = c] /\ round' = round /\ queue' = queue /\ erased' = erased /\ told' = told
      /\ conn[s].pc = "idle" /\ conn[s].tx = 0 /\ conn[s].shadow = {} /\ count.writes < MaxWrites
      /\ InHand => beside' = beside \cup {NewWrite}
  BY OwnHas DEF Inline, AtRest, queueVars, Beside, Lined
<1>2. c.pc = "log" /\ c.tx = 0 /\ c.shadow = {} /\ c.rec.kind = "SQL" /\ c.rec.tx = 0 /\ c.rec.w = NewWrite
  BY <1>1, OwnHas DEF Conns, Record
<1> HIDE DEF c
<1>3. NewWrite \in Writes /\ NewWrite > count.writes /\ count'.writes = NewWrite
  <2>1. NewWrite \in Writes
    BY <1>1, OwnHas, CountType
  <2>2. count'.writes = NewWrite
    BY OwnHas DEF Inline, Counts
  <2> QED BY <2>1, <2>2, OwnHas DEF NewWrite
<1>4. Landing(c) = {NewWrite} /\ Hold(c) = {NewWrite}
  BY <1>2, <1>3 DEF Landing, Hold
<1>5. \A w \in Writes : mem'[w] = IF w \in {NewWrite} THEN mem[w] + 1 ELSE mem[w]
  BY DEF Inline, Plus
<1>6. InQueue'
  <2>1. \A o \in Sessions : o # s => conn'[o].pc = conn[o].pc
    BY <1>1, OwnHas
  <2> QED BY <1>0, <1>1, <2>1, QueueStays
<1>7. TxHold(c)
  BY <1>2 DEF TxHold
<1>8. NewWrite <= count'.writes /\ count.writes <= count'.writes
  BY <1>3, OwnHas
<1> HIDE DEF NewWrite
<1>10. OwnMove(s, c, {NewWrite})
  BY <1>0, <1>1, <1>2, <1>3, <1>4, <1>5, <1>6, <1>7, <1>8 DEF OwnMove
<1> QED BY <1>0, <1>6, <1>10, OwnStep

\* Memory: a write joins the commit queue.
LEMMA EnqueueSeen ==
  ASSUME VisInv, NEW s \in Sessions, Enqueue(s)
  PROVE  VisInv'
<1>0. TypeInv' /\ LineInv' /\ TypeInv /\ InQueue
  BY QueueTypes, OwnHas
<1> DEFINE c == [conn[s] EXCEPT !.pc = "queued", !.w = NewWrite]
<1>1. /\ conn' = [conn EXCEPT ![s] = c] /\ round' = round /\ queue' = Append(queue, s)
      /\ erased' = erased /\ beside' = beside /\ told' = told /\ mem' = mem
      /\ conn[s].pc = "idle" /\ conn[s].tx = 0 /\ conn[s].shadow = {} /\ count.writes < MaxWrites
  BY OwnHas DEF Enqueue, AtRest, ghosts, Lined
<1>2. c.pc = "queued" /\ c.tx = 0 /\ c.shadow = {} /\ c.w = NewWrite
  BY <1>1, OwnHas DEF Conns
<1> HIDE DEF c
<1>3. NewWrite \in Writes /\ NewWrite > count.writes /\ count'.writes = NewWrite
  <2>1. NewWrite \in Writes
    BY <1>1, OwnHas, CountType
  <2>2. count'.writes = NewWrite
    BY OwnHas DEF Enqueue, Counts
  <2> QED BY <2>1, <2>2, OwnHas DEF NewWrite
<1>4. Landing(c) = {} /\ Hold(c) = {NewWrite}
  BY <1>2, <1>3 DEF Landing, Hold
<1>6. InQueue'
  <2>1. queue \in Seq(Sessions) /\ round.tasks \in Seq(Sessions)
    BY <1>0 DEF TypeInv, Rounds
  <2>2. \A o \in Member(queue) \cup Member(round.tasks) : o \in Sessions /\ o # s
    BY <1>0, <1>1, <2>1 DEF InQueue, Member
  <2>3. Member(queue') = Member(queue) \cup {s} /\ Distinct(queue')
    BY <1>0, <1>1, <2>1, <2>2, AppendMember DEF InQueue
  <2>4. \A o \in Sessions : conn'[o].pc = IF o = s THEN "queued" ELSE conn[o].pc
    BY <1>1, <1>2, OwnHas
  <2> QED BY <1>0, <1>1, <2>2, <2>3, <2>4 DEF InQueue
<1>7. TxHold(c)
  BY <1>2 DEF TxHold
<1>8. NewWrite <= count'.writes /\ count.writes <= count'.writes
  BY <1>3, OwnHas
<1>9. {} \in SUBSET Writes /\ \A w \in Writes : mem'[w] = IF w \in {} THEN mem[w] + 1 ELSE mem[w]
  BY <1>1
<1> HIDE DEF NewWrite
<1>10. OwnMove(s, c, {})
  BY <1>0, <1>1, <1>2, <1>3, <1>4, <1>6, <1>7, <1>8, <1>9 DEF OwnMove
<1> QED BY <1>0, <1>6, <1>10, OwnStep

\* Memory: a statement of a transaction.
LEMMA StatementSeen ==
  ASSUME VisInv, NEW s \in Sessions, Statement(s)
  PROVE  VisInv'
<1>0. TypeInv' /\ LineInv' /\ TypeInv /\ InQueue
  BY InlineTypes, OwnHas
<1> DEFINE c == [conn[s] EXCEPT !.pc = "log", !.shadow = @ \cup {NewWrite},
                                !.rec = Record("SQL", conn[s].tx, NewWrite)]
<1>1. /\ conn' = [conn EXCEPT ![s] = c] /\ round' = round /\ queue' = queue
      /\ erased' = erased /\ beside' = beside /\ told' = told /\ mem' = mem
      /\ conn[s].pc = "idle" /\ conn[s].tx # 0 /\ count.writes < MaxWrites
  BY OwnHas DEF Statement, InTx, ghosts, queueVars
<1>2. /\ c.pc = "log" /\ c.tx = conn[s].tx /\ c.shadow = conn[s].shadow \cup {NewWrite}
      /\ c.rec.kind = "SQL" /\ c.rec.tx # 0 /\ c.rec.w = NewWrite /\ c.good = conn[s].good
  BY <1>1, OwnHas DEF Conns, Record
<1> HIDE DEF c
<1>3. NewWrite \in Writes /\ NewWrite > count.writes /\ count'.writes = NewWrite
  <2>1. NewWrite \in Writes
    BY <1>1, OwnHas, CountType
  <2>2. count'.writes = NewWrite
    BY OwnHas DEF Statement, Counts
  <2> QED BY <2>1, <2>2, OwnHas DEF NewWrite
<1>4. Landing(c) = {} /\ Hold(c) = conn[s].shadow \cup {NewWrite}
  BY <1>2, <1>3 DEF Landing, Hold
<1>6. InQueue'
  <2>1. \A o \in Sessions : o # s => conn'[o].pc = conn[o].pc
    BY <1>1, OwnHas
  <2> QED BY <1>0, <1>1, <2>1, QueueStays
<1>7. TxHold(c)
  BY <1>2, OwnHas DEF TxHold, SeenConn
<1>8. count.writes <= count'.writes /\ \A w \in Hold(c) : w <= count'.writes
  <2>1. \A w \in conn[s].shadow : w <= count.writes /\ w \in Nat
    BY OwnHas DEF SeenConn
  <2> QED BY <1>3, <1>4, <2>1, OwnHas
<1>9. {} \in SUBSET Writes /\ \A w \in Writes : mem'[w] = IF w \in {} THEN mem[w] + 1 ELSE mem[w]
  BY <1>1
<1> HIDE DEF NewWrite
<1>10. OwnMove(s, c, {})
  BY <1>0, <1>1, <1>2, <1>3, <1>4, <1>6, <1>7, <1>8, <1>9 DEF OwnMove
<1> QED BY <1>0, <1>6, <1>10, OwnStep

\* Memory: a connection lets go of its transaction, or keeps what it has.
LEMMA LetGo ==
  ASSUME VisInv, NEW s \in Sessions, TypeInv', LineInv', NEW c, conn' = [conn EXCEPT ![s] = c],
         round' = round, queue' = queue, erased' = erased, beside' = beside, mem' = mem,
         count'.writes = count.writes, conn[s].pc # "queued", c.pc # "queued",
         c.shadow \subseteq conn[s].shadow, Landing(c) \subseteq Landing(conn[s]), TxHold(c),
         \A w \in Writes : \/ told'[w] = told[w]
                           \/ told'[w] # "acked" /\ w \in Hold(conn[s])
                           \/ w \in Landing(conn[s]) /\ w \notin Hold(c)
  PROVE  VisInv'
<1>1. InQueue'
  <2>1. \A o \in Sessions : o # s => conn'[o].pc = conn[o].pc
    BY OwnHas
  <2> QED BY <2>1, QueueStays, OwnHas
<1>2. Hold(c) = c.shadow \cup Landing(c)
  BY DEF Hold
<1>3. \A w \in Hold(c) : w <= count'.writes
  BY <1>2, OwnHas DEF SeenConn
<1>4. {} \in SUBSET Writes /\ \A w \in Writes : mem'[w] = IF w \in {} THEN mem[w] + 1 ELSE mem[w]
  OBVIOUS
<1>5. count.writes <= count'.writes
  BY OwnHas
<1>10. OwnMove(s, c, {})
  BY <1>1, <1>3, <1>4, <1>5 DEF OwnMove
<1> QED BY <1>1, <1>10, OwnStep

\* Memory: BEGIN, a failed statement, the end of a transaction without a COMMIT.
LEMMA EndsSeen ==
  ASSUME VisInv, NEW s \in Sessions,
         \/ Begin(s) \/ StatementFails(s) \/ CommitAborted(s) \/ CommitFails(s) \/ Rollback(s) \/ Disconnect(s)
  PROVE  VisInv'
<1>0. TypeInv' /\ LineInv'
  BY InlineTypes, OwnHas
<1>1. /\ conn[s].pc = "idle" /\ round' = round /\ queue' = queue /\ erased' = erased /\ beside' = beside
      /\ mem' = mem
  BY DEF Begin, StatementFails, CommitAborted, CommitFails, Rollback, Disconnect, AtRest, InTx, queueVars, ghosts
<1>2. count'.writes = count.writes
  BY OwnHas DEF Begin, StatementFails, CommitAborted, CommitFails, Rollback, Disconnect, EngineError, Counts
<1>3. \A w \in Writes : told'[w] = told[w] \/ (told'[w] # "acked" /\ w \in Hold(conn[s]))
  <2>1. told' = told \/ told' = Told(conn[s].shadow, "undone")
    BY DEF Begin, StatementFails, CommitAborted, CommitFails, Rollback, Disconnect
  <2>2. CASE told' = told
    BY <2>2
  <2>3. CASE told' = Told(conn[s].shadow, "undone")
    <3>1. \A w \in Writes : told'[w] = IF w \in conn[s].shadow THEN "undone" ELSE told[w]
      BY <2>3 DEF Told
    <3>2. conn[s].shadow \subseteq Hold(conn[s])
      BY OwnHas
    <3> QED BY <3>1, <3>2
  <2> QED BY <2>1, <2>2, <2>3
<1>4. ASSUME NEW c, conn' = [conn EXCEPT ![s] = c], c.shadow \subseteq conn[s].shadow,
             c.pc \in {"idle", "log"}, c.pc = "log" => c.rec.kind \in Ends /\ (c.rec.kind = "COMMIT" => c.good = {}),
             c.tx # 0 => c.pc = "idle" /\ c.good \subseteq c.shadow
      PROVE  VisInv'
  <2>1. Landing(c) = {}
    BY <1>4 DEF Landing, Ends
  <2>2. TxHold(c)
    BY <1>4 DEF TxHold
  <2> QED BY <1>0, <1>1, <1>2, <1>3, <1>4, <2>1, <2>2, LetGo
<1>5. CASE Begin(s)
  <2> DEFINE c == [Fresh EXCEPT !.tx = count'.txs, !.unlogged = TRUE]
  <2>1. conn' = [conn EXCEPT ![s] = c]
    BY <1>5 DEF Begin
  <2>2. c.shadow = {} /\ c.pc = "idle" /\ c.good = {}
    BY DEF Fresh
  <2> HIDE DEF c
  <2> QED BY <1>4, <2>1, <2>2
<1>6. CASE StatementFails(s)
  <2> DEFINE c == [conn[s] EXCEPT !.aborted = TRUE]
  <2>1. conn' = [conn EXCEPT ![s] = c]
    BY <1>6, OwnHas DEF StatementFails
  <2>2. c.shadow = conn[s].shadow /\ c.pc = "idle" /\ c.good = conn[s].good /\ c.tx = conn[s].tx
    BY <1>1, OwnHas DEF Conns
  <2>3. c.tx # 0 => c.good \subseteq c.shadow
    BY <2>2, OwnHas DEF SeenConn, TxHold
  <2> HIDE DEF c
  <2> QED BY <1>4, <2>1, <2>2, <2>3
<1>7. ASSUME NEW line, NEW good, EndTx(s, line, good), line.kind \in Ends, line.kind = "COMMIT" => good = {}
      PROVE  VisInv'
  <2> DEFINE c == IF conn[s].unlogged THEN Fresh ELSE [Fresh EXCEPT !.pc = "log", !.good = good, !.rec = line]
  <2>1. conn' = [conn EXCEPT ![s] = c]
    BY <1>7 DEF EndTx
  <2>2. /\ c.tx = 0 /\ c.shadow = {} /\ c.pc \in {"idle", "log"}
        /\ c.pc = "log" => c.rec = line /\ c.good = good
    <3>1. conn'[s] = c
      BY <2>1, OwnHas
    <3> HIDE DEF c
    <3> QED BY <1>7, <3>1, EndTxIs, OwnHas
  <2> HIDE DEF c
  <2> QED BY <1>4, <1>7, <2>1, <2>2
<1>8. CASE CommitAborted(s)
  <2>1. EndTx(s, Record("COMMIT", 0, 0), {}) /\ Record("COMMIT", 0, 0).kind = "COMMIT"
    BY <1>8 DEF CommitAborted, Record
  <2> QED BY <1>7, <2>1 DEF Ends
<1>9. CASE Rollback(s)
  <2>1. EndTx(s, Record("ROLLBACK", conn[s].tx, 0), {}) /\ Record("ROLLBACK", conn[s].tx, 0).kind = "ROLLBACK"
    BY <1>9 DEF Rollback, Record
  <2> QED BY <1>7, <2>1 DEF Ends
<1>10. CASE CommitFails(s) \/ Disconnect(s)
  <2> DEFINE d == IF CommitFails(s) THEN [Fresh EXCEPT !.unlogged = conn[s].unlogged] ELSE Fresh
  <2>1. conn' = [conn EXCEPT ![s] = d]
    BY <1>10 DEF CommitFails, Disconnect
  <2>2. d.shadow = {} /\ d.pc = "idle" /\ d.tx = 0
    BY DEF Fresh
  <2> HIDE DEF d
  <2> QED BY <1>4, <2>1, <2>2
<1> QED BY <1>5, <1>6, <1>8, <1>9, <1>10

\* Memory: COMMIT puts the transaction's writes into the catalog.
LEMMA CommitSeen ==
  ASSUME VisInv, NEW s \in Sessions, Commit(s)
  PROVE  VisInv'
<1>0. TypeInv' /\ LineInv' /\ TypeInv /\ InQueue
  BY InlineTypes, OwnHas
<1> DEFINE line == Record("COMMIT", conn[s].tx, 0)
           A == conn[s].shadow
           c == IF conn[s].unlogged THEN Fresh ELSE [Fresh EXCEPT !.pc = "log", !.good = conn[s].good, !.rec = line]
<1>1. /\ conn' = [conn EXCEPT ![s] = c] /\ EndTx(s, line, conn[s].good)
      /\ round' = round /\ queue' = queue /\ erased' = erased /\ told' = told
      /\ conn[s].pc = "idle" /\ conn[s].tx # 0 /\ count' = count
      /\ InHand => beside' = beside \cup A
  BY DEF Commit, InTx, EndTx, queueVars, Beside
<1>2. /\ c.tx = 0 /\ c.shadow = {} /\ c.pc \in {"idle", "log"}
      /\ c.pc = "log" => c.rec.kind = "COMMIT" /\ c.good = conn[s].good
  <2>1. conn'[s] = c /\ line.kind = "COMMIT"
    BY <1>1, OwnHas DEF Record
  <2> HIDE DEF c, line
  <2> QED BY <1>1, <2>1, EndTxIs, OwnHas
<1> HIDE DEF c
<1>3. \A w \in A : w \in Writes /\ w <= count.writes
  BY OwnHas DEF SeenConn
<1>4. Landing(c) \subseteq A /\ Hold(c) \subseteq A
  <2>1. conn[s].good \subseteq A
    BY <1>1, OwnHas DEF SeenConn, TxHold
  <2> QED BY <1>2, <2>1 DEF Landing, Hold
<1>5. \A w \in Writes : mem'[w] = IF w \in A THEN mem[w] + 1 ELSE mem[w]
  BY DEF Commit, Plus
<1>6. InQueue'
  <2>1. \A o \in Sessions : o # s => conn'[o].pc = conn[o].pc
    BY <1>1, OwnHas
  <2> QED BY <1>0, <1>1, <2>1, QueueStays
<1>7. TxHold(c)
  BY <1>2 DEF TxHold
<1>8. count.writes <= count'.writes
  BY <1>1, OwnHas
<1>10. OwnMove(s, c, A)
  BY <1>1, <1>2, <1>3, <1>4, <1>5, <1>7, <1>8 DEF OwnMove
<1> QED BY <1>0, <1>6, <1>10, OwnStep

\* Memory: the answer to the pending line.
LEMMA AnswerSeen ==
  ASSUME VisInv, NEW s \in Sessions, TypeInv', LineInv', Pending(s), NEW ok \in BOOLEAN, NEW u \in BOOLEAN,
         Answer(s, ok, u), UNCHANGED <<mem, queue, round, beside, erased>>, count'.writes = count.writes
  PROVE  VisInv'
<1> DEFINE c == conn'[s]
<1>1. /\ c.pc = "idle" /\ c.tx = conn[s].tx /\ c.shadow = conn[s].shadow
      /\ conn[s].tx # 0 => c.good = IF ok THEN conn[s].good \cup {conn[s].rec.w} ELSE conn[s].good
      /\ \A w \in Writes :
           told'[w] = IF w \in Done(conn[s], ok) THEN (IF ok THEN "acked" ELSE "unsure") ELSE told[w]
      /\ conn[s].tx # 0 => conn[s].rec.kind = "SQL" /\ conn[s].rec.tx # 0
  BY AnswerSays, OwnHas
<1>2. conn' = [conn EXCEPT ![s] = c]
  BY OwnHas DEF Answer
<1> HIDE DEF c
<1>3. Landing(c) = {} /\ Hold(c) = conn[s].shadow
  BY <1>1 DEF Landing, Hold
<1>4. TxHold(c)
  BY <1>1, OwnHas DEF TxHold, SeenConn, Pending
<1>5. ASSUME NEW w \in Done(conn[s], ok)
      PROVE  IF conn[s].tx = 0 THEN w \in Landing(conn[s]) /\ conn[s].shadow = {}
             ELSE ~ok /\ w \in conn[s].shadow
  <2>0. Lined(conn[s]) /\ conn[s].pc \in {"log", "sync"} /\ w \in Writes
    BY OwnHas DEF Pending, Done
  <2>1. CASE conn[s].tx = 0
    <3>1. conn[s].shadow = {} /\ (conn[s].rec.kind = "SQL" => conn[s].rec.tx = 0)
      BY <2>0, <2>1 DEF Lined
    <3>2. w \in Landing(conn[s])
      BY <1>5, <2>0, <3>1 DEF Done, Landing
    <3> QED BY <2>1, <3>1, <3>2
  <2>2. CASE conn[s].tx # 0
    <3>1. ~ok /\ w = conn[s].rec.w
      BY <1>1, <1>5, <2>2 DEF Done
    <3>2. conn[s].rec.w \in conn[s].shadow
      BY <2>0, <2>2, OwnHas DEF SeenConn, TxHold
    <3> QED BY <2>2, <3>1, <3>2
  <2> QED BY <2>1, <2>2
<1>6. \A w \in Writes : \/ told'[w] = told[w]
                        \/ told'[w] # "acked" /\ w \in Hold(conn[s])
                        \/ w \in Landing(conn[s]) /\ w \notin Hold(c)
  <2> SUFFICES ASSUME NEW w \in Writes, w \in Done(conn[s], ok)
               PROVE  \/ told'[w] # "acked" /\ w \in Hold(conn[s])
                      \/ w \in Landing(conn[s]) /\ w \notin Hold(c)
    BY <1>1
  <2>1. CASE conn[s].tx = 0
    BY <1>3, <1>5, <2>1
  <2>2. CASE conn[s].tx # 0
    <3>1. ~ok /\ w \in conn[s].shadow
      BY <1>5, <2>2
    <3> QED BY <1>1, <3>1, OwnHas
  <2> QED BY <2>1, <2>2
<1>7. conn[s].pc # "queued"
  BY DEF Pending
<1> QED BY <1>1, <1>2, <1>3, <1>4, <1>6, <1>7, LetGo

\* Memory: the line of a statement or of an end on its way to the file.
LEMMA PersistSeen ==
  ASSUME VisInv, NEW s \in Sessions, Persist(s) \/ InlineAuditFails(s)
  PROVE  VisInv'
<1>0. TypeInv' /\ LineInv' /\ conn[s].pc \in {"log", "sync"} /\ Pending(s)
  BY InlineTypes, OwnHas DEF Persist, InlineAuditFails, LogBegin, LogStatement, LogWrite, LogSync, Pending
<1>1. UNCHANGED <<mem, queue, round, beside, erased>>
  BY DEF Persist, InlineAuditFails, LogBegin, LogStatement, LogWrite, LogSync, queueVars, ghosts
<1>2. count'.writes = count.writes
  BY OwnHas DEF Persist, InlineAuditFails, LogBegin, LogStatement, LogWrite, LogSync, Fault, Counts
<1>3. ASSUME NEW ok \in BOOLEAN, NEW u \in BOOLEAN, Answer(s, ok, u) PROVE VisInv'
  BY <1>0, <1>1, <1>2, <1>3, AnswerSeen
<1>4. ASSUME NEW c, conn' = [conn EXCEPT ![s] = c], c.pc \in {"log", "sync"}, c.tx = conn[s].tx, told' = told,
             c.shadow = conn[s].shadow, c.good = conn[s].good, c.rec = conn[s].rec
      PROVE  VisInv'
  <2>1. Landing(c) = Landing(conn[s])
    BY <1>0, <1>4 DEF Landing
  <2>2. TxHold(c)
    BY <1>0, <1>4, OwnHas DEF TxHold, SeenConn
  <2> QED BY <1>0, <1>1, <1>2, <1>4, <2>1, <2>2, LetGo
<1>5. CASE InlineAuditFails(s)
  <2>1. conn[s].unlogged \in BOOLEAN
    BY OwnHas DEF Conns
  <2> QED BY <1>3, <1>5, <2>1 DEF InlineAuditFails
<1>6. CASE LogBegin(s)
  <2>1. CASE Answer(s, FALSE, FALSE)
    BY <1>3, <2>1
  <2>2. CASE conn' = [conn EXCEPT ![s].unlogged = FALSE] /\ UNCHANGED <<count, told>>
    <3> DEFINE c == [conn[s] EXCEPT !.unlogged = FALSE]
    <3>1. conn' = [conn EXCEPT ![s] = c]
      BY <2>2, OwnHas
    <3>2. /\ c.pc = conn[s].pc /\ c.tx = conn[s].tx /\ c.shadow = conn[s].shadow
          /\ c.good = conn[s].good /\ c.rec = conn[s].rec
      BY OwnHas DEF Conns
    <3> HIDE DEF c
    <3> QED BY <1>0, <1>4, <2>2, <3>1, <3>2
  <2> QED BY <1>6, <2>1, <2>2 DEF LogBegin
<1>7. CASE LogStatement(s)
  BY <1>3, <1>7 DEF LogStatement
<1>8. CASE LogWrite(s)
  <2> DEFINE c == [conn[s] EXCEPT !.pc = "sync"]
  <2>1. conn' = [conn EXCEPT ![s] = c] /\ told' = told
    BY <1>8, OwnHas DEF LogWrite
  <2>2. /\ c.pc = "sync" /\ c.tx = conn[s].tx /\ c.shadow = conn[s].shadow
        /\ c.good = conn[s].good /\ c.rec = conn[s].rec
    BY OwnHas DEF Conns
  <2> HIDE DEF c
  <2> QED BY <1>4, <2>1, <2>2
<1>9. CASE LogSync(s)
  BY <1>3, <1>9 DEF LogSync
<1> QED BY <1>5, <1>6, <1>7, <1>8, <1>9 DEF Persist

\* The steps of the leader between its drain and its answers, and those of no
\* connection.
LEMMA AsideSeen ==
  ASSUME VisInv, MaxCrashes = 0,
         \/ \E s \in Sessions : Drain(s) \/ DropBaton(s) \/ AuditFails(s) \/ GroupWrite(s) \/ GroupSync(s)
         \/ Flush \/ CkptSnapshot \/ CkptInstall \/ CkptTruncate \/ Crash \/ Read \/ UNCHANGED vars
  PROVE  VisInv'
<1>0. TypeInv /\ LineInv /\ InQueue /\ count \in Counts /\ conn \in [Sessions -> Conns] /\ round \in Rounds
      /\ queue \in Seq(Sessions) /\ round.tasks \in Seq(Sessions)
  BY DEF VisInv, TypeInv, Rounds
<1>1. TypeInv' /\ LineInv'
  BY <1>0, QueueTypes, OtherTypes DEF Lead
<1>2. ~Crash
  BY <1>0 DEF Crash, Counts
<1>3. ASSUME NEW s \in Sessions, DropBaton(s) PROVE VisInv'
  <2> DEFINE c == [conn[s] EXCEPT !.pc = IF @ = "acked" THEN "idle" ELSE @]
  <2>1. conn' = [conn EXCEPT ![s] = c] /\ UNCHANGED <<mem, told, erased, beside, count, round, queue>>
    BY <1>0, <1>3 DEF DropBaton, ghosts
  <2>2. /\ c.tx = conn[s].tx /\ c.shadow = conn[s].shadow /\ c.good = conn[s].good /\ c.rec = conn[s].rec
        /\ c.w = conn[s].w /\ c.pc = IF conn[s].pc = "acked" THEN "idle" ELSE conn[s].pc
    BY <1>0 DEF Conns
  <2> HIDE DEF c
  <2>3. \A o \in Sessions : conn'[o] = IF o = s THEN c ELSE conn[o]
    BY <1>0, <2>1
  <2>4. InQueue'
    <3>1. \A o \in Member(queue) \cup Member(round.tasks) : o \in Sessions
      BY <1>0 DEF Member
    <3> QED BY <1>0, <2>1, <2>2, <2>3, <3>1 DEF InQueue
  <2>5. \A o \in Sessions : /\ conn'[o].tx = conn[o].tx /\ conn'[o].shadow = conn[o].shadow
                            /\ conn'[o].good = conn[o].good /\ conn'[o].rec = conn[o].rec
                            /\ conn'[o].w = conn[o].w
                            /\ conn'[o].pc = conn[o].pc \/ (conn[o].pc = "acked" /\ conn'[o].pc = "idle")
    BY <2>2, <2>3
  <2>6. (InHand' <=> InHand) /\ round'.tasks = round.tasks /\ round'.pre = round.pre /\ count'.writes = count.writes
    BY <2>1 DEF InHand
  <2> QED BY <1>1, <2>1, <2>4, <2>5, <2>6, IdleStep
<1>4. ASSUME conn' = conn, mem' = mem, told' = told, erased' = erased, beside' = beside,
             count'.writes = count.writes, InQueue', InHand' <=> InHand,
             InHand => round'.tasks = round.tasks /\ round'.pre = round.pre
      PROVE  VisInv'
  BY <1>1, <1>4, IdleStep
<1>5. ASSUME NEW s \in Sessions, Drain(s) PROVE VisInv'
  <2> DEFINE n == IF Len(queue) < GroupMax THEN Len(queue) ELSE GroupMax
             a == SubSeq(queue, 1, n)
             b == SubSeq(queue, n + 1, Len(queue))
  <2>1. n \in 0 .. Len(queue)
    BY <1>0, ServerWalAssumption
  <2>2. round' = [stage |-> "drained", tasks |-> a, pre |-> Nothing] /\ queue' = b
        /\ UNCHANGED <<conn, mem, told, erased, beside, count>> /\ round.stage = "none"
    BY <1>5 DEF Drain, NoRound, ghosts
  <2> HIDE DEF n
  <2>3. Member(queue) = Member(a) \cup Member(b) /\ Member(a) \cap Member(b) = {} /\ Distinct(a) /\ Distinct(b)
    BY <1>0, <2>1, SplitMember DEF InQueue
  <2> HIDE DEF a, b
  <2>4. InQueue'
    BY <1>0, <2>2, <2>3 DEF InQueue
  <2>5. ~InHand /\ ~InHand'
    BY <2>2 DEF InHand
  <2> QED BY <1>4, <2>2, <2>4, <2>5
<1>6. ASSUME NEW s \in Sessions, AuditFails(s) \/ GroupWrite(s) \/ GroupSync(s) PROVE VisInv'
  <2>1. /\ UNCHANGED <<conn, mem, told, erased, beside, queue>> /\ round'.tasks = round.tasks /\ round'.pre = round.pre
        /\ InHand /\ InHand' /\ round'.stage # "none"
    BY <1>0, <1>6 DEF AuditFails, GroupWrite, GroupSync, ghosts, InHand, Rounds
  <2>2. count'.writes = count.writes
    BY <1>0, <1>6 DEF AuditFails, GroupWrite, GroupSync, Fault, Counts
  <2>3. InQueue'
    BY <1>0, <2>1 DEF InQueue
  <2> QED BY <1>4, <2>1, <2>2, <2>3
<1>7. ASSUME Flush \/ CkptSnapshot \/ CkptInstall \/ CkptTruncate \/ Read \/ UNCHANGED vars PROVE VisInv'
  <2>1. UNCHANGED <<conn, mem, told, erased, beside, queue, round>>
    BY <1>7 DEF Flush, CkptSnapshot, CkptInstall, CkptTruncate, Read, vars, ghosts, queueVars
  <2>2. count'.writes = count.writes
    BY <1>0, <1>7 DEF Flush, CkptSnapshot, CkptInstall, CkptTruncate, Read, vars, Counts
  <2>3. InQueue' /\ (InHand' <=> InHand)
    BY <1>0, <2>1 DEF InQueue, InHand
  <2> QED BY <1>4, <2>1, <2>2, <2>3
<1> QED BY <1>2, <1>3, <1>5, <1>6, <1>7

\* The tasks of a group: waiting connections, each with a write of its own that
\* nobody else holds.
LEMMA GroupHas ==
  ASSUME VisInv
  PROVE  /\ conn \in [Sessions -> Conns] /\ Tasks = Member(round.tasks)
         /\ \A p \in Tasks : /\ p \in Sessions /\ conn[p].pc = "queued" /\ InGroup(p) /\ conn[p].tx = 0
                             /\ conn[p].shadow = {} /\ conn[p].w \in Writes /\ conn[p].w \in Hold(conn[p])
         /\ \A ss \in SUBSET Tasks : \A w \in WritesOf(ss) :
              \E p \in ss : p \in Sessions /\ conn[p].w = w /\ w \in Hold(conn[p]) /\ w \in Writes
<1>1. conn \in [Sessions -> Conns] /\ round.tasks \in Seq(Sessions) /\ InQueue /\ LineInv
  BY DEF VisInv, TypeInv, Rounds
<1>2. Tasks = Member(round.tasks)
  BY DEF Tasks, Member
<1>3. ASSUME NEW p \in Tasks
      PROVE  /\ p \in Sessions /\ conn[p].pc = "queued" /\ InGroup(p) /\ conn[p].tx = 0
             /\ conn[p].shadow = {} /\ conn[p].w \in Writes /\ conn[p].w \in Hold(conn[p])
  <2>1. p \in Sessions
    BY <1>1 DEF Tasks
  <2>2. conn[p].pc = "queued" /\ InGroup(p)
    BY <1>1, <1>2 DEF InQueue, InGroup
  <2>3. SeenConn(p)
    BY <2>1 DEF VisInv
  <2>4. conn[p].tx = 0 /\ conn[p].w \in Writes
    BY <2>2, <2>3 DEF SeenConn, TxHold
  <2>5. conn[p].shadow = {}
    BY <1>1, <2>1, <2>4 DEF LineInv, Lined
  <2>6. conn[p].w \in Hold(conn[p])
    BY <2>2, <2>4 DEF Hold
  <2> QED BY <2>1, <2>2, <2>4, <2>5, <2>6
<1>4. \A ss \in SUBSET Tasks : \A w \in WritesOf(ss) :
        \E p \in ss : p \in Sessions /\ conn[p].w = w /\ w \in Hold(conn[p]) /\ w \in Writes
  BY <1>3 DEF WritesOf
<1> QED BY <1>1, <1>2, <1>3, <1>4

\* An answered task holds nothing any more; nobody else is touched.
LEMMA AckedHolds ==
  ASSUME VisInv, NEW ss \in SUBSET Tasks, conn' = Acked(ss), NEW o \in Sessions
  PROVE  /\ TxHold(conn'[o]) /\ Hold(conn'[o]) \subseteq Hold(conn[o])
         /\ conn'[o].shadow = conn[o].shadow
         /\ Landing(conn'[o]) \subseteq Landing(conn[o])
         /\ o \in ss => Hold(conn'[o]) = {} /\ conn'[o].pc # "queued" /\ conn'[o].shadow = {}
         /\ o \notin ss => conn'[o] = conn[o]
<1>1. /\ conn'[o].tx = conn[o].tx /\ conn'[o].shadow = conn[o].shadow
      /\ conn'[o].good = conn[o].good /\ conn'[o].rec = conn[o].rec
      /\ o \notin ss => conn'[o] = conn[o]
      /\ o \in ss => conn'[o].pc = IF o \in leader THEN "acked" ELSE "idle"
  BY AckedIs, GroupHas
<1>2. TxHold(conn[o])
  BY DEF VisInv, SeenConn
<1>3. CASE o \notin ss
  BY <1>1, <1>2, <1>3
<1>4. CASE o \in ss
  <2>1. conn'[o].shadow = {} /\ conn'[o].tx = 0 /\ conn'[o].pc \in {"acked", "idle"}
    BY <1>1, <1>4, GroupHas
  <2>2. Landing(conn'[o]) = {} /\ Hold(conn'[o]) = {}
    BY <2>1 DEF Landing, Hold
  <2>3. TxHold(conn'[o])
    BY <2>1 DEF TxHold
  <2> QED BY <1>1, <1>4, <2>1, <2>2, <2>3
<1> QED BY <1>3, <1>4

\* Memory: the group runs on the engine.
LEMMA ApplySeen ==
  ASSUME VisInv, NEW s \in Sessions, Apply(s)
  PROVE  VisInv'
<1>0. /\ TypeInv /\ LineInv /\ InQueue /\ Apart /\ TypeInv' /\ LineInv'
      /\ \A w \in Writes : SeenWrite(w)
      /\ \A o \in Sessions : SeenConn(o)
      /\ round.tasks \in Seq(Sessions) /\ mem \in [Writes -> Nat]
      /\ count.writes \in Nat /\ Writes \subseteq Nat
  BY QueueTypes, OwnHas DEF VisInv, Lead, TypeInv, Rounds
<1>1. PICK failing \in SUBSET Tasks :
        LET left == Survivors(round.tasks, failing)
        IN  /\ mem' = Plus(mem, WritesOf(Tasks \ failing))
            /\ told' = Told(WritesOf(failing), "refused")
            /\ conn' = Acked(failing)
            /\ round' = IF left = <<>> THEN NoRound
                        ELSE [stage |-> "applied", tasks |-> left, pre |-> mem]
  BY DEF Apply
<1> DEFINE left == Survivors(round.tasks, failing)
           kept == Tasks \ failing
<1>2. Member(left) = kept /\ ~InHand
  BY <1>0, SurvivorsAre, GroupHas DEF Apply, InHand
<1>3. queue' = queue /\ count' = count /\ erased' = erased /\ beside' = {}
  BY DEF Apply
<1>4. /\ round'.stage \in {"none", "applied"}
      /\ InHand' => round'.pre = mem
      /\ Member(round'.tasks) = kept
      /\ kept # {} => InHand'
      /\ round'.stage = "none" => round'.tasks = <<>>
  <2>1. Member(<<>>) = {}
    BY DEF Member
  <2>2. CASE left = <<>>
    BY <1>1, <1>2, <2>1, <2>2 DEF NoRound, InHand
  <2>3. CASE left # <<>>
    BY <1>1, <1>2, <2>3 DEF InHand
  <2> QED BY <2>2, <2>3
<1> HIDE DEF left
<1>5. \A o \in Sessions :
         /\ TxHold(conn'[o]) /\ Hold(conn'[o]) \subseteq Hold(conn[o])
         /\ conn'[o].shadow = conn[o].shadow
         /\ Landing(conn'[o]) \subseteq Landing(conn[o])
         /\ o \in failing => Hold(conn'[o]) = {} /\ conn'[o].pc # "queued" /\ conn'[o].shadow = {}
         /\ o \notin failing => conn'[o] = conn[o]
  BY <1>1, AckedHolds
<1>6. /\ \A w \in Writes : mem'[w] = IF w \in WritesOf(kept) THEN mem[w] + 1 ELSE mem[w]
      /\ \A w \in Writes : told'[w] = IF w \in WritesOf(failing) THEN "refused" ELSE told[w]
  BY <1>1 DEF Plus, Told
<1>7. ASSUME NEW w \in WritesOf(kept)
      PROVE  \E p \in kept : p \in Sessions /\ conn[p].w = w /\ w \in Hold(conn[p]) /\ w \in Writes
                             /\ mem[w] = 0 /\ told[w] # "acked" /\ w <= count.writes /\ mem'[w] = 1
  <2>1. kept \in SUBSET Tasks
    OBVIOUS
  <2>2. PICK p \in kept : p \in Sessions /\ conn[p].w = w /\ w \in Hold(conn[p]) /\ w \in Writes
    BY <1>7, <2>1, GroupHas
  <2>3. conn[p].pc = "queued"
    BY GroupHas
  <2>4. mem[w] = 0 /\ told[w] # "acked" /\ w <= count.writes
    BY <1>0, <1>2, <2>2, <2>3 DEF SeenConn
  <2> QED BY <1>6, <1>7, <2>2, <2>4
<1>8. ASSUME NEW w \in WritesOf(failing) PROVE w \in Writes /\ w <= count.writes
  <2>1. PICK p \in failing : p \in Sessions /\ conn[p].w = w /\ w \in Hold(conn[p]) /\ w \in Writes
    BY <1>8, GroupHas
  <2> QED BY <1>0, <2>1 DEF SeenConn
<1>9. ASSUME NEW w \in Writes PROVE SeenWrite(w)'
  <2>0. SeenWrite(w)
    BY <1>0
  <2>1. CASE w > count'.writes
    <3>1. w \notin WritesOf(kept) /\ w \notin WritesOf(failing)
      <4>1. ~(w <= count.writes)
        BY <1>0, <1>3, <2>1
      <4> QED BY <1>7, <1>8, <4>1
    <3> QED BY <1>3, <1>6, <2>0, <2>1, <3>1 DEF SeenWrite
  <2>2. CASE ~(w > count'.writes)
    <3>1. told'[w] = "acked" => told[w] = "acked"
      BY <1>6
    <3>2. told[w] = "acked" => w \notin WritesOf(kept)
      BY <1>7
    <3> QED BY <1>3, <1>6, <2>0, <2>2, <3>1, <3>2 DEF SeenWrite, Visible
  <2> QED BY <2>1, <2>2
<1>10. ASSUME NEW o \in Sessions, NEW w \in Hold(conn[o]), w \in WritesOf(kept) PROVE o \in kept /\ w = conn[o].w
  <2>1. PICK p \in kept : p \in Sessions /\ conn[p].w = w /\ w \in Hold(conn[p]) /\ w \in Writes
    BY <1>7, <1>10
  <2>2. p = o
    BY <1>0, <2>1 DEF Apart
  <2> QED BY <2>1, <2>2
<1>11. ASSUME NEW o \in Sessions PROVE SeenConn(o)'
  <2>0. SeenConn(o) /\ Hold(conn[o]) \subseteq Writes
        /\ conn[o].shadow \subseteq Hold(conn[o]) /\ Landing(conn[o]) \subseteq Hold(conn[o])
    BY <1>0, OwnHas
  <2>1. \A w \in Hold(conn'[o]) : w <= count'.writes /\ told'[w] # "acked"
    BY <1>3, <1>5, <1>6, <2>0 DEF SeenConn
  <2>2. ASSUME NEW w \in conn'[o].shadow PROVE mem'[w] = 0
    <3>1. w \in conn[o].shadow /\ w \in Hold(conn[o]) /\ w \in Writes
      BY <1>5, <2>0
    <3>2. w \notin WritesOf(kept)
      <4> SUFFICES ASSUME w \in WritesOf(kept) PROVE FALSE
        OBVIOUS
      <4>1. o \in Tasks
        BY <1>10, <3>1
      <4> QED BY <3>1, <4>1, GroupHas
    <3> QED BY <1>6, <2>0, <3>1, <3>2 DEF SeenConn
  <2>3. ASSUME NEW w \in Landing(conn'[o]) PROVE Visible(w)'
    <3>1. w \in Landing(conn[o]) /\ w \in Writes /\ Visible(w)
      BY <1>5, <2>0 DEF SeenConn
    <3>2. w \in WritesOf(kept) => mem[w] = 0 /\ mem'[w] = 1
      BY <1>7
    <3> QED BY <1>3, <1>6, <3>1, <3>2 DEF Visible
  <2>4. ASSUME conn'[o].pc = "queued"
        PROVE  conn'[o].w \in Writes /\ mem'[conn'[o].w] = IF InGroup(o)' /\ InHand' THEN 1 ELSE 0
    <3>1. conn'[o] = conn[o] /\ conn[o].pc = "queued"
      BY <1>5, <2>4
    <3>2. conn[o].w \in Writes /\ mem[conn[o].w] = 0
      BY <1>2, <2>0, <3>1 DEF SeenConn
    <3>3. InGroup(o)' <=> o \in kept
      BY <1>4 DEF InGroup
    <3>4. CASE o \in kept
      <4>1. conn[o].w \in WritesOf(kept)
        BY <3>4 DEF WritesOf
      <4>2. InHand' /\ mem'[conn[o].w] = 1
        BY <1>4, <1>7, <3>4, <4>1
      <4> QED BY <3>1, <3>2, <3>3, <3>4, <4>2
    <3>5. CASE o \notin kept
      <4>1. conn[o].w \in Hold(conn[o])
        BY <3>1, <3>2 DEF Hold
      <4>2. conn[o].w \notin WritesOf(kept)
        BY <1>10, <3>5, <4>1
      <4>3. mem'[conn[o].w] = 0
        BY <1>6, <3>2, <4>2
      <4> QED BY <3>1, <3>2, <3>3, <3>5, <4>3
    <3> QED BY <3>4, <3>5
  <2>5. TxHold(conn'[o])
    BY <1>5
  <2> QED BY <2>1, <2>2, <2>3, <2>4, <2>5 DEF SeenConn
<1>12. Apart'
  BY <1>0, <1>5 DEF Apart
<1>13. SeenGroup'
  <2>1. Group' = WritesOf(kept)
    <3>1. \A p \in kept : p \in Sessions /\ conn'[p] = conn[p]
      BY <1>5, GroupHas
    <3> QED BY <1>4, <3>1 DEF Group, WritesOf
  <2>2. ASSUME NEW w \in Writes PROVE mem'[w] = IF w \in Group' \cup beside' THEN 1 ELSE mem[w]
    <3>1. CASE w \in WritesOf(kept)
      BY <1>7, <2>1, <3>1
    <3>2. CASE w \notin WritesOf(kept)
      BY <1>3, <1>6, <2>1, <3>2
    <3> QED BY <3>1, <3>2
  <2> QED BY <1>4, <2>2 DEF SeenGroup
<1>14. InQueue'
  <2>1. \A o \in Member(queue) : o \in Sessions /\ o \notin Tasks /\ conn[o].pc = "queued"
    <3>1. queue \in Seq(Sessions)
      BY <1>0 DEF TypeInv
    <3>2. \A o \in Member(queue) : o \in Sessions
      BY <3>1 DEF Member
    <3>3. Tasks = Member(round.tasks)
      BY GroupHas
    <3> QED BY <1>0, <3>2, <3>3 DEF InQueue
  <2>2. \A o \in kept : o \in Sessions /\ conn[o].pc = "queued" /\ conn'[o] = conn[o]
    BY <1>5, GroupHas
  <2>3. \A o \in Member(queue') \cup Member(round'.tasks) : conn'[o].pc = "queued"
    BY <1>3, <1>4, <1>5, <2>1, <2>2
  <2>4. Distinct(queue') /\ Member(queue') \cap Member(round'.tasks) = {}
    BY <1>0, <1>3, <1>4, <2>1 DEF InQueue
  <2> QED BY <1>4, <2>3, <2>4 DEF InQueue
<1> QED BY <1>0, <1>9, <1>11, <1>12, <1>13, <1>14 DEF VisInv

\* Memory: the group's end, with its pre-image restored or with its acks.
LEMMA GroupEndSeen ==
  ASSUME VisInv, NEW s \in Sessions, Restore(s) \/ AckGroup(s)
  PROVE  VisInv'
<1>0. /\ TypeInv /\ LineInv /\ InQueue /\ Apart /\ TypeInv' /\ LineInv' /\ SeenGroup
      /\ \A w \in Writes : SeenWrite(w)
      /\ \A o \in Sessions : SeenConn(o)
      /\ mem \in [Writes -> Nat]
      /\ count.writes \in Nat /\ Writes \subseteq Nat
  BY QueueTypes, OwnHas DEF VisInv, Lead, TypeInv, Rounds
<1>1. /\ conn' = Acked(Tasks) /\ round' = NoRound /\ queue' = queue /\ count' = count /\ InHand
      /\ Group = WritesOf(Tasks)
  BY GroupHas DEF Restore, AckGroup, InHand, Group
<1>2. ~InHand' /\ round'.stage = "none" /\ round'.tasks = <<>> /\ Member(round'.tasks) = {}
  BY <1>1 DEF NoRound, InHand, Member
<1>3. \A w \in Writes : mem[w] = IF w \in Group \cup beside THEN 1 ELSE round.pre[w]
  BY <1>0, <1>1 DEF SeenGroup
<1>4. ASSUME NEW w \in Writes
      PROVE  /\ w \notin Group /\ w \notin beside => mem'[w] = mem[w]
             /\ w \in beside => mem'[w] = mem[w] \/ w \in erased'
             /\ w \in erased => w \in erased'
             /\ w \notin Group => told'[w] = told[w]
             /\ w \in Group /\ told'[w] = "acked" => mem'[w] = 1
  <2>1. CASE Restore(s)
    <3>1. mem' = round.pre /\ erased' = erased \cup beside /\ told' = Told(WritesOf(Tasks), "refused")
      BY <2>1 DEF Restore
    <3>2. told'[w] = IF w \in Group THEN "refused" ELSE told[w]
      BY <1>1, <3>1 DEF Told
    <3> QED BY <1>3, <3>1, <3>2
  <2>2. CASE AckGroup(s)
    <3>1. mem' = mem /\ erased' = erased /\ told' = Told(WritesOf(Tasks), "acked")
      BY <2>2 DEF AckGroup, ghosts
    <3>2. told'[w] = IF w \in Group THEN "acked" ELSE told[w]
      BY <1>1, <3>1 DEF Told
    <3> QED BY <1>3, <3>1, <3>2
  <2> QED BY <2>1, <2>2
<1>5. ASSUME NEW w \in Group
      PROVE  \E p \in Tasks : p \in Sessions /\ w \in Hold(conn[p]) /\ w \in Writes
                              /\ told[w] # "acked" /\ w <= count.writes
  <2>1. PICK p \in Tasks : p \in Sessions /\ conn[p].w = w /\ w \in Hold(conn[p]) /\ w \in Writes
    BY <1>1, <1>5, GroupHas
  <2> QED BY <1>0, <2>1 DEF SeenConn
<1>6. \A o \in Sessions :
         /\ TxHold(conn'[o]) /\ Hold(conn'[o]) \subseteq Hold(conn[o])
         /\ conn'[o].shadow = conn[o].shadow
         /\ Landing(conn'[o]) \subseteq Landing(conn[o])
         /\ o \in Tasks => Hold(conn'[o]) = {} /\ conn'[o].pc # "queued" /\ conn'[o].shadow = {}
         /\ o \notin Tasks => conn'[o] = conn[o]
  BY <1>1, AckedHolds
<1>7. ASSUME NEW o \in Sessions, o \notin Tasks, NEW w \in Hold(conn[o]) PROVE w \notin Group
  BY <1>0, <1>5, <1>7 DEF Apart
<1>8. ASSUME NEW w \in Writes, mem[w] = 0, w \notin Group PROVE mem'[w] = 0
  BY <1>3, <1>4, <1>8
<1>9. ASSUME NEW w \in Writes, Visible(w), w \notin Group PROVE Visible(w)'
  BY <1>4, <1>9 DEF Visible
<1>10. ASSUME NEW w \in Writes PROVE SeenWrite(w)'
  <2>0. SeenWrite(w)
    BY <1>0
  <2>1. CASE w \in Group
    <3>1. ~(w > count'.writes)
      BY <1>0, <1>1, <1>5, <2>1
    <3> QED BY <1>4, <2>1, <3>1 DEF SeenWrite, Visible
  <2>2. CASE w \notin Group
    BY <1>1, <1>4, <1>8, <1>9, <2>0, <2>2 DEF SeenWrite
  <2> QED BY <2>1, <2>2
<1>11. ASSUME NEW o \in Sessions PROVE SeenConn(o)'
  <2>0. SeenConn(o) /\ Hold(conn[o]) \subseteq Writes
        /\ conn[o].shadow \subseteq Hold(conn[o]) /\ Landing(conn[o]) \subseteq Hold(conn[o])
    BY <1>0, OwnHas
  <2>1. CASE o \in Tasks
    <3>1. Landing(conn'[o]) = {}
      <4>1. Landing(conn'[o]) \subseteq Hold(conn'[o])
        BY DEF Hold
      <4> QED BY <1>6, <2>1, <4>1
    <3> QED BY <1>6, <2>1, <3>1 DEF SeenConn
  <2>2. CASE o \notin Tasks
    <3>1. conn'[o] = conn[o]
      BY <1>6, <2>2
    <3>2. \A w \in Hold(conn[o]) : w \in Writes /\ w \notin Group /\ w <= count'.writes /\ told'[w] # "acked"
      BY <1>1, <1>4, <1>7, <2>0, <2>2 DEF SeenConn
    <3>3. \A w \in conn[o].shadow : mem'[w] = 0
      BY <1>8, <2>0, <3>2 DEF SeenConn
    <3>4. \A w \in Landing(conn[o]) : Visible(w)'
      BY <1>9, <2>0, <3>2 DEF SeenConn
    <3>5. conn[o].pc = "queued" => conn[o].w \in Writes /\ mem'[conn[o].w] = 0
      <4> SUFFICES ASSUME conn[o].pc = "queued" PROVE conn[o].w \in Writes /\ mem'[conn[o].w] = 0
        OBVIOUS
      <4>1. ~InGroup(o)
        BY <2>2, GroupHas DEF InGroup
      <4>2. conn[o].w \in Writes /\ mem[conn[o].w] = 0
        BY <2>0, <4>1 DEF SeenConn
      <4>3. conn[o].w \in Hold(conn[o])
        BY <4>2 DEF Hold
      <4> QED BY <1>8, <3>2, <4>2, <4>3
    <3>6. TxHold(conn[o])
      BY <2>0 DEF SeenConn
    <3> QED BY <1>2, <3>1, <3>2, <3>3, <3>4, <3>5, <3>6 DEF SeenConn
  <2> QED BY <2>1, <2>2
<1>12. Apart'
  BY <1>0, <1>6 DEF Apart
<1>13. SeenGroup'
  BY <1>2 DEF SeenGroup
<1>14. InQueue'
  <2>1. \A o \in Member(queue) : o \in Sessions /\ o \notin Tasks /\ conn[o].pc = "queued"
    <3>1. queue \in Seq(Sessions)
      BY <1>0 DEF TypeInv
    <3>2. \A o \in Member(queue) : o \in Sessions
      BY <3>1 DEF Member
    <3>3. Tasks = Member(round.tasks)
      BY GroupHas
    <3> QED BY <1>0, <3>2, <3>3 DEF InQueue
  <2>2. \A o \in Member(queue') \cup Member(round'.tasks) : conn'[o].pc = "queued"
    BY <1>1, <1>2, <1>6, <2>1
  <2> QED BY <1>0, <1>1, <1>2, <2>2 DEF InQueue
<1> QED BY <1>0, <1>10, <1>11, <1>12, <1>13, <1>14 DEF VisInv

\* The invariant on memory holds throughout as long as nothing crashes.
LEMMA VisHolds ==
  ASSUME MaxCrashes = 0
  PROVE  WalSpec => []VisInv
<1>1. WalInit => VisInv
  <2> SUFFICES ASSUME WalInit PROVE VisInv
    OBVIOUS
  <2>1. /\ TypeInv /\ LineInv
        /\ \A s \in Sessions : conn[s].pc = "idle" /\ conn[s].tx = 0 /\ conn[s].shadow = {}
        /\ queue = <<>> /\ round.stage = "none" /\ round.tasks = <<>>
        /\ \A w \in Writes : mem[w] = 0 /\ told[w] = "nothing"
    BY InitTypes DEF WalInit, Fresh, NoRound, Nothing
  <2>2. \A s \in Sessions : Landing(conn[s]) = {} /\ Hold(conn[s]) = {} /\ TxHold(conn[s])
    BY <2>1 DEF Landing, Hold, TxHold
  <2>3. Member(<<>>) = {} /\ Distinct(<<>>) /\ ~InHand
    BY <2>1 DEF Member, Distinct, InHand
  <2> QED BY <2>1, <2>2, <2>3 DEF VisInv, InQueue, SeenWrite, SeenConn, Apart, SeenGroup
<1>2. VisInv /\ [WalNext]_vars => VisInv'
  BY InlineSeen, EnqueueSeen, StatementSeen, EndsSeen, CommitSeen, PersistSeen, AsideSeen, ApplySeen, GroupEndSeen
     DEF WalNext, Client, Lead
<1> QED BY <1>1, <1>2, PTL DEF WalSpec

\* Without Overlap nothing comes beside a group.
Unbeside == beside = {} /\ erased = {}

\* Nothing comes beside a group when only the queue's writers overlap.
LEMMA UnbesideHolds ==
  ASSUME Overlap = FALSE
  PROVE  WalSpec => []Unbeside
<1>1. WalInit => Unbeside
  BY DEF WalInit, Unbeside
<1>2. RecoveryInv /\ Unbeside /\ [WalNext]_vars => Unbeside'
  <2> SUFFICES ASSUME RecoveryInv, Unbeside, [WalNext]_vars PROVE Unbeside'
    OBVIOUS
  <2>1. ASSUME NEW s \in Sessions, Inline(s) \/ Commit(s) PROVE Unbeside'
    <3>1. Sole(s)
      BY <2>1, InlineModes DEF RecoveryInv
    <3>2. ~InHand
      BY <3>1 DEF Sole, InHand
    <3> QED BY <2>1, <3>2 DEF Inline, Commit, Beside, Unbeside
  <2>2. ASSUME NEW s \in Sessions,
               \/ Enqueue(s) \/ Begin(s) \/ Statement(s) \/ StatementFails(s) \/ CommitAborted(s) \/ CommitFails(s)
               \/ Rollback(s) \/ Disconnect(s)
        PROVE  Unbeside'
    BY <2>2 DEF Unbeside, ghosts, Enqueue, Begin, Statement, StatementFails, CommitAborted, CommitFails, Rollback,
       Disconnect
  <2>3. ASSUME NEW s \in Sessions, Lead(s) \/ AuditFails(s) PROVE Unbeside'
    BY <2>3 DEF Unbeside, ghosts, Lead, Drain, DropBaton, Apply, GroupWrite, GroupSync, Restore, AckGroup, AuditFails
  <2>4. ASSUME NEW s \in Sessions, Persist(s) \/ InlineAuditFails(s) PROVE Unbeside'
    BY <2>4 DEF Unbeside, ghosts, Persist, LogBegin, LogStatement, LogWrite, LogSync, InlineAuditFails
  <2>5. ASSUME Flush \/ CkptSnapshot \/ CkptInstall \/ CkptTruncate \/ Crash \/ Read \/ UNCHANGED vars PROVE Unbeside'
    BY <2>5 DEF Unbeside, ghosts, vars, Flush, CkptSnapshot, CkptInstall, CkptTruncate, Crash, Read
  <2> QED BY <2>1, <2>2, <2>3, <2>4, <2>5 DEF WalNext, Client
<1> QED BY <1>1, <1>2, RecoveryHolds, PTL DEF WalSpec

\* What a client was told is done stays in the engine's catalog (run_leader's
\* pre-image and replace_catalog).  Whatever overlaps with what, a failed group
\* takes down, besides its own writes, only what others put there after its
\* pre-image; when only the queue's writers overlap it takes nothing else, and
\* crashes, after which memory is what replay made of the log, change nothing.
THEOREM AckedStaysVisible ==
  ASSUME Overlap = FALSE \/ MaxCrashes = 0
  PROVE  WalSpec => []AckedVisible
<1>1. CASE Overlap = FALSE
  <2>1. RecoveryInv /\ Unbeside => AckedVisible
    BY RecoveryImplies DEF AckedVisible, AckedInMemory, Unbeside
  <2> QED BY <1>1, <2>1, RecoveryHolds, UnbesideHolds, PTL
<1>2. CASE Overlap = TRUE /\ MaxCrashes = 0
  <2>1. VisInv => AckedVisible
    BY <1>2 DEF VisInv, AckedVisible, AckedWrites, SeenWrite, Visible
  <2> QED BY <1>2, <2>1, VisHolds, PTL
<1>3. Overlap \in BOOLEAN
  BY ServerWalAssumption
<1> QED BY <1>1, <1>2, <1>3
=============================================================================
