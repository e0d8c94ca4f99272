------------------------- MODULE EmbeddedWalProofs -------------------------
(***************************************************************************)
(* The embedded log keeps what it acknowledged and replays nothing twice.  *)
(*                                                                         *)
(* A record is enqueued once and then moves: from the group's buffer into  *)
(* the hands of a leader or of the worker, and from there into a chunk.    *)
(* Live puts these places side by side; no step but a crash drops a record *)
(* of it, and only two kinds of step add one.  The invariant says what the *)
(* records of Live have to do with the snapshot, the engine, the buffer of *)
(* the open transaction and what the clients were told.                    *)
(***************************************************************************)
EXTENDS EmbeddedWal, WalRecordsProofs, FiniteSetTheorems

---------------------------------------------------------------------------
(* Where the records are.                                                  *)

IntactT == [kind : {"DATA", "MARK"}, lsn : Nat, ws : SUBSET Writes]

\* What a flush has taken and not written yet.
Held(h) == IF h.at = "taken" THEN h.batch ELSE <<>>

Places(cs) ==
  ({"disk"} \X (1 .. Len(cs))) \cup ({"call"} \X Callers) \cup {<<"buf", 0>>, <<"work", 0>>}

Store(cs, buf, cl, wk) ==
  [a \in Places(cs) |-> IF a[1] = "disk" THEN cs[a[2]]
                        ELSE IF a[1] = "call" THEN Held(cl[a[2]])
                        ELSE IF a[1] = "buf" THEN buf ELSE Held(wk)]

Live == Store(chunks, group.buf, call, worker)

\* The records of a store that a boot could read, and that a write is in no
\* two of them.
Recs(F) == UNION { { F[a][i] : i \in Parsed(F[a]) } : a \in DOMAIN F }

Single(F) ==
  \A a, b \in DOMAIN F : \A i \in Parsed(F[a]), j \in Parsed(F[b]) :
    F[a][i].ws \cap F[b][j].ws # {} => a = b /\ i = j

---------------------------------------------------------------------------
(* The invariant.                                                          *)

StackT(T) == Seq([name : Names, at : T])

TxT == [open : BOOLEAN, aborted : BOOLEAN, shadow : Seq(Writes), saves : StackT(Seq(Writes))]

CallT == [at : {"idle", "waiting", "elected", "taken", "written", "synced"}, seq : Nat,
          ws : SUBSET Writes, batch : Seq(IntactT), to : Nat]

WorkT == [at : {"idle", "pending", "renamed", "marked", "taken", "written", "synced", "rotate"},
          snap : Databases, lsn : Nat, batch : Seq(IntactT), to : Nat, error : BOOLEAN]

GroupT == [buf : Seq(IntactT), enqueued : Nat, flushed : Nat, leader : BOOLEAN, failed : BOOLEAN]

TypeInv ==
  /\ eng \in [tx : TxT, base : Databases]
  /\ buffer \in [on : BOOLEAN, stmts : Seq(Writes), marks : StackT(Nat)]
  /\ lsn \in Nat /\ group \in GroupT
  /\ chunks \in Seq(Seq(RecordsT)) /\ Len(chunks) >= 1
  /\ synced \in 0 .. Len(Active)
  /\ call \in [Callers -> CallT] /\ worker \in WorkT
  /\ front \in {"free", "drain", "wait"}
  /\ db \in [data : Databases, lsn : Nat]
  /\ told \in [Writes -> {"new", "open", "sent", "acked", "unknown", "undone"}]
  /\ mishaps \subseteq {"overtaken", "torn", "window", "refused", "aborted", "nested"}

Leads(c) == c.at \in {"elected", "taken", "written", "synced"}

Holds(h) == h.at \in {"taken", "written", "synced"}

\* Locks and sequence numbers of the group commit.
HandsInv ==
  /\ file = { t \in Callers : call[t].at = "written" }
             \cup (IF worker.at = "written" THEN {"worker"} ELSE {})
  /\ \A t \in Callers : worker.at = "written" => call[t].at # "written"
  /\ \A t, u \in Callers : Leads(call[t]) /\ Leads(call[u]) => t = u
  /\ group.leader <=> \E t \in Callers : Leads(call[t])
  /\ group.flushed + Len(group.buf) <= group.enqueued
  /\ \A t \in Callers : Holds(call[t]) => call[t].to + Len(group.buf) <= group.enqueued
  /\ Holds(worker) => worker.to + Len(group.buf) <= group.enqueued

\* A leader and the worker have different records in hand.
RangesInv ==
  \A t \in Callers : Holds(call[t]) /\ Holds(worker)
    => \/ call[t].to + Len(worker.batch) <= worker.to
       \/ worker.to + Len(call[t].batch) <= call[t].to

\* The records of Live against LSNs, markers and clients.
LogInv ==
  /\ Single(Live)
  /\ \A r \in Recs(Live) :
       /\ r.lsn <= lsn /\ (r.kind = "DATA" => r.lsn > 0)
       /\ r.kind = "MARK" => /\ r.ws = {} /\ r.lsn <= db.lsn
                             /\ worker.at = "pending" => r.lsn <= worker.lsn
       /\ \A w \in r.ws : told[w] \notin {"new", "open"} /\ w \notin ToSet(buffer.stmts)
  /\ worker.at \in {"pending", "renamed"} => worker.lsn <= lsn
  /\ worker.at = "renamed" => worker.lsn = db.lsn

\* The part of it that holds whatever happened.
MarkerInv ==
  /\ \A r \in Recs(Live) :
       /\ r.lsn <= lsn
       /\ r.kind = "MARK" => r.lsn <= db.lsn /\ (worker.at = "pending" => r.lsn <= worker.lsn)
  /\ worker.at \in {"pending", "renamed"} => worker.lsn <= lsn
  /\ worker.at = "renamed" => worker.lsn = db.lsn

\* Who may be in a database, and what the transaction holds.
ToldInv ==
  /\ \E k \in 0 .. MaxWrites : \A w \in Writes : told[w] # "new" <=> w <= k
  /\ \A w \in Writes : told[w] \in {"new", "open"}
       => /\ eng.base[w] = 0 /\ db.data[w] = 0
          /\ worker.at = "pending" => worker.snap[w] = 0
  /\ \A w \in ToSet(eng.tx.shadow) : told[w] = "open"
  /\ \A w \in ToSet(buffer.stmts) : told[w] # "new"
  /\ \A i \in DOMAIN eng.tx.saves : ToSet(eng.tx.saves[i].at) \subseteq ToSet(eng.tx.shadow)
  /\ \A i, k \in DOMAIN eng.tx.saves :
       i < k => ToSet(eng.tx.saves[i].at) \subseteq ToSet(eng.tx.saves[k].at)
  /\ ~eng.tx.open => eng.tx = NoTx
  /\ eng.tx.open => buffer.on

\* A write has one ticket at most, and the ticket is open.
TicketInv ==
  \A t \in Callers : \A w \in call[t].ws :
    /\ told[w] = "sent" /\ w \notin ToSet(buffer.stmts)
    /\ \A u \in Callers : w \in call[u].ws => u = t

\* The marks of the buffer lie in it, in order.
MarksInv ==
  /\ \A j \in DOMAIN buffer.marks : buffer.marks[j].at <= Len(buffer.stmts)
  /\ \A j, l \in DOMAIN buffer.marks : j < l => buffer.marks[j].at <= buffer.marks[l].at

\* The buffer follows the engine.
Follows(saves, marks, stmts) ==
  /\ \A j, l \in DOMAIN marks : marks[j].name = marks[l].name => j = l
  /\ \A i \in DOMAIN saves : \E j \in DOMAIN marks : marks[j].name = saves[i].name
  /\ \A i \in DOMAIN saves, j \in DOMAIN marks : marks[j].name = saves[i].name
       => marks[j].at <= Len(stmts) /\ saves[i].at = SubSeq(stmts, 1, marks[j].at)
  /\ \A i, k \in DOMAIN saves, j, l \in DOMAIN marks :
       i < k /\ marks[j].name = saves[i].name /\ marks[l].name = saves[k].name
         => j < l

BlockInv ==
  /\ buffer.on <=> eng.tx.open
  /\ buffer.stmts = eng.tx.shadow
  /\ Follows(eng.tx.saves, buffer.marks, buffer.stmts)

\* Nothing is in the snapshot and above its LSN.
OnceInv ==
  mishaps \cap {"window", "refused"} = {}
    => /\ db.lsn <= lsn
       /\ \A w \in Writes : eng.base[w] <= 1 /\ db.data[w] <= 1
       /\ worker.at = "pending" => \A w \in Writes : worker.snap[w] <= 1
       /\ \A r \in Recs(Live) : \A w \in r.ws :
            /\ db.data[w] > 0 => r.lsn <= db.lsn
            /\ worker.at = "pending" /\ worker.snap[w] > 0 => r.lsn <= worker.lsn

\* What was rolled back is nowhere.
UndoneInv ==
  mishaps \cap {"aborted", "refused"} = {}
    => \A w \in Writes : told[w] = "undone"
         => /\ eng.base[w] = 0 /\ db.data[w] = 0
            /\ worker.at = "pending" => worker.snap[w] = 0
            /\ \A r \in Recs(Live) : w \notin r.ws

\* A write is on the disk, beyond the reach of a crash.
Durable(w) ==
  \E c \in 1 .. Len(chunks) : \E i \in 1 .. Len(chunks[c]) :
    /\ c = Len(chunks) => i <= synced
    /\ chunks[c][i].kind = "DATA" /\ w \in chunks[c][i].ws

\* The write of a ticket that may not be durable yet: in the buffer, above every
\* number that was handed out, or in the hands of a flush that reaches no further.
Pending(w, seq) ==
  /\ group.flushed < seq
  /\ \/ group.enqueued < seq + Len(group.buf) /\ \E i \in DOMAIN group.buf : w \in group.buf[i].ws
     \/ \E h \in { call[t] : t \in Callers } \cup {worker} :
          /\ h.at \in {"taken", "written"} /\ h.to < seq + Len(h.batch)
          /\ \E i \in DOMAIN h.batch : w \in h.batch[i].ws

AckInv ==
  mishaps \cap {"overtaken", "torn", "refused"} = {}
    => /\ \A c \in 1 .. Len(chunks) : \A i \in 1 .. Len(chunks[c]) : chunks[c][i].kind # "TORN"
       /\ \A h \in { call[t] : t \in Callers } \cup {worker} : h.at = "written"
            => \A i \in DOMAIN h.batch : \E j \in DOMAIN Active : Active[j] = h.batch[i]
       /\ \A w \in Writes : told[w] = "acked" => Durable(w)
       /\ ~group.failed => \A t \in Callers : \A w \in call[t].ws :
            Durable(w) \/ Pending(w, call[t].seq)

\* A marker vouches for the snapshot.
CoverInv ==
  \A r \in Recs(Live) : \A w \in r.ws : told[w] \in {"sent", "acked"}
    => /\ eng.base[w] > 0
       /\ worker.at = "pending" /\ r.lsn <= worker.lsn => worker.snap[w] > 0
       /\ worker.at = "renamed" /\ r.lsn <= worker.lsn => db.data[w] > 0
       /\ \A m \in Recs(Live) : m.kind = "MARK" /\ r.lsn <= m.lsn => db.data[w] > 0

\* No COMMIT was refused and no BEGIN came inside a block, after which the
\* buffer goes its own way.
InStep(bad) == bad \cap {"refused", "nested"} = {}

EmbInv ==
  /\ TypeInv /\ HandsInv /\ RangesInv /\ MarksInv /\ MarkerInv
  /\ InStep(mishaps)
       => /\ LogInv /\ ToldInv /\ TicketInv /\ BlockInv
          /\ OnceInv /\ UndoneInv /\ AckInv /\ CoverInv

---------------------------------------------------------------------------
(* Stores.                                                                 *)

\* A record of a store is in one of its places.
LEMMA RecsIs ==
  ASSUME NEW F, NEW r
  PROVE  r \in Recs(F) <=> \E a \in DOMAIN F : \E i \in Parsed(F[a]) : r = F[a][i]
BY DEF Recs

\* Records stay where they are, some go.
LEMMA StoreShrinks ==
  ASSUME NEW F, NEW G,
         \A a \in DOMAIN G : \A i \in Parsed(G[a]) :
           a \in DOMAIN F /\ i \in Parsed(F[a]) /\ G[a][i] = F[a][i]
  PROVE  Recs(G) \subseteq Recs(F) /\ (Single(F) => Single(G))
<1>1. Recs(G) \subseteq Recs(F)
  BY DEF Recs
<1>2. ASSUME Single(F) PROVE Single(G)
  BY <1>2 DEF Single
<1> QED BY <1>1, <1>2

\* What a boot reads of two sequences put together.
LEMMA ParsedConcat ==
  ASSUME NEW s \in Seq(RecordsT), NEW t \in Seq(RecordsT), NEW i \in Parsed(s \o t)
  PROVE  \/ i \in Parsed(s) /\ (s \o t)[i] = s[i]
         \/ i > Len(s) /\ i - Len(s) \in Parsed(t) /\ (s \o t)[i] = t[i - Len(s)]
<1>1. i \in 1 .. Len(s \o t) /\ \A j \in 1 .. i : (s \o t)[j].kind # "TORN"
  BY DEF Parsed
<1>2. /\ Len(s) \in Nat /\ Len(t) \in Nat /\ Len(s \o t) = Len(s) + Len(t)
      /\ \A j \in 1 .. Len(s) : (s \o t)[j] = s[j]
      /\ \A j \in 1 .. Len(t) : (s \o t)[Len(s) + j] = t[j]
  OBVIOUS
<1>3. CASE i <= Len(s)
  <2>1. i \in 1 .. Len(s) /\ \A j \in 1 .. i : j \in 1 .. Len(s)
    BY <1>1, <1>2, <1>3
  <2> QED BY <1>1, <1>2, <2>1 DEF Parsed
<1>4. CASE ~(i <= Len(s))
  <2>1. i - Len(s) \in 1 .. Len(t) /\ i = Len(s) + (i - Len(s)) /\ i > Len(s)
    BY <1>1, <1>2, <1>4
  <2>2. ASSUME NEW j \in 1 .. (i - Len(s)) PROVE t[j].kind # "TORN"
    <3>1. j \in 1 .. Len(t) /\ Len(s) + j \in 1 .. i
      BY <1>1, <1>2, <2>1
    <3> QED BY <1>1, <1>2, <3>1
  <2>3. (s \o t)[i] = t[i - Len(s)]
    BY <1>2, <2>1
  <2> QED BY <2>1, <2>2, <2>3 DEF Parsed
<1> QED BY <1>3, <1>4

\* The records of one place move behind those of another.
LEMMA StoreMoves ==
  ASSUME NEW F, NEW G, NEW a \in DOMAIN F, NEW b \in DOMAIN F, a # b,
         DOMAIN G = DOMAIN F, \A c \in DOMAIN F : F[c] \in Seq(RecordsT),
         G[a] = <<>>, G[b] = F[b] \o F[a], \A c \in DOMAIN F \ {a, b} : G[c] = F[c]
  PROVE  Recs(G) \subseteq Recs(F) /\ (Single(F) => Single(G))
<1> DEFINE n == Len(F[b])
           Was(c, i) == IF c = b /\ i > n THEN <<a, i - n>> ELSE <<c, i>>
<1>1. n \in Nat /\ Parsed(G[a]) = {}
  BY DEF Parsed
<1>2. ASSUME NEW c \in DOMAIN G, NEW i \in Parsed(G[c])
      PROVE  /\ i \in Nat /\ Was(c, i)[1] \in DOMAIN F /\ Was(c, i)[2] \in Parsed(F[Was(c, i)[1]])
             /\ G[c][i] = F[Was(c, i)[1]][Was(c, i)[2]] /\ c # a
  <2>1. c # a
    BY <1>1
  <2>2. CASE c # b
    <3>1. G[c] = F[c] /\ F[c] \in Seq(RecordsT)
      BY <2>1, <2>2
    <3>2. i \in Nat
      BY <3>1 DEF Parsed
    <3> QED BY <2>1, <2>2, <3>1, <3>2
  <2>3. CASE c = b
    <3>1. G[c] = F[b] \o F[a] /\ F[b] \in Seq(RecordsT) /\ F[a] \in Seq(RecordsT)
      BY <2>3
    <3>2. i \in Parsed(F[b] \o F[a])
      BY <3>1
    <3>3. \/ i \in Parsed(F[b]) /\ (F[b] \o F[a])[i] = F[b][i]
          \/ i > n /\ i - n \in Parsed(F[a]) /\ (F[b] \o F[a])[i] = F[a][i - n]
      BY <3>1, <3>2, ParsedConcat
    <3>4. i \in Nat /\ (i \in Parsed(F[b]) => i <= n)
      BY <1>1, <3>1, <3>2 DEF Parsed
    <3>5. CASE i > n
      <4>1. ~(i <= n)
        BY <1>1, <3>4, <3>5
      <4> QED BY <2>1, <2>3, <3>1, <3>3, <3>4, <3>5, <4>1
    <3>6. CASE ~(i > n)
      BY <2>1, <2>3, <3>1, <3>3, <3>4, <3>6
    <3> QED BY <3>5, <3>6
  <2> QED BY <2>2, <2>3
<1>3. ASSUME NEW c \in DOMAIN G, NEW i \in Parsed(G[c]), NEW d \in DOMAIN G, NEW j \in Parsed(G[d]),
             Was(c, i)[1] = Was(d, j)[1], Was(c, i)[2] = Was(d, j)[2]
      PROVE  c = d /\ i = j
  <2>1. i \in Nat /\ j \in Nat /\ c # a /\ d # a
    BY <1>2
  <2> QED BY <1>1, <1>3, <2>1
<1> HIDE DEF Was
<1>4. Recs(G) \subseteq Recs(F)
  <2>1. SUFFICES ASSUME NEW r \in Recs(G) PROVE r \in Recs(F)
    OBVIOUS
  <2>2. PICK c \in DOMAIN G : \E i \in Parsed(G[c]) : r = G[c][i]
    BY RecsIs
  <2>3. PICK i \in Parsed(G[c]) : r = G[c][i]
    BY <2>2
  <2>4. \E d \in DOMAIN F : \E j \in Parsed(F[d]) : r = F[d][j]
    BY <1>2, <2>3
  <2> QED BY <2>4, RecsIs
<1>5. ASSUME Single(F) PROVE Single(G)
  <2>1. SUFFICES ASSUME NEW c \in DOMAIN G, NEW d \in DOMAIN G, NEW i \in Parsed(G[c]), NEW j \in Parsed(G[d]),
                        G[c][i].ws \cap G[d][j].ws # {}
                 PROVE  c = d /\ i = j
    BY DEF Single
  <2>2. /\ Was(c, i)[1] \in DOMAIN F /\ Was(c, i)[2] \in Parsed(F[Was(c, i)[1]])
        /\ Was(d, j)[1] \in DOMAIN F /\ Was(d, j)[2] \in Parsed(F[Was(d, j)[1]])
        /\ F[Was(c, i)[1]][Was(c, i)[2]].ws \cap F[Was(d, j)[1]][Was(d, j)[2]].ws # {}
    <3>1. /\ Was(c, i)[1] \in DOMAIN F /\ Was(c, i)[2] \in Parsed(F[Was(c, i)[1]])
          /\ G[c][i] = F[Was(c, i)[1]][Was(c, i)[2]]
      BY <1>2, Zenon
    <3>2. /\ Was(d, j)[1] \in DOMAIN F /\ Was(d, j)[2] \in Parsed(F[Was(d, j)[1]])
          /\ G[d][j] = F[Was(d, j)[1]][Was(d, j)[2]]
      BY <1>2, Zenon
    <3> QED BY <2>1, <3>1, <3>2, Zenon
  <2>3. Was(c, i)[1] = Was(d, j)[1] /\ Was(c, i)[2] = Was(d, j)[2]
    BY <1>5, <2>2 DEF Single
  <2> QED BY <1>3, <2>3
<1> QED BY <1>4, <1>5

\* A record with new writes comes in.
LEMMA StoreGrows ==
  ASSUME NEW F, NEW G, NEW a \in DOMAIN F, NEW r \in RecordsT,
         DOMAIN G = DOMAIN F, F[a] \in Seq(RecordsT),
         G[a] = Append(F[a], r), \A c \in DOMAIN F \ {a} : G[c] = F[c],
         \A x \in Recs(F) : x.ws \cap r.ws = {}
  PROVE  Recs(G) \subseteq Recs(F) \cup {r} /\ (Single(F) => Single(G))
<1> DEFINE n == Len(F[a]) + 1
<1>1. /\ n \in Nat /\ Len(G[a]) = n /\ G[a][n] = r
      /\ \A i \in 1 .. (n - 1) : G[a][i] = F[a][i]
  OBVIOUS
<1>2. ASSUME NEW c \in DOMAIN G, NEW i \in Parsed(G[c])
      PROVE  (c = a /\ i = n /\ G[c][i] = r) \/ (i \in Parsed(F[c]) /\ G[c][i] = F[c][i] /\ G[c][i] \in Recs(F))
  <2>1. CASE c # a
    <3>1. c \in DOMAIN F /\ G[c] = F[c] /\ i \in Parsed(F[c])
      BY <2>1
    <3>2. F[c][i] \in Recs(F)
      BY <3>1, RecsIs
    <3> QED BY <3>1, <3>2
  <2>2. CASE c = a /\ i = n
    BY <1>1, <2>2
  <2>3. CASE c = a /\ i # n
    <3>1. i \in 1 .. n /\ \A j \in 1 .. i : G[a][j].kind # "TORN"
      BY <1>1, <2>3 DEF Parsed
    <3>2. i \in 1 .. Len(F[a]) /\ \A j \in 1 .. i : j \in 1 .. (n - 1)
      BY <1>1, <2>3, <3>1
    <3>3. i \in Parsed(F[a])
      BY <1>1, <3>1, <3>2 DEF Parsed
    <3>4. G[a][i] = F[a][i]
      BY <1>1, <3>2
    <3>5. F[a][i] \in Recs(F)
      BY <3>3, RecsIs
    <3> QED BY <2>3, <3>3, <3>4, <3>5
  <2> QED BY <2>1, <2>2, <2>3
<1>3. Recs(G) \subseteq Recs(F) \cup {r}
  BY <1>2, RecsIs
<1>4. ASSUME Single(F) PROVE Single(G)
  <2>1. SUFFICES ASSUME NEW c \in DOMAIN G, NEW d \in DOMAIN G, NEW i \in Parsed(G[c]), NEW j \in Parsed(G[d]),
                        G[c][i].ws \cap G[d][j].ws # {}
                 PROVE  c = d /\ i = j
    BY DEF Single
  <2> HIDE DEF n
  <2>2. /\ (c = a /\ i = n /\ G[c][i] = r) \/ (i \in Parsed(F[c]) /\ G[c][i] = F[c][i] /\ G[c][i] \in Recs(F))
        /\ (d = a /\ j = n /\ G[d][j] = r) \/ (j \in Parsed(F[d]) /\ G[d][j] = F[d][j] /\ G[d][j] \in Recs(F))
    BY <1>2
  <2>3. CASE G[c][i] = r /\ G[d][j] \in Recs(F)
    <3>1. G[d][j].ws \cap r.ws = {}
      BY <2>3
    <3> QED BY <2>1, <2>3, <3>1
  <2>4. CASE G[d][j] = r /\ G[c][i] \in Recs(F)
    <3>1. G[c][i].ws \cap r.ws = {}
      BY <2>4
    <3> QED BY <2>1, <2>4, <3>1
  <2>5. CASE i \in Parsed(F[c]) /\ G[c][i] = F[c][i] /\ j \in Parsed(F[d]) /\ G[d][j] = F[d][j]
    BY <1>4, <2>1, <2>5 DEF Single
  <2> QED BY <2>2, <2>3, <2>4, <2>5
<1> QED BY <1>3, <1>4

---------------------------------------------------------------------------
(* Types.                                                                  *)

\* The records flushes carry can be written to a chunk.
LEMMA IntactSeq ==
  /\ \A s \in Seq(IntactT) : s \in Seq(RecordsT)
  /\ \A r \in IntactT : r \in RecordsT
<1>1. \A r \in IntactT : r \in RecordsT
  BY DEF IntactT, RecordsT
<1>2. ASSUME NEW s \in Seq(IntactT) PROVE s \in Seq(RecordsT)
  <2>1. Len(s) \in Nat /\ \A i \in 1 .. Len(s) : s[i] \in RecordsT
    BY <1>1
  <2>2. s = [i \in 1 .. Len(s) |-> s[i]]
    OBVIOUS
  <2> QED BY <2>1, <2>2
<1> QED BY <1>1, <1>2

\* The empty database.
LEMMA NothingIs == Nothing \in Databases /\ \A w \in Writes : Nothing[w] = 0
BY DEF Nothing, Databases

\* A caller, the worker and the group at rest.
LEMMA Rests ==
  /\ Idle \in CallT /\ NoJob \in WorkT /\ Failed \in WorkT /\ NewGroup \in GroupT
  /\ NoTx \in TxT /\ Idle.at = "idle" /\ NoJob.at = "idle" /\ Failed.at = "idle"
<1>1. <<>> \in Seq(IntactT) /\ \A T : <<>> \in Seq(T)
  OBVIOUS
<1>2. Idle \in CallT /\ Idle.at = "idle"
  BY <1>1 DEF Idle, CallT
<1>3. NoJob = [at |-> "idle", snap |-> Nothing, lsn |-> 0, batch |-> <<>>, to |-> 0, error |-> FALSE]
  BY DEF NoJob
<1>5. NoJob \in WorkT /\ NoJob.at = "idle"
  BY <1>1, <1>3, NothingIs DEF WorkT
<1>6. Failed \in WorkT /\ Failed.at = "idle"
  BY <1>5 DEF Failed, WorkT
<1>7. NewGroup \in GroupT
  BY <1>1 DEF NewGroup, GroupT
<1>8. NoTx \in TxT
  BY <1>1 DEF NoTx, TxT, StackT
<1> QED BY <1>2, <1>5, <1>6, <1>7, <1>8

Tells == {"new", "open", "sent", "acked", "unknown", "undone"}

\* What the clients know after Tell.
LEMMA TellType ==
  ASSUME told \in [Writes -> Tells], NEW ws, NEW kept, NEW what \in Tells, Tell(ws, kept, what)
  PROVE  /\ told' \in [Writes -> Tells]
         /\ \A w \in Writes : told'[w] = IF w \in kept THEN what ELSE IF w \in ws THEN "undone" ELSE told[w]
BY DEF Tell, Tells

\* There was nobody to tell.
LEMMA TellNobody ==
  ASSUME told \in [Writes -> Tells], NEW what, Tell({}, {}, what)
  PROVE  told' = told
BY DEF Tell, Tells

\* The last chunk is one.
LEMMA ActiveIs ==
  ASSUME TypeInv
  PROVE  /\ Len(chunks) \in 1 .. Len(chunks) /\ Active \in Seq(RecordsT) /\ Active = chunks[Len(chunks)]
         /\ Len(Active) \in Nat /\ Len(chunks) \in Nat
BY DEF TypeInv, Active

\* Something was logged, perhaps with a checkpoint.
LEMMA LogTypes ==
  ASSUME TypeInv, NEW t \in Callers, NEW ws \in SUBSET Writes, NEW kept \in SUBSET Writes,
         eng'.base \in Databases, LogAndTrigger(t, ws, kept)
  PROVE  /\ lsn' \in Nat /\ group' \in GroupT /\ call' \in [Callers -> CallT] /\ worker' \in WorkT
         /\ told' \in [Writes -> Tells]
<1>1. lsn \in Nat /\ group \in GroupT /\ call \in [Callers -> CallT] /\ worker \in WorkT /\ told \in [Writes -> Tells]
  BY DEF TypeInv, Tells
<1>2. Data(lsn + 1, ws) \in IntactT
  BY <1>1 DEF Data, IntactT
<1>3. lsn' \in Nat /\ group' \in GroupT
  <2>1. group.buf \in Seq(IntactT) /\ group.enqueued \in Nat
    BY <1>1 DEF GroupT
  <2>2. Append(group.buf, Data(lsn + 1, ws)) \in Seq(IntactT) /\ group.enqueued + 1 \in Nat
    BY <1>2, <2>1
  <2>3. lsn' = lsn + 1 /\ group' = [group EXCEPT !.buf = Append(group.buf, Data(lsn + 1, ws)), !.enqueued = group.enqueued + 1]
    BY DEF LogAndTrigger, Enqueued
  <2>4. ASSUME NEW b \in Seq(IntactT), NEW e \in Nat
        PROVE  [group EXCEPT !.buf = b, !.enqueued = e] \in GroupT
    BY <1>1 DEF GroupT
  <2>5. lsn' \in Nat
    BY <1>1, <2>3
  <2>6. group' \in GroupT
    BY <2>2, <2>3, <2>4, Zenon
  <2> QED BY <2>5, <2>6
<1>4. [worker EXCEPT !.error = FALSE] \in WorkT /\ Job(eng'.base, lsn + 1) \in WorkT
  <2> DEFINE d == eng'.base
             l == lsn + 1
  <2>1. d \in Databases /\ l \in Nat
    BY <1>1
  <2> HIDE DEF d, l
  <2>2. Job(d, l) \in WorkT
    BY <1>1, <2>1 DEF Job, WorkT
  <2>3. [worker EXCEPT !.error = FALSE] \in WorkT
    BY <1>1 DEF WorkT
  <2> QED BY <2>2, <2>3 DEF d, l
<1>5. [Idle EXCEPT !.at = "waiting", !.seq = group.enqueued + 1, !.ws = kept] \in CallT
  <2>1. group.enqueued + 1 \in Nat
    BY <1>1 DEF GroupT
  <2> QED BY <2>1, Rests DEF CallT
<1>6. worker' \in WorkT /\ call' \in [Callers -> CallT]
  BY <1>1, <1>4, <1>5 DEF LogAndTrigger
<1>7. Tell(ToSet(eng.tx.shadow), kept, "unknown") \/ Tell(ToSet(eng.tx.shadow), kept, "sent")
  BY DEF LogAndTrigger
<1>8. told' \in [Writes -> Tells]
  BY <1>1, <1>7, TellType DEF Tells
<1> QED BY <1>3, <1>6, <1>8

\* A stack with a savepoint of its name taken out.
LEMMA PushType ==
  ASSUME NEW T, NEW st \in StackT(T), NEW n \in Names, NEW v \in T
  PROVE  Push(st, n, v) \in StackT(T)
<1> DEFINE R == [name : Names, at : T]
           i == CHOOSE j \in Place(st, n) : TRUE
<1>1. st \in Seq(R) /\ [name |-> n, at |-> v] \in R
  BY DEF StackT
<1>2. ASSUME Place(st, n) # {} PROVE RemoveAt(st, i) \in Seq(R)
  <2>1. i \in DOMAIN st
    BY <1>2 DEF Place
  <2> HIDE DEF i, R
  <2>2. i \in 1 .. Len(st) /\ Len(st) \in Nat
    BY <1>1, <2>1
  <2>3. SubSeq(st, 1, i - 1) \in Seq(R) /\ SubSeq(st, i + 1, Len(st)) \in Seq(R)
    BY <1>1, <2>2
  <2> QED BY <2>3 DEF RemoveAt
<1> HIDE DEF i, R
<1> DEFINE s == IF Place(st, n) = {} THEN st ELSE RemoveAt(st, i)
<1>3. s \in Seq(R)
  BY <1>1, <1>2
<1>4. Push(st, n, v) = Append(s, [name |-> n, at |-> v])
  BY DEF Push, i
<1> HIDE DEF s
<1>5. Append(s, [name |-> n, at |-> v]) \in Seq(R)
  BY <1>1, <1>3
<1> QED BY <1>4, <1>5 DEF StackT, R

\* The writes of a buffer or a shadow.
LEMMA ToSetType ==
  ASSUME NEW s \in Seq(Writes)
  PROVE  ToSet(s) \in SUBSET Writes /\ \A w : w \in ToSet(s) <=> \E i \in 1 .. Len(s) : w = s[i]
BY DEF ToSet

\* A stack cut at one of its entries.
LEMMA StackCut ==
  ASSUME NEW T, NEW st \in StackT(T), NEW n, NEW i \in Place(st, n)
  PROVE  /\ i \in 1 .. Len(st) /\ Len(st) \in Nat /\ st[i].name = n /\ st[i].at \in T
         /\ SubSeq(st, 1, i) \in StackT(T) /\ Len(SubSeq(st, 1, i)) = i
         /\ \A j \in 1 .. i : SubSeq(st, 1, i)[j] = st[j]
         /\ SubSeq(st, 1, i - 1) \in StackT(T) /\ Len(SubSeq(st, 1, i - 1)) = i - 1
         /\ \A j \in 1 .. (i - 1) : SubSeq(st, 1, i - 1)[j] = st[j]
<1> DEFINE R == [name : Names, at : T]
<1>1. st \in Seq(R)
  BY DEF StackT
<1>2. i \in 1 .. Len(st) /\ Len(st) \in Nat /\ st[i].name = n
  BY <1>1 DEF Place
<1> HIDE DEF R
<1>3. st[i] \in R
  BY <1>1, <1>2
<1>4. st[i].at \in T
  BY <1>3 DEF R
<1>5. ASSUME NEW m \in Nat, m <= Len(st)
      PROVE  SubSeq(st, 1, m) \in Seq(R) /\ Len(SubSeq(st, 1, m)) = m /\ \A j \in 1 .. m : SubSeq(st, 1, m)[j] = st[j]
  BY <1>1, <1>5
<1>6. i \in Nat /\ i - 1 \in Nat /\ i <= Len(st) /\ i - 1 <= Len(st)
  BY <1>2
<1>7. SubSeq(st, 1, i) \in Seq(R) /\ Len(SubSeq(st, 1, i)) = i /\ \A j \in 1 .. i : SubSeq(st, 1, i)[j] = st[j]
  BY <1>5, <1>6
<1>8. SubSeq(st, 1, i - 1) \in Seq(R) /\ Len(SubSeq(st, 1, i - 1)) = i - 1 /\ \A j \in 1 .. (i - 1) : SubSeq(st, 1, i - 1)[j] = st[j]
  BY <1>5, <1>6
<1> QED BY <1>2, <1>4, <1>7, <1>8 DEF StackT, R

\* The types survive what runs under the database lock.
LEMMA DatabaseTypes ==
  ASSUME TypeInv, MarksInv, NEW t \in Callers, Database(t)
  PROVE  TypeInv'
<1> USE DEF TypeInv
<1>1. /\ eng.tx \in TxT /\ eng.base \in Databases /\ eng.tx.shadow \in Seq(Writes)
      /\ eng.tx.saves \in StackT(Seq(Writes))
      /\ buffer.stmts \in Seq(Writes) /\ buffer.marks \in StackT(Nat)
      /\ told \in [Writes -> Tells]
  BY DEF TxT, Tells
<1> DEFINE EngT == [tx : TxT, base : Databases]
           BufT == [on : BOOLEAN, stmts : Seq(Writes), marks : StackT(Nat)]
<1>2. eng \in EngT /\ buffer \in BufT
  OBVIOUS
<1> HIDE DEF TypeInv
<1>3. ASSUME NEW x \in TxT, NEW d \in Databases
      PROVE  [tx |-> x, base |-> d] \in EngT /\ [eng EXCEPT !.tx = x] \in EngT /\ [eng EXCEPT !.base = d] \in EngT
  BY <1>2
<1>4. NoBuffer \in BufT /\ [NoBuffer EXCEPT !.on = TRUE] \in BufT /\ EngineAt(eng.base) \in EngT
  <2>1. EngineAt(eng.base) \in EngT
    BY <1>1, <1>3, Rests DEF EngineAt
  <2>2. NoBuffer \in BufT
    BY DEF NoBuffer, StackT
  <2> QED BY <2>1, <2>2
<1>5. ASSUME eng' \in EngT, buffer' \in BufT, told' \in [Writes -> Tells],
             mishaps' \subseteq {"overtaken", "torn", "window", "refused", "aborted", "nested"},
             lsn' \in Nat /\ group' \in GroupT /\ call' \in [Callers -> CallT] /\ worker' \in WorkT,
             front' \in {"free", "drain", "wait"}, UNCHANGED <<chunks, synced, db>>
      PROVE  TypeInv'
  BY <1>5 DEF TypeInv, Active, Tells
<1> HIDE DEF EngT, BufT
<1>6. /\ lsn \in Nat /\ group \in GroupT /\ call \in [Callers -> CallT] /\ worker \in WorkT
      /\ front \in {"free", "drain", "wait"} /\ mishaps \subseteq {"overtaken", "torn", "window", "refused", "aborted", "nested"}
  BY DEF TypeInv
<1>7. CASE Statement(t)
  <2> DEFINE w == Cardinality({ v \in Writes : told[v] # "new" }) + 1
  <2>1. /\ w \in Writes
        /\ eng' = IF eng.tx.open THEN [eng EXCEPT !.tx.shadow = Append(@, w)]
                  ELSE [eng EXCEPT !.base = Plus(@, {w})]
        /\ UNCHANGED <<chunks, synced, file, front, db, mishaps>>
        /\ \/ /\ buffer' = [buffer EXCEPT !.stmts = Append(@, w)]
              /\ \E x \in {"open", "acked"} : Tell({w}, {w}, x)
              /\ NoRecord
           \/ LogAndTrigger(t, {w}, {w}) /\ UNCHANGED buffer
    BY <1>7 DEF Statement
  <2> HIDE DEF w
  <2>2. eng' \in EngT
    <3>1. Append(eng.tx.shadow, w) \in Seq(Writes)
      BY <1>1, <2>1
    <3>2. [eng.tx EXCEPT !.shadow = Append(eng.tx.shadow, w)] \in TxT
      BY <1>1, <3>1 DEF TxT
    <3>3. Plus(eng.base, {w}) \in Databases
      BY <1>1, PlusType
    <3>4. [eng EXCEPT !.tx.shadow = Append(@, w)] = [eng EXCEPT !.tx = [eng.tx EXCEPT !.shadow = Append(eng.tx.shadow, w)]]
      OBVIOUS
    <3> QED BY <1>1, <1>3, <2>1, <3>2, <3>3, <3>4
  <2>3. eng'.base \in Databases
    BY <2>2 DEF EngT
  <2>4. CASE LogAndTrigger(t, {w}, {w}) /\ UNCHANGED buffer
    <3>1. {w} \in SUBSET Writes
      BY <2>1
    <3>2. /\ lsn' \in Nat /\ group' \in GroupT /\ call' \in [Callers -> CallT] /\ worker' \in WorkT
          /\ told' \in [Writes -> Tells]
      BY <2>3, <2>4, <3>1, LogTypes
    <3> QED BY <1>2, <1>5, <1>6, <2>1, <2>2, <2>4, <3>2
  <2>5. CASE /\ buffer' = [buffer EXCEPT !.stmts = Append(@, w)]
             /\ \E x \in {"open", "acked"} : Tell({w}, {w}, x)
             /\ NoRecord
    <3>1. Append(buffer.stmts, w) \in Seq(Writes)
      BY <1>1, <2>1
    <3>2. buffer' \in BufT
      BY <1>2, <2>5, <3>1 DEF BufT
    <3>3. told' \in [Writes -> Tells]
      BY <1>1, <2>5, TellType DEF Tells
    <3> QED BY <1>5, <1>6, <2>1, <2>2, <2>5, <3>2, <3>3 DEF NoRecord
  <2> QED BY <2>1, <2>4, <2>5
<1>8. CASE Commit(t)
  <2> DEFINE kept == IF eng.tx.open /\ ~eng.tx.aborted THEN ToSet(eng.tx.shadow) ELSE {}
             ws   == ToSet(buffer.stmts)
  <2>1. /\ eng' = [tx |-> NoTx, base |-> Plus(eng.base, kept)]
        /\ buffer' = NoBuffer
        /\ mishaps' = mishaps \cup (IF eng.tx.aborted /\ ws # {} THEN {"aborted"} ELSE {})
        /\ LogAndTrigger(t, ws, kept) \/ (NoRecord /\ Tell(ToSet(eng.tx.shadow), kept, "acked"))
        /\ UNCHANGED <<chunks, synced, file, front, db>>
    BY <1>8 DEF Commit
  <2>2. kept \in SUBSET Writes /\ ws \in SUBSET Writes
    BY <1>1, ToSetType
  <2> HIDE DEF kept, ws
  <2>3. eng' \in EngT /\ eng'.base \in Databases
    BY <1>1, <1>3, <2>1, PlusType, Rests DEF EngT
  <2>4. /\ lsn' \in Nat /\ group' \in GroupT /\ call' \in [Callers -> CallT] /\ worker' \in WorkT
        /\ told' \in [Writes -> Tells]
    <3>1. CASE LogAndTrigger(t, ws, kept)
      BY <2>2, <2>3, <3>1, LogTypes
    <3>2. CASE NoRecord /\ Tell(ToSet(eng.tx.shadow), kept, "acked")
      <4>1. told' \in [Writes -> Tells]
        BY <1>1, <3>2, TellType DEF Tells
      <4> QED BY <1>6, <3>2, <4>1 DEF NoRecord
    <3> QED BY <2>1, <3>1, <3>2
  <2>5. mishaps' \subseteq {"overtaken", "torn", "window", "refused", "aborted", "nested"}
    BY <1>6, <2>1
  <2> QED BY <1>4, <1>5, <1>6, <2>1, <2>3, <2>4, <2>5
<1>9. CASE FailStatement(t)
  <2>1. [eng.tx EXCEPT !.aborted = TRUE] \in TxT
    BY <1>1 DEF TxT
  <2>2. eng' = [eng EXCEPT !.tx = [eng.tx EXCEPT !.aborted = TRUE]]
    BY <1>9 DEF FailStatement
  <2>3. eng' \in EngT
    BY <1>1, <1>3, <2>1, <2>2
  <2> QED BY <1>1, <1>2, <1>5, <1>6, <1>9, <2>3 DEF FailStatement, logVars
<1>10. CASE Begin(t)
  <2>1. [NoTx EXCEPT !.open = TRUE] \in TxT
    BY Rests DEF TxT
  <2>2. eng' \in EngT
    BY <1>1, <1>3, <1>10, <2>1 DEF Begin
  <2> QED BY <1>1, <1>4, <1>5, <1>6, <1>10, <2>2 DEF Begin, logVars
<1>11. CASE RefuseCommit(t) \/ Rollback(t)
  <2>1. Tell(ToSet(eng.tx.shadow), {}, "undone")
    BY <1>11 DEF RefuseCommit, Rollback
  <2>2. told' \in [Writes -> Tells]
    BY <1>1, <2>1, TellType DEF Tells
  <2>3. eng' \in EngT
    BY <1>4, <1>11 DEF RefuseCommit, Rollback
  <2>4. CASE RefuseCommit(t)
    BY <1>2, <1>5, <1>6, <2>2, <2>3, <2>4 DEF RefuseCommit, logVars
  <2>5. CASE Rollback(t)
    BY <1>4, <1>5, <1>6, <2>2, <2>3, <2>5 DEF Rollback, logVars
  <2> QED BY <1>11, <2>4, <2>5
<1>12. ASSUME NEW n \in Names, Savepoint(t, n) PROVE TypeInv'
  <2>1. Push(eng.tx.saves, n, eng.tx.shadow) \in StackT(Seq(Writes))
    BY <1>1, PushType
  <2>2. Len(buffer.stmts) \in Nat
    BY <1>1
  <2>3. Push(buffer.marks, n, Len(buffer.stmts)) \in StackT(Nat)
    BY <1>1, <2>2, PushType
  <2>4. eng' = [eng EXCEPT !.tx = [eng.tx EXCEPT !.saves = Push(eng.tx.saves, n, eng.tx.shadow)]]
    BY <1>12 DEF Savepoint
  <2>5. eng' \in EngT
    <3>1. [eng.tx EXCEPT !.saves = Push(eng.tx.saves, n, eng.tx.shadow)] \in TxT
      BY <1>1, <2>1 DEF TxT
    <3> QED BY <1>1, <1>3, <2>4, <3>1
  <2>6. buffer' \in BufT
    BY <1>2, <1>12, <2>3 DEF Savepoint, BufT
  <2> QED BY <1>1, <1>5, <1>6, <1>12, <2>5, <2>6 DEF Savepoint, logVars
<1>13. ASSUME NEW n \in Names, RollbackTo(t, n) PROVE TypeInv'
  <2>1. PICK i \in Place(eng.tx.saves, n) :
          /\ eng' = [eng EXCEPT !.tx = [open |-> TRUE, aborted |-> FALSE,
                                        shadow |-> eng.tx.saves[i].at,
                                        saves |-> SubSeq(eng.tx.saves, 1, i)]]
          /\ Tell(ToSet(eng.tx.shadow) \ ToSet(eng.tx.saves[i].at), {}, "undone")
    BY <1>13 DEF RollbackTo
  <2>2. i \in 1 .. Len(eng.tx.saves) /\ eng.tx.saves[i].at \in Seq(Writes) /\ SubSeq(eng.tx.saves, 1, i) \in StackT(Seq(Writes))
    BY <1>1, StackCut
  <2>3. eng' \in EngT
    <3>1. [open |-> TRUE, aborted |-> FALSE, shadow |-> eng.tx.saves[i].at,
           saves |-> SubSeq(eng.tx.saves, 1, i)] \in TxT
      BY <2>2 DEF TxT
    <3> QED BY <1>1, <1>3, <2>1, <3>1
  <2>4. told' \in [Writes -> Tells]
    BY <1>1, <2>1, TellType DEF Tells
  <2>5. buffer' \in BufT
    <3>1. CASE Place(buffer.marks, n) = {}
      BY <1>2, <1>13, <3>1 DEF RollbackTo
    <3>2. CASE Place(buffer.marks, n) # {}
      <4> DEFINE j == CHOOSE j \in Place(buffer.marks, n) : TRUE
      <4>1. j \in Place(buffer.marks, n)
        BY <3>2
      <4>2. buffer' = [buffer EXCEPT !.stmts = SubSeq(buffer.stmts, 1, buffer.marks[j].at),
                                     !.marks = SubSeq(buffer.marks, 1, j)]
        BY <1>13, <3>2 DEF RollbackTo
      <4> HIDE DEF j
      <4>3. j \in 1 .. Len(buffer.marks) /\ buffer.marks[j].at \in Nat /\ SubSeq(buffer.marks, 1, j) \in StackT(Nat)
        BY <1>1, <4>1, StackCut
      <4>4. SubSeq(buffer.stmts, 1, buffer.marks[j].at) \in Seq(Writes)
        <5> DEFINE m == buffer.marks[j].at
        <5>1. m \in Nat /\ buffer.stmts \in Seq(Writes) /\ m <= Len(buffer.stmts)
          <6>1. j \in DOMAIN buffer.marks
            BY <4>1 DEF Place
          <6> QED BY <1>1, <4>3, <6>1 DEF MarksInv
        <5> HIDE DEF m
        <5> QED BY <5>1 DEF m
      <4> QED BY <1>2, <4>2, <4>3, <4>4 DEF BufT
    <3> QED BY <3>1, <3>2
  <2> QED BY <1>5, <1>6, <1>13, <2>3, <2>4, <2>5 DEF RollbackTo, logVars
<1>14. ASSUME NEW n \in Names, Release(t, n) PROVE TypeInv'
  <2>1. PICK i \in Place(eng.tx.saves, n) : eng' = [eng EXCEPT !.tx = [eng.tx EXCEPT !.saves = SubSeq(eng.tx.saves, 1, i - 1)]]
    BY <1>14 DEF Release
  <2>2. i \in 1 .. Len(eng.tx.saves) /\ SubSeq(eng.tx.saves, 1, i - 1) \in StackT(Seq(Writes))
    BY <1>1, StackCut
  <2>3. [eng.tx EXCEPT !.saves = SubSeq(eng.tx.saves, 1, i - 1)] \in TxT
    BY <1>1, <2>2 DEF TxT
  <2>4. eng' \in EngT
    BY <1>1, <1>3, <2>1, <2>3
  <2> QED BY <1>1, <1>2, <1>5, <1>6, <1>14, <2>4 DEF Release, logVars
<1>15. CASE Checkpoint(t)
  BY <1>1, <1>2, <1>5, <1>6, <1>15 DEF Checkpoint, logVars
<1>16. CASE NestedBegin(t)
  <2>1. mishaps' \subseteq {"overtaken", "torn", "window", "refused", "aborted", "nested"}
    BY <1>6, <1>16 DEF NestedBegin
  <2> QED BY <1>1, <1>2, <1>4, <1>5, <1>6, <1>16, <2>1 DEF NestedBegin, logVars
<1> QED BY <1>7, <1>8, <1>9, <1>10, <1>11, <1>12, <1>13, <1>14, <1>15, <1>16 DEF Database

\* Writing and syncing the active chunk.
LEMMA FileTypes ==
  ASSUME TypeInv
  PROVE  /\ \A who : \A b \in Seq(IntactT) : WriteOut(who, b)
              => /\ chunks' \in Seq(Seq(RecordsT)) /\ Len(chunks') = Len(chunks)
                 /\ chunks'[Len(chunks)] = Active \o b
                 /\ Len(Active \o b) = Len(Active) + Len(b)
                 /\ Active \o b \in Seq(RecordsT)
                 /\ \A c \in 1 .. Len(chunks) : c # Len(chunks) => chunks'[c] = chunks[c]
         /\ SyncOut => synced' = Len(Active) /\ synced' \in Nat
<1>1. /\ chunks \in Seq(Seq(RecordsT)) /\ Len(chunks) \in 1 .. Len(chunks) /\ Active \in Seq(RecordsT)
      /\ Active = chunks[Len(chunks)] /\ Len(Active) \in Nat /\ Len(chunks) \in Nat
  BY ActiveIs DEF TypeInv
<1>2. ASSUME NEW who, NEW b \in Seq(IntactT), WriteOut(who, b)
      PROVE  /\ chunks' \in Seq(Seq(RecordsT)) /\ Len(chunks') = Len(chunks)
             /\ chunks'[Len(chunks)] = Active \o b
             /\ Len(Active \o b) = Len(Active) + Len(b)
             /\ Active \o b \in Seq(RecordsT)
             /\ \A c \in 1 .. Len(chunks) : c # Len(chunks) => chunks'[c] = chunks[c]
  <2>1. b \in Seq(RecordsT)
    BY IntactSeq
  <2>2. Active \o b \in Seq(RecordsT) /\ Len(Active \o b) = Len(Active) + Len(b)
    BY <1>1, <2>1
  <2>3. chunks' = [chunks EXCEPT ![Len(chunks)] = Active \o b]
    BY <1>1, <1>2 DEF WriteOut
  <2> DEFINE x == Active \o b
             n == Len(chunks)
  <2> HIDE DEF x, n
  <2>4. x \in Seq(RecordsT) /\ n \in 1 .. Len(chunks) /\ chunks' = [chunks EXCEPT ![n] = x]
    BY <1>1, <2>2, <2>3 DEF x, n
  <2>5. /\ chunks' \in Seq(Seq(RecordsT)) /\ Len(chunks') = Len(chunks) /\ chunks'[n] = x
        /\ \A c \in 1 .. Len(chunks) : c # n => chunks'[c] = chunks[c]
    BY <1>1, <2>4
  <2> QED BY <2>2, <2>5 DEF x, n
<1> QED BY <1>1, <1>2 DEF SyncOut

\* What stays as it is in the steps of the log.
LEMMA LogSideTypes ==
  ASSUME TypeInv, UNCHANGED <<eng, buffer, lsn>>, db' \in [data : Databases, lsn : Nat],
         front' \in {"free", "drain", "wait"}, told' \in [Writes -> Tells],
         group' \in GroupT, call' \in [Callers -> CallT], worker' \in WorkT,
         chunks' \in Seq(Seq(RecordsT)), Len(chunks') >= 1, synced' \in 0 .. Len(chunks'[Len(chunks')]),
         mishaps' \subseteq {"overtaken", "torn", "window", "refused", "aborted", "nested"}
  PROVE  TypeInv'
BY DEF TypeInv, Tells, Active

\* The types survive the steps of wait_flushed.
LEMMA WaitTypes ==
  ASSUME TypeInv, NEW t \in Callers, Wait(t)
  PROVE  TypeInv'
<1>1. /\ group \in GroupT /\ call \in [Callers -> CallT] /\ worker \in WorkT /\ told \in [Writes -> Tells]
      /\ chunks \in Seq(Seq(RecordsT)) /\ Len(chunks) >= 1 /\ synced \in 0 .. Len(Active)
      /\ db \in [data : Databases, lsn : Nat] /\ front \in {"free", "drain", "wait"}
      /\ mishaps \subseteq {"overtaken", "torn", "window", "refused", "aborted", "nested"}
  BY DEF TypeInv, Tells
<1>2. call[t] \in CallT /\ call[t].batch \in Seq(IntactT) /\ call[t].to \in Nat
  BY <1>1 DEF CallT
<1>3. group.buf \in Seq(IntactT) /\ group.enqueued \in Nat
  BY <1>1 DEF GroupT
<1>4. /\ Len(chunks) \in 1 .. Len(chunks) /\ Active \in Seq(RecordsT)
      /\ Active = chunks[Len(chunks)] /\ Len(Active) \in Nat /\ Len(chunks) \in Nat
  BY ActiveIs
<1>5. \A to, others : Overtakes(to, others) => mishaps' \subseteq {"overtaken", "torn", "window", "refused", "aborted", "nested"}
  BY <1>1 DEF Overtakes
<1>6. CASE Answer(t)
  <2>1. told' \in [Writes -> Tells]
    BY <1>1, <1>6, TellType DEF Answer, Tells
  <2>2. call' \in [Callers -> CallT]
    BY <1>1, <1>6, Rests DEF Answer
  <2> QED BY <1>1, <1>4, <1>6, <2>1, <2>2, LogSideTypes DEF Answer, logVars
<1>7. CASE Elect(t)
  <2>1. call' = [call EXCEPT ![t] = [call[t] EXCEPT !.at = "elected"]]
    BY <1>7 DEF Elect
  <2>2. [call[t] EXCEPT !.at = "elected"] \in CallT /\ [group EXCEPT !.leader = TRUE] \in GroupT
    BY <1>1, <1>2 DEF CallT, GroupT
  <2>3. call' \in [Callers -> CallT] /\ group' \in GroupT
    BY <1>1, <1>7, <2>1, <2>2 DEF Elect
  <2> QED BY <1>1, <1>4, <1>7, <2>3, LogSideTypes DEF Elect
<1>8. CASE Take(t)
  <2>1. call' = [call EXCEPT ![t] = [call[t] EXCEPT !.at = "taken", !.batch = group.buf, !.to = group.enqueued]]
    BY <1>1, <1>8 DEF Take
  <2>2. [call[t] EXCEPT !.at = "taken", !.batch = group.buf, !.to = group.enqueued] \in CallT
    BY <1>2, <1>3 DEF CallT
  <2>3. [group EXCEPT !.buf = <<>>] \in GroupT
    <3>1. \A b \in Seq(IntactT) : [group EXCEPT !.buf = b] \in GroupT
      BY <1>1 DEF GroupT
    <3>2. <<>> \in Seq(IntactT)
      OBVIOUS
    <3> QED BY <3>1, <3>2, Zenon
  <2>4. call' \in [Callers -> CallT] /\ group' \in GroupT
    BY <1>1, <1>8, <2>1, <2>2, <2>3 DEF Take
  <2> QED BY <1>1, <1>4, <1>8, <2>4, LogSideTypes DEF Take
<1>9. CASE Write(t)
  <2>1. call' = [call EXCEPT ![t] = [call[t] EXCEPT !.at = "written"]]
    BY <1>9 DEF Write
  <2>2. [call[t] EXCEPT !.at = "written"] \in CallT
    BY <1>2 DEF CallT
  <2>3. call' \in [Callers -> CallT]
    BY <1>1, <2>1, <2>2
  <2>4. WriteOut(t, call[t].batch)
    BY <1>9 DEF Write
  <2>5. /\ chunks' \in Seq(Seq(RecordsT)) /\ Len(chunks') = Len(chunks)
        /\ Len(chunks'[Len(chunks)]) = Len(Active) + Len(call[t].batch)
    BY <1>2, <2>4, FileTypes
  <2>6. synced \in 0 .. (Len(Active) + Len(call[t].batch))
    <3>1. Len(call[t].batch) \in Nat
      BY <1>2
    <3>2. \A m \in Nat : synced \in 0 .. (Len(Active) + m)
      BY <1>1, <1>4
    <3> QED BY <3>1, <3>2
  <2> QED BY <1>1, <1>9, <2>3, <2>5, <2>6, LogSideTypes DEF Write
<1>10. CASE Sync(t)
  <2>1. call' = [call EXCEPT ![t] = [call[t] EXCEPT !.at = "synced"]]
    BY <1>10 DEF Sync
  <2>2. [call[t] EXCEPT !.at = "synced"] \in CallT
    BY <1>2 DEF CallT
  <2>3. call' \in [Callers -> CallT]
    BY <1>1, <2>1, <2>2
  <2>4. synced' = Len(Active)
    BY <1>10 DEF Sync, SyncOut
  <2> QED BY <1>1, <1>4, <1>10, <2>3, <2>4, LogSideTypes DEF Sync
<1>11. CASE Flushed(t) \/ SyncFails(t)
  <2>1. call' = [call EXCEPT ![t] = [call[t] EXCEPT !.at = "waiting", !.batch = <<>>, !.to = 0]]
    BY <1>1, <1>11 DEF Flushed, SyncFails
  <2>2. [call[t] EXCEPT !.at = "waiting", !.batch = <<>>, !.to = 0] \in CallT
    <3>1. \A b \in Seq(IntactT) : [call[t] EXCEPT !.at = "waiting", !.batch = b, !.to = 0] \in CallT
      BY <1>2 DEF CallT
    <3>2. <<>> \in Seq(IntactT)
      OBVIOUS
    <3> QED BY <3>1, <3>2, Zenon
  <2>3. call' \in [Callers -> CallT]
    BY <1>1, <2>1, <2>2
  <2>4. [group EXCEPT !.leader = FALSE, !.flushed = call[t].to] \in GroupT /\ [group EXCEPT !.leader = FALSE, !.failed = TRUE] \in GroupT
    BY <1>1, <1>2 DEF GroupT
  <2>5. group' \in GroupT
    BY <1>11, <2>4 DEF Flushed, SyncFails
  <2>6. CASE Flushed(t)
    BY <1>1, <1>4, <1>5, <2>3, <2>5, <2>6, LogSideTypes DEF Flushed
  <2>7. CASE SyncFails(t)
    BY <1>1, <1>4, <2>3, <2>5, <2>7, LogSideTypes DEF SyncFails
  <2> QED BY <1>11, <2>6, <2>7
<1> QED BY <1>6, <1>7, <1>8, <1>9, <1>10, <1>11 DEF Wait

\* What a crash leaves of the chunks.
LEMMA KeptIs ==
  ASSUME TypeInv, NEW k \in 0 .. Len(Active), NEW torn \in BOOLEAN
  PROVE  /\ Kept(k, torn) \in Seq(Seq(RecordsT)) /\ Len(Kept(k, torn)) = Len(chunks)
         /\ \A c \in 1 .. Len(chunks) : c # Len(chunks) => Kept(k, torn)[c] = chunks[c]
         /\ Len(Kept(k, torn)[Len(chunks)]) = (IF torn THEN k + 1 ELSE k)
         /\ \A i \in 1 .. k : Kept(k, torn)[Len(chunks)][i] = Active[i]
         /\ torn => Kept(k, torn)[Len(chunks)][k + 1] = Torn
<1>1. /\ chunks \in Seq(Seq(RecordsT)) /\ Len(chunks) \in 1 .. Len(chunks) /\ Active \in Seq(RecordsT)
      /\ Active = chunks[Len(chunks)] /\ Len(Active) \in Nat /\ Len(chunks) \in Nat
  BY ActiveIs DEF TypeInv
<1> DEFINE s == SubSeq(Active, 1, k)
           e == IF torn THEN <<Torn>> ELSE <<>>
<1>2. s \in Seq(RecordsT) /\ Len(s) = k /\ \A i \in 1 .. k : s[i] = Active[i]
  BY <1>1
<1>3. e \in Seq(RecordsT) /\ Len(e) = (IF torn THEN 1 ELSE 0) /\ (torn => e[1] = Torn)
  <2>1. Torn \in RecordsT
    BY DEF Torn, RecordsT
  <2>2. <<>> \in Seq(RecordsT) /\ <<Torn>> \in Seq(RecordsT) /\ Len(<<Torn>>) = 1 /\ <<Torn>>[1] = Torn
    BY <2>1
  <2> QED BY <2>2
<1>4. Kept(k, torn) = [chunks EXCEPT ![Len(chunks)] = s \o e]
  BY DEF Kept, Active
<1> HIDE DEF s, e
<1>5. /\ s \o e \in Seq(RecordsT) /\ Len(s \o e) = Len(s) + Len(e)
      /\ \A i \in 1 .. Len(s) : (s \o e)[i] = s[i]
      /\ \A i \in 1 .. Len(e) : (s \o e)[Len(s) + i] = e[i]
  <2>1. s \in Seq(RecordsT) /\ e \in Seq(RecordsT)
    BY <1>2, <1>3
  <2> QED BY ONLY <2>1
<1>6. /\ Kept(k, torn) \in Seq(Seq(RecordsT)) /\ Len(Kept(k, torn)) = Len(chunks)
      /\ \A c \in 1 .. Len(chunks) : c # Len(chunks) => Kept(k, torn)[c] = chunks[c]
      /\ Kept(k, torn)[Len(chunks)] = s \o e
  BY <1>1, <1>4, <1>5
<1>7. Len(s \o e) = (IF torn THEN k + 1 ELSE k)
  BY <1>2, <1>3, <1>5
<1>8. \A i \in 1 .. k : (s \o e)[i] = Active[i]
  BY <1>2, <1>5
<1>9. torn => (s \o e)[k + 1] = Torn
  BY <1>2, <1>3, <1>5
<1> QED BY <1>6, <1>7, <1>8, <1>9

\* A boot reads nothing in them that was not there.
LEMMA KeptParsed ==
  ASSUME TypeInv, NEW k \in 0 .. Len(Active), NEW torn \in BOOLEAN, NEW c \in 1 .. Len(chunks),
         NEW i \in Parsed(Kept(k, torn)[c])
  PROVE  /\ i \in Parsed(chunks[c]) /\ Kept(k, torn)[c][i] = chunks[c][i]
         /\ c = Len(chunks) => i <= k
<1> DEFINE K == Kept(k, torn)
<1>1. /\ Len(chunks) \in 1 .. Len(chunks) /\ Active \in Seq(RecordsT)
      /\ Active = chunks[Len(chunks)] /\ Len(Active) \in Nat /\ Len(chunks) \in Nat
  BY ActiveIs
<1>2. CASE c # Len(chunks)
  BY <1>2, KeptIs
<1>3. CASE c = Len(chunks)
  <2>1. /\ Len(K[c]) = (IF torn THEN k + 1 ELSE k) /\ \A j \in 1 .. k : K[c][j] = Active[j]
        /\ torn => K[c][k + 1] = Torn
    BY <1>3, KeptIs
  <2>2. i \in 1 .. Len(K[c]) /\ \A j \in 1 .. i : K[c][j].kind # "TORN"
    BY DEF Parsed
  <2> HIDE DEF K
  <2>3. i \in 1 .. k
    <3>1. Torn.kind = "TORN"
      BY DEF Torn
    <3>2. i # k + 1 \/ ~torn
      BY <2>1, <2>2, <3>1
    <3> QED BY <2>1, <2>2, <3>2
  <2>4. i \in 1 .. Len(Active) /\ \A j \in 1 .. i : j \in 1 .. k
    BY <1>1, <2>3
  <2>5. \A j \in 1 .. i : Active[j].kind # "TORN"
    BY <2>1, <2>2, <2>4
  <2>6. i \in Parsed(Active)
    BY <2>4, <2>5 DEF Parsed
  <2> QED BY <1>1, <1>3, <2>1, <2>3, <2>6 DEF K
<1> QED BY <1>2, <1>3

\* A new chunk behind what is left of the old one.
LEMMA RotateIs ==
  ASSUME TypeInv, Rotate
  PROVE  \E k \in 0 .. Len(Active) :
           /\ k >= synced /\ chunks' \in Seq(Seq(RecordsT)) /\ Len(chunks') = Len(chunks) + 1
           /\ chunks'[Len(chunks) + 1] = <<>>
           /\ \A c \in 1 .. Len(chunks) : chunks'[c] = Kept(k, FALSE)[c]
<1>1. PICK k \in synced .. Len(Active) : chunks' = Append(Kept(k, FALSE), <<>>)
  BY DEF Rotate
<1>2. k \in 0 .. Len(Active) /\ k >= synced /\ FALSE \in BOOLEAN /\ Len(chunks) \in Nat
  BY ActiveIs DEF TypeInv
<1> DEFINE K == Kept(k, FALSE)
<1>3. K \in Seq(Seq(RecordsT)) /\ Len(K) = Len(chunks) /\ chunks' = Append(K, <<>>)
  BY <1>1, <1>2, KeptIs
<1> HIDE DEF K
<1>4. <<>> \in Seq(RecordsT)
  OBVIOUS
<1>5. /\ chunks' \in Seq(Seq(RecordsT)) /\ Len(chunks') = Len(K) + 1 /\ chunks'[Len(K) + 1] = <<>>
      /\ \A c \in 1 .. Len(K) : chunks'[c] = K[c]
  BY <1>3, <1>4
<1>6. /\ k \in 0 .. Len(Active) /\ k >= synced /\ chunks' \in Seq(Seq(RecordsT)) /\ Len(chunks') = Len(chunks) + 1
      /\ chunks'[Len(chunks) + 1] = <<>> /\ \A c \in 1 .. Len(chunks) : chunks'[c] = Kept(k, FALSE)[c]
  BY <1>2, <1>3, <1>5 DEF K
<1> QED BY <1>6

\* The types survive the steps of checkpoints.
LEMMA WorkTypes ==
  ASSUME TypeInv, Capture \/ Return \/ Work
  PROVE  TypeInv'
<1>1. /\ group \in GroupT /\ call \in [Callers -> CallT] /\ worker \in WorkT /\ told \in [Writes -> Tells]
      /\ chunks \in Seq(Seq(RecordsT)) /\ Len(chunks) >= 1 /\ synced \in 0 .. Len(Active)
      /\ db \in [data : Databases, lsn : Nat] /\ front \in {"free", "drain", "wait"}
      /\ mishaps \subseteq {"overtaken", "torn", "window", "refused", "aborted", "nested"}
      /\ lsn \in Nat /\ eng.base \in Databases
  BY DEF TypeInv, Tells
<1>2. worker.batch \in Seq(IntactT) /\ worker.to \in Nat /\ worker.lsn \in Nat /\ worker.snap \in Databases
  BY <1>1 DEF WorkT
<1>3. group.buf \in Seq(IntactT) /\ group.enqueued \in Nat
  BY <1>1 DEF GroupT
<1>4. /\ Len(chunks) \in 1 .. Len(chunks) /\ Active \in Seq(RecordsT)
      /\ Active = chunks[Len(chunks)] /\ Len(Active) \in Nat /\ Len(chunks) \in Nat
  BY ActiveIs
<1>5. \A to, others : Overtakes(to, others) => mishaps' \subseteq {"overtaken", "torn", "window", "refused", "aborted", "nested"}
  BY <1>1 DEF Overtakes
<1>6. /\ \A a \in {"renamed", "marked", "rotate", "written", "synced"} : [worker EXCEPT !.at = a] \in WorkT
      /\ [worker EXCEPT !.error = FALSE] \in WorkT
  BY <1>1 DEF WorkT
<1>7. CASE Capture
  <2>1. Job(eng.base, lsn) \in WorkT
    BY <1>1 DEF Job, WorkT
  <2>2. worker' \in WorkT /\ front' \in {"free", "drain", "wait"}
    BY <1>6, <1>7, <2>1 DEF Capture
  <2> QED BY <1>1, <1>4, <1>7, <2>2, LogSideTypes DEF Capture, logVars
<1>8. CASE Return
  BY <1>1, <1>4, <1>6, <1>8, LogSideTypes DEF Return, logVars
<1>9. CASE Rename
  BY <1>1, <1>2, <1>4, <1>6, <1>9, LogSideTypes DEF Rename, logVars
<1>10. CASE RenameFails
  BY <1>1, <1>4, <1>10, Rests, LogSideTypes DEF RenameFails, logVars
<1>11. CASE Mark
  <2>1. Marker(worker.lsn) \in IntactT
    BY <1>2 DEF Marker, IntactT
  <2>2. Append(group.buf, Marker(worker.lsn)) \in Seq(IntactT) /\ group.enqueued + 1 \in Nat
    BY <1>3, <2>1
  <2>3. ASSUME NEW b \in Seq(IntactT), NEW e \in Nat
        PROVE  [group EXCEPT !.buf = b, !.enqueued = e] \in GroupT
    BY <1>1 DEF GroupT
  <2>4. group' = [group EXCEPT !.buf = Append(group.buf, Marker(worker.lsn)), !.enqueued = group.enqueued + 1]
    BY <1>11 DEF Mark, Enqueued
  <2>5. group' \in GroupT
    BY <2>2, <2>3, <2>4, Zenon
  <2> QED BY <1>1, <1>4, <1>6, <1>11, <2>5, LogSideTypes DEF Mark
<1>12. CASE FlushTake
  <2>1. [worker EXCEPT !.at = "taken", !.batch = group.buf, !.to = group.enqueued] \in WorkT
    BY <1>1, <1>3 DEF WorkT
  <2>2. [group EXCEPT !.buf = <<>>] \in GroupT
    <3>1. \A b \in Seq(IntactT) : [group EXCEPT !.buf = b] \in GroupT
      BY <1>1 DEF GroupT
    <3>2. <<>> \in Seq(IntactT)
      OBVIOUS
    <3> QED BY <3>1, <3>2, Zenon
  <2>3. worker' \in WorkT /\ group' \in GroupT
    BY <1>1, <1>6, <1>12, <2>1, <2>2, Rests DEF FlushTake
  <2> QED BY <1>1, <1>4, <1>12, <2>3, LogSideTypes DEF FlushTake
<1>13. CASE FlushWrite
  <2>1. WriteOut("worker", worker.batch)
    BY <1>13 DEF FlushWrite
  <2>2. /\ chunks' \in Seq(Seq(RecordsT)) /\ Len(chunks') = Len(chunks)
        /\ Len(chunks'[Len(chunks)]) = Len(Active) + Len(worker.batch)
    BY <1>2, <2>1, FileTypes
  <2>3. synced \in 0 .. (Len(Active) + Len(worker.batch))
    <3>1. Len(worker.batch) \in Nat
      BY <1>2
    <3>2. \A m \in Nat : synced \in 0 .. (Len(Active) + m)
      BY <1>1, <1>4
    <3> QED BY <3>1, <3>2
  <2> QED BY <1>1, <1>6, <1>13, <2>2, <2>3, LogSideTypes DEF FlushWrite
<1>14. CASE FlushSync
  <2>1. synced' = Len(Active)
    BY <1>14 DEF FlushSync, SyncOut
  <2> QED BY <1>1, <1>4, <1>6, <1>14, <2>1, LogSideTypes DEF FlushSync
<1>15. CASE FlushDone
  <2>1. [worker EXCEPT !.at = "rotate", !.batch = <<>>, !.to = 0] \in WorkT
    <3>1. \A b \in Seq(IntactT) : [worker EXCEPT !.at = "rotate", !.batch = b, !.to = 0] \in WorkT
      BY <1>1 DEF WorkT
    <3>2. <<>> \in Seq(IntactT)
      OBVIOUS
    <3> QED BY <3>1, <3>2, Zenon
  <2>2. [group EXCEPT !.flushed = worker.to] \in GroupT
    BY <1>1, <1>2 DEF GroupT
  <2> QED BY <1>1, <1>4, <1>5, <1>15, <2>1, <2>2, LogSideTypes DEF FlushDone
<1>16. CASE FlushFails
  <2>1. [group EXCEPT !.failed = TRUE] \in GroupT
    BY <1>1 DEF GroupT
  <2> QED BY <1>1, <1>4, <1>16, <2>1, Rests, LogSideTypes DEF FlushFails
<1>17. CASE Rotate
  <2>1. Len(<<>>) = 0
    OBVIOUS
  <2>2. chunks' \in Seq(Seq(RecordsT)) /\ Len(chunks') = Len(chunks) + 1 /\ chunks'[Len(chunks) + 1] = <<>>
    BY <1>17, RotateIs
  <2>3. UNCHANGED <<eng, buffer, lsn, group, call, front, db, told, mishaps>> /\ synced' = 0 /\ worker' = NoJob
    BY <1>17 DEF Rotate
  <2>4. Len(chunks') >= 1 /\ chunks'[Len(chunks')] = <<>>
    BY <1>4, <2>2
  <2>5. synced' \in 0 .. Len(chunks'[Len(chunks')])
    BY <2>1, <2>3, <2>4
  <2> QED BY <1>1, <2>2, <2>3, <2>4, <2>5, Rests, LogSideTypes
<1> QED BY <1>7, <1>8, <1>9, <1>10, <1>11, <1>12, <1>13, <1>14, <1>15, <1>16, <1>17 DEF Work

\* What is at the places of a store.
IsStore(F, cs, buf, cl, wk) ==
  /\ DOMAIN F = Places(cs)
  /\ \A a \in DOMAIN F : F[a] \in Seq(RecordsT)
  /\ \A c \in 1 .. Len(cs) : <<"disk", c>> \in DOMAIN F /\ F[<<"disk", c>>] = cs[c]
  /\ \A t \in Callers : <<"call", t>> \in DOMAIN F /\ F[<<"call", t>>] = Held(cl[t])
  /\ <<"buf", 0>> \in DOMAIN F /\ F[<<"buf", 0>>] = buf
  /\ <<"work", 0>> \in DOMAIN F /\ F[<<"work", 0>>] = Held(wk)

\* A store is one.
LEMMA StoreIs ==
  ASSUME NEW cs \in Seq(Seq(RecordsT)), NEW buf \in Seq(IntactT), NEW cl \in [Callers -> CallT], NEW wk \in WorkT
  PROVE  IsStore(Store(cs, buf, cl, wk), cs, buf, cl, wk)
<1> DEFINE F == Store(cs, buf, cl, wk)
<1>1. DOMAIN F = Places(cs)
  BY DEF Store
<1>2. \A c \in 1 .. Len(cs) : <<"disk", c>> \in DOMAIN F /\ F[<<"disk", c>>] = cs[c]
  BY DEF Store, Places
<1>3. \A t \in Callers : <<"call", t>> \in DOMAIN F /\ F[<<"call", t>>] = Held(cl[t])
  BY DEF Store, Places
<1>4. <<"buf", 0>> \in DOMAIN F /\ F[<<"buf", 0>>] = buf
  BY DEF Store, Places
<1>5. <<"work", 0>> \in DOMAIN F /\ F[<<"work", 0>>] = Held(wk)
  BY DEF Store, Places
<1>6. <<>> \in Seq(RecordsT)
  OBVIOUS
<1>7. Held(wk) \in Seq(RecordsT)
  <2>1. wk.batch \in Seq(IntactT)
    BY DEF WorkT
  <2> QED BY <1>6, <2>1, IntactSeq DEF Held
<1>8. ASSUME NEW t \in Callers PROVE Held(cl[t]) \in Seq(RecordsT)
  <2>1. cl[t].batch \in Seq(IntactT)
    BY DEF CallT
  <2> QED BY <1>6, <2>1, IntactSeq DEF Held
<1>9. ASSUME NEW a \in DOMAIN F PROVE F[a] \in Seq(RecordsT)
  <2>1. \/ \E c \in 1 .. Len(cs) : a = <<"disk", c>>
        \/ \E t \in Callers : a = <<"call", t>>
        \/ a = <<"buf", 0>> \/ a = <<"work", 0>>
    BY <1>1 DEF Places
  <2>2. CASE \E c \in 1 .. Len(cs) : a = <<"disk", c>>
    <3>1. PICK c \in 1 .. Len(cs) : a = <<"disk", c>>
      BY <2>2
    <3>2. cs[c] \in Seq(RecordsT)
      OBVIOUS
    <3> QED BY <1>2, <3>1, <3>2
  <2>3. CASE \E t \in Callers : a = <<"call", t>>
    BY <1>3, <1>8, <2>3
  <2>4. CASE a = <<"buf", 0>>
    BY <1>4, <2>4, IntactSeq
  <2>5. CASE a = <<"work", 0>>
    BY <1>5, <1>7, <2>5
  <2> QED BY <2>1, <2>2, <2>3, <2>4, <2>5
<1> HIDE DEF F
<1>10. IsStore(F, cs, buf, cl, wk)
  BY <1>1, <1>2, <1>3, <1>4, <1>5, <1>9 DEF IsStore
<1> QED BY <1>10 DEF F

\* The live records, before and after a step.
LEMMA LiveStores ==
  ASSUME TypeInv, TypeInv'
  PROVE  /\ IsStore(Store(chunks, group.buf, call, worker), chunks, group.buf, call, worker)
         /\ IsStore(Store(chunks', group'.buf, call', worker'), chunks', group'.buf, call', worker')
<1>1. /\ chunks \in Seq(Seq(RecordsT)) /\ group.buf \in Seq(IntactT) /\ call \in [Callers -> CallT] /\ worker \in WorkT
      /\ chunks' \in Seq(Seq(RecordsT)) /\ group'.buf \in Seq(IntactT) /\ call' \in [Callers -> CallT] /\ worker' \in WorkT
  BY DEF TypeInv, GroupT
<1> QED BY <1>1, StoreIs, Zenon

\* Stores with the same chunks, buffer and hands are the same.
LEMMA SameStore ==
  ASSUME NEW cs, NEW buf, NEW cl, NEW wk, NEW dl, NEW vk,
         \A t \in Callers : Held(cl[t]) = Held(dl[t]), Held(wk) = Held(vk)
  PROVE  Store(cs, buf, cl, wk) = Store(cs, buf, dl, vk)
<1>1. ASSUME NEW a \in Places(cs), a[1] = "call" PROVE a[2] \in Callers
  BY <1>1 DEF Places
<1> QED BY <1>1 DEF Store

Carries == Recs(Live') \subseteq Recs(Live) /\ (Single(Live) => Single(Live'))

Adds(r) == Recs(Live') \subseteq Recs(Live) \cup {r} /\ (Single(Live) => Single(Live'))

\* A step that moves no record.
LEMMA SameCarries ==
  ASSUME chunks' = chunks, group'.buf = group.buf,
         \A t \in Callers : Held(call'[t]) = Held(call[t]), Held(worker') = Held(worker)
  PROVE  Carries
<1>1. Store(chunks, group.buf, call', worker') = Store(chunks, group.buf, call, worker)
  BY SameStore
<1>2. Live' = Live
  BY <1>1 DEF Live
<1> QED BY <1>2 DEF Carries

\* Taking the buffer.
LEMMA TakeCarries ==
  ASSUME TypeInv, TypeInv', NEW t \in Callers, Take(t)
  PROVE  Carries
<1> DEFINE F == Store(chunks, group.buf, call, worker)
           G == Store(chunks', group'.buf, call', worker')
           a == <<"buf", 0>>
           b == <<"call", t>>
<1>1. /\ chunks \in Seq(Seq(RecordsT)) /\ group.buf \in Seq(IntactT) /\ call \in [Callers -> CallT] /\ worker \in WorkT
      /\ chunks' \in Seq(Seq(RecordsT)) /\ group'.buf \in Seq(IntactT) /\ call' \in [Callers -> CallT] /\ worker' \in WorkT
  BY DEF TypeInv, GroupT
<1>2. /\ chunks' = chunks /\ worker' = worker /\ group'.buf = <<>> /\ call[t].at = "elected"
      /\ call'[t].at = "taken" /\ call'[t].batch = group.buf
      /\ \A u \in Callers \ {t} : call'[u] = call[u]
  BY <1>1 DEF Take, TypeInv, GroupT, CallT
<1>3. /\ DOMAIN F = Places(chunks) /\ \A c \in DOMAIN F : F[c] \in Seq(RecordsT)
      /\ a \in DOMAIN F /\ F[a] = group.buf /\ b \in DOMAIN F /\ F[b] = Held(call[t])
  BY LiveStores DEF IsStore
<1>4. DOMAIN G = Places(chunks') /\ G[a] = group'.buf /\ G[b] = Held(call'[t])
  BY LiveStores DEF IsStore
<1>5. F[b] = <<>> /\ G[b] = F[a] /\ G[a] = <<>>
  BY <1>2, <1>3, <1>4 DEF Held
<1>6. G[b] = F[b] \o F[a]
  BY <1>3, <1>5
<1>7. ASSUME NEW c \in DOMAIN F \ {a, b} PROVE G[c] = F[c]
  <2>1. c \in Places(chunks) /\ c \in Places(chunks')
    BY <1>2, <1>3
  <2>2. c[1] = "call" => c[2] \in Callers \ {t}
    BY <1>3, <1>7 DEF Places
  <2>3. c[1] \in {"disk", "call", "work"}
    BY <1>3, <1>7 DEF Places
  <2> QED BY <1>2, <2>1, <2>2, <2>3 DEF Store
<1>8. a # b
  OBVIOUS
<1> HIDE DEF F, G, a, b
<1>9. DOMAIN G = DOMAIN F
  BY <1>2, <1>3, <1>4
<1>10. Recs(G) \subseteq Recs(F) /\ (Single(F) => Single(G))
  BY <1>3, <1>5, <1>6, <1>7, <1>8, <1>9, StoreMoves
<1> QED BY <1>10 DEF Carries, Live, F, G

\* Writing what was taken.
LEMMA WriteCarries ==
  ASSUME TypeInv, TypeInv', NEW t \in Callers, Write(t)
  PROVE  Carries
<1> DEFINE F == Store(chunks, group.buf, call, worker)
           G == Store(chunks', group'.buf, call', worker')
           a == <<"call", t>>
           n == Len(chunks)
           b == <<"disk", n>>
<1>1. /\ chunks \in Seq(Seq(RecordsT)) /\ group.buf \in Seq(IntactT) /\ call \in [Callers -> CallT] /\ worker \in WorkT
      /\ chunks' \in Seq(Seq(RecordsT)) /\ group'.buf \in Seq(IntactT) /\ call' \in [Callers -> CallT] /\ worker' \in WorkT
  BY DEF TypeInv, GroupT
<1>2. /\ group' = group /\ worker' = worker /\ call[t].at = "taken"
      /\ call'[t].at = "written" /\ call[t].batch \in Seq(IntactT)
      /\ \A u \in Callers \ {t} : call'[u] = call[u]
  BY <1>1 DEF Write, CallT
<1>3. WriteOut(t, call[t].batch)
  BY DEF Write
<1>4. /\ Len(chunks') = Len(chunks) /\ chunks'[Len(chunks)] = Active \o call[t].batch
      /\ \A c \in 1 .. Len(chunks) : c # Len(chunks) => chunks'[c] = chunks[c]
  BY <1>2, <1>3, FileTypes
<1>5. n \in 1 .. Len(chunks) /\ n \in 1 .. Len(chunks') /\ Active = chunks[n]
  BY <1>4, ActiveIs
<1>6. /\ DOMAIN F = Places(chunks) /\ \A c \in DOMAIN F : F[c] \in Seq(RecordsT)
      /\ a \in DOMAIN F /\ F[a] = Held(call[t]) /\ b \in DOMAIN F /\ F[b] = chunks[n]
  BY <1>5, LiveStores DEF IsStore
<1>7. DOMAIN G = Places(chunks') /\ G[a] = Held(call'[t]) /\ G[b] = chunks'[n]
  BY <1>5, LiveStores DEF IsStore
<1>8. F[a] = call[t].batch /\ G[a] = <<>> /\ G[b] = F[b] \o F[a]
  BY <1>2, <1>4, <1>5, <1>6, <1>7 DEF Held
<1>9. DOMAIN G = DOMAIN F
  BY <1>4, <1>6, <1>7 DEF Places
<1>10. ASSUME NEW c \in DOMAIN F \ {a, b} PROVE G[c] = F[c]
  <2>1. c \in Places(chunks) /\ c \in Places(chunks')
    BY <1>6, <1>7, <1>9
  <2>2. c[1] = "call" => c[2] \in Callers \ {t}
    BY <1>6, <1>10 DEF Places
  <2>3. c[1] = "disk" => c[2] \in 1 .. Len(chunks) /\ c[2] # Len(chunks)
    BY <1>6, <1>10 DEF Places
  <2> QED BY <1>2, <1>4, <2>1, <2>2, <2>3 DEF Store
<1>11. a # b
  OBVIOUS
<1> HIDE DEF F, G, a, b, n
<1>12. Recs(G) \subseteq Recs(F) /\ (Single(F) => Single(G))
  BY <1>6, <1>8, <1>9, <1>10, <1>11, StoreMoves
<1> QED BY <1>12 DEF Carries, Live, F, G

\* The worker taking the buffer.
LEMMA FlushTakeCarries ==
  ASSUME TypeInv, TypeInv', FlushTake
  PROVE  Carries
<1> DEFINE F == Store(chunks, group.buf, call, worker)
           G == Store(chunks', group'.buf, call', worker')
           a == <<"buf", 0>>
           b == <<"work", 0>>
<1>1. /\ chunks \in Seq(Seq(RecordsT)) /\ group.buf \in Seq(IntactT) /\ call \in [Callers -> CallT] /\ worker \in WorkT
      /\ chunks' \in Seq(Seq(RecordsT)) /\ group'.buf \in Seq(IntactT) /\ call' \in [Callers -> CallT] /\ worker' \in WorkT
      /\ group \in GroupT
  BY DEF TypeInv, GroupT
<1>2. chunks' = chunks /\ call' = call /\ worker.at = "marked" /\ Held(worker) = <<>>
  BY DEF FlushTake, Held
<1>3. CASE group.failed
  <2>1. worker' = Failed /\ group' = group
    BY <1>3 DEF FlushTake
  <2>2. Held(worker') = Held(worker)
    BY <1>2, <2>1, Rests DEF Held
  <2> QED BY <1>2, <2>1, <2>2, SameCarries
<1>4. CASE ~group.failed /\ group.buf = <<>>
  <2>1. worker' = [worker EXCEPT !.at = "rotate"] /\ group' = [group EXCEPT !.buf = <<>>]
    BY <1>4 DEF FlushTake
  <2>2. Held(worker') = Held(worker) /\ group'.buf = group.buf
    BY <1>1, <1>2, <1>4, <2>1 DEF Held, GroupT, WorkT
  <2> QED BY <1>2, <2>2, SameCarries
<1>5. CASE ~group.failed /\ group.buf # <<>>
  <2>1. worker' = [worker EXCEPT !.at = "taken", !.batch = group.buf, !.to = group.enqueued] /\ group' = [group EXCEPT !.buf = <<>>]
    BY <1>5 DEF FlushTake
  <2>2. Held(worker') = group.buf /\ group'.buf = <<>>
    BY <1>1, <2>1 DEF Held, GroupT, WorkT
  <2>3. /\ DOMAIN F = Places(chunks) /\ \A c \in DOMAIN F : F[c] \in Seq(RecordsT)
        /\ a \in DOMAIN F /\ F[a] = group.buf /\ b \in DOMAIN F /\ F[b] = Held(worker)
    BY LiveStores DEF IsStore
  <2>4. DOMAIN G = Places(chunks') /\ G[a] = group'.buf /\ G[b] = Held(worker')
    BY LiveStores DEF IsStore
  <2>5. F[b] = <<>> /\ G[b] = F[a] /\ G[a] = <<>>
    BY <1>2, <2>2, <2>3, <2>4
  <2>6. G[b] = F[b] \o F[a]
    BY <2>3, <2>5
  <2>7. ASSUME NEW c \in DOMAIN F \ {a, b} PROVE G[c] = F[c]
    <3>1. c \in Places(chunks) /\ c \in Places(chunks') /\ c[1] \in {"disk", "call"}
      BY <1>2, <2>3, <2>7 DEF Places
    <3> QED BY <1>2, <3>1 DEF Store
  <2>8. a # b
    OBVIOUS
  <2> HIDE DEF F, G, a, b
  <2>9. DOMAIN G = DOMAIN F
    BY <1>2, <2>3, <2>4
  <2>10. Recs(G) \subseteq Recs(F) /\ (Single(F) => Single(G))
    BY <2>3, <2>5, <2>6, <2>7, <2>8, <2>9, StoreMoves
  <2> QED BY <2>10 DEF Carries, Live, F, G
<1> QED BY <1>3, <1>4, <1>5

\* The worker writing what it took.
LEMMA FlushWriteCarries ==
  ASSUME TypeInv, TypeInv', FlushWrite
  PROVE  Carries
<1> DEFINE F == Store(chunks, group.buf, call, worker)
           G == Store(chunks', group'.buf, call', worker')
           a == <<"work", 0>>
           n == Len(chunks)
           b == <<"disk", n>>
<1>1. /\ chunks \in Seq(Seq(RecordsT)) /\ group.buf \in Seq(IntactT) /\ call \in [Callers -> CallT] /\ worker \in WorkT
      /\ chunks' \in Seq(Seq(RecordsT)) /\ group'.buf \in Seq(IntactT) /\ call' \in [Callers -> CallT] /\ worker' \in WorkT
  BY DEF TypeInv, GroupT
<1>2. /\ group' = group /\ call' = call /\ worker.at = "taken"
      /\ worker'.at = "written" /\ worker.batch \in Seq(IntactT)
  BY <1>1 DEF FlushWrite, WorkT
<1>3. WriteOut("worker", worker.batch)
  BY DEF FlushWrite
<1>4. /\ Len(chunks') = Len(chunks) /\ chunks'[Len(chunks)] = Active \o worker.batch
      /\ \A c \in 1 .. Len(chunks) : c # Len(chunks) => chunks'[c] = chunks[c]
  BY <1>2, <1>3, FileTypes
<1>5. n \in 1 .. Len(chunks) /\ n \in 1 .. Len(chunks') /\ Active = chunks[n]
  BY <1>4, ActiveIs
<1>6. /\ DOMAIN F = Places(chunks) /\ \A c \in DOMAIN F : F[c] \in Seq(RecordsT)
      /\ a \in DOMAIN F /\ F[a] = Held(worker) /\ b \in DOMAIN F /\ F[b] = chunks[n]
  BY <1>5, LiveStores DEF IsStore
<1>7. DOMAIN G = Places(chunks') /\ G[a] = Held(worker') /\ G[b] = chunks'[n]
  BY <1>5, LiveStores DEF IsStore
<1>8. F[a] = worker.batch /\ G[a] = <<>> /\ G[b] = F[b] \o F[a]
  BY <1>2, <1>4, <1>5, <1>6, <1>7 DEF Held
<1>9. DOMAIN G = DOMAIN F
  BY <1>4, <1>6, <1>7 DEF Places
<1>10. ASSUME NEW c \in DOMAIN F \ {a, b} PROVE G[c] = F[c]
  <2>1. c \in Places(chunks) /\ c \in Places(chunks')
    BY <1>6, <1>7, <1>9
  <2>2. c[1] \in {"disk", "call", "buf"}
    BY <1>6, <1>10 DEF Places
  <2>3. c[1] = "disk" => c[2] \in 1 .. Len(chunks) /\ c[2] # Len(chunks)
    BY <1>6, <1>10 DEF Places
  <2> QED BY <1>2, <1>4, <2>1, <2>2, <2>3 DEF Store
<1>11. a # b
  OBVIOUS
<1> HIDE DEF F, G, a, b, n
<1>12. Recs(G) \subseteq Recs(F) /\ (Single(F) => Single(G))
  BY <1>6, <1>8, <1>9, <1>10, <1>11, StoreMoves
<1> QED BY <1>12 DEF Carries, Live, F, G

\* Enqueueing a record brings in that one and no other.
LEMMA EnqueueRecs ==
  ASSUME TypeInv, TypeInv', NEW r \in IntactT, group'.buf = Append(group.buf, r), chunks' = chunks,
         \A t \in Callers : Held(call'[t]) = Held(call[t]), Held(worker') = Held(worker)
  PROVE  Recs(Live') \subseteq Recs(Live) \cup {r}
<1> DEFINE F == Store(chunks, group.buf, call, worker)
           G == Store(chunks', group'.buf, call', worker')
           b == <<"buf", 0>>
           n == Len(group.buf)
<1>1. /\ DOMAIN F = Places(chunks) /\ b \in DOMAIN F /\ F[b] = group.buf
      /\ DOMAIN G = Places(chunks') /\ G[b] = group'.buf /\ DOMAIN G = DOMAIN F
  BY LiveStores DEF IsStore
<1>2. ASSUME NEW c \in DOMAIN F \ {b} PROVE G[c] = F[c]
  <2>1. c \in Places(chunks) /\ c \in Places(chunks')
    BY <1>1
  <2>2. c[1] \in {"disk", "call", "work"} /\ (c[1] = "call" => c[2] \in Callers)
    BY <1>1, <1>2 DEF Places
  <2> QED BY <2>1, <2>2 DEF Store
<1> HIDE DEF F, G, b
<1>3. group.buf \in Seq(IntactT)
  BY DEF TypeInv, GroupT
<1>4. /\ n \in Nat /\ Len(group'.buf) = n + 1 /\ group'.buf[n + 1] = r
      /\ \A i \in 1 .. n : group'.buf[i] = group.buf[i]
  BY <1>3
<1>5. ASSUME NEW i \in Parsed(group'.buf)
      PROVE  group'.buf[i] = r \/ (i \in Parsed(group.buf) /\ group'.buf[i] = group.buf[i])
  <2>1. i \in 1 .. Len(group'.buf) /\ \A j \in 1 .. i : group'.buf[j].kind # "TORN"
    BY DEF Parsed
  <2>2. CASE i = n + 1
    BY <1>4, <2>2
  <2>3. CASE i # n + 1
    <3>1. i \in 1 .. n /\ \A j \in 1 .. i : j \in 1 .. n
      BY <1>4, <2>1, <2>3
    <3> QED BY <1>4, <2>1, <3>1 DEF Parsed
  <2> QED BY <2>2, <2>3
<1>6. ASSUME NEW x \in Recs(G) PROVE x \in Recs(F) \cup {r}
  <2>1. PICK c \in DOMAIN G : \E i \in Parsed(G[c]) : x = G[c][i]
    BY <1>6, RecsIs
  <2>2. PICK i \in Parsed(G[c]) : x = G[c][i]
    BY <2>1
  <2>3. CASE c = b
    <3>1. i \in Parsed(group'.buf) /\ x = group'.buf[i]
      BY <1>1, <2>2, <2>3
    <3>2. x = r \/ (i \in Parsed(F[b]) /\ x = F[b][i])
      BY <1>1, <1>5, <3>1
    <3> QED BY <1>1, <3>2, RecsIs
  <2>4. CASE c # b
    <3>1. c \in DOMAIN F /\ G[c] = F[c]
      BY <1>1, <1>2, <2>4
    <3> QED BY <2>2, <3>1, RecsIs
  <2> QED BY <2>3, <2>4
<1> QED BY <1>6 DEF Live, F, G

\* Enqueueing a record.
LEMMA EnqueueAdds ==
  ASSUME TypeInv, TypeInv', NEW r \in IntactT, group'.buf = Append(group.buf, r), chunks' = chunks,
         \A t \in Callers : Held(call'[t]) = Held(call[t]), Held(worker') = Held(worker),
         \A x \in Recs(Live) : x.ws \cap r.ws = {}
  PROVE  Adds(r)
<1> DEFINE F == Store(chunks, group.buf, call, worker)
           G == Store(chunks', group'.buf, call', worker')
           a == <<"buf", 0>>
<1>1. /\ DOMAIN F = Places(chunks) /\ \A c \in DOMAIN F : F[c] \in Seq(RecordsT)
      /\ a \in DOMAIN F /\ F[a] = group.buf
      /\ DOMAIN G = Places(chunks') /\ G[a] = group'.buf
  BY LiveStores DEF IsStore
<1>2. \A x \in Recs(F) : x.ws \cap r.ws = {}
  BY DEF Live
<1>3. r \in RecordsT /\ G[a] = Append(F[a], r) /\ DOMAIN G = DOMAIN F
  BY <1>1, IntactSeq
<1>4. ASSUME NEW c \in DOMAIN F \ {a} PROVE G[c] = F[c]
  <2>1. c \in Places(chunks) /\ c \in Places(chunks')
    BY <1>1, <1>3
  <2>2. c[1] \in {"disk", "call", "work"} /\ (c[1] = "call" => c[2] \in Callers)
    BY <1>1, <1>4 DEF Places
  <2> QED BY <2>1, <2>2 DEF Store
<1> HIDE DEF F, G, a
<1>5. Recs(G) \subseteq Recs(F) \cup {r} /\ (Single(F) => Single(G))
  BY <1>1, <1>2, <1>3, <1>4, StoreGrows
<1> QED BY <1>5 DEF Adds, Live, F, G

\* A new chunk.
LEMMA RotateCarries ==
  ASSUME TypeInv, TypeInv', Rotate
  PROVE  Carries
<1> DEFINE F == Store(chunks, group.buf, call, worker)
           G == Store(chunks', group'.buf, call', worker')
<1>1. group' = group /\ call' = call /\ worker' = NoJob /\ worker.at = "rotate"
  BY DEF Rotate
<1>2. Len(chunks) \in Nat
  BY DEF TypeInv
<1>3. PICK k \in 0 .. Len(Active) :
        /\ Len(chunks') = Len(chunks) + 1 /\ chunks'[Len(chunks) + 1] = <<>>
        /\ \A c \in 1 .. Len(chunks) : chunks'[c] = Kept(k, FALSE)[c]
  BY RotateIs
<1>4. Held(worker) = <<>> /\ Held(worker') = <<>>
  BY <1>1, Rests DEF Held
<1>5. /\ DOMAIN F = Places(chunks)
      /\ \A c \in 1 .. Len(chunks) : <<"disk", c>> \in DOMAIN F /\ F[<<"disk", c>>] = chunks[c]
      /\ \A t \in Callers : <<"call", t>> \in DOMAIN F /\ F[<<"call", t>>] = Held(call[t])
      /\ <<"buf", 0>> \in DOMAIN F /\ F[<<"buf", 0>>] = group.buf
      /\ <<"work", 0>> \in DOMAIN F /\ F[<<"work", 0>>] = Held(worker)
  BY LiveStores DEF IsStore
<1>6. /\ DOMAIN G = Places(chunks')
      /\ \A c \in 1 .. Len(chunks') : <<"disk", c>> \in DOMAIN G /\ G[<<"disk", c>>] = chunks'[c]
      /\ \A t \in Callers : <<"call", t>> \in DOMAIN G /\ G[<<"call", t>>] = Held(call'[t])
      /\ <<"buf", 0>> \in DOMAIN G /\ G[<<"buf", 0>>] = group'.buf
      /\ <<"work", 0>> \in DOMAIN G /\ G[<<"work", 0>>] = Held(worker')
  BY LiveStores DEF IsStore
<1> HIDE DEF F, G
<1>7. Parsed(<<>>) = {}
  BY DEF Parsed
<1>8. ASSUME NEW a \in DOMAIN G, NEW i \in Parsed(G[a])
      PROVE  a \in DOMAIN F /\ i \in Parsed(F[a]) /\ G[a][i] = F[a][i]
  <2>1. \/ \E c \in 1 .. Len(chunks') : a = <<"disk", c>>
        \/ \E t \in Callers : a = <<"call", t>>
        \/ a = <<"buf", 0>> \/ a = <<"work", 0>>
    BY <1>6 DEF Places
  <2>2. ASSUME NEW c \in 1 .. Len(chunks'), a = <<"disk", c>>
        PROVE  a \in DOMAIN F /\ i \in Parsed(F[a]) /\ G[a][i] = F[a][i]
    <3>1. c = Len(chunks) + 1 \/ c \in 1 .. Len(chunks)
      BY <1>2, <1>3
    <3>2. c # Len(chunks) + 1
      BY <1>3, <1>6, <1>7, <2>2
    <3>3. c \in 1 .. Len(chunks) /\ G[a] = Kept(k, FALSE)[c] /\ FALSE \in BOOLEAN
      BY <1>3, <1>6, <2>2, <3>1, <3>2
    <3>4. i \in Parsed(chunks[c]) /\ Kept(k, FALSE)[c][i] = chunks[c][i]
      BY <3>3, KeptParsed
    <3>5. a \in DOMAIN F /\ F[a] = chunks[c]
      BY <1>5, <2>2, <3>3
    <3> QED BY <3>3, <3>4, <3>5
  <2>3. (\E t \in Callers : a = <<"call", t>>) \/ a = <<"buf", 0>> \/ a = <<"work", 0>>
          => a \in DOMAIN F /\ G[a] = F[a]
    BY <1>1, <1>4, <1>5, <1>6
  <2> QED BY <2>1, <2>2, <2>3
<1>9. Recs(G) \subseteq Recs(F) /\ (Single(F) => Single(G))
  BY <1>8, StoreShrinks
<1> QED BY <1>9 DEF Carries, Live, F, G

---------------------------------------------------------------------------
(* What a boot reads.                                                      *)

\* The positions a boot reads.
LEMMA ParseIs ==
  ASSUME NEW cs, NEW p
  PROVE  p \in Parse(cs) <=> \E c \in DOMAIN cs : \E i \in Parsed(cs[c]) : p = <<c, i>>
BY DEF Parse

\* The greatest of a bounded set of numbers.
LEMMA MaxIs ==
  ASSUME NEW S \in SUBSET Nat, S # {}, NEW b \in Nat, \A x \in S : x <= b
  PROVE  Max(S) \in S /\ \A x \in S : x <= Max(S)
<1> DEFINE U == { u \in Nat : \A x \in S : x <= u }
<1>1. U \in SUBSET Nat /\ b \in U
  OBVIOUS
<1>2. PICK m \in U : \A u \in U : m <= u
  BY <1>1, LeastNatural
<1>3. m \in S
  <2>1. SUFFICES ASSUME m \notin S PROVE FALSE
    OBVIOUS
  <2>2. PICK x \in S : TRUE
    OBVIOUS
  <2>3. \A y \in S : y \in Nat /\ y <= m /\ y # m
    BY <2>1
  <2>4. m \in Nat /\ m > 0
    BY <2>2, <2>3
  <2>5. m - 1 \in Nat /\ \A y \in S : y <= m - 1
    BY <2>3, <2>4
  <2>6. m <= m - 1
    BY <1>2, <2>5
  <2> QED BY <2>4, <2>6
<1>4. \A x \in S : x <= m /\ m >= x
  OBVIOUS
<1>5. Max(S) \in S /\ \A y \in S : Max(S) >= y
  BY <1>3, <1>4 DEF Max
<1> QED BY <1>5

\* The floor and the last LSN of a log.
LEMMA FloorIs ==
  ASSUME NEW cs \in Seq(Seq(RecordsT)), NEW b \in Nat, \A p \in Parse(cs) : At(cs, p).lsn <= b
  PROVE  /\ Floor(cs) \in Nat /\ LastLsn(cs) \in Nat /\ Floor(cs) <= LastLsn(cs) /\ LastLsn(cs) <= b
         /\ Floor(cs) = 0 \/ \E p \in Parse(cs) : At(cs, p).kind = "MARK" /\ At(cs, p).lsn = Floor(cs)
         /\ \A p \in Parse(cs) : At(cs, p).lsn <= LastLsn(cs)
         /\ \A p \in Parse(cs) : At(cs, p).kind = "MARK" => At(cs, p).lsn <= Floor(cs)
<1>1. ASSUME NEW p \in Parse(cs) PROVE At(cs, p) \in RecordsT /\ At(cs, p).lsn \in Nat
  <2>1. PICK c \in DOMAIN cs : \E i \in Parsed(cs[c]) : p = <<c, i>>
    BY ParseIs
  <2>2. PICK i \in Parsed(cs[c]) : p = <<c, i>>
    BY <2>1
  <2>3. cs[c] \in Seq(RecordsT) /\ i \in 1 .. Len(cs[c]) /\ At(cs, p) = cs[c][i]
    BY <2>2 DEF Parsed, At
  <2>4. At(cs, p) \in RecordsT
    BY <2>3
  <2> QED BY <2>4 DEF RecordsT
<1> DEFINE S == {0} \cup { At(cs, p).lsn : p \in { q \in Parse(cs) : At(cs, q).kind = "MARK" } }
           T == {0} \cup { At(cs, p).lsn : p \in Parse(cs) }
<1>2. S \in SUBSET Nat /\ S # {} /\ (\A x \in S : x <= b) /\ S \subseteq T
  BY <1>1
<1>3. T \in SUBSET Nat /\ T # {} /\ \A x \in T : x <= b
  BY <1>1
<1>4. Floor(cs) = Max(S) /\ LastLsn(cs) = Max(T)
  BY DEF Floor, LastLsn
<1>5. \A p \in Parse(cs) : At(cs, p).lsn \in T /\ (At(cs, p).kind = "MARK" => At(cs, p).lsn \in S)
  OBVIOUS
<1>6. \A x \in S : x = 0 \/ \E p \in Parse(cs) : At(cs, p).kind = "MARK" /\ At(cs, p).lsn = x
  OBVIOUS
<1> HIDE DEF S, T
<1>7. Max(S) \in S /\ (\A x \in S : x <= Max(S)) /\ Max(T) \in T /\ (\A x \in T : x <= Max(T))
  BY <1>2, <1>3, MaxIs
<1> QED BY <1>2, <1>3, <1>4, <1>5, <1>6, <1>7

\* What replay makes of a snapshot when no write is in two records.
LEMMA ReopenedIs ==
  ASSUME NEW cs, NEW d \in Databases,
         \A p, q \in Parse(cs) : At(cs, p).ws \cap At(cs, q).ws # {} => p = q
  PROVE  /\ Reopened(d, cs) \in Databases
         /\ \A w \in Writes :
              /\ (\E p \in Replayable(cs) : w \in At(cs, p).ws) => Reopened(d, cs)[w] = d[w] + 1
              /\ ~(\E p \in Replayable(cs) : w \in At(cs, p).ws) => Reopened(d, cs)[w] = d[w]
<1>1. ASSUME NEW w \in Writes
      PROVE  /\ (\E p \in Replayable(cs) : w \in At(cs, p).ws)
                  => Cardinality({ p \in Replayable(cs) : w \in At(cs, p).ws }) = 1
             /\ ~(\E p \in Replayable(cs) : w \in At(cs, p).ws)
                  => Cardinality({ p \in Replayable(cs) : w \in At(cs, p).ws }) = 0
  <2> DEFINE P == { p \in Replayable(cs) : w \in At(cs, p).ws }
  <2>1. ASSUME NEW p \in P PROVE Cardinality(P) = 1
    <3>1. \A q \in P : q = p
      BY DEF Replayable
    <3>2. P = {p}
      BY <3>1
    <3> QED BY <3>2, FS_Singleton
  <2>2. P = {} => Cardinality(P) = 0
    BY FS_EmptySet
  <2>3. (\E p \in Replayable(cs) : w \in At(cs, p).ws) <=> P # {}
    OBVIOUS
  <2> HIDE DEF P
  <2>4. P # {} => Cardinality(P) = 1
    BY <2>1
  <2> QED BY <2>2, <2>3, <2>4 DEF P
<1>2. \A w \in Writes : d[w] \in Nat
  BY DEF Databases
<1>3. \A w \in Writes : Reopened(d, cs)[w] = d[w] + Cardinality({ p \in Replayable(cs) : w \in At(cs, p).ws })
  BY DEF Reopened
<1>4. ASSUME NEW w \in Writes
      PROVE  /\ Reopened(d, cs)[w] \in Nat
             /\ (\E p \in Replayable(cs) : w \in At(cs, p).ws) => Reopened(d, cs)[w] = d[w] + 1
             /\ ~(\E p \in Replayable(cs) : w \in At(cs, p).ws) => Reopened(d, cs)[w] = d[w]
  <2> DEFINE n == Cardinality({ p \in Replayable(cs) : w \in At(cs, p).ws })
             E == \E p \in Replayable(cs) : w \in At(cs, p).ws
  <2>1. d[w] \in Nat /\ Reopened(d, cs)[w] = d[w] + n
    BY <1>2, <1>3
  <2>2. (E => n = 1) /\ (~E => n = 0)
    BY <1>1, Zenon
  <2> HIDE DEF n, E
  <2>3. Reopened(d, cs)[w] \in Nat /\ (E => Reopened(d, cs)[w] = d[w] + 1) /\ (~E => Reopened(d, cs)[w] = d[w])
    BY <2>1, <2>2
  <2> QED BY <2>3 DEF E
<1>5. Reopened(d, cs) \in Databases
  BY <1>4 DEF Reopened, Databases
<1> QED BY <1>4, <1>5

\* The records on the disk are records of the store.
LEMMA DiskRecs ==
  ASSUME NEW F, NEW cs \in Seq(Seq(RecordsT)), NEW buf, NEW cl, NEW wk, IsStore(F, cs, buf, cl, wk)
  PROVE  /\ \A p \in Parse(cs) : At(cs, p) \in Recs(F)
         /\ Single(F) => \A p, q \in Parse(cs) : At(cs, p).ws \cap At(cs, q).ws # {} => p = q
<1>1. ASSUME NEW p \in Parse(cs)
      PROVE  \E c \in 1 .. Len(cs) : \E i \in Parsed(F[<<"disk", c>>]) :
               p = <<c, i>> /\ <<"disk", c>> \in DOMAIN F /\ At(cs, p) = F[<<"disk", c>>][i]
  <2>1. PICK c \in DOMAIN cs : \E i \in Parsed(cs[c]) : p = <<c, i>>
    BY ParseIs
  <2>2. PICK i \in Parsed(cs[c]) : p = <<c, i>>
    BY <2>1
  <2>3. c \in 1 .. Len(cs) /\ <<"disk", c>> \in DOMAIN F /\ F[<<"disk", c>>] = cs[c]
    BY DEF IsStore
  <2> QED BY <2>2, <2>3 DEF At
<1>2. ASSUME NEW p \in Parse(cs) PROVE At(cs, p) \in Recs(F)
  BY <1>1, RecsIs
<1>3. ASSUME Single(F), NEW p \in Parse(cs), NEW q \in Parse(cs), At(cs, p).ws \cap At(cs, q).ws # {}
      PROVE  p = q
  <2>1. PICK c \in 1 .. Len(cs) : \E i \in Parsed(F[<<"disk", c>>]) :
               p = <<c, i>> /\ <<"disk", c>> \in DOMAIN F /\ At(cs, p) = F[<<"disk", c>>][i]
    BY <1>1
  <2>2. PICK i \in Parsed(F[<<"disk", c>>]) : p = <<c, i>> /\ <<"disk", c>> \in DOMAIN F /\ At(cs, p) = F[<<"disk", c>>][i]
    BY <2>1
  <2>3. PICK d \in 1 .. Len(cs) : \E j \in Parsed(F[<<"disk", d>>]) :
               q = <<d, j>> /\ <<"disk", d>> \in DOMAIN F /\ At(cs, q) = F[<<"disk", d>>][j]
    BY <1>1
  <2>4. PICK j \in Parsed(F[<<"disk", d>>]) : q = <<d, j>> /\ <<"disk", d>> \in DOMAIN F /\ At(cs, q) = F[<<"disk", d>>][j]
    BY <2>3
  <2>5. <<"disk", c>> = <<"disk", d>> /\ i = j
    <3> DEFINE a == <<"disk", c>>
               b == <<"disk", d>>
    <3>1. F[a][i].ws \cap F[b][j].ws # {} /\ a \in DOMAIN F /\ b \in DOMAIN F /\ i \in Parsed(F[a]) /\ j \in Parsed(F[b])
      BY <1>3, <2>2, <2>4
    <3> HIDE DEF a, b
    <3>2. a = b /\ i = j
      BY <1>3, <3>1, Zenon DEF Single
    <3> QED BY <3>2 DEF a, b
  <2>6. c = d
    BY <2>5
  <2> QED BY <2>2, <2>4, <2>5, <2>6
<1> QED BY <1>2, <1>3

\* The same for all chunks.
LEMMA KeptParse ==
  ASSUME TypeInv, NEW k \in 0 .. Len(Active), NEW torn \in BOOLEAN, NEW p \in Parse(Kept(k, torn))
  PROVE  p \in Parse(chunks) /\ At(Kept(k, torn), p) = At(chunks, p)
<1>0. \A cs : p \in Parse(cs) => \E c \in DOMAIN cs : \E i \in Parsed(cs[c]) : p = <<c, i>>
  BY ParseIs
<1>1. PICK c \in DOMAIN Kept(k, torn) : \E i \in Parsed(Kept(k, torn)[c]) : p = <<c, i>>
  BY <1>0, Zenon
<1>2. PICK i \in Parsed(Kept(k, torn)[c]) : p = <<c, i>>
  BY <1>1
<1>3. c \in 1 .. Len(chunks) /\ c \in DOMAIN chunks
  BY KeptIs DEF TypeInv
<1>4. i \in Parsed(chunks[c]) /\ Kept(k, torn)[c][i] = chunks[c][i]
  BY <1>3, KeptParsed
<1>5. p \in Parse(chunks)
  BY <1>2, <1>3, <1>4, ParseIs
<1> QED BY <1>2, <1>4, <1>5 DEF At

\* The log as it is on the disk: every record a boot reads is live, no write is
\* in two of them.
LEMMA DiskIs ==
  ASSUME TypeInv
  PROVE  /\ \A p \in Parse(chunks) : At(chunks, p) \in Recs(Live)
         /\ Single(Live) => \A p, q \in Parse(chunks) : At(chunks, p).ws \cap At(chunks, q).ws # {} => p = q
<1> DEFINE F == Store(chunks, group.buf, call, worker)
<1>1. /\ chunks \in Seq(Seq(RecordsT)) /\ group.buf \in Seq(IntactT) /\ call \in [Callers -> CallT] /\ worker \in WorkT
  BY DEF TypeInv, GroupT
<1>2. IsStore(F, chunks, group.buf, call, worker)
  BY <1>1, StoreIs
<1> HIDE DEF F
<1>3. /\ \A p \in Parse(chunks) : At(chunks, p) \in Recs(F)
      /\ Single(F) => \A p, q \in Parse(chunks) : At(chunks, p).ws \cap At(chunks, q).ws # {} => p = q
  BY <1>1, <1>2, DiskRecs, Zenon
<1> QED BY <1>3 DEF F, Live

\* A boot reads finitely many records.
LEMMA ParseFinite ==
  ASSUME NEW cs \in Seq(Seq(RecordsT))
  PROVE  IsFiniteSet(Parse(cs))
<1> DEFINE n == Len(cs)
           f == [c \in 1 .. n |-> { <<c, i>> : i \in Parsed(cs[c]) }]
           S == { { <<c, i>> : i \in Parsed(cs[c]) } : c \in DOMAIN cs }
<1>1. n \in Nat /\ DOMAIN cs = 1 .. n /\ \A c \in 1 .. n : cs[c] \in Seq(RecordsT)
  OBVIOUS
<1>2. f \in Surjection(1 .. n, S)
  BY <1>1 DEF Surjection
<1>3. IsFiniteSet(1 .. n)
  BY <1>1, FS_Interval
<1>4. ASSUME NEW T \in S PROVE IsFiniteSet(T)
  <2>1. PICK c \in 1 .. n : T = { <<c, i>> : i \in Parsed(cs[c]) }
    BY <1>1, <1>4
  <2>2. Len(cs[c]) \in Nat
    BY <1>1
  <2>3. IsFiniteSet({c}) /\ IsFiniteSet(1 .. Len(cs[c]))
    <3>1. IsFiniteSet({c})
      BY FS_Singleton, Zenon
    <3>2. 1 \in Int /\ Len(cs[c]) \in Int
      BY <2>2
    <3>3. IsFiniteSet(1 .. Len(cs[c]))
      BY <3>2, FS_Interval
    <3> QED BY <3>1, <3>3
  <2>4. IsFiniteSet({c} \X (1 .. Len(cs[c])))
    BY <2>3, FS_Product
  <2>5. T \in SUBSET ({c} \X (1 .. Len(cs[c])))
    BY <2>1 DEF Parsed
  <2> QED BY <2>4, <2>5, FS_Subset
<1>5. Parse(cs) = UNION S
  BY DEF Parse
<1> HIDE DEF n, f, S
<1>6. IsFiniteSet(S)
  BY <1>2, <1>3, FS_Surjection
<1> QED BY <1>4, <1>5, <1>6, FS_UNION

\* What a boot makes of any log a crash can leave, whatever happened before.
LEMMA BootTypes ==
  ASSUME TypeInv, MarkerInv, NEW k \in 0 .. Len(Active), NEW torn \in BOOLEAN, NEW cs, cs = Kept(k, torn)
  PROVE  /\ cs \in Seq(Seq(RecordsT))
         /\ \A p \in Parse(cs) : At(cs, p) \in Recs(Live)
         /\ Floor(cs) \in Nat /\ LastLsn(cs) \in Nat /\ Floor(cs) <= LastLsn(cs) /\ LastLsn(cs) <= lsn
         /\ \A p \in Parse(cs) : At(cs, p).lsn <= LastLsn(cs)
         /\ Floor(cs) <= db.lsn
         /\ Reopened(db.data, cs) \in Databases
<1>1. \A p \in Parse(cs) : p \in Parse(chunks) /\ At(cs, p) = At(chunks, p)
  BY KeptParse
<1>2. cs \in Seq(Seq(RecordsT))
  BY KeptIs
<1>3. lsn \in Nat /\ db.data \in Databases /\ db.lsn \in Nat
  BY DEF TypeInv
<1>4. \A p \in Parse(cs) : At(cs, p) \in Recs(Live)
  BY <1>1, DiskIs
<1>5. \A r \in Recs(Live) : r.lsn <= lsn /\ (r.kind = "MARK" => r.lsn <= db.lsn)
  BY DEF MarkerInv
<1>6. \A p \in Parse(cs) : At(cs, p).lsn <= lsn
  BY <1>4, <1>5
<1>7. /\ Floor(cs) \in Nat /\ LastLsn(cs) \in Nat /\ Floor(cs) <= LastLsn(cs) /\ LastLsn(cs) <= lsn
      /\ Floor(cs) = 0 \/ \E p \in Parse(cs) : At(cs, p).kind = "MARK" /\ At(cs, p).lsn = Floor(cs)
      /\ \A p \in Parse(cs) : At(cs, p).lsn <= LastLsn(cs)
  BY <1>2, <1>3, <1>6, FloorIs
<1>8. Floor(cs) <= db.lsn
  <2>1. CASE Floor(cs) = 0
    BY <1>3, <2>1
  <2>2. CASE \E p \in Parse(cs) : At(cs, p).kind = "MARK" /\ At(cs, p).lsn = Floor(cs)
    BY <1>4, <1>5, <2>2
  <2> QED BY <1>7, <2>1, <2>2
<1>9. ASSUME NEW w \in Writes
      PROVE  db.data[w] + Cardinality({ p \in Replayable(cs) : w \in At(cs, p).ws }) \in Nat
  <2> DEFINE P == { p \in Replayable(cs) : w \in At(cs, p).ws }
  <2>1. IsFiniteSet(Parse(cs))
    BY <1>2, ParseFinite
  <2>2. P \in SUBSET Parse(cs)
    BY DEF Replayable
  <2> HIDE DEF P
  <2>3. IsFiniteSet(P)
    BY <2>1, <2>2, FS_Subset
  <2>4. Cardinality(P) \in Nat
    BY <2>3, FS_CardinalityType
  <2>5. db.data[w] \in Nat
    BY <1>3 DEF Databases
  <2>6. db.data[w] + Cardinality(P) \in Nat
    BY <2>4, <2>5
  <2> QED BY <2>6 DEF P
<1>10. Reopened(db.data, cs) \in Databases
  BY <1>9 DEF Reopened, Databases
<1> QED BY <1>2, <1>4, <1>7, <1>8, <1>10

\* Every log a crash can leave, and what a boot makes of it.
LEMMA BootIs ==
  ASSUME TypeInv, LogInv, NEW k \in 0 .. Len(Active), NEW torn \in BOOLEAN, NEW cs, cs = Kept(k, torn)
  PROVE  /\ cs \in Seq(Seq(RecordsT))
         /\ \A p \in Parse(cs) : At(cs, p) \in Recs(Live)
         /\ \A p, q \in Parse(cs) : At(cs, p).ws \cap At(cs, q).ws # {} => p = q
         /\ Floor(cs) \in Nat /\ LastLsn(cs) \in Nat /\ Floor(cs) <= LastLsn(cs) /\ LastLsn(cs) <= lsn
         /\ Floor(cs) = 0 \/ \E p \in Parse(cs) : At(cs, p).kind = "MARK" /\ At(cs, p).lsn = Floor(cs)
         /\ \A p \in Parse(cs) : At(cs, p).lsn <= LastLsn(cs)
         /\ \A p \in Parse(cs) : At(cs, p).kind = "MARK" => At(cs, p).lsn <= Floor(cs)
         /\ Floor(cs) <= db.lsn
         /\ Reopened(db.data, cs) \in Databases
         /\ \A w \in Writes :
              /\ (\E p \in Replayable(cs) : w \in At(cs, p).ws) => Reopened(db.data, cs)[w] = db.data[w] + 1
              /\ ~(\E p \in Replayable(cs) : w \in At(cs, p).ws) => Reopened(db.data, cs)[w] = db.data[w]
<1>1. \A p \in Parse(cs) : p \in Parse(chunks) /\ At(cs, p) = At(chunks, p)
  BY KeptParse
<1>2. cs \in Seq(Seq(RecordsT))
  BY KeptIs
<1>3. Single(Live) /\ lsn \in Nat /\ db.data \in Databases /\ db.lsn \in Nat
  BY DEF LogInv, TypeInv
<1>4. /\ \A p \in Parse(cs) : At(cs, p) \in Recs(Live)
      /\ \A p, q \in Parse(cs) : At(cs, p).ws \cap At(cs, q).ws # {} => p = q
  BY <1>1, <1>3, DiskIs
<1>5. \A r \in Recs(Live) : r.lsn <= lsn /\ (r.kind = "MARK" => r.lsn <= db.lsn)
  BY DEF LogInv
<1>6. \A p \in Parse(cs) : At(cs, p).lsn <= lsn
  BY <1>4, <1>5
<1>7. /\ Floor(cs) \in Nat /\ LastLsn(cs) \in Nat /\ Floor(cs) <= LastLsn(cs) /\ LastLsn(cs) <= lsn
      /\ Floor(cs) = 0 \/ \E p \in Parse(cs) : At(cs, p).kind = "MARK" /\ At(cs, p).lsn = Floor(cs)
      /\ \A p \in Parse(cs) : At(cs, p).lsn <= LastLsn(cs)
      /\ \A p \in Parse(cs) : At(cs, p).kind = "MARK" => At(cs, p).lsn <= Floor(cs)
  BY <1>2, <1>3, <1>6, FloorIs
<1>8. Floor(cs) <= db.lsn
  <2>1. CASE Floor(cs) = 0
    BY <1>3, <2>1
  <2>2. CASE \E p \in Parse(cs) : At(cs, p).kind = "MARK" /\ At(cs, p).lsn = Floor(cs)
    BY <1>4, <1>5, <2>2
  <2> QED BY <1>7, <2>1, <2>2
<1>9. /\ Reopened(db.data, cs) \in Databases
      /\ \A w \in Writes :
           /\ (\E p \in Replayable(cs) : w \in At(cs, p).ws) => Reopened(db.data, cs)[w] = db.data[w] + 1
           /\ ~(\E p \in Replayable(cs) : w \in At(cs, p).ws) => Reopened(db.data, cs)[w] = db.data[w]
  BY <1>3, <1>4, ReopenedIs
<1> QED BY <1>2, <1>4, <1>7, <1>8, <1>9

\* A crash that keeps k records of the active chunk.
CrashTo(k, torn) ==
  /\ torn => k < Len(Active) /\ Active[k + 1].kind # "TORN"
  /\ chunks' = Kept(k, torn)
  /\ synced' = Len(chunks'[Len(chunks')])
  /\ eng' = EngineAt(Reopened(db.data, chunks'))
  /\ lsn' = LastLsn(chunks')
  /\ worker' = IF Replayable(chunks') # {}
               THEN [NoJob EXCEPT !.at = "pending", !.snap = Reopened(db.data, chunks'), !.lsn = LastLsn(chunks')]
               ELSE NoJob
  /\ front' = IF Replayable(chunks') # {} THEN "wait" ELSE "free"
  /\ mishaps' = mishaps \cup (IF torn THEN {"torn"} ELSE {})
                        \cup (IF db.lsn > Floor(chunks') THEN {"window"} ELSE {})

\* A crash keeps some length of the active chunk.
LEMMA CrashIs ==
  ASSUME TypeInv, Crash
  PROVE  \E k \in synced .. Len(Active) : \E torn \in BOOLEAN :
           k \in 0 .. Len(Active) /\ CrashTo(k, torn)
<1>1. synced .. Len(Active) \subseteq 0 .. Len(Active)
  BY ActiveIs DEF TypeInv
<1>2. \E k \in synced .. Len(Active), torn \in BOOLEAN : CrashTo(k, torn)
  BY DEF Crash, CrashTo
<1> QED BY <1>1, <1>2

\* The types survive a crash.
LEMMA CrashTypes ==
  ASSUME TypeInv, MarkerInv, Crash
  PROVE  TypeInv'
<1>1. PICK k \in synced .. Len(Active) : \E torn \in BOOLEAN : k \in 0 .. Len(Active) /\ CrashTo(k, torn)
  BY CrashIs
<1>2. PICK torn \in BOOLEAN : k \in 0 .. Len(Active) /\ CrashTo(k, torn)
  BY <1>1
<1>3. k \in 0 .. Len(Active) /\ chunks' = Kept(k, torn)
  BY <1>2 DEF CrashTo
<1>4. /\ chunks' \in Seq(Seq(RecordsT)) /\ LastLsn(chunks') \in Nat /\ Reopened(db.data, chunks') \in Databases
  BY <1>3, BootTypes
<1>5. Len(chunks') = Len(chunks) /\ Len(chunks') >= 1 /\ Len(chunks') \in Nat
  BY <1>3, KeptIs DEF TypeInv
<1>6. chunks'[Len(chunks')] \in Seq(RecordsT)
  BY <1>4, <1>5
<1>7. synced' \in 0 .. Len(chunks'[Len(chunks')])
  BY <1>2, <1>6 DEF CrashTo
<1>8. eng' \in [tx : TxT, base : Databases]
  BY <1>2, <1>4, Rests DEF CrashTo, EngineAt
<1>9. buffer' \in [on : BOOLEAN, stmts : Seq(Writes), marks : StackT(Nat)]
  <2>1. <<>> \in Seq(Writes) /\ <<>> \in StackT(Nat)
    BY DEF StackT
  <2> QED BY <2>1 DEF Crash, NoBuffer
<1>10. lsn' \in Nat /\ group' \in GroupT /\ call' \in [Callers -> CallT] /\ front' \in {"free", "drain", "wait"}
  BY <1>2, <1>4, Rests DEF CrashTo, Crash
<1>11. worker' \in WorkT
  <2>1. \A l \in Nat : \A d \in Databases : [NoJob EXCEPT !.at = "pending", !.snap = d, !.lsn = l] \in WorkT
    BY Rests DEF WorkT
  <2> QED BY <1>2, <1>4, <2>1, Rests DEF CrashTo
<1>12. db' \in [data : Databases, lsn : Nat]
  BY DEF Crash, TypeInv
<1>13. told' \in [Writes -> {"new", "open", "sent", "acked", "unknown", "undone"}]
  BY DEF Crash, TypeInv
<1>14. mishaps' \subseteq {"overtaken", "torn", "window", "refused", "aborted", "nested"}
  BY <1>2 DEF CrashTo, TypeInv
<1>15. Active' = chunks'[Len(chunks')]
  BY DEF Active
<1> QED BY <1>4, <1>5, <1>7, <1>8, <1>9, <1>10, <1>11, <1>12, <1>13, <1>14, <1>15 DEF TypeInv

\* A crash only drops records.
LEMMA CrashCarries ==
  ASSUME TypeInv, TypeInv', Crash
  PROVE  Carries
<1> DEFINE F == Store(chunks, group.buf, call, worker)
           G == Store(chunks', group'.buf, call', worker')
<1>1. PICK k \in synced .. Len(Active) : \E torn \in BOOLEAN : k \in 0 .. Len(Active) /\ CrashTo(k, torn)
  BY CrashIs
<1>2. PICK torn \in BOOLEAN : k \in 0 .. Len(Active) /\ CrashTo(k, torn)
  BY <1>1
<1>3. k \in 0 .. Len(Active) /\ chunks' = Kept(k, torn)
  BY <1>2 DEF CrashTo
<1>4. Len(chunks') = Len(chunks)
  BY <1>3, KeptIs
<1>5. group'.buf = <<>> /\ \A t \in Callers : Held(call'[t]) = <<>>
  BY DEF Crash, NewGroup, Idle, Held
<1>6. Held(worker') = <<>>
  BY <1>2, Rests DEF CrashTo, Held
<1>7. \A c \in 1 .. Len(chunks) : <<"disk", c>> \in DOMAIN F /\ F[<<"disk", c>>] = chunks[c]
  BY LiveStores DEF IsStore
<1>8. /\ DOMAIN G = Places(chunks')
      /\ \A c \in 1 .. Len(chunks') : <<"disk", c>> \in DOMAIN G /\ G[<<"disk", c>>] = chunks'[c]
      /\ \A t \in Callers : <<"call", t>> \in DOMAIN G /\ G[<<"call", t>>] = Held(call'[t])
      /\ <<"buf", 0>> \in DOMAIN G /\ G[<<"buf", 0>>] = group'.buf
      /\ <<"work", 0>> \in DOMAIN G /\ G[<<"work", 0>>] = Held(worker')
  BY LiveStores DEF IsStore
<1> HIDE DEF F, G
<1>9. Parsed(<<>>) = {}
  BY DEF Parsed
<1>10. ASSUME NEW a \in DOMAIN G, NEW i \in Parsed(G[a])
       PROVE  a \in DOMAIN F /\ i \in Parsed(F[a]) /\ G[a][i] = F[a][i]
  <2>1. \/ \E c \in 1 .. Len(chunks') : a = <<"disk", c>>
        \/ \E t \in Callers : a = <<"call", t>>
        \/ a = <<"buf", 0>> \/ a = <<"work", 0>>
    BY <1>8 DEF Places
  <2>2. ASSUME NEW c \in 1 .. Len(chunks'), a = <<"disk", c>>
        PROVE  a \in DOMAIN F /\ i \in Parsed(F[a]) /\ G[a][i] = F[a][i]
    <3>1. G[a] = Kept(k, torn)[c] /\ c \in 1 .. Len(chunks)
      BY <1>3, <1>4, <1>8, <2>2
    <3>2. i \in Parsed(chunks[c]) /\ Kept(k, torn)[c][i] = chunks[c][i]
      BY <1>3, <3>1, KeptParsed
    <3>3. a \in DOMAIN F /\ F[a] = chunks[c]
      BY <1>7, <2>2, <3>1
    <3> QED BY <3>1, <3>2, <3>3
  <2>3. (\E t \in Callers : a = <<"call", t>>) \/ a = <<"buf", 0>> \/ a = <<"work", 0>> => G[a] = <<>>
    BY <1>5, <1>6, <1>8
  <2> QED BY <1>9, <2>1, <2>2, <2>3
<1>11. Recs(G) \subseteq Recs(F) /\ (Single(F) => Single(G))
  BY <1>10, StoreShrinks
<1> QED BY <1>11 DEF Carries, Live, F, G

\* The group commit when a record is logged.
LEMMA LogIs ==
  ASSUME TypeInv, NEW t \in Callers, NEW ws, NEW kept, LogAndTrigger(t, ws, kept)
  PROVE  /\ lsn' = lsn + 1
         /\ group'.buf = Append(group.buf, Data(lsn + 1, ws)) /\ group'.enqueued = group.enqueued + 1
         /\ group'.flushed = group.flushed /\ group'.leader = group.leader /\ group'.failed = group.failed
         /\ \A u \in Callers \ {t} : call'[u] = call[u]
         /\ \/ call' = call /\ Tell(ToSet(eng.tx.shadow), kept, "unknown")
            \/ /\ call'[t].at = "waiting" /\ call'[t].seq = group.enqueued + 1 /\ call'[t].ws = kept
               /\ Tell(ToSet(eng.tx.shadow), kept, "sent")
         /\ \/ /\ worker'.at = worker.at /\ worker'.snap = worker.snap /\ worker'.lsn = worker.lsn
               /\ worker'.batch = worker.batch /\ worker'.to = worker.to
            \/ /\ worker.at = "idle" /\ worker'.at = "pending" /\ worker'.snap = eng'.base /\ worker'.lsn = lsn + 1
<1>1. lsn \in Nat /\ group \in GroupT /\ call \in [Callers -> CallT] /\ worker \in WorkT
  BY DEF TypeInv
<1>2. /\ lsn' = lsn + 1
      /\ group'.buf = Append(group.buf, Data(lsn + 1, ws)) /\ group'.enqueued = group.enqueued + 1
      /\ group'.flushed = group.flushed /\ group'.leader = group.leader /\ group'.failed = group.failed
  BY <1>1 DEF LogAndTrigger, Enqueued, GroupT
<1>3. \/ worker' = [worker EXCEPT !.error = FALSE] /\ Tell(ToSet(eng.tx.shadow), kept, "unknown") /\ call' = call
      \/ /\ call' = [call EXCEPT ![t] = [Idle EXCEPT !.at = "waiting", !.seq = group.enqueued + 1, !.ws = kept]]
         /\ Tell(ToSet(eng.tx.shadow), kept, "sent")
         /\ \/ worker.at = "idle" /\ worker' = Job(eng'.base, lsn + 1)
            \/ worker' = worker
  BY DEF LogAndTrigger
<1>4. worker' = [worker EXCEPT !.error = FALSE]
        => /\ worker'.at = worker.at /\ worker'.snap = worker.snap /\ worker'.lsn = worker.lsn
           /\ worker'.batch = worker.batch /\ worker'.to = worker.to
  BY <1>1 DEF WorkT
<1>5. worker' = Job(eng'.base, lsn + 1)
        => worker'.at = "pending" /\ worker'.snap = eng'.base /\ worker'.lsn = lsn + 1
  BY <1>1 DEF WorkT, Job
<1>6. ASSUME call' = [call EXCEPT ![t] = [Idle EXCEPT !.at = "waiting", !.seq = group.enqueued + 1, !.ws = kept]]
      PROVE  /\ call'[t].at = "waiting" /\ call'[t].seq = group.enqueued + 1 /\ call'[t].ws = kept
             /\ \A u \in Callers \ {t} : call'[u] = call[u]
  BY <1>1, <1>6 DEF Idle
<1> HIDE DEF Tell
<1>7. CASE worker' = [worker EXCEPT !.error = FALSE] /\ Tell(ToSet(eng.tx.shadow), kept, "unknown") /\ call' = call
  BY <1>2, <1>4, <1>7
<1>8. CASE /\ call' = [call EXCEPT ![t] = [Idle EXCEPT !.at = "waiting", !.seq = group.enqueued + 1, !.ws = kept]]
           /\ Tell(ToSet(eng.tx.shadow), kept, "sent")
           /\ \/ worker.at = "idle" /\ worker' = Job(eng'.base, lsn + 1)
              \/ worker' = worker
  BY <1>2, <1>5, <1>6, <1>8
<1> QED BY <1>3, <1>7, <1>8

\* The clients that hear of a record are those of its writes.
Answers(ws, kept) == ToSet(eng.tx.shadow) \ kept = ws \ kept

\* Then Tell may be read as being about them.
LEMMA LogTells ==
  ASSUME TypeInv, NEW t \in Callers, NEW ws, NEW kept, LogAndTrigger(t, ws, kept), Answers(ws, kept)
  PROVE  \/ call' = call /\ Tell(ws, kept, "unknown")
         \/ /\ call'[t].at = "waiting" /\ call'[t].seq = group.enqueued + 1 /\ call'[t].ws = kept
            /\ Tell(ws, kept, "sent")
<1>1. \A w : w \notin kept => (w \in ToSet(eng.tx.shadow) <=> w \in ws)
  BY DEF Answers
<1>2. ASSUME NEW what, Tell(ToSet(eng.tx.shadow), kept, what) PROVE Tell(ws, kept, what)
  <2> DEFINE S == ToSet(eng.tx.shadow)
  <2>1. told' = [w \in Writes |-> IF w \in kept THEN what ELSE IF w \in S THEN "undone" ELSE told[w]]
    BY <1>2 DEF Tell
  <2>2. \A w : w \notin kept => (w \in S <=> w \in ws)
    BY <1>1
  <2> HIDE DEF S
  <2>3. told' = [w \in Writes |-> IF w \in kept THEN what ELSE IF w \in ws THEN "undone" ELSE told[w]]
    BY <2>1, <2>2
  <2> QED BY <2>3 DEF Tell
<1> HIDE DEF Tell
<1> QED BY <1>2, LogIs

\* A step under the database lock that logs nothing, and one that does.
Calm == UNCHANGED <<lsn, group, chunks, synced, file, call, worker, db>>

Logs(t, ws, kept) ==
  /\ Free(t) /\ UNCHANGED <<chunks, synced, file, front, db>>
  /\ LogAndTrigger(t, ws, kept)

Fresh == Cardinality({ v \in Writes : told[v] # "new" }) + 1

LogsStatement(t) ==
  /\ Fresh \in Writes /\ ~eng.tx.aborted /\ ~buffer.on
  /\ eng' = IF eng.tx.open THEN [eng EXCEPT !.tx.shadow = Append(@, Fresh)]
            ELSE [eng EXCEPT !.base = Plus(@, {Fresh})]
  /\ Logs(t, {Fresh}, {Fresh}) /\ UNCHANGED <<buffer, mishaps>>

Committing == IF eng.tx.open /\ ~eng.tx.aborted THEN ToSet(eng.tx.shadow) ELSE {}

LogsCommit(t) ==
  /\ eng' = [tx |-> NoTx, base |-> Plus(eng.base, Committing)] /\ buffer' = NoBuffer
  /\ mishaps' = mishaps \cup (IF eng.tx.aborted /\ ToSet(buffer.stmts) # {} THEN {"aborted"} ELSE {})
  /\ ToSet(buffer.stmts) # {}
  /\ Logs(t, ToSet(buffer.stmts), Committing)

\* A step under the database lock logs nothing, a statement or a COMMIT.
LEMMA DatabaseKinds ==
  ASSUME NEW t \in Callers, Database(t)
  PROVE  Calm \/ LogsStatement(t) \/ LogsCommit(t)
<1>1. CASE Statement(t)
  BY <1>1 DEF Statement, Calm, LogsStatement, Fresh, Logs, NoRecord
<1>2. CASE Commit(t)
  BY <1>2 DEF Commit, Calm, LogsCommit, Committing, Logs, NoRecord
<1>3. CASE FailStatement(t) \/ Begin(t) \/ NestedBegin(t) \/ RefuseCommit(t) \/ Rollback(t)
  BY <1>3 DEF FailStatement, Begin, NestedBegin, RefuseCommit, Rollback, Calm, logVars
<1>4. CASE \E n \in Names : Savepoint(t, n) \/ RollbackTo(t, n) \/ Release(t, n)
  BY <1>4 DEF Savepoint, RollbackTo, Release, Calm, logVars
<1>5. CASE Checkpoint(t)
  BY <1>5 DEF Checkpoint, Calm, logVars
<1> QED BY <1>1, <1>2, <1>3, <1>4, <1>5 DEF Database

---------------------------------------------------------------------------
(* Locks and sequence numbers.                                             *)

\* A step that hands nothing over.
LEMMA HandsKeep ==
  ASSUME TypeInv, TypeInv', HandsInv, file' = file, group'.leader = group.leader,
         group'.flushed = group.flushed,
         \A m \in Nat : m + Len(group.buf) <= group.enqueued => m + Len(group'.buf) <= group'.enqueued,
         \A t \in Callers : /\ call'[t].at = "written" <=> call[t].at = "written"
                            /\ Leads(call'[t]) <=> Leads(call[t])
                            /\ Holds(call'[t]) => Holds(call[t]) /\ call'[t].to = call[t].to,
         worker'.at = "written" <=> worker.at = "written",
         Holds(worker') => Holds(worker) /\ worker'.to = worker.to
  PROVE  HandsInv'
<1>1. /\ group.flushed \in Nat /\ worker.to \in Nat /\ \A t \in Callers : call[t].to \in Nat
  BY DEF TypeInv, GroupT, WorkT, CallT
<1>2. file' = { t \in Callers : call'[t].at = "written" } \cup (IF worker'.at = "written" THEN {"worker"} ELSE {})
  <2>1. { t \in Callers : call'[t].at = "written" } = { t \in Callers : call[t].at = "written" }
    OBVIOUS
  <2> QED BY <2>1 DEF HandsInv
<1>3. /\ \A t \in Callers : worker'.at = "written" => call'[t].at # "written"
      /\ \A t, u \in Callers : Leads(call'[t]) /\ Leads(call'[u]) => t = u
      /\ group'.leader <=> \E t \in Callers : Leads(call'[t])
  BY DEF HandsInv
<1>4. group'.flushed + Len(group'.buf) <= group'.enqueued
  BY <1>1 DEF HandsInv
<1>5. ASSUME NEW t \in Callers, Holds(call'[t]) PROVE call'[t].to + Len(group'.buf) <= group'.enqueued
  <2>1. call[t].to + Len(group.buf) <= group.enqueued
    BY <1>5 DEF HandsInv
  <2> QED BY <1>1, <1>5, <2>1
<1>6. Holds(worker') => worker'.to + Len(group'.buf) <= group'.enqueued
  BY <1>1 DEF HandsInv
<1> QED BY <1>2, <1>3, <1>4, <1>5, <1>6 DEF HandsInv

\* Database steps hand nothing over.
LEMMA DatabaseHands ==
  ASSUME TypeInv, TypeInv', HandsInv, NEW t \in Callers, Database(t)
  PROVE  HandsInv'
<1>1. /\ group.buf \in Seq(IntactT) /\ group.enqueued \in Nat /\ lsn \in Nat
      /\ call \in [Callers -> CallT] /\ call' \in [Callers -> CallT]
  BY DEF TypeInv, GroupT
<1>2. CASE Calm
  BY <1>1, <1>2, HandsKeep DEF Calm
<1>3. ASSUME NEW ws, NEW kept, Logs(t, ws, kept) PROVE HandsInv'
  <2>1. file' = file /\ call[t].at = "idle" /\ LogAndTrigger(t, ws, kept)
    BY <1>3 DEF Logs, Free
  <2> DEFINE r == Data(lsn + 1, ws)
  <2>2. /\ group'.buf = Append(group.buf, r) /\ group'.enqueued = group.enqueued + 1
        /\ group'.flushed = group.flushed /\ group'.leader = group.leader
        /\ \A u \in Callers \ {t} : call'[u] = call[u]
        /\ call' = call \/ call'[t].at = "waiting"
        /\ worker'.at = worker.at \/ (worker.at = "idle" /\ worker'.at = "pending")
        /\ worker'.at = worker.at => worker'.to = worker.to
    BY <2>1, LogIs
  <2> HIDE DEF r
  <2>3. Len(group'.buf) = Len(group.buf) + 1 /\ Len(group.buf) \in Nat
    BY <1>1, <2>2
  <2>4. \A m \in Nat : m + Len(group.buf) <= group.enqueued => m + Len(group'.buf) <= group'.enqueued
    BY <1>1, <2>2, <2>3
  <2>5. \A u \in Callers : /\ call'[u].at = "written" <=> call[u].at = "written"
                           /\ Leads(call'[u]) <=> Leads(call[u])
                           /\ Holds(call'[u]) => Holds(call[u]) /\ call'[u].to = call[u].to
    BY <2>1, <2>2 DEF Leads, Holds
  <2>6. /\ worker'.at = "written" <=> worker.at = "written"
        /\ Holds(worker') => Holds(worker) /\ worker'.to = worker.to
    BY <2>2 DEF Holds
  <2> QED BY <2>1, <2>2, <2>4, <2>5, <2>6, HandsKeep
<1> QED BY <1>2, <1>3, DatabaseKinds DEF LogsStatement, LogsCommit

\* The types of the fields the sequence numbers are in.
LEMMA Typed ==
  ASSUME TypeInv
  PROVE  /\ group \in GroupT /\ group.buf \in Seq(IntactT) /\ group.enqueued \in Nat /\ group.flushed \in Nat
         /\ Len(group.buf) \in Nat /\ call \in [Callers -> CallT] /\ worker \in WorkT
         /\ worker.to \in Nat /\ worker.lsn \in Nat /\ lsn \in Nat /\ worker.batch \in Seq(IntactT)
         /\ \A u \in Callers : /\ call[u] \in CallT /\ call[u].to \in Nat /\ call[u].seq \in Nat
                              /\ call[u].batch \in Seq(IntactT) /\ call[u].ws \in SUBSET Writes
<1>1. group \in GroupT /\ call \in [Callers -> CallT] /\ worker \in WorkT /\ lsn \in Nat
  BY DEF TypeInv
<1>2. group.buf \in Seq(IntactT) /\ group.enqueued \in Nat /\ group.flushed \in Nat
  BY <1>1 DEF GroupT
<1>3. worker.to \in Nat /\ worker.lsn \in Nat /\ worker.batch \in Seq(IntactT)
  BY <1>1 DEF WorkT
<1>4. ASSUME NEW u \in Callers
      PROVE  /\ call[u] \in CallT /\ call[u].to \in Nat /\ call[u].seq \in Nat
             /\ call[u].batch \in Seq(IntactT) /\ call[u].ws \in SUBSET Writes
  <2>1. call[u] \in CallT
    BY <1>1
  <2> QED BY <2>1 DEF CallT
<1>5. Len(group.buf) \in Nat
  BY <1>2
<1> QED BY <1>1, <1>2, <1>3, <1>4, <1>5

\* Two hands with the file lock at once would be a caller or the worker twice.
LEMMA NobodyWrites ==
  ASSUME HandsInv, file = {}
  PROVE  worker.at # "written" /\ \A t \in Callers : call[t].at # "written"
BY DEF HandsInv

\* wait_flushed.
LEMMA WaitHands ==
  ASSUME TypeInv, TypeInv', HandsInv, NEW t \in Callers, Wait(t)
  PROVE  HandsInv'
<1>1. /\ group \in GroupT /\ group' \in GroupT /\ group.buf \in Seq(IntactT) /\ group.enqueued \in Nat
      /\ group.flushed \in Nat /\ call \in [Callers -> CallT] /\ call' \in [Callers -> CallT] /\ worker \in WorkT
      /\ Len(group.buf) \in Nat /\ \A u \in Callers : call[u].to \in Nat
  <2>1. group' \in GroupT /\ call' \in [Callers -> CallT]
    BY DEF TypeInv
  <2> QED BY <2>1, Typed
<1>2. CASE Answer(t)
  <2>1. /\ file' = file /\ group' = group /\ worker' = worker /\ call[t].at = "waiting" /\ call'[t].at = "idle"
        /\ \A u \in Callers \ {t} : call'[u] = call[u]
    BY <1>1, <1>2, Rests DEF Answer, logVars
  <2>2. \A u \in Callers : /\ call'[u].at = "written" <=> call[u].at = "written"
                           /\ Leads(call'[u]) <=> Leads(call[u])
                           /\ Holds(call'[u]) => Holds(call[u]) /\ call'[u].to = call[u].to
    BY <2>1 DEF Leads, Holds
  <2> QED BY <2>1, <2>2, HandsKeep
<1>3. CASE Elect(t)
  <2>1. /\ file' = file /\ worker' = worker /\ call[t].at = "waiting" /\ call'[t].at = "elected"
        /\ \A u \in Callers \ {t} : call'[u] = call[u]
        /\ ~group.leader /\ group'.leader = TRUE /\ group'.buf = group.buf /\ group'.enqueued = group.enqueued
        /\ group'.flushed = group.flushed
    BY <1>1, <1>3 DEF Elect, GroupT, CallT
  <2>2. \A u \in Callers : /\ call'[u].at = "written" <=> call[u].at = "written"
                           /\ Leads(call'[u]) <=> u = t
                           /\ Holds(call'[u]) => Holds(call[u]) /\ call'[u].to = call[u].to
    BY <2>1 DEF Leads, Holds, HandsInv
  <2>3. { u \in Callers : call'[u].at = "written" } = { u \in Callers : call[u].at = "written" }
    BY <2>2
  <2> QED BY <2>1, <2>2, <2>3 DEF HandsInv
<1>4. CASE Take(t)
  <2>1. /\ file' = file /\ worker' = worker /\ call[t].at = "elected" /\ call'[t].at = "taken"
        /\ call'[t].to = group.enqueued
        /\ \A u \in Callers \ {t} : call'[u] = call[u]
        /\ group'.leader = group.leader /\ group'.buf = <<>> /\ group'.enqueued = group.enqueued
        /\ group'.flushed = group.flushed
    BY <1>1, <1>4 DEF Take, GroupT, CallT
  <2>2. \A u \in Callers : /\ call'[u].at = "written" <=> call[u].at = "written"
                           /\ Leads(call'[u]) <=> Leads(call[u])
                           /\ Holds(call'[u]) => u = t \/ (Holds(call[u]) /\ call'[u].to = call[u].to)
    BY <2>1 DEF Leads, Holds, HandsInv
  <2>3. { u \in Callers : call'[u].at = "written" } = { u \in Callers : call[u].at = "written" }
    BY <2>2
  <2>4. Len(group'.buf) = 0
    BY <2>1
  <2>5. \A m \in Nat : m + Len(group.buf) <= group.enqueued => m + Len(group'.buf) <= group'.enqueued
    BY <1>1, <2>1, <2>4
  <2>6. group.enqueued + Len(group'.buf) <= group'.enqueued
    BY <1>1, <2>1, <2>4
  <2>7. worker.to \in Nat
    BY <1>1 DEF WorkT
  <2>8. \A u \in Callers : Holds(call'[u]) => call'[u].to + Len(group'.buf) <= group'.enqueued
    BY <1>1, <2>1, <2>2, <2>5, <2>6 DEF HandsInv
  <2>9. /\ group'.flushed + Len(group'.buf) <= group'.enqueued
        /\ Holds(worker') => worker'.to + Len(group'.buf) <= group'.enqueued
    BY <1>1, <2>1, <2>5, <2>7 DEF HandsInv
  <2> QED BY <2>1, <2>2, <2>3, <2>8, <2>9 DEF HandsInv
<1>5. CASE Write(t)
  <2>1. /\ file = {} /\ file' = {t} /\ worker' = worker /\ group' = group
        /\ call[t].at = "taken" /\ call'[t].at = "written" /\ call'[t].to = call[t].to
        /\ \A u \in Callers \ {t} : call'[u] = call[u]
    BY <1>1, <1>5 DEF Write, WriteOut, CallT
  <2>2. worker.at # "written" /\ \A u \in Callers : call[u].at # "written"
    BY <2>1, NobodyWrites
  <2>3. \A u \in Callers : /\ call'[u].at = "written" <=> u = t
                           /\ Leads(call'[u]) <=> Leads(call[u])
                           /\ Holds(call'[u]) => Holds(call[u]) /\ call'[u].to = call[u].to
    BY <2>1, <2>2 DEF Leads, Holds
  <2>4. { u \in Callers : call'[u].at = "written" } = {t}
    BY <2>3
  <2> QED BY <2>1, <2>2, <2>3, <2>4 DEF HandsInv
<1>6. CASE Sync(t)
  <2>1. /\ file' = {} /\ worker' = worker /\ group' = group
        /\ call[t].at = "written" /\ call'[t].at = "synced" /\ call'[t].to = call[t].to
        /\ \A u \in Callers \ {t} : call'[u] = call[u]
    BY <1>1, <1>6 DEF Sync, SyncOut, CallT
  <2>2. worker.at # "written" /\ \A u \in Callers \ {t} : call[u].at # "written"
    BY <2>1 DEF HandsInv, Leads
  <2>3. \A u \in Callers : /\ call'[u].at # "written"
                           /\ Leads(call'[u]) <=> Leads(call[u])
                           /\ Holds(call'[u]) => Holds(call[u]) /\ call'[u].to = call[u].to
    BY <2>1, <2>2 DEF Leads, Holds
  <2>4. { u \in Callers : call'[u].at = "written" } = {}
    BY <2>3
  <2> QED BY <2>1, <2>2, <2>3, <2>4 DEF HandsInv
<1>7. CASE Flushed(t)
  <2>1. /\ file' = file /\ worker' = worker /\ call[t].at = "synced" /\ call'[t].at = "waiting"
        /\ \A u \in Callers \ {t} : call'[u] = call[u]
        /\ group'.leader = FALSE /\ group'.buf = group.buf /\ group'.enqueued = group.enqueued
        /\ group'.flushed = call[t].to
    BY <1>1, <1>7 DEF Flushed, GroupT, CallT
  <2>2. \A u \in Callers : /\ call'[u].at = "written" <=> call[u].at = "written"
                           /\ ~Leads(call'[u])
                           /\ ~Holds(call'[u])
    BY <2>1 DEF Leads, Holds, HandsInv
  <2>3. { u \in Callers : call'[u].at = "written" } = { u \in Callers : call[u].at = "written" }
    BY <2>2
  <2>4. Holds(call[t])
    BY <2>1 DEF Holds
  <2> QED BY <2>1, <2>2, <2>3, <2>4 DEF HandsInv
<1>8. CASE SyncFails(t)
  <2>1. /\ file' = {} /\ worker' = worker /\ call[t].at = "written" /\ call'[t].at = "waiting"
        /\ \A u \in Callers \ {t} : call'[u] = call[u]
        /\ group'.leader = FALSE /\ group'.buf = group.buf /\ group'.enqueued = group.enqueued
        /\ group'.flushed = group.flushed
    BY <1>1, <1>8 DEF SyncFails, GroupT, CallT
  <2>2. \A u \in Callers : /\ call'[u].at # "written"
                           /\ ~Leads(call'[u])
                           /\ ~Holds(call'[u])
    BY <2>1 DEF Leads, Holds, HandsInv
  <2>3. { u \in Callers : call'[u].at = "written" } = {} /\ worker.at # "written"
    BY <2>1, <2>2 DEF HandsInv
  <2> QED BY <2>1, <2>2, <2>3 DEF HandsInv
<1> QED BY <1>2, <1>3, <1>4, <1>5, <1>6, <1>7, <1>8 DEF Wait

\* The worker, and checkpoint().
LEMMA WorkHands ==
  ASSUME TypeInv, TypeInv', HandsInv, Capture \/ Return \/ Work
  PROVE  HandsInv'
<1>1. /\ group \in GroupT /\ group.buf \in Seq(IntactT) /\ group.enqueued \in Nat /\ group.flushed \in Nat
      /\ worker \in WorkT /\ worker.to \in Nat /\ Len(group.buf) \in Nat /\ lsn \in Nat
      /\ \A u \in Callers : call[u].to \in Nat
  BY Typed
<1>2. CASE Capture \/ Return \/ Rename \/ RenameFails \/ Rotate
  <2>1. file' = file /\ group' = group /\ call' = call
    BY <1>2 DEF Capture, Return, Rename, RenameFails, Rotate, logVars
  <2>2. worker.at # "written" /\ worker'.at # "written" /\ ~Holds(worker')
    BY <1>1, <1>2, Rests DEF Capture, Return, Rename, RenameFails, Rotate, Holds, WorkT, Job
  <2> QED BY <2>1, <2>2, HandsKeep
<1>3. CASE Mark
  <2>1. file' = file /\ call' = call /\ worker.at = "renamed" /\ worker'.at = "marked"
    BY <1>1, <1>3 DEF Mark, WorkT
  <2>2. /\ group'.leader = group.leader /\ group'.flushed = group.flushed /\ group'.enqueued = group.enqueued + 1
        /\ group'.buf = Append(group.buf, Marker(worker.lsn))
    BY <1>1, <1>3 DEF Mark, Enqueued, GroupT
  <2>3. Len(group'.buf) = Len(group.buf) + 1
    BY <1>1, <2>2
  <2>4. \A m \in Nat : m + Len(group.buf) <= group.enqueued => m + Len(group'.buf) <= group'.enqueued
    BY <1>1, <2>2, <2>3
  <2> QED BY <2>1, <2>2, <2>4, HandsKeep DEF Holds
<1>4. CASE FlushTake
  <2>1. file' = file /\ call' = call /\ worker.at = "marked"
    BY <1>4 DEF FlushTake
  <2>2. CASE group.failed
    <3>1. group' = group /\ worker'.at = "idle"
      BY <1>4, <2>2, Rests DEF FlushTake
    <3> QED BY <2>1, <3>1, HandsKeep DEF Holds
  <2>3. CASE ~group.failed
    <3>1. /\ group'.leader = group.leader /\ group'.flushed = group.flushed /\ group'.enqueued = group.enqueued
          /\ group'.buf = <<>>
      BY <1>1, <1>4, <2>3 DEF FlushTake, GroupT
    <3>2. worker'.at = "rotate" \/ (worker'.at = "taken" /\ worker'.to = group.enqueued)
      BY <1>1, <1>4, <2>3 DEF FlushTake, WorkT
    <3>3. Len(group'.buf) = 0
      BY <3>1
    <3>4. \A m \in Nat : m + Len(group.buf) <= group.enqueued => m + Len(group'.buf) <= group'.enqueued
      BY <1>1, <3>1, <3>3
    <3>5. group.enqueued + Len(group'.buf) <= group'.enqueued
      BY <1>1, <3>1, <3>3
    <3>6. /\ group'.flushed + Len(group'.buf) <= group'.enqueued
          /\ \A u \in Callers : Holds(call'[u]) => call'[u].to + Len(group'.buf) <= group'.enqueued
      BY <1>1, <2>1, <3>1, <3>4 DEF HandsInv
    <3>7. Holds(worker') => worker'.to + Len(group'.buf) <= group'.enqueued
      BY <3>2, <3>5 DEF Holds
    <3>8. worker'.at # "written"
      BY <3>2
    <3> QED BY <2>1, <3>1, <3>6, <3>7, <3>8 DEF HandsInv
  <2> QED BY <2>2, <2>3
<1>5. CASE FlushWrite
  <2>1. /\ file = {} /\ file' = {"worker"} /\ call' = call /\ group' = group /\ worker.at = "taken"
        /\ worker'.at = "written" /\ worker'.to = worker.to
    BY <1>1, <1>5 DEF FlushWrite, WriteOut, WorkT
  <2>2. \A u \in Callers : call[u].at # "written"
    BY <2>1, NobodyWrites
  <2>3. { u \in Callers : call'[u].at = "written" } = {}
    BY <2>1, <2>2
  <2> QED BY <2>1, <2>2, <2>3 DEF HandsInv, Holds
<1>6. CASE FlushSync
  <2>1. /\ file' = {} /\ call' = call /\ group' = group /\ worker.at = "written"
        /\ worker'.at = "synced" /\ worker'.to = worker.to
    BY <1>1, <1>6 DEF FlushSync, SyncOut, WorkT
  <2>2. { u \in Callers : call'[u].at = "written" } = {}
    BY <2>1 DEF HandsInv
  <2> QED BY <2>1, <2>2 DEF HandsInv, Holds
<1>7. CASE FlushDone
  <2>1. /\ file' = file /\ call' = call /\ worker.at = "synced" /\ worker'.at = "rotate"
        /\ group'.leader = group.leader /\ group'.buf = group.buf /\ group'.enqueued = group.enqueued
        /\ group'.flushed = worker.to
    BY <1>1, <1>7 DEF FlushDone, GroupT, WorkT
  <2> QED BY <2>1 DEF HandsInv, Holds
<1>8. CASE FlushFails
  <2>1. /\ file' = {} /\ call' = call /\ worker.at = "written" /\ worker'.at = "idle"
        /\ group'.leader = group.leader /\ group'.buf = group.buf /\ group'.enqueued = group.enqueued
        /\ group'.flushed = group.flushed
    BY <1>1, <1>8, Rests DEF FlushFails, GroupT, WorkT
  <2>2. { u \in Callers : call'[u].at = "written" } = {}
    BY <2>1 DEF HandsInv
  <2> QED BY <2>1, <2>2 DEF HandsInv, Holds
<1> QED BY <1>2, <1>3, <1>4, <1>5, <1>6, <1>7, <1>8 DEF Work

\* Nobody is at work in a new process.
LEMMA RestHands ==
  ASSUME NEW g, NEW f, NEW cl, NEW wk, g = NewGroup, f = {}, cl = [t \in Callers |-> Idle],
         wk.at \in {"idle", "pending"}
  PROVE  /\ f = { t \in Callers : cl[t].at = "written" } \cup (IF wk.at = "written" THEN {"worker"} ELSE {})
         /\ \A t \in Callers : cl[t].at = "idle" /\ ~Leads(cl[t]) /\ ~Holds(cl[t])
         /\ ~Holds(wk) /\ wk.at # "written" /\ ~g.leader
         /\ g.flushed + Len(g.buf) <= g.enqueued
<1>1. \A t \in Callers : cl[t].at = "idle"
  BY DEF Idle
<1>2. { t \in Callers : cl[t].at = "written" } = {}
  BY <1>1
<1>3. ~g.leader /\ g.flushed = 0 /\ g.enqueued = 0 /\ g.buf = <<>>
  BY DEF NewGroup
<1>4. Len(g.buf) = 0
  BY <1>3
<1>5. g.flushed + Len(g.buf) <= g.enqueued
  BY <1>3, <1>4
<1> QED BY <1>1, <1>2, <1>3, <1>5 DEF Leads, Holds

\* A crash leaves nobody in the group commit.
LEMMA CrashHands ==
  ASSUME TypeInv, Crash
  PROVE  HandsInv'
<1>1. PICK k \in synced .. Len(Active) : \E torn \in BOOLEAN : k \in 0 .. Len(Active) /\ CrashTo(k, torn)
  BY CrashIs
<1>2. PICK torn \in BOOLEAN : k \in 0 .. Len(Active) /\ CrashTo(k, torn)
  BY <1>1
<1>3. worker'.at \in {"idle", "pending"}
  BY <1>2, Rests DEF CrashTo, NoJob
<1>4. group' = NewGroup /\ file' = {} /\ call' = [t \in Callers |-> Idle]
  BY DEF Crash
<1> QED BY <1>3, <1>4, RestHands DEF HandsInv

---------------------------------------------------------------------------
(* Savepoint stacks.                                                       *)

\* Taking one element out.
LEMMA RemoveAtIs ==
  ASSUME NEW R, NEW s \in Seq(R), NEW i \in 1 .. Len(s)
  PROVE  /\ RemoveAt(s, i) \in Seq(R) /\ Len(RemoveAt(s, i)) = Len(s) - 1
         /\ \A x \in 1 .. (Len(s) - 1) :
              /\ x < i => RemoveAt(s, i)[x] = s[x]
              /\ x >= i => RemoveAt(s, i)[x] = s[x + 1]
<1> DEFINE a == SubSeq(s, 1, i - 1)
           b == SubSeq(s, i + 1, Len(s))
<1>1. Len(s) \in Nat /\ i \in Nat
  OBVIOUS
<1>2. a \in Seq(R) /\ Len(a) = i - 1 /\ \A x \in 1 .. (i - 1) : a[x] = s[x]
  BY <1>1
<1>3. b \in Seq(R) /\ Len(b) = Len(s) - i /\ \A x \in 1 .. (Len(s) - i) : b[x] = s[i + x]
  BY <1>1
<1>4. RemoveAt(s, i) = a \o b
  BY DEF RemoveAt
<1> HIDE DEF a, b
<1>5. /\ a \o b \in Seq(R) /\ Len(a \o b) = Len(a) + Len(b)
      /\ \A x \in 1 .. Len(a) : (a \o b)[x] = a[x]
      /\ \A x \in 1 .. Len(b) : (a \o b)[Len(a) + x] = b[x]
  <2>1. a \in Seq(R) /\ b \in Seq(R)
    BY <1>2, <1>3
  <2> QED BY ONLY <2>1
<1>6. Len(a \o b) = Len(s) - 1
  BY <1>1, <1>2, <1>3, <1>5
<1>7. ASSUME NEW x \in 1 .. (Len(s) - 1), x < i PROVE (a \o b)[x] = s[x]
  <2>1. x \in 1 .. (i - 1)
    BY <1>1, <1>7
  <2> QED BY <1>2, <1>5, <2>1
<1>8. ASSUME NEW x \in 1 .. (Len(s) - 1), x >= i PROVE (a \o b)[x] = s[x + 1]
  <2> DEFINE y == x - (i - 1)
  <2>1. y \in 1 .. (Len(s) - i) /\ x = Len(a) + y /\ i + y = x + 1 /\ y \in 1 .. Len(b)
    BY <1>1, <1>2, <1>3, <1>8
  <2> HIDE DEF y
  <2>2. (a \o b)[Len(a) + y] = b[y] /\ b[y] = s[i + y]
    BY <1>3, <1>5, <2>1
  <2> QED BY <2>1, <2>2
<1> QED BY <1>4, <1>5, <1>6, <1>7, <1>8

\* P is st without its entry i, or st itself when i is past its end, and one
\* entry more.
Pushed(P, st, i, n, v) ==
  /\ IF i <= Len(st) THEN i \in Place(st, n) /\ Len(P) = Len(st)
     ELSE Place(st, n) = {} /\ Len(P) = Len(st) + 1
  /\ P[Len(P)] = [name |-> n, at |-> v]
  /\ \A x \in 1 .. (Len(P) - 1) :
       /\ x < i => x \in 1 .. Len(st) /\ P[x] = st[x]
       /\ x >= i => x + 1 \in 1 .. Len(st) /\ P[x] = st[x + 1]

\* Push drops the old savepoint of the name, if any, and appends the new one.
LEMMA PushIs ==
  ASSUME NEW T, NEW st \in StackT(T), NEW n \in Names, NEW v \in T
  PROVE  \E i \in 1 .. (Len(st) + 1) : Pushed(Push(st, n, v), st, i, n, v)
<1> DEFINE R == [name : Names, at : T]
           e == [name |-> n, at |-> v]
           P == Push(st, n, v)
<1>1. st \in Seq(R) /\ e \in R /\ Len(st) \in Nat
  BY DEF StackT
<1>2. CASE Place(st, n) = {}
  <2>1. P = Append(st, e)
    BY <1>2 DEF Push
  <2> HIDE DEF R, e, P
  <2>2. Len(P) = Len(st) + 1 /\ P[Len(st) + 1] = e /\ \A x \in 1 .. Len(st) : P[x] = st[x]
    BY <1>1, <2>1
  <2> DEFINE m == Len(st) + 1
  <2>3. m \in 1 .. (Len(st) + 1) /\ ~(m <= Len(st)) /\ Len(P) = m /\ P[Len(P)] = e
        /\ \A x \in 1 .. (Len(P) - 1) : x < m /\ x \in 1 .. Len(st) /\ ~(x >= m)
    BY <1>1, <2>2
  <2>4. \A x \in 1 .. (Len(P) - 1) : P[x] = st[x]
    BY <2>2, <2>3
  <2> HIDE DEF m
  <2>5. Pushed(P, st, m, n, v)
    BY <1>2, <2>2, <2>3, <2>4 DEF Pushed, m, e
  <2> QED BY <2>3, <2>5 DEF P
<1>3. CASE Place(st, n) # {}
  <2> DEFINE i == CHOOSE j \in Place(st, n) : TRUE
             s == RemoveAt(st, i)
  <2>1. P = Append(s, e) /\ i \in Place(st, n)
    BY <1>3 DEF Push
  <2> HIDE DEF i, R, e, P
  <2>2. i \in 1 .. Len(st)
    BY <1>1, <2>1 DEF Place
  <2>3. /\ s \in Seq(R) /\ Len(s) = Len(st) - 1
        /\ \A x \in 1 .. (Len(st) - 1) : (x < i => s[x] = st[x]) /\ (x >= i => s[x] = st[x + 1])
    BY <1>1, <2>2, RemoveAtIs
  <2> HIDE DEF s
  <2>4. Len(P) = Len(s) + 1 /\ P[Len(s) + 1] = e /\ \A x \in 1 .. Len(s) : P[x] = s[x]
    BY <1>1, <2>1, <2>3
  <2>5. Len(P) = Len(st) /\ P[Len(P)] = e
    BY <1>1, <2>3, <2>4
  <2>6. \A x \in 1 .. (Len(P) - 1) : x \in 1 .. (Len(st) - 1) /\ x \in 1 .. Len(s) /\ x \in 1 .. Len(st) /\ x + 1 \in 1 .. Len(st)
    BY <1>1, <2>3, <2>5
  <2>7. \A x \in 1 .. (Len(P) - 1) : (x < i => P[x] = st[x]) /\ (x >= i => P[x] = st[x + 1])
    BY <2>3, <2>4, <2>6
  <2>8. i <= Len(st) /\ i \in 1 .. (Len(st) + 1)
    BY <1>1, <2>2
  <2>9. Pushed(P, st, i, n, v)
    BY <2>1, <2>5, <2>6, <2>7, <2>8 DEF Pushed, e
  <2> QED BY <2>8, <2>9 DEF P
<1> QED BY <1>2, <1>3

\* Pushing on a stack that has a name once.
Once(st) == \A j, l \in DOMAIN st : st[j].name = st[l].name => j = l

\* With one savepoint of a name at most, Push keeps the others in order.
LEMMA PushNamed ==
  ASSUME NEW T, NEW st \in StackT(T), NEW n \in Names, NEW v \in T, Once(st), NEW P, P = Push(st, n, v)
  PROVE  /\ P \in StackT(T) /\ Len(P) \in Nat /\ Len(P) >= 1 /\ P[Len(P)].name = n /\ P[Len(P)].at = v
         /\ \A x \in 1 .. (Len(P) - 1) : P[x].name # n /\ \E y \in DOMAIN st : P[x] = st[y]
         /\ \A y \in DOMAIN st : st[y].name # n => \E x \in 1 .. (Len(P) - 1) : P[x] = st[y]
         /\ \A x, z \in 1 .. (Len(P) - 1) : \A j, l \in DOMAIN st :
              st[j].name = P[x].name /\ st[l].name = P[z].name => (x < z <=> j < l)
<1>1. PICK i \in 1 .. (Len(st) + 1) : Pushed(P, st, i, n, v)
  BY PushIs
<1>2. st \in Seq([name : Names, at : T]) /\ Len(st) \in Nat /\ DOMAIN st = 1 .. Len(st) /\ i \in Nat
  BY DEF StackT
<1>3. P \in StackT(T)
  BY PushType
<1>4. /\ IF i <= Len(st) THEN i \in Place(st, n) /\ Len(P) = Len(st)
         ELSE Place(st, n) = {} /\ Len(P) = Len(st) + 1
      /\ P[Len(P)] = [name |-> n, at |-> v]
  BY <1>1 DEF Pushed
<1>5. Len(P) \in Nat /\ Len(P) >= 1
  BY <1>2, <1>4
<1> DEFINE f(x) == IF x < i THEN x ELSE x + 1
<1>6. \A x \in 1 .. (Len(P) - 1) : f(x) \in DOMAIN st /\ P[x] = st[f(x)] /\ f(x) # i
  <2>1. SUFFICES ASSUME NEW x \in 1 .. (Len(P) - 1) PROVE f(x) \in DOMAIN st /\ P[x] = st[f(x)] /\ f(x) # i
    OBVIOUS
  <2>2. /\ x < i => x \in 1 .. Len(st) /\ P[x] = st[x]
        /\ x >= i => x + 1 \in 1 .. Len(st) /\ P[x] = st[x + 1]
    BY <1>1 DEF Pushed
  <2>3. x \in Nat /\ (x < i \/ x >= i)
    BY <1>2, <1>5
  <2> QED BY <1>2, <2>2, <2>3
<1>7. \A y \in DOMAIN st : st[y].name = n <=> y = i /\ i <= Len(st)
  BY <1>2, <1>4 DEF Place, Once
<1>8. \A y \in DOMAIN st : y # i => \E x \in 1 .. (Len(P) - 1) : f(x) = y
  <2>1. SUFFICES ASSUME NEW y \in DOMAIN st, y # i PROVE \E x \in 1 .. (Len(P) - 1) : f(x) = y
    OBVIOUS
  <2>2. CASE y < i
    <3>1. y \in 1 .. (Len(P) - 1) /\ f(y) = y
      BY <1>2, <1>4, <2>1, <2>2
    <3> QED BY <3>1
  <2>3. CASE y > i
    <3>1. y - 1 \in 1 .. (Len(P) - 1) /\ f(y - 1) = y
      BY <1>2, <1>4, <2>1, <2>3
    <3> QED BY <3>1
  <2> QED BY <1>2, <2>1, <2>2, <2>3
<1>9. \A x, z \in 1 .. (Len(P) - 1) : f(x) < f(z) <=> x < z
  BY <1>2, <1>5
<1> HIDE DEF f
<1>10. \A x \in 1 .. (Len(P) - 1) : P[x].name # n
  BY <1>6, <1>7
<1>11. \A y \in DOMAIN st : st[y].name # n => \E x \in 1 .. (Len(P) - 1) : P[x] = st[y]
  <2>1. SUFFICES ASSUME NEW y \in DOMAIN st, st[y].name # n PROVE \E x \in 1 .. (Len(P) - 1) : P[x] = st[y]
    OBVIOUS
  <2>2. y # i
    <3>1. y = i => i <= Len(st)
      BY <1>2
    <3> QED BY <1>7, <2>1, <3>1
  <2> QED BY <1>6, <1>8, <2>2
<1>12. \A x, z \in 1 .. (Len(P) - 1) : \A j, l \in DOMAIN st :
         st[j].name = P[x].name /\ st[l].name = P[z].name => (x < z <=> j < l)
  <2>1. SUFFICES ASSUME NEW x \in 1 .. (Len(P) - 1), NEW z \in 1 .. (Len(P) - 1), NEW j \in DOMAIN st, NEW l \in DOMAIN st,
                        st[j].name = P[x].name, st[l].name = P[z].name
                 PROVE  x < z <=> j < l
    OBVIOUS
  <2>2. j = f(x) /\ l = f(z)
    BY <1>6, <2>1 DEF Once
  <2> QED BY <1>9, <2>2
<1>13. \A x \in 1 .. (Len(P) - 1) : \E y \in DOMAIN st : P[x] = st[y]
  BY <1>6
<1> QED BY <1>3, <1>4, <1>5, <1>10, <1>11, <1>12, <1>13

---------------------------------------------------------------------------
(* The buffer follows the engine.                                          *)

\* What a stack of savepoints is.
LEMMA BufferIs ==
  ASSUME TypeInv
  PROVE  /\ buffer.stmts \in Seq(Writes) /\ Len(buffer.stmts) \in Nat /\ buffer.marks \in StackT(Nat)
         /\ DOMAIN buffer.marks = 1 .. Len(buffer.marks) /\ Len(buffer.marks) \in Nat
         /\ \A j \in 1 .. Len(buffer.marks) : buffer.marks[j].at \in Nat
         /\ eng.tx.shadow \in Seq(Writes) /\ eng.tx.saves \in StackT(Seq(Writes))
         /\ DOMAIN eng.tx.saves = 1 .. Len(eng.tx.saves) /\ Len(eng.tx.saves) \in Nat
         /\ \A j \in 1 .. Len(eng.tx.saves) : eng.tx.saves[j].at \in Seq(Writes)
         /\ eng.base \in Databases /\ eng.tx \in TxT
<1>1. /\ buffer.stmts \in Seq(Writes) /\ Len(buffer.stmts) \in Nat /\ buffer.marks \in Seq([name : Names, at : Nat])
      /\ eng.tx \in TxT /\ eng.base \in Databases
  BY DEF TypeInv, StackT
<1>2. eng.tx.shadow \in Seq(Writes) /\ eng.tx.saves \in Seq([name : Names, at : Seq(Writes)])
  BY <1>1 DEF TxT, StackT
<1>0. \A R : \A s \in Seq(R) : \A j \in 1 .. Len(s) : s[j] \in R
  OBVIOUS
<1>3. \A j \in 1 .. Len(buffer.marks) : buffer.marks[j] \in [name : Names, at : Nat]
  BY <1>0, <1>1, Zenon
<1>4. \A j \in 1 .. Len(eng.tx.saves) : eng.tx.saves[j] \in [name : Names, at : Seq(Writes)]
  BY <1>0, <1>2, Zenon
<1>5. /\ DOMAIN buffer.marks = 1 .. Len(buffer.marks) /\ Len(buffer.marks) \in Nat
      /\ DOMAIN eng.tx.saves = 1 .. Len(eng.tx.saves) /\ Len(eng.tx.saves) \in Nat
  BY <1>1, <1>2
<1> QED BY <1>1, <1>2, <1>3, <1>4, <1>5 DEF StackT

\* The marks lie in the buffer, in order.
LEMMA DatabaseMarks ==
  ASSUME TypeInv, MarksInv, NEW t \in Callers, Database(t)
  PROVE  MarksInv'
<1>1. /\ buffer \in [on : BOOLEAN, stmts : Seq(Writes), marks : StackT(Nat)]
      /\ buffer.stmts \in Seq(Writes) /\ Len(buffer.stmts) \in Nat /\ buffer.marks \in StackT(Nat)
      /\ DOMAIN buffer.marks = 1 .. Len(buffer.marks) /\ Len(buffer.marks) \in Nat
      /\ \A j \in 1 .. Len(buffer.marks) : buffer.marks[j].at \in Nat
  BY BufferIs DEF TypeInv
<1>2. CASE buffer' = buffer
  BY <1>2 DEF MarksInv
<1>3. CASE buffer' = NoBuffer \/ buffer' = [NoBuffer EXCEPT !.on = TRUE]
  <2>1. buffer'.marks = <<>>
    BY <1>3 DEF NoBuffer
  <2>2. DOMAIN buffer'.marks = {}
    BY <2>1
  <2> QED BY <2>2 DEF MarksInv
<1>4. ASSUME NEW w \in Writes, buffer' = [buffer EXCEPT !.stmts = Append(@, w)] PROVE MarksInv'
  <2>1. buffer'.marks = buffer.marks /\ Len(buffer'.stmts) = Len(buffer.stmts) + 1
    BY <1>1, <1>4
  <2>2. \A m \in Nat : m <= Len(buffer.stmts) => m <= Len(buffer'.stmts)
    BY <1>1, <2>1
  <2> QED BY <1>1, <2>1, <2>2 DEF MarksInv
<1>5. ASSUME NEW n \in Names, Savepoint(t, n) PROVE MarksInv'
  <2> DEFINE P == Push(buffer.marks, n, Len(buffer.stmts))
  <2>1. buffer' = [buffer EXCEPT !.marks = P]
    BY <1>5 DEF Savepoint
  <2>2. buffer'.stmts = buffer.stmts /\ buffer'.marks = P
    BY <1>1, <2>1
  <2>3. PICK i \in 1 .. (Len(buffer.marks) + 1) : Pushed(P, buffer.marks, i, n, Len(buffer.stmts))
    BY <1>1, PushIs
  <2>4. P \in StackT(Nat)
    BY <1>1, PushType
  <2> HIDE DEF P
  <2>5. DOMAIN P = 1 .. Len(P) /\ Len(P) \in Nat
    BY <2>4 DEF StackT
  <2>6. /\ P[Len(P)].at = Len(buffer.stmts)
        /\ \A x \in 1 .. (Len(P) - 1) :
             /\ x < i => x \in 1 .. Len(buffer.marks) /\ P[x] = buffer.marks[x]
             /\ x >= i => x + 1 \in 1 .. Len(buffer.marks) /\ P[x] = buffer.marks[x + 1]
    BY <2>3 DEF Pushed
  <2> DEFINE f(x) == IF x < i THEN x ELSE x + 1
  <2>7. ASSUME NEW x \in 1 .. (Len(P) - 1) PROVE f(x) \in 1 .. Len(buffer.marks) /\ P[x] = buffer.marks[f(x)]
    <3>1. x < i \/ x >= i
      BY <1>1, <2>5
    <3>2. CASE x < i
      BY <2>6, <3>2
    <3>3. CASE x >= i
      <4>1. ~(x < i)
        BY <1>1, <2>5, <3>3
      <4> QED BY <2>6, <3>3, <4>1
    <3> QED BY <3>1, <3>2, <3>3
  <2>8. \A x, z \in 1 .. (Len(P) - 1) : x < z => f(x) < f(z)
    BY <1>1, <2>5
  <2> HIDE DEF f
  <2>9. \A x \in 1 .. (Len(P) - 1) : P[x].at <= Len(buffer.stmts)
    BY <1>1, <2>7 DEF MarksInv
  <2>10. \A x, z \in 1 .. (Len(P) - 1) : x < z => P[x].at <= P[z].at
    BY <1>1, <2>7, <2>8 DEF MarksInv
  <2>11. \A x \in 1 .. Len(P) : x = Len(P) \/ x \in 1 .. (Len(P) - 1)
    <3>1. \A m \in Nat : \A x \in 1 .. m : x = m \/ x \in 1 .. (m - 1)
      OBVIOUS
    <3> QED BY <2>5, <3>1, Zenon
  <2>12. \A x \in 1 .. Len(P) : P[x].at <= Len(buffer.stmts)
    BY <1>1, <2>6, <2>9, <2>11
  <2>13. ASSUME NEW x \in 1 .. Len(P), NEW z \in 1 .. Len(P), x < z PROVE P[x].at <= P[z].at
    <3>1. CASE z = Len(P)
      BY <2>6, <2>12, <3>1
    <3>2. CASE z \in 1 .. (Len(P) - 1)
      <4>1. x \in 1 .. (Len(P) - 1)
        BY <2>5, <2>13, <3>2
      <4> QED BY <2>10, <2>13, <3>2, <4>1
    <3> QED BY <2>11, <3>1, <3>2
  <2> QED BY <2>2, <2>5, <2>12, <2>13 DEF MarksInv
<1>6. ASSUME NEW n \in Names, RollbackTo(t, n), Place(buffer.marks, n) # {} PROVE MarksInv'
  <2> DEFINE i == CHOOSE j \in Place(buffer.marks, n) : TRUE
  <2>1. /\ buffer' = [buffer EXCEPT !.stmts = SubSeq(@, 1, buffer.marks[i].at), !.marks = SubSeq(@, 1, i)]
        /\ i \in Place(buffer.marks, n)
    BY <1>6 DEF RollbackTo
  <2> HIDE DEF i
  <2>2. buffer'.stmts = SubSeq(buffer.stmts, 1, buffer.marks[i].at) /\ buffer'.marks = SubSeq(buffer.marks, 1, i)
    BY <1>1, <2>1
  <2>3. /\ i \in 1 .. Len(buffer.marks) /\ SubSeq(buffer.marks, 1, i) \in StackT(Nat)
        /\ Len(SubSeq(buffer.marks, 1, i)) = i
        /\ \A j \in 1 .. i : SubSeq(buffer.marks, 1, i)[j] = buffer.marks[j]
    BY <1>1, <2>1, StackCut
  <2>4. DOMAIN buffer'.marks = 1 .. i
    BY <2>2, <2>3 DEF StackT
  <2>5. buffer.marks[i].at \in 0 .. Len(buffer.stmts)
    BY <1>1, <2>3 DEF MarksInv
  <2>6. Len(buffer'.stmts) = buffer.marks[i].at
    BY <1>1, <2>2, <2>5
  <2>7. \A j \in 1 .. i : j \in 1 .. Len(buffer.marks) /\ (j < i \/ j = i)
    BY <1>1, <2>3
  <2>8. ASSUME NEW j \in 1 .. i PROVE buffer.marks[j].at <= buffer.marks[i].at
    <3>1. CASE j = i
      BY <2>5, <3>1
    <3>2. CASE j < i
      BY <1>1, <2>3, <2>7, <3>2 DEF MarksInv
    <3> QED BY <2>7, <3>1, <3>2
  <2>9. \A j \in DOMAIN buffer'.marks : buffer'.marks[j].at <= Len(buffer'.stmts)
    BY <2>2, <2>3, <2>4, <2>6, <2>8
  <2>10. \A j, l \in DOMAIN buffer'.marks : j < l => buffer'.marks[j].at <= buffer'.marks[l].at
    BY <1>1, <2>2, <2>3, <2>4, <2>7 DEF MarksInv
  <2> QED BY <2>9, <2>10 DEF MarksInv
<1>7. CASE Statement(t)
  BY <1>2, <1>4, <1>7 DEF Statement
<1>8. CASE FailStatement(t) \/ RefuseCommit(t) \/ Checkpoint(t)
  BY <1>2, <1>8 DEF FailStatement, RefuseCommit, Checkpoint
<1>9. CASE Begin(t) \/ NestedBegin(t) \/ Commit(t) \/ Rollback(t)
  BY <1>3, <1>9 DEF Begin, NestedBegin, Commit, Rollback
<1>10. ASSUME NEW n \in Names, RollbackTo(t, n) \/ Release(t, n) PROVE MarksInv'
  BY <1>2, <1>6, <1>10 DEF RollbackTo, Release
<1> QED BY <1>5, <1>7, <1>8, <1>9, <1>10 DEF Database

\* Empty stacks follow each other.
LEMMA FollowsEmpty == \A s : Follows(<<>>, <<>>, s)
BY DEF Follows

\* Sequences that begin alike.
LEMMA SameBeginning ==
  ASSUME NEW a \in Seq(Writes), NEW b \in Seq(Writes), NEW k \in 0 .. Len(a), k \in 0 .. Len(b),
         \A x \in 1 .. k : a[x] = b[x]
  PROVE  SubSeq(a, 1, k) = SubSeq(b, 1, k)
<1>1. /\ SubSeq(a, 1, k) \in Seq(Writes) /\ Len(SubSeq(a, 1, k)) = k /\ \A x \in 1 .. k : SubSeq(a, 1, k)[x] = a[x]
  OBVIOUS
<1>2. /\ SubSeq(b, 1, k) \in Seq(Writes) /\ Len(SubSeq(b, 1, k)) = k /\ \A x \in 1 .. k : SubSeq(b, 1, k)[x] = b[x]
  OBVIOUS
<1> QED BY <1>1, <1>2

\* A statement more.
LEMMA FollowsGrows ==
  ASSUME TypeInv, Follows(eng.tx.saves, buffer.marks, buffer.stmts), NEW w \in Writes
  PROVE  Follows(eng.tx.saves, buffer.marks, Append(buffer.stmts, w))
<1> DEFINE s == buffer.stmts
           A == Append(buffer.stmts, w)
<1>1. s \in Seq(Writes) /\ Len(s) \in Nat /\ \A j \in DOMAIN buffer.marks : buffer.marks[j].at \in Nat
  BY BufferIs
<1>2. A \in Seq(Writes) /\ Len(A) = Len(s) + 1 /\ \A x \in 1 .. Len(s) : A[x] = s[x]
  BY <1>1
<1>3. ASSUME NEW m \in Nat, m <= Len(s) PROVE m <= Len(A) /\ SubSeq(A, 1, m) = SubSeq(s, 1, m)
  <2>1. m \in 0 .. Len(s) /\ m \in 0 .. Len(A)
    BY <1>1, <1>2, <1>3
  <2>4. \A x \in 1 .. m : A[x] = s[x]
    BY <1>2, <2>1
  <2> QED BY <1>1, <1>2, <2>1, <2>4, SameBeginning
<1> HIDE DEF s, A
<1>4. Follows(eng.tx.saves, buffer.marks, s)
  BY DEF s
<1>5. Follows(eng.tx.saves, buffer.marks, A)
  BY <1>1, <1>3, <1>4 DEF Follows
<1> QED BY <1>5 DEF A

\* SAVEPOINT keeps the two stacks in step.
LEMMA FollowsPush ==
  ASSUME NEW saves \in StackT(Seq(Writes)), NEW marks \in StackT(Nat), NEW s \in Seq(Writes), NEW n \in Names,
         Follows(saves, marks, s)
  PROVE  Follows(Push(saves, n, s), Push(marks, n, Len(s)), s)
<1> DEFINE P == Push(saves, n, s)
           Q == Push(marks, n, Len(s))
<1>1. /\ \A j, l \in DOMAIN marks : marks[j].name = marks[l].name => j = l
      /\ \A i \in DOMAIN saves : \E j \in DOMAIN marks : marks[j].name = saves[i].name
      /\ \A i \in DOMAIN saves, j \in DOMAIN marks : marks[j].name = saves[i].name
           => marks[j].at <= Len(s) /\ saves[i].at = SubSeq(s, 1, marks[j].at)
      /\ \A i, k \in DOMAIN saves, j, l \in DOMAIN marks :
           i < k /\ marks[j].name = saves[i].name /\ marks[l].name = saves[k].name => j < l
  BY DEF Follows
<1>2. Once(marks)
  BY <1>1 DEF Once
<1>3. /\ saves \in Seq([name : Names, at : Seq(Writes)]) /\ DOMAIN saves = 1 .. Len(saves) /\ Len(saves) \in Nat
      /\ marks \in Seq([name : Names, at : Nat]) /\ DOMAIN marks = 1 .. Len(marks) /\ Len(marks) \in Nat
  BY DEF StackT
<1>4. Once(saves)
  <2>1. SUFFICES ASSUME NEW i \in DOMAIN saves, NEW k \in DOMAIN saves, saves[i].name = saves[k].name PROVE i = k
    BY DEF Once
  <2>2. PICK j \in DOMAIN marks : marks[j].name = saves[i].name
    BY <1>1
  <2>3. ~(j < j)
    BY <1>3
  <2>4. ~(i < k) /\ ~(k < i)
    BY <1>1, <2>1, <2>2, <2>3
  <2> QED BY <1>3, <2>4
<1>5. Len(s) \in Nat /\ SubSeq(s, 1, Len(s)) = s
  OBVIOUS
<1>6. /\ P \in StackT(Seq(Writes)) /\ Len(P) \in Nat /\ Len(P) >= 1 /\ P[Len(P)].name = n /\ P[Len(P)].at = s
      /\ \A x \in 1 .. (Len(P) - 1) : P[x].name # n /\ \E y \in DOMAIN saves : P[x] = saves[y]
      /\ \A x, z \in 1 .. (Len(P) - 1) : \A j, l \in DOMAIN saves :
           saves[j].name = P[x].name /\ saves[l].name = P[z].name => (x < z <=> j < l)
  BY <1>4, PushNamed
<1>7. /\ Q \in StackT(Nat) /\ Len(Q) \in Nat /\ Len(Q) >= 1 /\ Q[Len(Q)].name = n /\ Q[Len(Q)].at = Len(s)
      /\ \A x \in 1 .. (Len(Q) - 1) : Q[x].name # n /\ \E y \in DOMAIN marks : Q[x] = marks[y]
      /\ \A y \in DOMAIN marks : marks[y].name # n => \E x \in 1 .. (Len(Q) - 1) : Q[x] = marks[y]
      /\ \A x, z \in 1 .. (Len(Q) - 1) : \A j, l \in DOMAIN marks :
           marks[j].name = Q[x].name /\ marks[l].name = Q[z].name => (x < z <=> j < l)
  BY <1>2, <1>5, PushNamed
<1> HIDE DEF P, Q
<1>8. DOMAIN P = 1 .. Len(P) /\ DOMAIN Q = 1 .. Len(Q)
  BY <1>6, <1>7 DEF StackT
<1>9. \A m \in Nat : \A x \in 1 .. m : x = m \/ x \in 1 .. (m - 1)
  OBVIOUS
<1>10. /\ \A x \in DOMAIN P : x = Len(P) \/ x \in 1 .. (Len(P) - 1)
       /\ \A x \in DOMAIN Q : x = Len(Q) \/ x \in 1 .. (Len(Q) - 1)
  BY <1>6, <1>7, <1>8, <1>9, Zenon
<1>11. Len(P) \in DOMAIN P /\ Len(Q) \in DOMAIN Q
  BY <1>6, <1>7, <1>8
<1>12. ASSUME NEW x \in DOMAIN P, NEW j \in DOMAIN Q, Q[j].name = P[x].name
       PROVE  \/ x = Len(P) /\ j = Len(Q)
              \/ x \in 1 .. (Len(P) - 1) /\ j \in 1 .. (Len(Q) - 1)
  BY <1>6, <1>7, <1>10, <1>12, Zenon
<1>13. ASSUME NEW j \in DOMAIN Q, NEW l \in DOMAIN Q, Q[j].name = Q[l].name PROVE j = l
  <2>1. CASE j = Len(Q) \/ l = Len(Q)
    BY <1>7, <1>10, <1>13, <2>1
  <2>2. CASE j \in 1 .. (Len(Q) - 1) /\ l \in 1 .. (Len(Q) - 1)
    <3>1. PICK a \in DOMAIN marks : Q[j] = marks[a]
      BY <1>7, <2>2
    <3>2. ~(a < a)
      BY <1>3
    <3>3. (j < l <=> a < a) /\ (l < j <=> a < a)
      BY <1>7, <1>13, <2>2, <3>1
    <3>4. j \in Nat /\ l \in Nat
      BY <1>8
    <3> QED BY <3>2, <3>3, <3>4
  <2> QED BY <1>10, <2>1, <2>2
<1>14. ASSUME NEW x \in DOMAIN P PROVE \E j \in DOMAIN Q : Q[j].name = P[x].name
  <2>1. CASE x = Len(P)
    BY <1>6, <1>7, <1>11, <2>1
  <2>2. CASE x \in 1 .. (Len(P) - 1)
    <3>1. PICK y \in DOMAIN saves : P[x] = saves[y] /\ P[x].name # n
      BY <1>6, <2>2
    <3>2. PICK j \in DOMAIN marks : marks[j].name = saves[y].name
      BY <1>1
    <3>3. PICK z \in 1 .. (Len(Q) - 1) : Q[z] = marks[j]
      BY <1>7, <3>1, <3>2
    <3>4. z \in DOMAIN Q
      BY <1>7, <1>8
    <3> QED BY <3>1, <3>2, <3>3, <3>4
  <2> QED BY <1>10, <2>1, <2>2
<1>15. ASSUME NEW x \in DOMAIN P, NEW j \in DOMAIN Q, Q[j].name = P[x].name
       PROVE  Q[j].at <= Len(s) /\ P[x].at = SubSeq(s, 1, Q[j].at)
  <2>1. CASE x = Len(P) /\ j = Len(Q)
    BY <1>5, <1>6, <1>7, <2>1
  <2>2. CASE x \in 1 .. (Len(P) - 1) /\ j \in 1 .. (Len(Q) - 1)
    <3>1. PICK y \in DOMAIN saves : P[x] = saves[y]
      BY <1>6, <2>2
    <3>2. PICK l \in DOMAIN marks : Q[j] = marks[l]
      BY <1>7, <2>2
    <3> QED BY <1>1, <1>15, <3>1, <3>2
  <2> QED BY <1>12, <1>15, <2>1, <2>2
<1>16. ASSUME NEW i \in DOMAIN P, NEW k \in DOMAIN P, NEW j \in DOMAIN Q, NEW l \in DOMAIN Q,
              i < k, Q[j].name = P[i].name, Q[l].name = P[k].name
       PROVE  j < l
  <2>1. i \in 1 .. (Len(P) - 1) /\ j \in 1 .. (Len(Q) - 1)
    <3>1. i # Len(P)
      BY <1>6, <1>8, <1>16
    <3> QED BY <1>10, <1>12, <1>16, <3>1
  <2>2. CASE k = Len(P) /\ l = Len(Q)
    BY <1>7, <2>1, <2>2
  <2>3. CASE k \in 1 .. (Len(P) - 1) /\ l \in 1 .. (Len(Q) - 1)
    <3>1. PICK a \in DOMAIN saves : P[i] = saves[a]
      BY <1>6, <2>1
    <3>2. PICK b \in DOMAIN saves : P[k] = saves[b]
      BY <1>6, <2>3
    <3>3. PICK c \in DOMAIN marks : Q[j] = marks[c]
      BY <1>7, <2>1
    <3>4. PICK d \in DOMAIN marks : Q[l] = marks[d]
      BY <1>7, <2>3
    <3>5. a < b
      BY <1>6, <1>16, <2>1, <2>3, <3>1, <3>2
    <3>6. c < d
      BY <1>1, <1>16, <3>1, <3>2, <3>3, <3>4, <3>5
    <3> QED BY <1>7, <2>1, <2>3, <3>3, <3>4, <3>6
  <2> QED BY <1>12, <1>16, <2>2, <2>3
<1>17. Follows(P, Q, s)
  BY <1>13, <1>14, <1>15, <1>16 DEF Follows
<1> QED BY <1>17 DEF P, Q

\* ROLLBACK TO cuts both at the savepoint.
LEMMA FollowsCut ==
  ASSUME NEW saves \in StackT(Seq(Writes)), NEW marks \in StackT(Nat), NEW s \in Seq(Writes), NEW n \in Names,
         Follows(saves, marks, s), \A j, l \in DOMAIN marks : j < l => marks[j].at <= marks[l].at,
         NEW i \in Place(saves, n), NEW j \in Place(marks, n)
  PROVE  /\ saves[i].at = SubSeq(s, 1, marks[j].at)
         /\ Follows(SubSeq(saves, 1, i), SubSeq(marks, 1, j), SubSeq(s, 1, marks[j].at))
<1>1. /\ \A a, l \in DOMAIN marks : marks[a].name = marks[l].name => a = l
      /\ \A a \in DOMAIN saves : \E l \in DOMAIN marks : marks[l].name = saves[a].name
      /\ \A a \in DOMAIN saves, l \in DOMAIN marks : marks[l].name = saves[a].name
           => marks[l].at <= Len(s) /\ saves[a].at = SubSeq(s, 1, marks[l].at)
      /\ \A a, k \in DOMAIN saves, b, l \in DOMAIN marks :
           a < k /\ marks[b].name = saves[a].name /\ marks[l].name = saves[k].name => b < l
  BY DEF Follows
<1> DEFINE P == SubSeq(saves, 1, i)
           Q == SubSeq(marks, 1, j)
           m == marks[j].at
           z == SubSeq(s, 1, m)
<1>2. /\ i \in 1 .. Len(saves) /\ Len(saves) \in Nat /\ saves[i].name = n /\ P \in StackT(Seq(Writes)) /\ Len(P) = i
      /\ \A x \in 1 .. i : P[x] = saves[x]
  BY StackCut
<1>3. /\ j \in 1 .. Len(marks) /\ Len(marks) \in Nat /\ marks[j].name = n /\ m \in Nat /\ Q \in StackT(Nat) /\ Len(Q) = j
      /\ \A x \in 1 .. j : Q[x] = marks[x]
  BY StackCut
<1>4. DOMAIN P = 1 .. i /\ DOMAIN Q = 1 .. j /\ DOMAIN saves = 1 .. Len(saves) /\ DOMAIN marks = 1 .. Len(marks)
  BY <1>2, <1>3 DEF StackT
<1>5. /\ \A x \in 1 .. i : x \in DOMAIN saves /\ (x = i \/ x < i)
      /\ \A x \in 1 .. j : x \in DOMAIN marks /\ (x = j \/ x < j) /\ \A x1 \in DOMAIN marks : x1 < j => x1 \in 1 .. j
  BY <1>2, <1>3, <1>4
<1>6. m <= Len(s) /\ saves[i].at = z
  BY <1>1, <1>2, <1>3, <1>4
<1>7. \A x \in 1 .. j : marks[x].at \in Nat
  <2>1. marks \in Seq([name : Names, at : Nat])
    BY DEF StackT
  <2>0. \A R : \A q \in Seq(R) : \A x \in DOMAIN q : q[x] \in R
    OBVIOUS
  <2>2. \A x \in 1 .. j : marks[x] \in [name : Names, at : Nat]
    BY <1>5, <2>0, <2>1, Zenon
  <2> QED BY <2>2
<1>8. Len(s) \in Nat
  OBVIOUS
<1>9. Len(z) = m /\ z \in Seq(Writes) /\ \A x \in 1 .. m : z[x] = s[x]
  BY <1>3, <1>6, <1>8
<1>10. ASSUME NEW x \in 1 .. j PROVE marks[x].at <= m
  <2>1. CASE x = j
    BY <1>3, <2>1
  <2>2. CASE x < j
    BY <1>4, <1>5, <1>3, <2>2
  <2> QED BY <1>5, <2>1, <2>2
<1>11. ASSUME NEW k \in Nat, k <= m PROVE SubSeq(z, 1, k) = SubSeq(s, 1, k)
  <2>1. k \in 0 .. Len(z) /\ k \in 0 .. Len(s)
    BY <1>3, <1>6, <1>8, <1>9, <1>11
  <2>4. \A x \in 1 .. k : z[x] = s[x]
    BY <1>3, <1>9, <1>11
  <2> QED BY <1>9, <2>1, <2>4, SameBeginning
<1> HIDE DEF P, Q, z, m
<1>12. \A a, l \in DOMAIN Q : Q[a].name = Q[l].name => a = l
  BY <1>1, <1>3, <1>4, <1>5
<1>13. ASSUME NEW x \in DOMAIN P PROVE \E l \in DOMAIN Q : Q[l].name = P[x].name
  <2>1. CASE x = i
    BY <1>2, <1>3, <1>4, <1>5, <2>1
  <2>2. CASE x < i
    <3>1. PICK l \in DOMAIN marks : marks[l].name = saves[x].name
      BY <1>1, <1>4, <1>5
    <3>2. l < j
      <4>1. x \in DOMAIN saves /\ i \in DOMAIN saves /\ j \in DOMAIN marks /\ marks[j].name = saves[i].name
        BY <1>2, <1>3, <1>4, <1>5
      <4> QED BY <1>1, <2>2, <3>1, <4>1, Zenon
    <3>3. l \in 1 .. j
      BY <1>3, <1>4, <3>2
    <3> QED BY <1>2, <1>3, <1>4, <3>1, <3>3
  <2> QED BY <1>4, <1>5, <2>1, <2>2
<1>14. ASSUME NEW x \in DOMAIN P, NEW l \in DOMAIN Q, Q[l].name = P[x].name
       PROVE  Q[l].at <= Len(z) /\ P[x].at = SubSeq(z, 1, Q[l].at)
  <2>1. x \in DOMAIN saves /\ l \in DOMAIN marks /\ P[x] = saves[x] /\ Q[l] = marks[l]
    BY <1>2, <1>3, <1>4, <1>5
  <2>2. P[x].at = SubSeq(s, 1, Q[l].at)
    BY <1>1, <1>14, <2>1
  <2>3. Q[l].at \in Nat /\ Q[l].at <= m
    BY <1>4, <1>7, <1>10, <2>1
  <2> QED BY <1>9, <1>11, <2>2, <2>3
<1>15. ASSUME NEW a \in DOMAIN P, NEW k \in DOMAIN P, NEW b \in DOMAIN Q, NEW l \in DOMAIN Q,
              a < k, Q[b].name = P[a].name, Q[l].name = P[k].name
       PROVE  b < l
  BY <1>1, <1>2, <1>3, <1>4, <1>5, <1>15
<1>16. Follows(P, Q, z)
  BY <1>12, <1>13, <1>14, <1>15 DEF Follows
<1> QED BY <1>6, <1>16 DEF P, Q, z, m

\* The steps under the database lock that leave the buffer in step.
Plain(t) ==
  \/ Statement(t) \/ FailStatement(t) \/ Begin(t) \/ Commit(t) \/ Rollback(t)
  \/ \E n \in Names : Savepoint(t, n) \/ RollbackTo(t, n) \/ Release(t, n)
  \/ Checkpoint(t)

\* A BEGIN inside a block whose buffer is empty changes nothing, and a COMMIT
\* that is refused does not leave it in step.
LEMMA DatabasePlain ==
  ASSUME TypeInv, BlockInv, NEW t \in Callers, Database(t), InStep(mishaps')
  PROVE  \/ Plain(t)
         \/ UNCHANGED <<eng, buffer, lsn, group, chunks, synced, file, call, worker, front, db, told, mishaps>>
<1>1. ~RefuseCommit(t)
  BY DEF RefuseCommit, InStep
<1>2. CASE NestedBegin(t)
  <2>1. buffer.stmts = <<>> /\ buffer.marks = <<>> /\ mishaps' = mishaps
    BY <1>2 DEF NestedBegin, InStep
  <2>2. buffer \in [on : BOOLEAN, stmts : Seq(Writes), marks : StackT(Nat)]
    BY DEF TypeInv
  <2>3. buffer.on = TRUE
    BY <1>2, <2>2 DEF NestedBegin, BlockInv
  <2>4. buffer = [on |-> buffer.on, stmts |-> buffer.stmts, marks |-> buffer.marks]
    BY <2>2
  <2>5. buffer' = [on |-> TRUE, stmts |-> <<>>, marks |-> <<>>]
    BY <1>2 DEF NestedBegin, NoBuffer
  <2>6. buffer' = buffer
    BY <2>1, <2>3, <2>4, <2>5
  <2> QED BY <1>2, <2>1, <2>6 DEF NestedBegin, logVars
<1> QED BY <1>1, <1>2 DEF Database, Plain

\* Database steps keep the buffer in step with the engine.
LEMMA DatabaseBlock ==
  ASSUME TypeInv, MarksInv, BlockInv, NEW t \in Callers, Plain(t)
  PROVE  BlockInv'
<1>2. /\ eng \in [tx : TxT, base : Databases] /\ eng.tx \in TxT /\ eng.tx.saves \in StackT(Seq(Writes))
      /\ buffer \in [on : BOOLEAN, stmts : Seq(Writes), marks : StackT(Nat)] /\ buffer.stmts \in Seq(Writes)
      /\ buffer.marks \in StackT(Nat)
  BY BufferIs DEF TypeInv
<1> DEFINE Good(on, open, stmts, shadow, saves, marks) ==
             (on <=> open) /\ stmts = shadow /\ Follows(saves, marks, stmts)
<1>3. SUFFICES Good(buffer'.on, eng'.tx.open, buffer'.stmts, eng'.tx.shadow, eng'.tx.saves, buffer'.marks)
  BY DEF BlockInv
<1>4. CASE Begin(t)
  <2>1. eng'.tx = [NoTx EXCEPT !.open = TRUE] /\ buffer' = [NoBuffer EXCEPT !.on = TRUE]
    BY <1>2, <1>4 DEF Begin
  <2>2. /\ eng'.tx.open = TRUE /\ eng'.tx.shadow = <<>> /\ eng'.tx.saves = <<>>
        /\ buffer'.on = TRUE /\ buffer'.stmts = <<>> /\ buffer'.marks = <<>>
    BY <2>1 DEF NoTx, NoBuffer
  <2> QED BY <2>2, FollowsEmpty
<1>5. CASE Commit(t) \/ Rollback(t)
  <2>1. eng'.tx = NoTx /\ buffer' = NoBuffer
    BY <1>5 DEF Commit, Rollback, EngineAt
  <2>2. /\ eng'.tx.open = FALSE /\ eng'.tx.shadow = <<>> /\ eng'.tx.saves = <<>>
        /\ buffer'.on = FALSE /\ buffer'.stmts = <<>> /\ buffer'.marks = <<>>
    BY <2>1 DEF NoTx, NoBuffer
  <2> QED BY <2>2, FollowsEmpty
<1>9. /\ buffer.on <=> eng.tx.open
      /\ buffer.stmts = eng.tx.shadow
      /\ Follows(eng.tx.saves, buffer.marks, buffer.stmts)
  BY DEF BlockInv
<1>10. CASE Statement(t)
  <2> DEFINE w == Cardinality({ v \in Writes : told[v] # "new" }) + 1
  <2>1. /\ w \in Writes
        /\ eng' = IF eng.tx.open THEN [eng EXCEPT !.tx.shadow = Append(@, w)]
                  ELSE [eng EXCEPT !.base = Plus(@, {w})]
        /\ buffer' = IF buffer.on THEN [buffer EXCEPT !.stmts = Append(@, w)] ELSE buffer
    BY <1>10 DEF Statement
  <2> HIDE DEF w
  <2>2. CASE buffer.on
    <3>1. /\ eng'.tx.open = eng.tx.open /\ eng'.tx.shadow = Append(eng.tx.shadow, w) /\ eng'.tx.saves = eng.tx.saves
          /\ buffer'.on = buffer.on /\ buffer'.stmts = Append(buffer.stmts, w) /\ buffer'.marks = buffer.marks
      BY <1>9, <1>2, <2>1, <2>2 DEF TxT
    <3>2. Follows(eng.tx.saves, buffer.marks, Append(buffer.stmts, w))
      BY <1>9, <2>1, FollowsGrows
    <3> QED BY <1>9, <3>1, <3>2
  <2>3. CASE ~buffer.on
    <3>1. eng'.tx = eng.tx /\ buffer' = buffer
      BY <1>9, <1>2, <2>1, <2>3
    <3> QED BY <1>9, <3>1
  <2> QED BY <2>2, <2>3
<1>11. CASE FailStatement(t)
  <2>1. eng'.tx.open = eng.tx.open /\ eng'.tx.shadow = eng.tx.shadow /\ eng'.tx.saves = eng.tx.saves /\ buffer' = buffer
    BY <1>2, <1>11 DEF FailStatement, TxT
  <2> QED BY <1>9, <2>1
<1>12. ASSUME NEW n \in Names, Savepoint(t, n)
       PROVE  Good(buffer'.on, eng'.tx.open, buffer'.stmts, eng'.tx.shadow, eng'.tx.saves, buffer'.marks)
  <2>1. /\ eng'.tx.open = eng.tx.open /\ eng'.tx.shadow = eng.tx.shadow
        /\ eng'.tx.saves = Push(eng.tx.saves, n, eng.tx.shadow)
        /\ buffer'.on = buffer.on /\ buffer'.stmts = buffer.stmts
        /\ buffer'.marks = Push(buffer.marks, n, Len(buffer.stmts))
    BY <1>2, <1>12 DEF Savepoint, TxT
  <2>2. Follows(Push(eng.tx.saves, n, buffer.stmts), Push(buffer.marks, n, Len(buffer.stmts)), buffer.stmts)
    BY <1>9, <1>2, FollowsPush
  <2> QED BY <1>9, <2>1, <2>2
<1>13. ASSUME NEW n \in Names, RollbackTo(t, n)
       PROVE  Good(buffer'.on, eng'.tx.open, buffer'.stmts, eng'.tx.shadow, eng'.tx.saves, buffer'.marks)
  <2>1. PICK i \in Place(eng.tx.saves, n) :
          eng' = [eng EXCEPT !.tx = [open |-> TRUE, aborted |-> FALSE, shadow |-> eng.tx.saves[i].at,
                                     saves |-> SubSeq(eng.tx.saves, 1, i)]]
    BY <1>13 DEF RollbackTo
  <2>2. Place(buffer.marks, n) # {}
    <3>1. i \in DOMAIN eng.tx.saves /\ eng.tx.saves[i].name = n
      BY DEF Place
    <3> QED BY <1>9, <3>1 DEF Follows, Place
  <2> DEFINE j == CHOOSE l \in Place(buffer.marks, n) : TRUE
  <2>3. j \in Place(buffer.marks, n)
    BY <2>2
  <2>4. buffer' = [buffer EXCEPT !.stmts = SubSeq(@, 1, buffer.marks[j].at), !.marks = SubSeq(@, 1, j)]
    BY <1>13, <2>2 DEF RollbackTo
  <2> HIDE DEF j
  <2>5. /\ buffer'.on = buffer.on /\ buffer'.stmts = SubSeq(buffer.stmts, 1, buffer.marks[j].at)
        /\ buffer'.marks = SubSeq(buffer.marks, 1, j)
    BY <1>2, <2>4
  <2>6. eng'.tx.open = TRUE /\ eng'.tx.shadow = eng.tx.saves[i].at /\ eng'.tx.saves = SubSeq(eng.tx.saves, 1, i)
    BY <1>2, <2>1
  <2>7. \A a, l \in DOMAIN buffer.marks : a < l => buffer.marks[a].at <= buffer.marks[l].at
    BY DEF MarksInv
  <2>8. /\ eng.tx.saves[i].at = SubSeq(buffer.stmts, 1, buffer.marks[j].at)
        /\ Follows(SubSeq(eng.tx.saves, 1, i), SubSeq(buffer.marks, 1, j), SubSeq(buffer.stmts, 1, buffer.marks[j].at))
    BY <1>9, <1>2, <2>3, <2>7, FollowsCut
  <2>9. buffer.on
    BY <1>9, <1>13 DEF RollbackTo
  <2> QED BY <2>5, <2>6, <2>8, <2>9
<1>14. ASSUME NEW n \in Names, Release(t, n)
       PROVE  Good(buffer'.on, eng'.tx.open, buffer'.stmts, eng'.tx.shadow, eng'.tx.saves, buffer'.marks)
  <2>1. PICK i \in Place(eng.tx.saves, n) : eng' = [eng EXCEPT !.tx.saves = SubSeq(@, 1, i - 1)]
    BY <1>14 DEF Release
  <2>2. /\ eng'.tx.open = eng.tx.open /\ eng'.tx.shadow = eng.tx.shadow /\ buffer' = buffer
        /\ eng'.tx.saves = SubSeq(eng.tx.saves, 1, i - 1)
    BY <1>2, <1>14, <2>1 DEF Release, TxT
  <2> DEFINE P == SubSeq(eng.tx.saves, 1, i - 1)
  <2>3. /\ i \in 1 .. Len(eng.tx.saves) /\ P \in StackT(Seq(Writes)) /\ Len(P) = i - 1
        /\ \A x \in 1 .. (i - 1) : P[x] = eng.tx.saves[x]
    BY <1>2, StackCut
  <2>4. DOMAIN P = 1 .. (i - 1) /\ DOMAIN eng.tx.saves = 1 .. Len(eng.tx.saves) /\ Len(eng.tx.saves) \in Nat
    BY <1>2, <2>3 DEF StackT
  <2>5. \A x \in DOMAIN P : x \in DOMAIN eng.tx.saves /\ P[x] = eng.tx.saves[x]
    BY <2>3, <2>4
  <2> HIDE DEF P
  <2>6. Follows(P, buffer.marks, buffer.stmts)
    BY <1>9, <2>5 DEF Follows
  <2> QED BY <1>9, <2>2, <2>6 DEF P
<1>15. CASE Checkpoint(t)
  BY <1>9, <1>15 DEF Checkpoint
<1> QED BY <1>4, <1>5, <1>10, <1>11, <1>12, <1>13, <1>14, <1>15 DEF Plain

---------------------------------------------------------------------------
(* What the clients know.                                                  *)

\* The set of a sequence, when it grows or is cut.
LEMMA ToSets ==
  /\ ToSet(<<>>) = {}
  /\ \A s \in Seq(Writes) : \A w \in Writes : ToSet(Append(s, w)) = ToSet(s) \cup {w}
  /\ \A s \in Seq(Writes) : \A m \in 0 .. Len(s) : ToSet(SubSeq(s, 1, m)) \subseteq ToSet(s)
<1>1. ToSet(<<>>) = {}
  BY DEF ToSet
<1>2. ASSUME NEW s \in Seq(Writes), NEW w \in Writes PROVE ToSet(Append(s, w)) = ToSet(s) \cup {w}
  <2>1. /\ DOMAIN Append(s, w) = 1 .. (Len(s) + 1) /\ DOMAIN s = 1 .. Len(s) /\ Len(s) \in Nat
        /\ Append(s, w)[Len(s) + 1] = w /\ \A i \in 1 .. Len(s) : Append(s, w)[i] = s[i]
    OBVIOUS
  <2>2. \A i \in 1 .. (Len(s) + 1) : i = Len(s) + 1 \/ i \in 1 .. Len(s)
    BY <2>1
  <2>3. Len(s) + 1 \in 1 .. (Len(s) + 1) /\ \A i \in 1 .. Len(s) : i \in 1 .. (Len(s) + 1)
    BY <2>1
  <2> QED BY <2>1, <2>2, <2>3 DEF ToSet
<1>3. ASSUME NEW s \in Seq(Writes), NEW m \in 0 .. Len(s) PROVE ToSet(SubSeq(s, 1, m)) \subseteq ToSet(s)
  <2>1. DOMAIN SubSeq(s, 1, m) = 1 .. m /\ DOMAIN s = 1 .. Len(s) /\ \A i \in 1 .. m : SubSeq(s, 1, m)[i] = s[i]
    OBVIOUS
  <2>2. \A i \in 1 .. m : i \in 1 .. Len(s)
    OBVIOUS
  <2> QED BY <2>1, <2>2 DEF ToSet
<1> QED BY <1>1, <1>2, <1>3

\* Writes are used in order.
InOrder(td) == \E k \in 0 .. MaxWrites : \A w \in Writes : td[w] # "new" <=> w <= k

\* Writes are numbered in the order of their statements.
LEMMA FreshIs ==
  ASSUME ToldInv
  PROVE  \E k \in 0 .. MaxWrites : (\A w \in Writes : told[w] # "new" <=> w <= k) /\ Fresh = k + 1
<1>1. PICK k \in 0 .. MaxWrites : \A w \in Writes : told[w] # "new" <=> w <= k
  BY DEF ToldInv
<1>2. MaxWrites \in Nat /\ k \in Nat
  BY WalRecordsAssumption
<1>3. { v \in Writes : told[v] # "new" } = 1 .. k
  BY <1>1, <1>2 DEF Writes
<1>4. Cardinality(1 .. k) = k
  BY <1>2, FS_Interval
<1>5. Fresh = k + 1
  BY <1>3, <1>4 DEF Fresh
<1> QED BY <1>1, <1>5

\* The next statement takes the next number.
LEMMA FreshUsed ==
  ASSUME ToldInv, Fresh \in Writes, NEW td, \A w \in Writes : td[w] # "new" <=> told[w] # "new" \/ w = Fresh
  PROVE  InOrder(td) /\ told[Fresh] = "new"
<1>1. PICK k \in 0 .. MaxWrites : (\A w \in Writes : told[w] # "new" <=> w <= k) /\ Fresh = k + 1
  BY FreshIs
<1>2. MaxWrites \in Nat /\ k \in Nat
  BY WalRecordsAssumption
<1>3. k + 1 \in 0 .. MaxWrites /\ ~(k + 1 <= k) /\ \A w \in Writes : w <= k + 1 <=> w <= k \/ w = k + 1
  BY <1>1, <1>2 DEF Writes
<1>4. \A w \in Writes : td[w] # "new" <=> w <= k + 1
  BY <1>1, <1>3
<1> QED BY <1>1, <1>3, <1>4 DEF InOrder

\* The stack of a transaction.
Nested(tx) ==
  /\ \A i \in DOMAIN tx.saves : ToSet(tx.saves[i].at) \subseteq ToSet(tx.shadow)
  /\ \A i, k \in DOMAIN tx.saves : i < k => ToSet(tx.saves[i].at) \subseteq ToSet(tx.saves[k].at)

\* No write is called new or open again, and such a write is brought nowhere.
LEMMA ToldCarries ==
  ASSUME TypeInv, ToldInv, InOrder(told'), db' = db,
         \A w \in Writes : told'[w] \in {"new", "open"} => told[w] \in {"new", "open"} /\ eng'.base[w] = eng.base[w],
         worker'.at = "pending" => (worker.at = "pending" /\ worker'.snap = worker.snap) \/ worker'.snap = eng'.base,
         \A w \in ToSet(eng'.tx.shadow) : told'[w] = "open",
         \A w \in ToSet(buffer'.stmts) : told'[w] # "new",
         Nested(eng'.tx), ~eng'.tx.open => eng'.tx = NoTx, eng'.tx.open => buffer'.on
  PROVE  ToldInv'
<1>1. \E k \in 0 .. MaxWrites : \A w \in Writes : told'[w] # "new" <=> w <= k
  BY DEF InOrder
<1>3. \A w \in Writes : told'[w] \in {"new", "open"}
        => eng'.base[w] = 0 /\ db'.data[w] = 0 /\ (worker'.at = "pending" => worker'.snap[w] = 0)
  BY DEF ToldInv
<1>5. /\ \A i \in DOMAIN eng'.tx.saves : ToSet(eng'.tx.saves[i].at) \subseteq ToSet(eng'.tx.shadow)
      /\ \A i, k \in DOMAIN eng'.tx.saves : i < k => ToSet(eng'.tx.saves[i].at) \subseteq ToSet(eng'.tx.saves[k].at)
  BY DEF Nested
<1> QED BY <1>1, <1>3, <1>5 DEF ToldInv

\* Without one, there is nothing to nest.
LEMMA NestedEmpty == /\ Nested(NoTx) /\ NoTx.shadow = <<>> /\ NoTx.open = FALSE /\ NoTx.saves = <<>>
                     /\ \A tx : tx.saves = <<>> => Nested(tx)
<1>1. NoTx.shadow = <<>> /\ NoTx.open = FALSE /\ NoTx.saves = <<>>
  BY DEF NoTx
<1>2. \A tx : tx.saves = <<>> => Nested(tx)
  BY DEF Nested
<1> QED BY <1>1, <1>2

\* SAVEPOINT keeps the nesting.
LEMMA NestedPush ==
  ASSUME TypeInv, Nested(eng.tx), NEW n \in Names, NEW tx,
         tx.shadow = eng.tx.shadow, tx.saves = Push(eng.tx.saves, n, eng.tx.shadow)
  PROVE  Nested(tx)
<1> DEFINE st == eng.tx.saves
           P == Push(eng.tx.saves, n, eng.tx.shadow)
<1>1. /\ st \in StackT(Seq(Writes)) /\ DOMAIN st = 1 .. Len(st) /\ Len(st) \in Nat /\ eng.tx.shadow \in Seq(Writes)
  BY BufferIs
<1>2. PICK i \in 1 .. (Len(st) + 1) : Pushed(P, st, i, n, eng.tx.shadow)
  BY <1>1, PushIs
<1>3. P \in StackT(Seq(Writes))
  BY <1>1, PushType
<1> HIDE DEF P
<1>4. DOMAIN P = 1 .. Len(P) /\ Len(P) \in Nat
  BY <1>3 DEF StackT
<1>5. P[Len(P)].at = eng.tx.shadow
  BY <1>2 DEF Pushed
<1> DEFINE f(x) == IF x < i THEN x ELSE x + 1
<1>6. ASSUME NEW x \in 1 .. (Len(P) - 1) PROVE f(x) \in DOMAIN st /\ P[x] = st[f(x)]
  <2>1. /\ x < i => x \in 1 .. Len(st) /\ P[x] = st[x]
        /\ x >= i => x + 1 \in 1 .. Len(st) /\ P[x] = st[x + 1]
    BY <1>2 DEF Pushed
  <2>2. (x < i /\ f(x) = x) \/ (x >= i /\ f(x) = x + 1)
    BY <1>1, <1>4
  <2> QED BY <1>1, <2>1, <2>2
<1>7. \A x, z \in 1 .. (Len(P) - 1) : x < z => f(x) < f(z)
  BY <1>1, <1>4
<1> HIDE DEF f
<1>8. \A m \in Nat : \A x \in 1 .. m : x = m \/ x \in 1 .. (m - 1)
  OBVIOUS
<1>9. \A x \in DOMAIN P : x = Len(P) \/ x \in 1 .. (Len(P) - 1)
  BY <1>4, <1>8, Zenon
<1>10. \A x \in DOMAIN P : ToSet(P[x].at) \subseteq ToSet(eng.tx.shadow)
  BY <1>5, <1>6, <1>9 DEF Nested
<1>11. ASSUME NEW x \in DOMAIN P, NEW z \in DOMAIN P, x < z PROVE ToSet(P[x].at) \subseteq ToSet(P[z].at)
  <2>1. CASE z = Len(P)
    BY <1>5, <1>10, <2>1
  <2>2. CASE z \in 1 .. (Len(P) - 1)
    <3>1. x \in 1 .. (Len(P) - 1)
      BY <1>4, <1>11, <2>2
    <3> QED BY <1>6, <1>7, <1>11, <2>2, <3>1 DEF Nested
  <2> QED BY <1>9, <2>1, <2>2
<1>12. tx.saves = P /\ tx.shadow = eng.tx.shadow
  BY DEF P
<1> QED BY <1>10, <1>11, <1>12 DEF Nested

\* ROLLBACK TO and RELEASE keep it.
LEMMA NestedCut ==
  ASSUME TypeInv, Nested(eng.tx), NEW n, NEW i \in Place(eng.tx.saves, n)
  PROVE  /\ ToSet(eng.tx.saves[i].at) \subseteq ToSet(eng.tx.shadow) /\ eng.tx.saves[i].at \in Seq(Writes)
         /\ \A tx : tx.shadow = eng.tx.saves[i].at /\ tx.saves = SubSeq(eng.tx.saves, 1, i) => Nested(tx)
         /\ \A tx : tx.shadow = eng.tx.shadow /\ tx.saves = SubSeq(eng.tx.saves, 1, i - 1) => Nested(tx)
<1> DEFINE st == eng.tx.saves
<1>1. /\ st \in StackT(Seq(Writes)) /\ DOMAIN st = 1 .. Len(st) /\ Len(st) \in Nat
  BY BufferIs
<1>2. /\ i \in 1 .. Len(st) /\ st[i].at \in Seq(Writes)
      /\ SubSeq(st, 1, i) \in StackT(Seq(Writes)) /\ Len(SubSeq(st, 1, i)) = i
      /\ \A j \in 1 .. i : SubSeq(st, 1, i)[j] = st[j]
      /\ SubSeq(st, 1, i - 1) \in StackT(Seq(Writes)) /\ Len(SubSeq(st, 1, i - 1)) = i - 1
      /\ \A j \in 1 .. (i - 1) : SubSeq(st, 1, i - 1)[j] = st[j]
  BY <1>1, StackCut
<1>3. DOMAIN SubSeq(st, 1, i) = 1 .. i /\ DOMAIN SubSeq(st, 1, i - 1) = 1 .. (i - 1)
  BY <1>2 DEF StackT
<1>4. /\ \A j \in 1 .. i : j \in DOMAIN st /\ (j = i \/ j < i)
      /\ \A j \in 1 .. (i - 1) : j \in DOMAIN st /\ j < i
  BY <1>1, <1>2
<1>5. \A j \in 1 .. i : ToSet(st[j].at) \subseteq ToSet(st[i].at)
  BY <1>1, <1>2, <1>4 DEF Nested
<1>6. ASSUME NEW tx, tx.shadow = st[i].at, tx.saves = SubSeq(st, 1, i) PROVE Nested(tx)
  BY <1>2, <1>3, <1>4, <1>5, <1>6 DEF Nested
<1>7. ASSUME NEW tx, tx.shadow = eng.tx.shadow, tx.saves = SubSeq(st, 1, i - 1) PROVE Nested(tx)
  BY <1>2, <1>3, <1>4, <1>7 DEF Nested
<1> QED BY <1>1, <1>2, <1>6, <1>7 DEF Nested

\* Adding writes to a database.
LEMMA PlusIs ==
  ASSUME NEW d \in Databases, NEW ws
  PROVE  /\ Plus(d, ws) \in Databases
         /\ \A w \in Writes : Plus(d, ws)[w] = IF w \in ws THEN d[w] + 1 ELSE d[w]
BY DEF Plus, Databases

\* What the invariant says of an open transaction.
LEMMA ToldIs ==
  ASSUME TypeInv, ToldInv
  PROVE  /\ InOrder(told) /\ Nested(eng.tx) /\ (~eng.tx.open => eng.tx = NoTx) /\ (eng.tx.open => buffer.on)
         /\ ToSet(eng.tx.shadow) \subseteq Writes /\ ToSet(buffer.stmts) \subseteq Writes
         /\ \A w \in ToSet(eng.tx.shadow) : told[w] = "open"
         /\ \A w \in ToSet(buffer.stmts) : told[w] # "new"
         /\ told \in [Writes -> Tells]
<1>1. ToSet(eng.tx.shadow) \subseteq Writes /\ ToSet(buffer.stmts) \subseteq Writes
  BY BufferIs, ToSetType
<1>2. told \in [Writes -> Tells]
  BY DEF TypeInv, Tells
<1> QED BY <1>1, <1>2 DEF ToldInv, InOrder, Nested

\* The buffer of an open transaction is its shadow.
LEMMA ShadowBuffered ==
  ASSUME BlockInv, eng.tx.open
  PROVE  buffer.stmts = eng.tx.shadow
BY DEF BlockInv

\* A statement outside a block has nobody else to tell.
LEMMA StatementAnswers ==
  ASSUME TypeInv, ToldInv, ~eng.tx.open
  PROVE  Answers({Fresh}, {Fresh})
<1>1. ToSet(eng.tx.shadow) = {}
  BY ToldIs, NestedEmpty, ToSets
<1> QED BY <1>1 DEF Answers

\* Nor has a COMMIT whose buffer is in step.
LEMMA CommitAnswers ==
  ASSUME BlockInv, NEW kept
  PROVE  Answers(ToSet(buffer.stmts), kept)
BY DEF BlockInv, Answers

\* A statement that is logged at once has no transaction around it.
LEMMA StatementTold ==
  ASSUME TypeInv, ToldInv, NEW t \in Callers, Statement(t)
  PROVE  ToldInv'
<1>1. /\ InOrder(told) /\ Nested(eng.tx) /\ (~eng.tx.open => eng.tx = NoTx) /\ (eng.tx.open => buffer.on)
      /\ ToSet(eng.tx.shadow) \subseteq Writes /\ ToSet(buffer.stmts) \subseteq Writes
      /\ \A w \in ToSet(eng.tx.shadow) : told[w] = "open"
      /\ \A w \in ToSet(buffer.stmts) : told[w] # "new"
      /\ told \in [Writes -> Tells]
  BY ToldIs
<1>2. /\ eng \in [tx : TxT, base : Databases] /\ eng.base \in Databases /\ eng.tx.shadow \in Seq(Writes) /\ eng.tx \in TxT
      /\ buffer \in [on : BOOLEAN, stmts : Seq(Writes), marks : StackT(Nat)] /\ buffer.stmts \in Seq(Writes)
  BY BufferIs DEF TypeInv
<1>3. /\ Fresh \in Writes /\ call[t].at = "idle"
      /\ eng' = IF eng.tx.open THEN [eng EXCEPT !.tx.shadow = Append(@, Fresh)]
                ELSE [eng EXCEPT !.base = Plus(@, {Fresh})]
      /\ IF buffer.on
         THEN /\ buffer' = [buffer EXCEPT !.stmts = Append(@, Fresh)]
              /\ Tell({Fresh}, {Fresh}, IF eng.tx.open THEN "open" ELSE "acked")
              /\ NoRecord
         ELSE LogAndTrigger(t, {Fresh}, {Fresh}) /\ buffer' = buffer
      /\ db' = db
  BY DEF Statement, Fresh, Free
<1>4. ASSUME NEW what \in Tells \ {"new"}, Tell({Fresh}, {Fresh}, what)
      PROVE  /\ \A w \in Writes : told'[w] = IF w = Fresh THEN what ELSE told[w]
             /\ InOrder(told') /\ told[Fresh] = "new"
  <2>1. \A w \in Writes : told'[w] = IF w = Fresh THEN what ELSE told[w]
    BY <1>1, <1>4, TellType
  <2>2. \A w \in Writes : told'[w] # "new" <=> told[w] # "new" \/ w = Fresh
    BY <1>4, <2>1
  <2> QED BY <1>3, <2>1, <2>2, FreshUsed
<1>5. CASE eng.tx.open
  <2>1. buffer.on /\ eng' = [eng EXCEPT !.tx.shadow = Append(@, Fresh)]
    BY <1>1, <1>3, <1>5
  <2>2. /\ eng'.base = eng.base /\ eng'.tx.open = eng.tx.open /\ eng'.tx.shadow = Append(eng.tx.shadow, Fresh)
        /\ eng'.tx.saves = eng.tx.saves
    BY <1>2, <2>1 DEF TxT
  <2>3. /\ buffer' = [buffer EXCEPT !.stmts = Append(@, Fresh)] /\ Tell({Fresh}, {Fresh}, "open")
        /\ worker' = worker /\ call' = call
    BY <1>3, <1>5, <2>1 DEF NoRecord
  <2>4. buffer'.on = buffer.on /\ buffer'.stmts = Append(buffer.stmts, Fresh)
    BY <1>2, <2>3
  <2>5. /\ \A w \in Writes : told'[w] = IF w = Fresh THEN "open" ELSE told[w]
        /\ InOrder(told') /\ told[Fresh] = "new"
    BY <1>4, <2>3 DEF Tells
  <2>6. ToSet(eng'.tx.shadow) = ToSet(eng.tx.shadow) \cup {Fresh} /\ ToSet(buffer'.stmts) = ToSet(buffer.stmts) \cup {Fresh}
    BY <1>2, <1>3, <2>2, <2>4, ToSets
  <2>7. \A w \in ToSet(eng'.tx.shadow) : told'[w] = "open"
    BY <1>1, <1>3, <2>5, <2>6
  <2>8. \A w \in ToSet(buffer'.stmts) : told'[w] # "new"
    BY <1>1, <1>3, <2>5, <2>6
  <2>9. Nested(eng'.tx)
    BY <1>1, <2>2, <2>6 DEF Nested
  <2>10. \A w \in Writes : told'[w] \in {"new", "open"} => told[w] \in {"new", "open"}
    BY <2>5
  <2> QED BY <1>3, <1>5, <2>1, <2>2, <2>3, <2>4, <2>5, <2>7, <2>8, <2>9, <2>10, ToldCarries
<1>6. CASE ~eng.tx.open
  <2>1. eng' = [eng EXCEPT !.base = Plus(@, {Fresh})]
    BY <1>3, <1>6
  <2>2. eng'.tx = eng.tx /\ eng'.base = Plus(eng.base, {Fresh}) /\ eng.tx = NoTx
    BY <1>1, <1>2, <1>6, <2>1
  <2>3. ToSet(eng'.tx.shadow) = {} /\ Nested(eng'.tx)
    BY <1>1, <2>2, NestedEmpty, ToSets
  <2>4. \A w \in Writes : w # Fresh => eng'.base[w] = eng.base[w]
    BY <1>2, <2>2, PlusIs
  <2>5. PICK what \in {"acked", "sent", "unknown"} :
          /\ Tell({Fresh}, {Fresh}, what)
          /\ worker'.at = "pending" => (worker.at = "pending" /\ worker'.snap = worker.snap) \/ worker'.snap = eng'.base
          /\ ToSet(buffer'.stmts) \subseteq ToSet(buffer.stmts) \cup {Fresh}
    <3>1. CASE buffer.on
      <4>1. /\ Tell({Fresh}, {Fresh}, "acked") /\ worker' = worker /\ call' = call
            /\ buffer' = [buffer EXCEPT !.stmts = Append(@, Fresh)]
        BY <1>3, <1>6, <3>1 DEF NoRecord
      <4>2. buffer'.stmts = Append(buffer.stmts, Fresh)
        BY <1>2, <4>1
      <4>3. ToSet(buffer'.stmts) = ToSet(buffer.stmts) \cup {Fresh}
        BY <1>2, <1>3, <4>2, ToSets
      <4> QED BY <4>1, <4>3
    <3>2. CASE ~buffer.on
      <4>1. LogAndTrigger(t, {Fresh}, {Fresh}) /\ buffer' = buffer
        BY <1>3, <3>2
      <4>2. /\ Tell({Fresh}, {Fresh}, "unknown") \/ Tell({Fresh}, {Fresh}, "sent")
            /\ \/ worker'.at = worker.at /\ worker'.snap = worker.snap
               \/ worker'.snap = eng'.base
        BY <1>6, <4>1, LogIs, LogTells, StatementAnswers
      <4> HIDE DEF Tell
      <4> QED BY <4>1, <4>2
    <3> QED BY <3>1, <3>2
  <2>6. /\ \A w \in Writes : told'[w] = IF w = Fresh THEN what ELSE told[w]
        /\ InOrder(told') /\ told[Fresh] = "new"
    BY <1>4, <2>5 DEF Tells
  <2>7. \A w \in Writes : told'[w] \in {"new", "open"} => told[w] \in {"new", "open"} /\ eng'.base[w] = eng.base[w]
    BY <2>4, <2>6
  <2>9. \A w \in ToSet(buffer'.stmts) : told'[w] # "new"
    BY <1>1, <1>3, <2>5, <2>6
  <2> HIDE DEF Tell
  <2>10. \A w \in ToSet(eng'.tx.shadow) : told'[w] = "open"
    BY <2>3
  <2>11. ~eng'.tx.open /\ eng'.tx = NoTx
    BY <1>6, <2>2
  <2>12. worker'.at = "pending" => (worker.at = "pending" /\ worker'.snap = worker.snap) \/ worker'.snap = eng'.base
    BY <2>5
  <2>13. db' = db /\ InOrder(told')
    BY <1>3, <2>6
  <2> QED BY <2>3, <2>7, <2>9, <2>10, <2>11, <2>12, <2>13, ToldCarries
<1> QED BY <1>5, <1>6

\* COMMIT answers for all that was open.
LEMMA CommitTold ==
  ASSUME TypeInv, ToldInv, BlockInv, NEW t \in Callers, Commit(t)
  PROVE  ToldInv'
<1> DEFINE ws == ToSet(buffer.stmts)
<1>1. /\ InOrder(told) /\ ToSet(eng.tx.shadow) \subseteq Writes /\ ws \subseteq Writes
      /\ \A w \in ToSet(eng.tx.shadow) : told[w] = "open"
      /\ \A w \in ws : told[w] # "new"
      /\ told \in [Writes -> Tells]
  BY ToldIs
<1>2. eng.base \in Databases
  BY BufferIs
<1>3. /\ eng' = [tx |-> NoTx, base |-> Plus(eng.base, Committing)] /\ buffer' = NoBuffer /\ db' = db
      /\ IF ws # {} THEN LogAndTrigger(t, ws, Committing) ELSE NoRecord /\ Tell(ToSet(eng.tx.shadow), Committing, "acked")
  BY DEF Commit, Committing
<1>4. Committing \subseteq ws /\ Committing \subseteq ToSet(eng.tx.shadow)
  BY ShadowBuffered DEF Committing
<1>5. eng'.tx = NoTx /\ eng'.base = Plus(eng.base, Committing) /\ buffer'.stmts = <<>>
  BY <1>3 DEF NoBuffer
<1> HIDE DEF ws
<1>6. ToSet(eng'.tx.shadow) = {} /\ ToSet(buffer'.stmts) = {} /\ Nested(eng'.tx) /\ ~eng'.tx.open
  BY <1>5, NestedEmpty, ToSets
<1>7. \A w \in Writes : w \notin Committing => eng'.base[w] = eng.base[w]
  BY <1>2, <1>5, PlusIs
<1>8. CASE ws = {}
  <2>1. told' = told /\ worker' = worker /\ call' = call
    <3>1. Committing = {} /\ ToSet(eng.tx.shadow) = {}
      BY <1>4, <1>8 DEF BlockInv, ws
    <3>2. NoRecord /\ Tell({}, {}, "acked")
      BY <1>3, <1>8, <3>1
    <3> QED BY <1>1, <3>2, TellNobody DEF NoRecord
  <2>2. \A w \in Writes : eng'.base[w] = eng.base[w]
    BY <1>4, <1>7, <1>8
  <2> QED BY <1>1, <1>3, <1>5, <1>6, <2>1, <2>2, ToldCarries
<1>9. CASE ws # {}
  <2>1. LogAndTrigger(t, ws, Committing)
    BY <1>3, <1>9
  <2>2. /\ Tell(ws, Committing, "unknown") \/ Tell(ws, Committing, "sent")
        /\ \/ worker'.at = worker.at /\ worker'.snap = worker.snap
           \/ worker'.snap = eng'.base
    BY <2>1, LogIs, LogTells, CommitAnswers DEF ws
  <2>3. \E what \in {"sent", "unknown"} : \A w \in Writes :
          told'[w] = IF w \in Committing THEN what ELSE IF w \in ws THEN "undone" ELSE told[w]
    BY <1>1, <2>2, TellType DEF Tells
  <2>4. \A w \in Writes : told'[w] # "new" <=> told[w] # "new"
    BY <1>1, <1>4, <2>3
  <2>5. InOrder(told')
    BY <1>1, <2>4 DEF InOrder
  <2>6. \A w \in Writes : told'[w] \in {"new", "open"} => told[w] \in {"new", "open"} /\ eng'.base[w] = eng.base[w]
    BY <1>7, <2>3
  <2>9. worker'.at = "pending" => (worker.at = "pending" /\ worker'.snap = worker.snap) \/ worker'.snap = eng'.base
    BY <2>2
  <2> QED BY <1>3, <1>5, <1>6, <2>5, <2>6, <2>9, ToldCarries
<1> QED BY <1>8, <1>9

\* The other steps under the database lock.
LEMMA DatabaseTold ==
  ASSUME TypeInv, ToldInv, BlockInv, MarksInv, NEW t \in Callers, Plain(t)
  PROVE  ToldInv'
<1>1. /\ InOrder(told) /\ Nested(eng.tx) /\ (~eng.tx.open => eng.tx = NoTx) /\ (eng.tx.open => buffer.on)
      /\ ToSet(eng.tx.shadow) \subseteq Writes /\ ToSet(buffer.stmts) \subseteq Writes
      /\ \A w \in ToSet(eng.tx.shadow) : told[w] = "open"
      /\ \A w \in ToSet(buffer.stmts) : told[w] # "new"
      /\ told \in [Writes -> Tells]
  BY ToldIs
<1>2. /\ eng \in [tx : TxT, base : Databases] /\ eng.base \in Databases /\ eng.tx.shadow \in Seq(Writes) /\ eng.tx \in TxT
      /\ buffer \in [on : BOOLEAN, stmts : Seq(Writes), marks : StackT(Nat)] /\ buffer.stmts \in Seq(Writes)
  BY BufferIs DEF TypeInv
\* Steps that tell some of the open writes that they are undone.
<1>3. ASSUME NEW gone \in SUBSET ToSet(eng.tx.shadow), Tell(gone, {}, "undone")
      PROVE  /\ \A w \in Writes : told'[w] = IF w \in gone THEN "undone" ELSE told[w]
             /\ InOrder(told') /\ \A w \in Writes : told'[w] \in {"new", "open"} => told[w] \in {"new", "open"}
             /\ \A w \in ToSet(buffer.stmts) : told'[w] # "new"
  <2>1. \A w \in Writes : told'[w] = IF w \in gone THEN "undone" ELSE told[w]
    BY <1>1, <1>3, TellType DEF Tells
  <2>2. \A w \in Writes : told'[w] # "new" <=> told[w] # "new"
    BY <1>1, <1>3, <2>1
  <2> QED BY <1>1, <2>1, <2>2 DEF InOrder
<1>4. CASE FailStatement(t)
  <2>1. /\ eng'.tx.open = eng.tx.open /\ eng'.tx.shadow = eng.tx.shadow /\ eng'.tx.saves = eng.tx.saves /\ eng'.base = eng.base
        /\ eng.tx.open /\ UNCHANGED <<buffer, call, worker, db, told>>
    BY <1>2, <1>4 DEF FailStatement, TxT
  <2>2. Nested(eng'.tx)
    BY <1>1, <2>1 DEF Nested
  <2> QED BY <1>1, <2>1, <2>2, ToldCarries
<1>5. CASE Begin(t)
  <2>1. /\ eng'.tx = [NoTx EXCEPT !.open = TRUE] /\ eng'.base = eng.base /\ buffer' = [NoBuffer EXCEPT !.on = TRUE]
        /\ UNCHANGED <<call, worker, db, told>>
    BY <1>2, <1>5 DEF Begin
  <2>2. /\ eng'.tx.open = TRUE /\ eng'.tx.shadow = <<>> /\ eng'.tx.saves = <<>>
        /\ buffer'.on = TRUE /\ buffer'.stmts = <<>>
    BY <2>1 DEF NoTx, NoBuffer
  <2>3. ToSet(eng'.tx.shadow) = {} /\ ToSet(buffer'.stmts) = {} /\ Nested(eng'.tx)
    BY <2>2, ToSets, NestedEmpty
  <2> QED BY <1>1, <2>1, <2>2, <2>3, ToldCarries
<1>6. CASE Rollback(t)
  <2>1. /\ eng' = EngineAt(eng.base) /\ Tell(ToSet(eng.tx.shadow), {}, "undone") /\ UNCHANGED <<call, worker, db>>
        /\ buffer' = buffer \/ buffer' = NoBuffer
    BY <1>6 DEF Rollback
  <2>2. eng'.tx = NoTx /\ eng'.base = eng.base /\ (buffer' = NoBuffer => buffer'.stmts = <<>>)
    BY <2>1 DEF EngineAt, NoBuffer
  <2>3. ToSet(eng'.tx.shadow) = {} /\ Nested(eng'.tx) /\ ~eng'.tx.open
    BY <2>2, NestedEmpty, ToSets
  <2>4. ToSet(buffer'.stmts) \subseteq ToSet(buffer.stmts)
    BY <2>1, <2>2, ToSets
  <2>5. /\ \A w \in Writes : told'[w] = IF w \in ToSet(eng.tx.shadow) THEN "undone" ELSE told[w]
        /\ InOrder(told') /\ \A w \in Writes : told'[w] \in {"new", "open"} => told[w] \in {"new", "open"}
        /\ \A w \in ToSet(buffer.stmts) : told'[w] # "new"
    BY <1>3, <2>1
  <2>6. db' = db /\ worker' = worker /\ call' = call
    BY <2>1
  <2> QED BY <2>2, <2>3, <2>4, <2>5, <2>6, ToldCarries
<1>7. ASSUME NEW n \in Names, Savepoint(t, n) PROVE ToldInv'
  <2>1. /\ eng'.tx.open = eng.tx.open /\ eng'.tx.shadow = eng.tx.shadow /\ eng'.base = eng.base
        /\ eng'.tx.saves = Push(eng.tx.saves, n, eng.tx.shadow)
        /\ buffer'.on = buffer.on /\ buffer'.stmts = buffer.stmts /\ eng.tx.open
        /\ UNCHANGED <<call, worker, db, told>>
    BY <1>2, <1>7 DEF Savepoint, TxT
  <2>2. Nested(eng'.tx)
    BY <1>1, <2>1, NestedPush
  <2> QED BY <1>1, <2>1, <2>2, ToldCarries
<1>8. ASSUME NEW n \in Names, RollbackTo(t, n) PROVE ToldInv'
  <2>1. PICK i \in Place(eng.tx.saves, n) :
          /\ eng' = [eng EXCEPT !.tx = [open |-> TRUE, aborted |-> FALSE, shadow |-> eng.tx.saves[i].at,
                                        saves |-> SubSeq(eng.tx.saves, 1, i)]]
          /\ Tell(ToSet(eng.tx.shadow) \ ToSet(eng.tx.saves[i].at), {}, "undone")
    BY <1>8 DEF RollbackTo
  <2>2. /\ eng'.tx.open = TRUE /\ eng'.tx.shadow = eng.tx.saves[i].at /\ eng'.tx.saves = SubSeq(eng.tx.saves, 1, i)
        /\ eng'.base = eng.base
    BY <1>2, <2>1
  <2>3. UNCHANGED <<call, worker, db>> /\ eng.tx.open
    BY <1>8 DEF RollbackTo
  <2>4. ToSet(eng.tx.saves[i].at) \subseteq ToSet(eng.tx.shadow) /\ Nested(eng'.tx)
    BY <1>1, <2>2, NestedCut
  <2> DEFINE gone == ToSet(eng.tx.shadow) \ ToSet(eng.tx.saves[i].at)
  <2>5. /\ \A w \in Writes : told'[w] = IF w \in gone THEN "undone" ELSE told[w]
        /\ InOrder(told') /\ \A w \in Writes : told'[w] \in {"new", "open"} => told[w] \in {"new", "open"}
        /\ \A w \in ToSet(buffer.stmts) : told'[w] # "new"
    BY <1>3, <2>1
  <2>6. \A w \in ToSet(eng'.tx.shadow) : told'[w] = "open"
    BY <1>1, <2>2, <2>4, <2>5
  <2>7. ToSet(buffer'.stmts) \subseteq ToSet(buffer.stmts) /\ buffer'.on = buffer.on
    <3>1. CASE Place(buffer.marks, n) = {}
      BY <1>8, <3>1 DEF RollbackTo
    <3>2. CASE Place(buffer.marks, n) # {}
      <4> DEFINE j == CHOOSE l \in Place(buffer.marks, n) : TRUE
      <4>1. /\ buffer' = [buffer EXCEPT !.stmts = SubSeq(@, 1, buffer.marks[j].at), !.marks = SubSeq(@, 1, j)]
            /\ j \in Place(buffer.marks, n)
        BY <1>8, <3>2 DEF RollbackTo
      <4> HIDE DEF j
      <4>2. buffer'.stmts = SubSeq(buffer.stmts, 1, buffer.marks[j].at) /\ buffer'.on = buffer.on
        BY <1>2, <4>1
      <4>3. j \in DOMAIN buffer.marks
        BY <4>1 DEF Place
      <4>4. buffer.marks[j].at \in 0 .. Len(buffer.stmts)
        BY <4>3, BufferIs DEF MarksInv
      <4> QED BY <1>2, <4>2, <4>4, ToSets
    <3> QED BY <3>1, <3>2
  <2>8. eng'.tx.open => buffer'.on
    BY <1>1, <2>3, <2>7
  <2>9. db' = db /\ worker' = worker /\ call' = call
    BY <2>3
  <2>10. \A w \in ToSet(buffer'.stmts) : told'[w] # "new"
    BY <2>5, <2>7
  <2> HIDE DEF gone
  <2> QED BY <2>2, <2>4, <2>5, <2>6, <2>8, <2>9, <2>10, ToldCarries
<1>9. ASSUME NEW n \in Names, Release(t, n) PROVE ToldInv'
  <2>1. PICK i \in Place(eng.tx.saves, n) : eng' = [eng EXCEPT !.tx.saves = SubSeq(@, 1, i - 1)]
    BY <1>9 DEF Release
  <2>2. /\ eng'.tx.open = eng.tx.open /\ eng'.tx.shadow = eng.tx.shadow /\ eng'.base = eng.base
        /\ eng'.tx.saves = SubSeq(eng.tx.saves, 1, i - 1) /\ eng.tx.open
        /\ UNCHANGED <<buffer, call, worker, db, told>>
    BY <1>2, <1>9, <2>1 DEF Release, TxT
  <2>3. Nested(eng'.tx)
    BY <1>1, <2>2, NestedCut
  <2> QED BY <1>1, <2>2, <2>3, ToldCarries
<1>10. CASE Checkpoint(t)
  BY <1>1, <1>10, ToldCarries DEF Checkpoint
<1> QED BY <1>4, <1>5, <1>6, <1>7, <1>8, <1>9, <1>10, StatementTold, CommitTold DEF Plain

---------------------------------------------------------------------------
(* The records against the snapshot, the engine and the clients.           *)

\* A record a boot could read is whole.
LEMMA RecTypes ==
  ASSUME TypeInv, NEW r \in Recs(Live)
  PROVE  r \in RecordsT /\ r.lsn \in Nat /\ r.ws \in SUBSET Writes /\ r.kind \in {"DATA", "MARK"}
<1> DEFINE F == Store(chunks, group.buf, call, worker)
<1>1. /\ chunks \in Seq(Seq(RecordsT)) /\ group.buf \in Seq(IntactT) /\ call \in [Callers -> CallT] /\ worker \in WorkT
  BY DEF TypeInv, GroupT
<1>2. IsStore(F, chunks, group.buf, call, worker)
  BY <1>1, StoreIs
<1>3. r \in Recs(F)
  BY DEF Live
<1> HIDE DEF F
<1>4. PICK a \in DOMAIN F : \E i \in Parsed(F[a]) : r = F[a][i]
  BY <1>3, RecsIs
<1>5. PICK i \in Parsed(F[a]) : r = F[a][i]
  BY <1>4
<1>6. F[a] \in Seq(RecordsT)
  BY <1>2 DEF IsStore
<1>7. i \in 1 .. Len(F[a]) /\ F[a][i].kind # "TORN"
  BY <1>6 DEF Parsed
<1>8. r \in RecordsT
  BY <1>5, <1>6, <1>7
<1> QED BY <1>5, <1>7, <1>8 DEF RecordsT

ContentInv == LogInv /\ OnceInv /\ UndoneInv /\ CoverInv

\* A step that logs nothing, captures nothing and moves the clients of open
\* writes only.
LEMMA QuietStep ==
  ASSUME TypeInv, ToldInv, ContentInv, Carries, lsn' = lsn, db' = db, eng'.base = eng.base,
         worker'.at = "pending" => worker.at = "pending" /\ worker'.snap = worker.snap /\ worker'.lsn = worker.lsn,
         worker'.at = "renamed" => worker.at = "renamed" /\ worker'.lsn = worker.lsn,
         mishaps \subseteq mishaps',
         \A w \in Writes : told'[w] = told[w] \/ (told[w] \in {"new", "open"} /\ told'[w] \in {"open", "undone"}),
         \A w \in ToSet(buffer'.stmts) : w \in ToSet(buffer.stmts) \/ told[w] = "new"
  PROVE  ContentInv'
<1>1. \A r \in Recs(Live) : r.ws \in SUBSET Writes
  BY RecTypes
<1>2. /\ Single(Live)
      /\ \A r \in Recs(Live) :
           /\ r.lsn <= lsn /\ (r.kind = "DATA" => r.lsn > 0)
           /\ r.kind = "MARK" => /\ r.ws = {} /\ r.lsn <= db.lsn
                                 /\ worker.at = "pending" => r.lsn <= worker.lsn
           /\ \A w \in r.ws : told[w] \notin {"new", "open"} /\ w \notin ToSet(buffer.stmts)
      /\ worker.at \in {"pending", "renamed"} => worker.lsn <= lsn
      /\ worker.at = "renamed" => worker.lsn = db.lsn
  BY DEF ContentInv, LogInv
<1>3. Recs(Live') \subseteq Recs(Live) /\ Single(Live')
  BY <1>2 DEF Carries
<1>4. LogInv'
  <2>1. ASSUME NEW r \in Recs(Live')
        PROVE  /\ r.lsn <= lsn' /\ (r.kind = "DATA" => r.lsn > 0)
               /\ r.kind = "MARK" => /\ r.ws = {} /\ r.lsn <= db'.lsn
                                     /\ worker'.at = "pending" => r.lsn <= worker'.lsn
               /\ \A w \in r.ws : told'[w] \notin {"new", "open"} /\ w \notin ToSet(buffer'.stmts)
    BY <1>1, <1>2, <1>3
  <2>2. /\ worker'.at \in {"pending", "renamed"} => worker'.lsn <= lsn'
        /\ worker'.at = "renamed" => worker'.lsn = db'.lsn
    BY <1>2
  <2> QED BY <1>3, <2>1, <2>2 DEF LogInv
<1>5. OnceInv'
  <2>1. SUFFICES ASSUME mishaps' \cap {"window", "refused"} = {} PROVE OnceInv'
    BY DEF OnceInv
  <2>2. mishaps \cap {"window", "refused"} = {}
    BY <2>1
  <2>3. /\ db.lsn <= lsn
        /\ \A w \in Writes : eng.base[w] <= 1 /\ db.data[w] <= 1
        /\ worker.at = "pending" => \A w \in Writes : worker.snap[w] <= 1
        /\ \A r \in Recs(Live) : \A w \in r.ws :
             /\ db.data[w] > 0 => r.lsn <= db.lsn
             /\ worker.at = "pending" /\ worker.snap[w] > 0 => r.lsn <= worker.lsn
    BY <2>2 DEF ContentInv, OnceInv
  <2> QED BY <1>3, <2>3 DEF OnceInv
<1>6. UndoneInv'
  <2>1. SUFFICES ASSUME mishaps' \cap {"aborted", "refused"} = {}, NEW w \in Writes, told'[w] = "undone"
                 PROVE  /\ eng'.base[w] = 0 /\ db'.data[w] = 0
                        /\ worker'.at = "pending" => worker'.snap[w] = 0
                        /\ \A r \in Recs(Live') : w \notin r.ws
    BY DEF UndoneInv
  <2>2. mishaps \cap {"aborted", "refused"} = {}
    BY <2>1
  <2>3. CASE told[w] = "undone"
    BY <1>3, <2>2, <2>3 DEF ContentInv, UndoneInv
  <2>4. CASE told[w] \in {"new", "open"}
    BY <1>2, <1>3, <2>4 DEF ToldInv
  <2> QED BY <2>1, <2>3, <2>4
<1>7. CoverInv'
  <2>1. SUFFICES ASSUME NEW r \in Recs(Live'), NEW w \in r.ws, told'[w] \in {"sent", "acked"}
                 PROVE  /\ eng'.base[w] > 0
                        /\ worker'.at = "pending" /\ r.lsn <= worker'.lsn => worker'.snap[w] > 0
                        /\ worker'.at = "renamed" /\ r.lsn <= worker'.lsn => db'.data[w] > 0
                        /\ \A m \in Recs(Live') : m.kind = "MARK" /\ r.lsn <= m.lsn => db'.data[w] > 0
    BY DEF CoverInv
  <2>2. r \in Recs(Live) /\ w \in Writes /\ told[w] \in {"sent", "acked"}
    BY <1>1, <1>3, <2>1
  <2> QED BY <1>3, <2>2 DEF ContentInv, CoverInv
<1> QED BY <1>4, <1>5, <1>6, <1>7 DEF ContentInv

\* A record is logged, perhaps with a checkpoint.
LEMMA LogStep ==
  ASSUME TypeInv, TypeInv', ToldInv, ContentInv, NEW t \in Callers, NEW ws \in SUBSET Writes, NEW kept \in SUBSET ws,
         call[t].at = "idle", LogAndTrigger(t, ws, kept), Answers(ws, kept), chunks' = chunks, db' = db,
         eng'.base = Plus(eng.base, kept),
         \A w \in ws : told[w] = "new" \/ w \in ToSet(buffer.stmts),
         \A w \in kept : told[w] \in {"new", "open"},
         mishaps \subseteq mishaps',
         "refused" \notin mishaps' => \A w \in ws : told[w] \in {"new", "open"},
         mishaps' \cap {"aborted", "refused"} = {} => kept = ws,
         ToSet(buffer'.stmts) \subseteq ToSet(buffer.stmts) \ ws
  PROVE  ContentInv'
<1> DEFINE new == Data(lsn + 1, ws)
<1>1. /\ \A r \in Recs(Live) : r.ws \in SUBSET Writes /\ r.lsn \in Nat
      /\ lsn \in Nat /\ worker.lsn \in Nat /\ db.lsn \in Nat /\ eng.base \in Databases
  BY RecTypes, Typed DEF TypeInv
<1>2. /\ Single(Live)
      /\ \A r \in Recs(Live) :
           /\ r.lsn <= lsn /\ (r.kind = "DATA" => r.lsn > 0)
           /\ r.kind = "MARK" => /\ r.ws = {} /\ r.lsn <= db.lsn
                                 /\ worker.at = "pending" => r.lsn <= worker.lsn
           /\ \A w \in r.ws : told[w] \notin {"new", "open"} /\ w \notin ToSet(buffer.stmts)
      /\ worker.at \in {"pending", "renamed"} => worker.lsn <= lsn
      /\ worker.at = "renamed" => worker.lsn = db.lsn
  BY DEF ContentInv, LogInv
<1>3. new \in IntactT /\ new.kind = "DATA" /\ new.lsn = lsn + 1 /\ new.ws = ws
  BY <1>1 DEF Data, IntactT
<1>4. /\ lsn' = lsn + 1
      /\ group'.buf = Append(group.buf, new)
      /\ \A u \in Callers \ {t} : call'[u] = call[u]
      /\ call' = call \/ call'[t].at = "waiting"
      /\ Tell(ws, kept, "unknown") \/ Tell(ws, kept, "sent")
  BY LogIs, LogTells
<1>5. \/ worker'.at = worker.at /\ worker'.snap = worker.snap /\ worker'.lsn = worker.lsn /\ worker'.batch = worker.batch
      \/ worker.at = "idle" /\ worker'.at = "pending" /\ worker'.snap = eng'.base /\ worker'.lsn = lsn + 1
  BY LogIs
<1>6. \A w \in Writes : /\ w \in kept => told'[w] \in {"unknown", "sent"}
                        /\ w \notin kept /\ w \in ws => told'[w] = "undone"
                        /\ w \notin ws => told'[w] = told[w]
  <2>1. told \in [Writes -> Tells]
    BY ToldIs
  <2> QED BY <1>4, <2>1, TellType DEF Tells
<1> HIDE DEF new
<1>7. \A r \in Recs(Live) : r.ws \cap ws = {}
  BY <1>2
<1>8. Adds(new)
  <2>1. \A u \in Callers : Held(call'[u]) = Held(call[u])
    BY <1>4 DEF Held
  <2>2. Held(worker') = Held(worker)
    BY <1>5 DEF Held
  <2> QED BY <1>3, <1>4, <1>7, <2>1, <2>2, EnqueueAdds
<1>9. Single(Live') /\ \A r \in Recs(Live') : r \in Recs(Live) \/ r = new
  BY <1>2, <1>8 DEF Adds
<1>10. \A w \in Writes : /\ w \in kept => eng'.base[w] = eng.base[w] + 1
                         /\ w \notin kept => eng'.base[w] = eng.base[w]
                         /\ eng.base[w] \in Nat
  BY <1>1, PlusIs DEF Databases
<1>11. \A m \in Nat : m <= lsn => m <= lsn + 1 /\ ~(lsn + 1 <= m)
  BY <1>1
<1>12. LogInv'
  <2>1. ASSUME NEW r \in Recs(Live')
        PROVE  /\ r.lsn <= lsn' /\ (r.kind = "DATA" => r.lsn > 0)
               /\ r.kind = "MARK" => /\ r.ws = {} /\ r.lsn <= db'.lsn
                                     /\ worker'.at = "pending" => r.lsn <= worker'.lsn
               /\ \A w \in r.ws : told'[w] \notin {"new", "open"} /\ w \notin ToSet(buffer'.stmts)
    <3>1. CASE r = new
      <4>1. r.lsn <= lsn' /\ r.lsn > 0 /\ r.kind # "MARK"
        BY <1>1, <1>3, <1>4, <3>1
      <4>2. \A w \in r.ws : told'[w] \notin {"new", "open"} /\ w \notin ToSet(buffer'.stmts)
        BY <1>3, <1>6, <3>1
      <4> QED BY <4>1, <4>2
    <3>2. CASE r \in Recs(Live)
      <4>1. r.lsn <= lsn + 1 /\ (r.kind = "DATA" => r.lsn > 0)
        BY <1>1, <1>2, <1>11, <3>2
      <4>2. r.kind = "MARK" => r.ws = {} /\ r.lsn <= db'.lsn /\ (worker'.at = "pending" => r.lsn <= worker'.lsn)
        BY <1>2, <1>5, <3>2, <4>1
      <4>3. \A w \in r.ws : told'[w] \notin {"new", "open"} /\ w \notin ToSet(buffer'.stmts)
        BY <1>1, <1>2, <1>6, <1>7, <3>2
      <4> QED BY <1>4, <4>1, <4>2, <4>3
    <3> QED BY <1>9, <3>1, <3>2
  <2>2. /\ worker'.at \in {"pending", "renamed"} => worker'.lsn <= lsn'
        /\ worker'.at = "renamed" => worker'.lsn = db'.lsn
    BY <1>1, <1>2, <1>4, <1>5
  <2> QED BY <1>9, <2>1, <2>2 DEF LogInv
<1>13. OnceInv'
  <2>1. SUFFICES ASSUME mishaps' \cap {"window", "refused"} = {}
                 PROVE  /\ db'.lsn <= lsn'
                        /\ \A w \in Writes : eng'.base[w] <= 1 /\ db'.data[w] <= 1
                        /\ worker'.at = "pending" => \A w \in Writes : worker'.snap[w] <= 1
                        /\ \A r \in Recs(Live') : \A w \in r.ws :
                             /\ db'.data[w] > 0 => r.lsn <= db'.lsn
                             /\ worker'.at = "pending" /\ worker'.snap[w] > 0 => r.lsn <= worker'.lsn
    BY DEF OnceInv
  <2>2. /\ db.lsn <= lsn
        /\ \A w \in Writes : eng.base[w] <= 1 /\ db.data[w] <= 1
        /\ worker.at = "pending" => \A w \in Writes : worker.snap[w] <= 1
        /\ \A r \in Recs(Live) : \A w \in r.ws :
             /\ db.data[w] > 0 => r.lsn <= db.lsn
             /\ worker.at = "pending" /\ worker.snap[w] > 0 => r.lsn <= worker.lsn
    BY <2>1 DEF ContentInv, OnceInv
  <2>3. \A w \in ws : /\ eng.base[w] = 0 /\ db.data[w] = 0
                      /\ worker.at = "pending" => worker.snap[w] = 0
    BY <2>1 DEF ToldInv
  <2>4. db'.lsn <= lsn'
    BY <1>1, <1>4, <2>2
  <2>5. \A w \in Writes : eng'.base[w] <= 1
    BY <1>10, <2>2, <2>3
  <2>6. worker'.at = "pending" => \A w \in Writes : worker'.snap[w] <= 1
    BY <1>5, <2>2, <2>5
  <2>7. ASSUME NEW r \in Recs(Live'), NEW w \in r.ws
        PROVE  /\ db'.data[w] > 0 => r.lsn <= db'.lsn
               /\ worker'.at = "pending" /\ worker'.snap[w] > 0 => r.lsn <= worker'.lsn
    <3>1. CASE r = new
      <4>1. w \in ws /\ r.lsn = lsn + 1 /\ lsn + 1 <= lsn + 1 /\ ~(0 > 0)
        BY <1>1, <1>3, <2>7, <3>1
      <4> QED BY <1>5, <2>3, <4>1
    <3>2. CASE r \in Recs(Live)
      <4>1. r.lsn <= lsn + 1
        BY <1>1, <1>2, <1>11, <3>2
      <4> QED BY <1>5, <2>2, <2>7, <3>2, <4>1
    <3> QED BY <1>9, <3>1, <3>2
  <2> QED BY <2>2, <2>4, <2>5, <2>6, <2>7
<1>14. UndoneInv'
  <2>1. SUFFICES ASSUME mishaps' \cap {"aborted", "refused"} = {}, NEW w \in Writes, told'[w] = "undone"
                 PROVE  /\ eng'.base[w] = 0 /\ db'.data[w] = 0
                        /\ worker'.at = "pending" => worker'.snap[w] = 0
                        /\ \A r \in Recs(Live') : w \notin r.ws
    BY DEF UndoneInv
  <2>2. mishaps \cap {"aborted", "refused"} = {} /\ kept = ws
    BY <2>1
  <2>3. w \notin ws /\ told[w] = "undone"
    BY <1>6, <2>1, <2>2
  <2>4. /\ eng.base[w] = 0 /\ db.data[w] = 0
        /\ worker.at = "pending" => worker.snap[w] = 0
        /\ \A r \in Recs(Live) : w \notin r.ws
    BY <2>2, <2>3 DEF ContentInv, UndoneInv
  <2>5. eng'.base[w] = 0
    BY <1>10, <2>2, <2>3, <2>4
  <2>6. \A r \in Recs(Live') : w \notin r.ws
    BY <1>3, <1>9, <2>3, <2>4
  <2> QED BY <1>5, <2>4, <2>5, <2>6
<1>15. CoverInv'
  <2>1. SUFFICES ASSUME NEW r \in Recs(Live'), NEW w \in r.ws, told'[w] \in {"sent", "acked"}
                 PROVE  /\ eng'.base[w] > 0
                        /\ worker'.at = "pending" /\ r.lsn <= worker'.lsn => worker'.snap[w] > 0
                        /\ worker'.at = "renamed" /\ r.lsn <= worker'.lsn => db'.data[w] > 0
                        /\ \A m \in Recs(Live') : m.kind = "MARK" /\ r.lsn <= m.lsn => db'.data[w] > 0
    BY DEF CoverInv
  <2>2. \A m \in Recs(Live') : m.kind = "MARK" => m \in Recs(Live)
    BY <1>3, <1>9
  <2>3. CASE r = new
    <3>1. w \in ws /\ r.lsn = lsn + 1 /\ w \in Writes
      BY <1>3, <2>1, <2>3
    <3>2. w \in kept
      BY <1>6, <2>1, <3>1
    <3>3. eng'.base[w] > 0
      BY <1>10, <3>1, <3>2
    <3>4. \A m \in Recs(Live') : m.kind = "MARK" => ~(r.lsn <= m.lsn)
      BY <1>1, <1>2, <1>11, <2>2, <3>1
    <3>5. worker.at \in {"pending", "renamed"} => ~(r.lsn <= worker.lsn)
      BY <1>1, <1>2, <1>11, <3>1
    <3> QED BY <1>5, <3>3, <3>4, <3>5
  <2>4. CASE r \in Recs(Live)
    <3>1. w \in Writes /\ w \notin ws /\ told[w] \in {"sent", "acked"}
      BY <1>1, <1>6, <1>7, <2>1, <2>4
    <3>2. /\ eng.base[w] > 0
          /\ worker.at = "pending" /\ r.lsn <= worker.lsn => worker.snap[w] > 0
          /\ worker.at = "renamed" /\ r.lsn <= worker.lsn => db.data[w] > 0
          /\ \A m \in Recs(Live) : m.kind = "MARK" /\ r.lsn <= m.lsn => db.data[w] > 0
      BY <2>1, <2>4, <3>1 DEF ContentInv, CoverInv
    <3>3. eng'.base[w] > 0
      BY <1>10, <3>1, <3>2
    <3> QED BY <1>5, <2>2, <3>2, <3>3
  <2> QED BY <1>9, <2>3, <2>4
<1> QED BY <1>12, <1>13, <1>14, <1>15 DEF ContentInv

\* The answer to a ticket.
LEMMA AnswerStep ==
  ASSUME TypeInv, ToldInv, TicketInv, ContentInv, NEW t \in Callers, Answer(t)
  PROVE  ContentInv' /\ ToldInv' /\ TicketInv'
<1> DEFINE what == IF group.failed THEN "unknown" ELSE "acked"
<1>1. /\ call[t].at = "waiting" /\ Tell({}, call[t].ws, what) /\ call' = [call EXCEPT ![t] = Idle]
      /\ UNCHANGED <<eng, buffer, lsn, group, chunks, worker, db, mishaps>>
  BY DEF Answer, logVars
<1>2. told \in [Writes -> Tells] /\ call \in [Callers -> CallT] /\ \A u \in Callers : call[u].ws \in SUBSET Writes
  BY ToldIs, Typed
<1>3. \A w \in Writes : told'[w] = IF w \in call[t].ws THEN what ELSE told[w]
  BY <1>1, <1>2, TellType DEF Tells
<1>4. what \in {"unknown", "acked"}
  OBVIOUS
<1> HIDE DEF what
<1>5. call'[t] = Idle /\ \A u \in Callers \ {t} : call'[u] = call[u]
  BY <1>1, <1>2
<1>6. \A w \in call[t].ws : told[w] = "sent"
  BY DEF TicketInv
<1>7. \A w \in Writes : told'[w] = told[w] \/ (told[w] = "sent" /\ told'[w] \in {"unknown", "acked"})
  BY <1>3, <1>4, <1>6
<1>8. Carries
  <2>1. \A u \in Callers : Held(call'[u]) = Held(call[u])
    BY <1>1, <1>5, Rests DEF Held
  <2> QED BY <1>1, <2>1, SameCarries
<1>9. Recs(Live') \subseteq Recs(Live) /\ Single(Live')
  BY <1>8 DEF Carries, ContentInv, LogInv
<1>10. \A r \in Recs(Live) : r.ws \in SUBSET Writes
  BY RecTypes
<1>11. LogInv'
  <2>1. \A r \in Recs(Live') : \A w \in r.ws : told'[w] \notin {"new", "open"}
    BY <1>7, <1>9, <1>10 DEF ContentInv, LogInv
  <2>2. ASSUME NEW r \in Recs(Live')
        PROVE  /\ r.lsn <= lsn' /\ (r.kind = "DATA" => r.lsn > 0)
               /\ r.kind = "MARK" => /\ r.ws = {} /\ r.lsn <= db'.lsn
                                     /\ worker'.at = "pending" => r.lsn <= worker'.lsn
               /\ \A w \in r.ws : w \notin ToSet(buffer'.stmts)
    BY <1>1, <1>9 DEF ContentInv, LogInv
  <2> QED BY <1>1, <1>9, <2>1, <2>2 DEF ContentInv, LogInv
<1>12. OnceInv'
  <2>1. \A r \in Recs(Live') : r \in Recs(Live)
    BY <1>9
  <2>2. eng' = eng /\ lsn' = lsn /\ worker' = worker /\ db' = db /\ mishaps' = mishaps
    BY <1>1
  <2> QED BY <2>1, <2>2 DEF ContentInv, OnceInv
<1>13. UndoneInv'
  <2>1. \A w \in Writes : told'[w] = "undone" => told[w] = "undone"
    BY <1>7
  <2> QED BY <1>1, <1>9, <2>1 DEF ContentInv, UndoneInv
<1>14. CoverInv'
  <2>1. \A r \in Recs(Live') : \A w \in r.ws : told'[w] \in {"sent", "acked"} => r \in Recs(Live) /\ told[w] \in {"sent", "acked"}
    BY <1>7, <1>9, <1>10
  <2> QED BY <1>1, <1>9, <2>1 DEF ContentInv, CoverInv
<1>15. ToldInv'
  <2>1. InOrder(told')
    <3>1. \A w \in Writes : told'[w] # "new" <=> told[w] # "new"
      BY <1>7
    <3> QED BY <3>1, ToldIs DEF InOrder
  <2>2. \A w \in Writes : told'[w] \in {"new", "open"} => told[w] \in {"new", "open"}
    BY <1>7
  <2>3. \A w \in ToSet(eng'.tx.shadow) : told'[w] = "open"
    BY <1>1, <1>7, ToldIs
  <2>4. \A w \in ToSet(buffer'.stmts) : told'[w] # "new"
    BY <1>1, <1>7, ToldIs
  <2>5. Nested(eng'.tx) /\ (~eng'.tx.open => eng'.tx = NoTx) /\ (eng'.tx.open => buffer'.on)
    BY <1>1, ToldIs
  <2> QED BY <1>1, <2>1, <2>2, <2>3, <2>4, <2>5, ToldCarries
<1>16. TicketInv'
  <2>1. SUFFICES ASSUME NEW u \in Callers, NEW w \in call'[u].ws
                 PROVE  /\ told'[w] = "sent" /\ w \notin ToSet(buffer'.stmts)
                        /\ \A v \in Callers : w \in call'[v].ws => v = u
    BY DEF TicketInv
  <2>2. call'[t].ws = {}
    BY <1>5 DEF Idle
  <2>3. u # t /\ w \in call[u].ws /\ w \in Writes
    BY <1>2, <1>5, <2>1, <2>2
  <2>4. w \notin call[t].ws
    BY <2>3 DEF TicketInv
  <2>5. told'[w] = told[w]
    BY <1>3, <2>3, <2>4
  <2> QED BY <1>1, <1>5, <2>2, <2>3, <2>5 DEF TicketInv
<1> QED BY <1>11, <1>12, <1>13, <1>14, <1>15, <1>16 DEF ContentInv

\* checkpoint() hands the worker what the engine has.
LEMMA CaptureStep ==
  ASSUME TypeInv, ContentInv, Carries, UNCHANGED <<eng, buffer, lsn, db, told, mishaps>>,
         worker'.at = "pending", worker'.snap = eng.base, worker'.lsn = lsn
  PROVE  ContentInv'
<1>1. lsn \in Nat
  BY Typed
<1>2. Recs(Live') \subseteq Recs(Live) /\ Single(Live')
  BY DEF Carries, ContentInv, LogInv
<1>3. LogInv'
  <2>1. ASSUME NEW r \in Recs(Live')
        PROVE  /\ r.lsn <= lsn' /\ (r.kind = "DATA" => r.lsn > 0)
               /\ r.kind = "MARK" => /\ r.ws = {} /\ r.lsn <= db'.lsn
                                     /\ worker'.at = "pending" => r.lsn <= worker'.lsn
               /\ \A w \in r.ws : told'[w] \notin {"new", "open"} /\ w \notin ToSet(buffer'.stmts)
    BY <1>2 DEF ContentInv, LogInv
  <2> QED BY <1>1, <1>2, <2>1 DEF LogInv
<1>4. OnceInv'
  <2>1. \A r \in Recs(Live') : r \in Recs(Live) /\ r.lsn <= lsn
    BY <1>2 DEF ContentInv, LogInv
  <2> QED BY <2>1 DEF ContentInv, OnceInv
<1>5. UndoneInv'
  BY <1>2 DEF ContentInv, UndoneInv
<1>6. CoverInv'
  BY <1>2 DEF ContentInv, CoverInv
<1> QED BY <1>3, <1>4, <1>5, <1>6 DEF ContentInv

\* The snapshot replaces the old one.
LEMMA RenameStep ==
  ASSUME TypeInv, ContentInv, Carries, Rename
  PROVE  ContentInv'
<1>1. /\ worker.at = "pending" /\ worker'.at = "renamed" /\ worker'.lsn = worker.lsn
      /\ db'.data = worker.snap /\ db'.lsn = worker.lsn
      /\ UNCHANGED <<eng, buffer, lsn, told, mishaps>>
  BY Typed DEF Rename, WorkT
<1>2. Recs(Live') \subseteq Recs(Live) /\ Single(Live')
  BY DEF Carries, ContentInv, LogInv
<1>3. /\ \A r \in Recs(Live) :
           /\ r.lsn <= lsn /\ (r.kind = "DATA" => r.lsn > 0)
           /\ r.kind = "MARK" => r.ws = {} /\ r.lsn <= worker.lsn
           /\ \A w \in r.ws : told[w] \notin {"new", "open"} /\ w \notin ToSet(buffer.stmts)
      /\ worker.lsn <= lsn
  BY <1>1 DEF ContentInv, LogInv
<1>4. LogInv'
  <2>1. \A r \in Recs(Live') :
           /\ r.lsn <= lsn' /\ (r.kind = "DATA" => r.lsn > 0)
           /\ r.kind = "MARK" => r.ws = {} /\ r.lsn <= db'.lsn
           /\ \A w \in r.ws : told'[w] \notin {"new", "open"} /\ w \notin ToSet(buffer'.stmts)
    BY <1>1, <1>2, <1>3
  <2>2. worker'.lsn <= lsn' /\ worker'.lsn = db'.lsn /\ worker'.at # "pending"
    BY <1>1, <1>3
  <2> QED BY <1>2, <2>1, <2>2 DEF LogInv
<1>5. OnceInv'
  <2>1. SUFFICES ASSUME mishaps' \cap {"window", "refused"} = {} PROVE OnceInv'
    BY DEF OnceInv
  <2>2. /\ \A w \in Writes : eng.base[w] <= 1 /\ worker.snap[w] <= 1
        /\ \A r \in Recs(Live) : \A w \in r.ws : worker.snap[w] > 0 => r.lsn <= worker.lsn
    BY <1>1, <2>1 DEF ContentInv, OnceInv
  <2> QED BY <1>1, <1>2, <1>3, <2>2 DEF OnceInv
<1>6. UndoneInv'
  BY <1>1, <1>2 DEF ContentInv, UndoneInv
<1>7. CoverInv'
  <2>1. SUFFICES ASSUME NEW r \in Recs(Live'), NEW w \in r.ws, told'[w] \in {"sent", "acked"}
                 PROVE  /\ eng'.base[w] > 0
                        /\ worker'.at = "pending" /\ r.lsn <= worker'.lsn => worker'.snap[w] > 0
                        /\ worker'.at = "renamed" /\ r.lsn <= worker'.lsn => db'.data[w] > 0
                        /\ \A m \in Recs(Live') : m.kind = "MARK" /\ r.lsn <= m.lsn => db'.data[w] > 0
    BY DEF CoverInv
  <2>2. eng.base[w] > 0 /\ (r.lsn <= worker.lsn => worker.snap[w] > 0)
    BY <1>1, <1>2, <2>1 DEF ContentInv, CoverInv
  <2>3. ASSUME NEW m \in Recs(Live'), m.kind = "MARK", r.lsn <= m.lsn PROVE r.lsn <= worker.lsn
    <3>1. r \in Recs(Live) /\ m \in Recs(Live) /\ m.lsn <= worker.lsn
      BY <1>2, <1>3, <2>1, <2>3
    <3>2. r.lsn \in Nat /\ m.lsn \in Nat /\ worker.lsn \in Nat
      BY <3>1, RecTypes, Typed
    <3> QED BY <2>3, <3>1, <3>2
  <2> QED BY <1>1, <2>2, <2>3
<1> QED BY <1>4, <1>5, <1>6, <1>7 DEF ContentInv

\* The marker names the snapshot that is on the disk.
LEMMA MarkStep ==
  ASSUME TypeInv, TypeInv', ContentInv, Mark
  PROVE  ContentInv'
<1> DEFINE new == Marker(worker.lsn)
<1>1. /\ worker.at = "renamed" /\ worker'.at = "marked" /\ group'.buf = Append(group.buf, new)
      /\ UNCHANGED <<eng, buffer, lsn, chunks, call, db, told, mishaps>>
  BY Typed DEF Mark, WorkT, Enqueued, GroupT
<1>2. new \in IntactT /\ new.kind = "MARK" /\ new.lsn = worker.lsn /\ new.ws = {} /\ worker.lsn \in Nat
  BY Typed DEF Marker, IntactT
<1> HIDE DEF new
<1>3. Adds(new)
  <2>1. Held(worker') = Held(worker)
    BY <1>1 DEF Held
  <2> QED BY <1>1, <1>2, <2>1, EnqueueAdds
<1>4. Single(Live') /\ \A r \in Recs(Live') : r \in Recs(Live) \/ r = new
  BY <1>3 DEF Adds, ContentInv, LogInv
<1>5. worker.lsn <= lsn /\ worker.lsn = db.lsn
  BY <1>1 DEF ContentInv, LogInv
<1>6. LogInv'
  <2>1. ASSUME NEW r \in Recs(Live')
        PROVE  /\ r.lsn <= lsn' /\ (r.kind = "DATA" => r.lsn > 0)
               /\ r.kind = "MARK" => r.ws = {} /\ r.lsn <= db'.lsn
               /\ \A w \in r.ws : told'[w] \notin {"new", "open"} /\ w \notin ToSet(buffer'.stmts)
    <3>1. CASE r = new
      BY <1>1, <1>2, <1>5, <3>1
    <3>2. CASE r \in Recs(Live)
      BY <1>1, <3>2 DEF ContentInv, LogInv
    <3> QED BY <1>4, <3>1, <3>2
  <2>2. worker'.at \notin {"pending", "renamed"}
    BY <1>1
  <2> QED BY <1>4, <2>1, <2>2 DEF LogInv
<1>7. OnceInv'
  <2>1. \A r \in Recs(Live') : r \in Recs(Live) \/ r.ws = {}
    BY <1>2, <1>4
  <2>2. worker'.at # "pending"
    BY <1>1
  <2> QED BY <1>1, <2>1, <2>2 DEF ContentInv, OnceInv
<1>8. UndoneInv'
  <2>1. \A r \in Recs(Live') : r \in Recs(Live) \/ r.ws = {}
    BY <1>2, <1>4
  <2>2. worker'.at # "pending"
    BY <1>1
  <2> QED BY <1>1, <2>1, <2>2 DEF ContentInv, UndoneInv
<1>9. CoverInv'
  <2>1. SUFFICES ASSUME NEW r \in Recs(Live'), NEW w \in r.ws, told'[w] \in {"sent", "acked"}
                 PROVE  /\ eng'.base[w] > 0
                        /\ worker'.at = "pending" /\ r.lsn <= worker'.lsn => worker'.snap[w] > 0
                        /\ worker'.at = "renamed" /\ r.lsn <= worker'.lsn => db'.data[w] > 0
                        /\ \A m \in Recs(Live') : m.kind = "MARK" /\ r.lsn <= m.lsn => db'.data[w] > 0
    BY DEF CoverInv
  <2>2. r \in Recs(Live)
    BY <1>2, <1>4, <2>1
  <2>3. /\ eng.base[w] > 0
        /\ r.lsn <= worker.lsn => db.data[w] > 0
        /\ \A m \in Recs(Live) : m.kind = "MARK" /\ r.lsn <= m.lsn => db.data[w] > 0
    BY <1>1, <2>1, <2>2 DEF ContentInv, CoverInv
  <2>4. \A m \in Recs(Live') : m.kind = "MARK" /\ r.lsn <= m.lsn => db'.data[w] > 0
    BY <1>1, <1>2, <1>4, <2>3
  <2> QED BY <1>1, <2>3, <2>4
<1> QED BY <1>6, <1>7, <1>8, <1>9 DEF ContentInv

\* With nothing in the buffer and nothing in hand, the records are on the disk.
LEMMA OnDisk ==
  ASSUME NEW F, NEW cs \in Seq(Seq(RecordsT)), NEW buf, NEW cl, NEW wk, IsStore(F, cs, buf, cl, wk),
         buf = <<>>, \A t \in Callers : Held(cl[t]) = <<>>, Held(wk) = <<>>, NEW r \in Recs(F)
  PROVE  \E p \in Parse(cs) : r = At(cs, p)
<1>1. PICK a \in DOMAIN F : \E i \in Parsed(F[a]) : r = F[a][i]
  BY RecsIs
<1>2. PICK i \in Parsed(F[a]) : r = F[a][i]
  BY <1>1
<1>3. \A x \in Parsed(<<>>) : FALSE
  BY DEF Parsed
<1>4. a \in Places(cs)
  BY DEF IsStore
<1>5. a \notin {<<"buf", 0>>, <<"work", 0>>}
  BY <1>2, <1>3 DEF IsStore
<1>6. \A t \in Callers : a # <<"call", t>>
  BY <1>2, <1>3 DEF IsStore
<1>7. PICK c \in 1 .. Len(cs) : a = <<"disk", c>>
  BY <1>4, <1>5, <1>6 DEF Places
<1>8. F[a] = cs[c]
  BY <1>7 DEF IsStore
<1>9. <<c, i>> \in Parse(cs)
  BY <1>2, <1>7, <1>8, ParseIs
<1>10. At(cs, <<c, i>>) = r
  BY <1>2, <1>8 DEF At
<1> QED BY <1>9, <1>10

\* A crash leaves nothing but the chunks.
LEMMA CrashRecs ==
  ASSUME TypeInv, TypeInv', Crash
  PROVE  \A r \in Recs(Live') : \E p \in Parse(chunks') : r = At(chunks', p)
<1> DEFINE G == Store(chunks', group'.buf, call', worker')
<1>1. IsStore(G, chunks', group'.buf, call', worker')
  BY LiveStores
<1>2. Live' = G
  BY DEF Live
<1>3. chunks' \in Seq(Seq(RecordsT))
  BY DEF TypeInv
<1>4. group'.buf = <<>>
  BY DEF Crash, NewGroup
<1>5. \A t \in Callers : Held(call'[t]) = <<>>
  BY DEF Crash, Idle, Held
<1>6. Held(worker') = <<>>
  <2>1. PICK k \in synced .. Len(Active) : \E torn \in BOOLEAN : CrashTo(k, torn)
    BY CrashIs
  <2>2. worker'.at \in {"idle", "pending"}
    BY <2>1 DEF CrashTo, NoJob
  <2> QED BY <2>2 DEF Held
<1> HIDE DEF G
<1>7. ASSUME NEW r \in Recs(G) PROVE \E p \in Parse(chunks') : r = At(chunks', p)
  <2> DEFINE cs == chunks'
             buf == group'.buf
             cl == call'
             wk == worker'
  <2>1. /\ cs \in Seq(Seq(RecordsT)) /\ IsStore(G, cs, buf, cl, wk) /\ buf = <<>>
        /\ \A t \in Callers : Held(cl[t]) = <<>>
        /\ Held(wk) = <<>>
    BY <1>1, <1>3, <1>4, <1>5, <1>6
  <2> HIDE DEF cs, buf, cl, wk
  <2>2. \E p \in Parse(cs) : r = At(cs, p)
    BY <1>7, <2>1, OnDisk
  <2> QED BY <2>2 DEF cs
<1>8. Recs(Live') = Recs(G)
  BY <1>2
<1> QED BY <1>7, <1>8

\* A boot: the log against the snapshot it starts from.
LEMMA CrashStep ==
  ASSUME TypeInv, TypeInv', ToldInv, ContentInv, Crash
  PROVE  ContentInv'
<1>1. PICK k \in synced .. Len(Active) : \E torn \in BOOLEAN : k \in 0 .. Len(Active) /\ CrashTo(k, torn)
  BY CrashIs
<1>2. PICK torn \in BOOLEAN : k \in 0 .. Len(Active) /\ CrashTo(k, torn)
  BY <1>1
<1> DEFINE cs == chunks'
           floor == Floor(cs)
           base == Reopened(db.data, cs)
<1>3. cs = Kept(k, torn) /\ LogInv
  BY <1>2 DEF CrashTo, ContentInv
<1>4. /\ \A p \in Parse(cs) : At(cs, p) \in Recs(Live)
      /\ floor \in Nat /\ LastLsn(cs) \in Nat /\ floor <= LastLsn(cs)
      /\ floor = 0 \/ \E p \in Parse(cs) : At(cs, p).kind = "MARK" /\ At(cs, p).lsn = floor
      /\ \A p \in Parse(cs) : At(cs, p).lsn <= LastLsn(cs)
      /\ floor <= db.lsn
      /\ base \in Databases
      /\ \A w \in Writes :
           /\ (\E p \in Replayable(cs) : w \in At(cs, p).ws) => base[w] = db.data[w] + 1
           /\ ~(\E p \in Replayable(cs) : w \in At(cs, p).ws) => base[w] = db.data[w]
  <2> HIDE DEF cs
  <2>1. k \in 0 .. Len(Active) /\ torn \in BOOLEAN
    BY <1>2
  <2>2. \A p \in Parse(cs) : At(cs, p) \in Recs(Live)
    BY <1>3, <2>1, BootIs
  <2>3. /\ Floor(cs) \in Nat /\ LastLsn(cs) \in Nat /\ Floor(cs) <= LastLsn(cs) /\ Floor(cs) <= db.lsn
        /\ Reopened(db.data, cs) \in Databases
    BY <1>3, <2>1, BootIs
  <2>4. Floor(cs) = 0 \/ \E p \in Parse(cs) : At(cs, p).kind = "MARK" /\ At(cs, p).lsn = Floor(cs)
    BY <1>3, <2>1, BootIs
  <2>5. \A p \in Parse(cs) : At(cs, p).lsn <= LastLsn(cs)
    BY <1>3, <2>1, BootIs
  <2>6. \A w \in Writes :
           /\ (\E p \in Replayable(cs) : w \in At(cs, p).ws) => Reopened(db.data, cs)[w] = db.data[w] + 1
           /\ ~(\E p \in Replayable(cs) : w \in At(cs, p).ws) => Reopened(db.data, cs)[w] = db.data[w]
    BY <1>3, <2>1, BootIs
  <2> QED BY <2>2, <2>3, <2>4, <2>5, <2>6
<1>5. /\ eng'.base = base /\ lsn' = LastLsn(cs) /\ db' = db
      /\ worker'.at = "idle" \/ (worker'.at = "pending" /\ worker'.snap = base /\ worker'.lsn = LastLsn(cs))
      /\ mishaps \subseteq mishaps' /\ (db.lsn > floor => "window" \in mishaps')
      /\ ToSet(buffer'.stmts) = {}
      /\ \A w \in Writes : told'[w] = CASE told[w] = "sent" -> "unknown"
                                        [] told[w] = "open" -> "undone"
                                        [] OTHER -> told[w]
  <2>1. /\ eng'.base = base /\ lsn' = LastLsn(cs)
        /\ mishaps \subseteq mishaps' /\ (db.lsn > floor => "window" \in mishaps')
    BY <1>2 DEF CrashTo, EngineAt
  <2>2. worker'.at = "idle" \/ (worker'.at = "pending" /\ worker'.snap = base /\ worker'.lsn = LastLsn(cs))
    <3>1. CASE Replayable(chunks') = {}
      BY <1>2, <3>1, Rests DEF CrashTo
    <3>2. CASE Replayable(chunks') # {}
      <4>1. worker' = [NoJob EXCEPT !.at = "pending", !.snap = base, !.lsn = LastLsn(cs)]
        BY <1>2, <3>2 DEF CrashTo
      <4> HIDE DEF base, cs
      <4> QED BY <4>1 DEF NoJob
    <3> QED BY <3>1, <3>2
  <2>3. ToSet(buffer'.stmts) = {}
    BY ToSets DEF Crash, NoBuffer
  <2> HIDE DEF base, cs, floor
  <2> QED BY <2>1, <2>2, <2>3 DEF Crash
<1>6. \A r \in Recs(Live') : r \in Recs(Live) /\ \E p \in Parse(cs) : r = At(cs, p)
  BY CrashCarries, CrashRecs DEF Carries
<1>7. \A p : p \in Replayable(cs) <=> p \in Parse(cs) /\ At(cs, p).kind = "DATA" /\ At(cs, p).lsn > floor
  BY DEF Replayable
<1> HIDE DEF cs, floor, base
<1>8. \A r \in Recs(Live) : r.lsn \in Nat /\ r.ws \in SUBSET Writes /\ r.kind \in {"DATA", "MARK"}
  BY RecTypes
<1>9. db.lsn \in Nat /\ db.data \in Databases /\ \A w \in Writes : db.data[w] \in Nat
  BY DEF TypeInv, Databases
<1>10. \A w \in Writes : told'[w] \in {"sent", "acked"} => told[w] = "acked"
  BY <1>5
<1>11. \A w \in Writes : told'[w] = "undone" => told[w] \in {"undone", "open"}
  BY <1>5
<1>12. \A w \in Writes : told'[w] \in {"new", "open"} => told[w] = "new"
  BY <1>5
<1>13. Single(Live')
  BY CrashCarries, <1>3 DEF Carries, LogInv
<1>14. LogInv'
  <2>1. ASSUME NEW r \in Recs(Live')
        PROVE  /\ r.lsn <= lsn' /\ (r.kind = "DATA" => r.lsn > 0)
               /\ r.kind = "MARK" => /\ r.ws = {} /\ r.lsn <= db'.lsn
                                     /\ worker'.at = "pending" => r.lsn <= worker'.lsn
               /\ \A w \in r.ws : told'[w] \notin {"new", "open"} /\ w \notin ToSet(buffer'.stmts)
    <3>1. r.lsn <= lsn' /\ (worker'.at = "pending" => r.lsn <= worker'.lsn)
      BY <1>4, <1>5, <1>6
    <3>2. \A w \in r.ws : told'[w] \notin {"new", "open"} /\ w \notin ToSet(buffer'.stmts)
      BY <1>3, <1>5, <1>6, <1>8, <1>12 DEF LogInv
    <3> QED BY <1>3, <1>5, <1>6, <3>1, <3>2 DEF LogInv
  <2> QED BY <1>4, <1>5, <1>13, <2>1 DEF LogInv
<1>15. OnceInv'
  <2>1. SUFFICES ASSUME mishaps' \cap {"window", "refused"} = {} PROVE OnceInv'
    BY DEF OnceInv
  <2>2. db.lsn = floor /\ mishaps \cap {"window", "refused"} = {}
    BY <1>4, <1>5, <1>9, <2>1
  <2>3. /\ \A w \in Writes : db.data[w] <= 1
        /\ \A r \in Recs(Live) : \A w \in r.ws : db.data[w] > 0 => r.lsn <= db.lsn
    BY <2>2 DEF ContentInv, OnceInv
  <2>4. ASSUME NEW w \in Writes PROVE base[w] <= 1
    <3>1. CASE \E p \in Replayable(cs) : w \in At(cs, p).ws
      <4>1. PICK p \in Replayable(cs) : w \in At(cs, p).ws
        BY <3>1
      <4>2. At(cs, p) \in Recs(Live) /\ At(cs, p).lsn > floor /\ At(cs, p).lsn \in Nat
        BY <1>4, <1>7, <1>8, <4>1
      <4>3. ~(db.data[w] > 0)
        BY <1>4, <2>2, <2>3, <4>1, <4>2
      <4>4. base[w] = db.data[w] + 1
        BY <1>4, <3>1
      <4> QED BY <1>9, <4>3, <4>4
    <3>2. CASE ~\E p \in Replayable(cs) : w \in At(cs, p).ws
      BY <1>4, <2>3, <3>2
    <3> QED BY <3>1, <3>2
  <2>5. \A r \in Recs(Live') : r.lsn <= LastLsn(cs) /\ r \in Recs(Live)
    BY <1>4, <1>6
  <2> QED BY <1>4, <1>5, <2>2, <2>3, <2>4, <2>5 DEF OnceInv
<1>16. UndoneInv'
  <2>1. SUFFICES ASSUME mishaps' \cap {"aborted", "refused"} = {}, NEW w \in Writes, told'[w] = "undone"
                 PROVE  /\ eng'.base[w] = 0 /\ db'.data[w] = 0
                        /\ worker'.at = "pending" => worker'.snap[w] = 0
                        /\ \A r \in Recs(Live') : w \notin r.ws
    BY DEF UndoneInv
  <2>2. db.data[w] = 0 /\ \A r \in Recs(Live) : w \notin r.ws
    <3>1. CASE told[w] = "undone"
      BY <1>5, <2>1, <3>1 DEF ContentInv, UndoneInv
    <3>2. CASE told[w] = "open"
      BY <1>3, <3>2 DEF ToldInv, LogInv
    <3> QED BY <1>11, <2>1, <3>1, <3>2
  <2>3. ~\E p \in Replayable(cs) : w \in At(cs, p).ws
    BY <1>4, <1>7, <2>2
  <2> QED BY <1>4, <1>5, <1>6, <2>2, <2>3
<1>17. CoverInv'
  <2>1. SUFFICES ASSUME NEW r \in Recs(Live'), NEW w \in r.ws, told'[w] \in {"sent", "acked"}
                 PROVE  /\ base[w] > 0
                        /\ \A m \in Recs(Live') : m.kind = "MARK" /\ r.lsn <= m.lsn => db.data[w] > 0
    BY <1>5 DEF CoverInv
  <2>2. r \in Recs(Live) /\ w \in Writes /\ told[w] = "acked" /\ r.lsn \in Nat
    BY <1>6, <1>8, <1>10, <2>1
  <2>3. \A m \in Recs(Live) : m.kind = "MARK" /\ r.lsn <= m.lsn => db.data[w] > 0
    BY <2>1, <2>2 DEF ContentInv, CoverInv
  <2>4. r.kind = "DATA" /\ r.lsn > 0
    BY <1>3, <1>8, <2>1, <2>2 DEF LogInv
  <2>5. PICK p \in Parse(cs) : r = At(cs, p)
    BY <1>6, <2>1
  <2>6. CASE r.lsn > floor
    <3>1. base[w] = db.data[w] + 1
      BY <1>4, <1>7, <2>1, <2>2, <2>4, <2>5, <2>6
    <3> QED BY <1>6, <1>9, <2>2, <2>3, <3>1
  <2>7. CASE ~(r.lsn > floor)
    <3>1. floor # 0
      BY <1>4, <2>2, <2>4, <2>7
    <3>2. PICK q \in Parse(cs) : At(cs, q).kind = "MARK" /\ At(cs, q).lsn = floor
      BY <1>4, <3>1
    <3>3. r.lsn <= floor
      BY <1>4, <2>2, <2>7
    <3>4. db.data[w] > 0
      BY <1>4, <2>3, <3>2, <3>3
    <3>5. base[w] = db.data[w] + 1 \/ base[w] = db.data[w]
      BY <1>4, <2>2
    <3>6. base[w] > 0
      BY <1>9, <2>2, <3>4, <3>5
    <3> QED BY <1>6, <2>3, <3>6
  <2> QED BY <2>6, <2>7
<1> QED BY <1>14, <1>15, <1>16, <1>17 DEF ContentInv

---------------------------------------------------------------------------
(* The steps without the database lock.                                    *)

\* What they leave alone.
Aside ==
  /\ UNCHANGED <<eng, buffer, lsn, told>> /\ mishaps \subseteq mishaps'
  /\ db' = db \/ (worker.at = "pending" /\ db'.data = worker.snap)
  /\ worker'.at = "pending"
       => (worker.at = "pending" /\ worker'.snap = worker.snap /\ worker'.lsn = worker.lsn) \/ worker'.snap = eng.base
  /\ \A u \in Callers : call'[u].ws = call[u].ws

\* A leader's step, seen from the records.
LEMMA WaitIs ==
  ASSUME TypeInv, TypeInv', NEW t \in Callers, Wait(t), ~Answer(t)
  PROVE  Aside /\ Carries /\ db' = db /\ worker' = worker
<1> USE DEF Aside
<1>1. call \in [Callers -> CallT] /\ call[t] \in CallT /\ group \in GroupT
  BY Typed
<1>2. CASE Elect(t)
  <2>1. /\ UNCHANGED <<eng, buffer, lsn, chunks, worker, db, told, mishaps>> /\ group'.buf = group.buf
        /\ call' = [call EXCEPT ![t].at = "elected"] /\ call[t].at = "waiting"
    BY <1>1, <1>2 DEF Elect, GroupT
  <2>2. \A u \in Callers : call'[u].ws = call[u].ws /\ Held(call'[u]) = Held(call[u])
    BY <1>1, <2>1 DEF Held, CallT
  <2> QED BY <2>1, <2>2, SameCarries
<1>3. CASE Take(t)
  <2>1. /\ UNCHANGED <<eng, buffer, lsn, chunks, worker, db, told, mishaps>>
        /\ call' = [call EXCEPT ![t].at = "taken", ![t].batch = group.buf, ![t].to = group.enqueued]
    BY <1>3 DEF Take
  <2>2. \A u \in Callers : call'[u].ws = call[u].ws
    BY <1>1, <2>1 DEF CallT
  <2> QED BY <1>3, <2>1, <2>2, TakeCarries
<1>4. CASE Write(t)
  <2>1. /\ UNCHANGED <<eng, buffer, lsn, worker, db, told, mishaps>>
        /\ call' = [call EXCEPT ![t].at = "written"]
    BY <1>4 DEF Write
  <2>2. \A u \in Callers : call'[u].ws = call[u].ws
    BY <1>1, <2>1 DEF CallT
  <2> QED BY <1>4, <2>1, <2>2, WriteCarries
<1>5. CASE Sync(t)
  <2>1. /\ UNCHANGED <<eng, buffer, lsn, group, chunks, worker, db, told, mishaps>>
        /\ call' = [call EXCEPT ![t].at = "synced"] /\ call[t].at = "written"
    BY <1>5 DEF Sync
  <2>2. \A u \in Callers : call'[u].ws = call[u].ws /\ Held(call'[u]) = Held(call[u])
    BY <1>1, <2>1 DEF Held, CallT
  <2> QED BY <2>1, <2>2, SameCarries
<1>6. CASE Flushed(t)
  <2>1. /\ UNCHANGED <<eng, buffer, lsn, chunks, worker, db, told>> /\ group'.buf = group.buf
        /\ mishaps \subseteq mishaps'
        /\ call' = [call EXCEPT ![t].at = "waiting", ![t].batch = <<>>, ![t].to = 0] /\ call[t].at = "synced"
    BY <1>1, <1>6 DEF Flushed, GroupT, Overtakes
  <2>2. \A u \in Callers : call'[u].ws = call[u].ws /\ Held(call'[u]) = Held(call[u])
    BY <1>1, <2>1 DEF Held, CallT
  <2> QED BY <2>1, <2>2, SameCarries
<1>7. CASE SyncFails(t)
  <2>1. /\ UNCHANGED <<eng, buffer, lsn, chunks, worker, db, told, mishaps>> /\ group'.buf = group.buf
        /\ call' = [call EXCEPT ![t].at = "waiting", ![t].batch = <<>>, ![t].to = 0] /\ call[t].at = "written"
    BY <1>1, <1>7 DEF SyncFails, GroupT
  <2>2. \A u \in Callers : call'[u].ws = call[u].ws /\ Held(call'[u]) = Held(call[u])
    BY <1>1, <2>1 DEF Held, CallT
  <2> QED BY <2>1, <2>2, SameCarries
<1> QED BY <1>2, <1>3, <1>4, <1>5, <1>6, <1>7 DEF Wait

\* The worker's steps and those of a caller in checkpoint().
LEMMA WorkIs ==
  ASSUME TypeInv, TypeInv', Capture \/ Return \/ Work
  PROVE  /\ Aside
         /\ \/ Rename /\ Carries
            \/ Mark
            \/ Carries /\ db' = db /\ worker'.at = "pending" /\ worker'.snap = eng.base /\ worker'.lsn = lsn /\ mishaps' = mishaps
            \/ Carries /\ db' = db /\ worker'.at \notin {"pending", "renamed"}
<1> USE DEF Aside
<1>1. worker \in WorkT /\ group \in GroupT
  BY Typed
<1>2. CASE Capture
  <2>1. /\ UNCHANGED <<eng, buffer, lsn, group, chunks, call, db, told, mishaps>> /\ worker.at = "idle"
        /\ \/ worker' = [worker EXCEPT !.error = FALSE]
           \/ worker' = Job(eng.base, lsn)
    BY <1>2 DEF Capture, logVars
  <2>2. \/ worker'.at = "idle"
        \/ worker'.at = "pending" /\ worker'.snap = eng.base /\ worker'.lsn = lsn
    BY <1>1, <2>1 DEF Job, WorkT
  <2>3. Carries
    BY <2>1, <2>2, SameCarries DEF Held
  <2> QED BY <2>1, <2>2, <2>3
<1>3. CASE Return
  <2>1. /\ UNCHANGED <<eng, buffer, lsn, group, chunks, call, db, told, mishaps>> /\ worker.at = "idle"
        /\ worker' = [worker EXCEPT !.error = FALSE]
    BY <1>3 DEF Return, logVars
  <2>2. worker'.at = "idle"
    BY <1>1, <2>1 DEF WorkT
  <2>3. Carries
    BY <2>1, <2>2, SameCarries DEF Held
  <2> QED BY <2>1, <2>2, <2>3
<1>4. CASE Rename
  <2>1. /\ UNCHANGED <<eng, buffer, lsn, group, chunks, call, told, mishaps>> /\ worker.at = "pending"
        /\ worker'.at = "renamed" /\ db'.data = worker.snap
    BY <1>1, <1>4 DEF Rename, logVars, WorkT
  <2>2. Carries
    BY <2>1, SameCarries DEF Held
  <2> QED BY <1>4, <2>1, <2>2
<1>5. CASE RenameFails
  <2>1. /\ UNCHANGED <<eng, buffer, lsn, group, chunks, call, db, told, mishaps>> /\ worker.at = "pending"
        /\ worker'.at = "idle"
    BY <1>5, Rests DEF RenameFails, logVars
  <2>2. Carries
    BY <2>1, SameCarries DEF Held
  <2> QED BY <2>1, <2>2
<1>6. CASE Mark
  <2>1. UNCHANGED <<eng, buffer, lsn, call, db, told, mishaps>> /\ worker'.at = "marked"
    BY <1>1, <1>6 DEF Mark, WorkT
  <2> QED BY <1>6, <2>1
<1>7. CASE FlushTake
  <2>1. /\ UNCHANGED <<eng, buffer, lsn, call, db, told, mishaps>>
        /\ worker' = IF group.failed THEN Failed
               ELSE IF group.buf = <<>> THEN [worker EXCEPT !.at = "rotate"]
               ELSE [worker EXCEPT !.at = "taken", !.batch = group.buf, !.to = group.enqueued]
    BY <1>7 DEF FlushTake
  <2>2. worker'.at \in {"idle", "rotate", "taken"}
    BY <1>1, <2>1, Rests DEF WorkT
  <2> QED BY <1>7, <2>1, <2>2, FlushTakeCarries
<1>8. CASE FlushWrite
  <2>1. /\ UNCHANGED <<eng, buffer, lsn, call, db, told, mishaps>> /\ worker'.at = "written"
    BY <1>1, <1>8 DEF FlushWrite, WorkT
  <2> QED BY <1>8, <2>1, FlushWriteCarries
<1>9. CASE FlushSync
  <2>1. /\ UNCHANGED <<eng, buffer, lsn, group, chunks, call, db, told, mishaps>> /\ worker.at = "written"
        /\ worker'.at = "synced"
    BY <1>1, <1>9 DEF FlushSync, WorkT
  <2>2. Carries
    BY <2>1, SameCarries DEF Held
  <2> QED BY <2>1, <2>2
<1>10. CASE FlushDone
  <2>1. /\ UNCHANGED <<eng, buffer, lsn, chunks, call, db, told>> /\ worker.at = "synced"
        /\ worker'.at = "rotate" /\ group'.buf = group.buf /\ mishaps \subseteq mishaps'
    BY <1>1, <1>10 DEF FlushDone, WorkT, GroupT, Overtakes
  <2>2. Carries
    BY <2>1, SameCarries DEF Held
  <2> QED BY <2>1, <2>2
<1>11. CASE FlushFails
  <2>1. /\ UNCHANGED <<eng, buffer, lsn, chunks, call, db, told, mishaps>> /\ worker.at = "written"
        /\ worker'.at = "idle" /\ group'.buf = group.buf
    BY <1>1, <1>11, Rests DEF FlushFails, GroupT
  <2>2. Carries
    BY <2>1, SameCarries DEF Held
  <2> QED BY <2>1, <2>2
<1>12. CASE Rotate
  <2>1. UNCHANGED <<eng, buffer, lsn, call, db, told, mishaps>> /\ worker'.at = "idle"
    BY <1>12, Rests DEF Rotate
  <2> QED BY <1>12, <2>1, RotateCarries
<1> QED BY <1>2, <1>3, <1>4, <1>5, <1>6, <1>7, <1>8, <1>9, <1>10, <1>11, <1>12 DEF Work

\* They disturb neither the transaction nor a ticket.
LEMMA AsideKeeps ==
  ASSUME TypeInv, ToldInv, TicketInv, MarksInv, BlockInv, Aside
  PROVE  ToldInv' /\ TicketInv' /\ MarksInv' /\ BlockInv'
<1>1. UNCHANGED <<eng, buffer, told>> /\ mishaps \subseteq mishaps'
  BY DEF Aside
<1>2. TicketInv'
  BY <1>1 DEF Aside, TicketInv
<1>3. MarksInv'
  BY <1>1 DEF MarksInv
<1>4. BlockInv'
  BY <1>1 DEF BlockInv
<1>5. ToldInv'
  <2>1. \A w \in Writes : told[w] \in {"new", "open"}
       => /\ eng.base[w] = 0 /\ db'.data[w] = 0
          /\ worker'.at = "pending" => worker'.snap[w] = 0
    BY DEF Aside, ToldInv
  <2> QED BY <1>1, <2>1 DEF ToldInv
<1> QED BY <1>2, <1>3, <1>4, <1>5

\* And the records stay what they are.
LEMMA AsideContent ==
  ASSUME TypeInv, TypeInv', ToldInv, ContentInv,
         (\E t \in Callers : Wait(t) /\ ~Answer(t)) \/ Capture \/ Return \/ Work
  PROVE  ContentInv'
<1>1. ASSUME Carries, Aside, db' = db,
             worker'.at = "pending" => worker.at = "pending" /\ worker'.snap = worker.snap /\ worker'.lsn = worker.lsn,
             worker'.at = "renamed" => worker.at = "renamed" /\ worker'.lsn = worker.lsn
      PROVE  ContentInv'
  <2>1. UNCHANGED <<eng, buffer, lsn, told>> /\ mishaps \subseteq mishaps'
    BY <1>1 DEF Aside
  <2> QED BY <1>1, <2>1, QuietStep
<1>2. ASSUME NEW t \in Callers, Wait(t), ~Answer(t) PROVE ContentInv'
  BY <1>1, <1>2, WaitIs
<1>3. CASE Capture \/ Return \/ Work
  <2>1. Aside
    BY <1>3, WorkIs
  <2>2. CASE Rename /\ Carries
    BY <2>2, RenameStep
  <2>3. CASE Mark
    BY <2>3, MarkStep
  <2>4. CASE Carries /\ db' = db /\ worker'.at = "pending" /\ worker'.snap = eng.base /\ worker'.lsn = lsn /\ mishaps' = mishaps
    <3>1. UNCHANGED <<eng, buffer, lsn, db, told, mishaps>>
      BY <2>1, <2>4 DEF Aside
    <3> QED BY <2>4, <3>1, CaptureStep
  <2>5. CASE Carries /\ db' = db /\ worker'.at \notin {"pending", "renamed"}
    BY <1>1, <2>1, <2>5
  <2> QED BY <1>3, <2>2, <2>3, <2>4, <2>5, WorkIs
<1> QED BY <1>2, <1>3

---------------------------------------------------------------------------
(* Markers and the ranges of the flushes, whatever happened before.        *)

\* A step that writes no marker and renames no snapshot.
LEMMA MarkerKeeps ==
  ASSUME TypeInv, TypeInv', MarkerInv, NEW new, Recs(Live') \subseteq Recs(Live) \cup new,
         \A r \in new : r.lsn <= lsn' /\ r.kind = "DATA", lsn <= lsn', db' = db,
         worker'.at = "pending" => (worker.at = "pending" /\ worker'.lsn = worker.lsn) \/ worker'.lsn = lsn',
         worker'.at = "renamed" => worker.at = "renamed" /\ worker'.lsn = worker.lsn
  PROVE  MarkerInv'
<1>1. /\ \A r \in Recs(Live) : r.lsn \in Nat
      /\ lsn \in Nat /\ lsn' \in Nat /\ worker.lsn \in Nat /\ worker'.lsn \in Nat
  BY RecTypes DEF TypeInv, WorkT
<1>2. ASSUME NEW r \in Recs(Live')
      PROVE  /\ r.lsn <= lsn'
             /\ r.kind = "MARK" => r.lsn <= db'.lsn /\ (worker'.at = "pending" => r.lsn <= worker'.lsn)
  <2>1. CASE r \in new
    BY <2>1
  <2>2. CASE r \in Recs(Live)
    <3>1. r.lsn \in Nat /\ r.lsn <= lsn
      BY <1>1, <2>2 DEF MarkerInv
    <3>2. r.kind = "MARK" => r.lsn <= db.lsn /\ (worker.at = "pending" => r.lsn <= worker.lsn)
      BY <2>2 DEF MarkerInv
    <3>3. r.lsn <= lsn'
      BY <1>1, <3>1
    <3> QED BY <3>2, <3>3
  <2> QED BY <1>2, <2>1, <2>2
<1>3. /\ worker'.at \in {"pending", "renamed"} => worker'.lsn <= lsn'
      /\ worker'.at = "renamed" => worker'.lsn = db'.lsn
  <2>1. /\ worker.at \in {"pending", "renamed"} => worker.lsn <= lsn
        /\ worker.at = "renamed" => worker.lsn = db.lsn
    BY DEF MarkerInv
  <2> QED BY <1>1, <2>1
<1> QED BY <1>2, <1>3 DEF MarkerInv

\* The database: its records carry the next LSN.
LEMMA DatabaseMarker ==
  ASSUME TypeInv, TypeInv', MarkerInv, NEW t \in Callers, Database(t)
  PROVE  MarkerInv'
<1>1. lsn \in Nat /\ worker \in WorkT /\ buffer.stmts \in Seq(Writes)
  BY DEF TypeInv
<1>2. CASE Calm
  <2>1. UNCHANGED <<lsn, group, chunks, call, worker, db>>
    BY <1>2 DEF Calm
  <2>2. Recs(Live') \subseteq Recs(Live) \cup {}
    BY <2>1, SameCarries DEF Carries
  <2>3. \A r \in {} : r.lsn <= lsn' /\ r.kind = "DATA"
    OBVIOUS
  <2> QED BY <1>1, <2>1, <2>2, <2>3, MarkerKeeps
<1>3. ASSUME NEW ws \in SUBSET Writes, NEW kept, Logs(t, ws, kept) PROVE MarkerInv'
  <2> DEFINE r == Data(lsn + 1, ws)
  <2>1. chunks' = chunks /\ db' = db /\ call[t].at = "idle" /\ LogAndTrigger(t, ws, kept)
    BY <1>3 DEF Logs, Free
  <2>2. r \in IntactT /\ r.lsn = lsn + 1 /\ r.kind = "DATA"
    BY <1>1 DEF Data, IntactT
  <2>3. /\ lsn' = lsn + 1 /\ group'.buf = Append(group.buf, r)
        /\ \A u \in Callers \ {t} : call'[u] = call[u]
        /\ call' = call \/ call'[t].at = "waiting"
        /\ \/ worker'.at = worker.at /\ worker'.lsn = worker.lsn /\ worker'.batch = worker.batch
           \/ worker.at = "idle" /\ worker'.at = "pending" /\ worker'.lsn = lsn + 1
    BY <2>1, LogIs
  <2> HIDE DEF r
  <2>4. (\A u \in Callers : Held(call'[u]) = Held(call[u])) /\ Held(worker') = Held(worker)
    BY <2>1, <2>3 DEF Held
  <2>5. Recs(Live') \subseteq Recs(Live) \cup {r}
    BY <2>1, <2>2, <2>3, <2>4, EnqueueRecs
  <2>6. lsn <= lsn' /\ \A x \in {r} : x.lsn <= lsn' /\ x.kind = "DATA"
    BY <1>1, <2>2, <2>3
  <2> QED BY <2>1, <2>3, <2>5, <2>6, MarkerKeeps
<1>4. LogsStatement(t) => MarkerInv'
  BY <1>3 DEF LogsStatement
<1>5. LogsCommit(t) => MarkerInv'
  <2>1. ToSet(buffer.stmts) \in SUBSET Writes
    BY <1>1, ToSetType
  <2> QED BY <1>3, <2>1 DEF LogsCommit
<1> QED BY <1>2, <1>4, <1>5, DatabaseKinds

\* The steps without the lock: the marker's LSN is the one of the snapshot.
LEMMA AsideMarker ==
  ASSUME TypeInv, TypeInv', MarkerInv,
         (\E t \in Callers : Wait(t)) \/ Capture \/ Return \/ Work
  PROVE  MarkerInv'
<1>1. lsn \in Nat /\ worker \in WorkT /\ group \in GroupT /\ worker.lsn \in Nat /\ call \in [Callers -> CallT]
  BY Typed
<1>2. ASSUME Recs(Live') \subseteq Recs(Live), lsn' = lsn, db' = db,
             worker'.at = "pending" => (worker.at = "pending" /\ worker'.lsn = worker.lsn) \/ worker'.lsn = lsn,
             worker'.at = "renamed" => worker.at = "renamed" /\ worker'.lsn = worker.lsn
      PROVE  MarkerInv'
  <2>1. Recs(Live') \subseteq Recs(Live) \cup {} /\ \A r \in {} : r.lsn <= lsn' /\ r.kind = "DATA"
    BY <1>2
  <2>2. lsn <= lsn'
    BY <1>1, <1>2
  <2> DEFINE none == {}
  <2>3. Recs(Live') \subseteq Recs(Live) \cup none /\ \A r \in none : r.lsn <= lsn' /\ r.kind = "DATA"
    BY <2>1
  <2> HIDE DEF none
  <2> QED BY <1>2, <2>2, <2>3, MarkerKeeps
<1>3. ASSUME NEW t \in Callers, Wait(t), ~Answer(t) PROVE MarkerInv'
  <2>1. Aside /\ Carries /\ db' = db /\ worker' = worker
    BY <1>3, WaitIs
  <2> QED BY <1>2, <2>1 DEF Aside, Carries
<1>4. ASSUME NEW t \in Callers, Answer(t) PROVE MarkerInv'
  <2>1. UNCHANGED <<lsn, group, chunks, worker, db>> /\ call[t].at = "waiting" /\ call' = [call EXCEPT ![t] = Idle]
    BY <1>4 DEF Answer, logVars
  <2>2. \A u \in Callers : Held(call'[u]) = Held(call[u])
    BY <1>1, <2>1 DEF Held, Idle
  <2>3. Carries
    BY <2>1, <2>2, SameCarries
  <2> QED BY <1>2, <2>1, <2>3 DEF Carries
<1>5. CASE Capture \/ Return \/ Work
  <2>1. Aside
    BY <1>5, WorkIs
  <2>2. CASE Rename /\ Carries
    <3>1. /\ UNCHANGED lsn /\ worker.at = "pending" /\ worker'.at = "renamed" /\ worker'.lsn = worker.lsn
          /\ db'.lsn = worker.lsn
      BY <1>1, <2>2 DEF Rename, WorkT
    <3>2. \A r \in Recs(Live) : r.lsn <= lsn /\ (r.kind = "MARK" => r.lsn <= worker.lsn)
      BY <3>1 DEF MarkerInv
    <3>3. worker.lsn <= lsn
      BY <3>1 DEF MarkerInv
    <3> QED BY <2>2, <3>1, <3>2, <3>3 DEF MarkerInv, Carries
  <2>3. CASE Mark
    <3> DEFINE r == Marker(worker.lsn)
    <3>1. /\ UNCHANGED <<lsn, chunks, call, db>> /\ worker.at = "renamed" /\ worker'.at = "marked"
          /\ group'.buf = Append(group.buf, r)
      BY <1>1, <2>3 DEF Mark, Enqueued, WorkT, GroupT
    <3>2. r \in IntactT /\ r.lsn = worker.lsn
      BY <1>1 DEF Marker, IntactT
    <3> HIDE DEF r
    <3>3. Held(worker') = Held(worker)
      BY <3>1 DEF Held
    <3>4. Recs(Live') \subseteq Recs(Live) \cup {r}
      BY <3>1, <3>2, <3>3, EnqueueRecs
    <3>5. worker.lsn <= lsn /\ worker.lsn = db.lsn
      BY <3>1 DEF MarkerInv
    <3>6. db.lsn \in Nat
      BY DEF TypeInv
    <3>7. \A x \in Recs(Live') : x.lsn <= lsn /\ (x.kind = "MARK" => x.lsn <= db.lsn)
      BY <3>2, <3>4, <3>5, <3>6 DEF MarkerInv
    <3> QED BY <3>1, <3>7 DEF MarkerInv
  <2>4. CASE Carries /\ db' = db /\ worker'.at = "pending" /\ worker'.snap = eng.base /\ worker'.lsn = lsn /\ mishaps' = mishaps
    BY <1>2, <2>1, <2>4 DEF Aside, Carries
  <2>5. CASE Carries /\ db' = db /\ worker'.at \notin {"pending", "renamed"}
    BY <1>2, <2>1, <2>5 DEF Aside, Carries
  <2> QED BY <1>5, <2>2, <2>3, <2>4, <2>5, WorkIs
<1> QED BY <1>3, <1>4, <1>5

\* A boot: the last LSN is the greatest it read.
LEMMA CrashMarker ==
  ASSUME TypeInv, TypeInv', MarkerInv, Crash
  PROVE  MarkerInv'
<1>1. PICK k \in synced .. Len(Active) : \E torn \in BOOLEAN : k \in 0 .. Len(Active) /\ CrashTo(k, torn)
  BY CrashIs
<1>2. PICK torn \in BOOLEAN : k \in 0 .. Len(Active) /\ CrashTo(k, torn)
  BY <1>1
<1>3. k \in 0 .. Len(Active) /\ chunks' = Kept(k, torn) /\ lsn' = LastLsn(chunks') /\ db' = db
  BY <1>2 DEF CrashTo, Crash
<1>4. worker'.at = "idle" \/ (worker'.at = "pending" /\ worker'.lsn = LastLsn(chunks'))
  BY <1>2 DEF CrashTo, NoJob
<1>5. /\ LastLsn(chunks') \in Nat
      /\ \A p \in Parse(chunks') : At(chunks', p) \in Recs(Live) /\ At(chunks', p).lsn <= LastLsn(chunks')
  BY <1>3, BootTypes
<1>6. \A r \in Recs(Live') : r \in Recs(Live) /\ r.lsn <= LastLsn(chunks')
  BY <1>5, CrashRecs
<1> QED BY <1>3, <1>4, <1>5, <1>6 DEF MarkerInv

\* The database takes no batch.
LEMMA DatabaseRanges ==
  ASSUME TypeInv, RangesInv, NEW t \in Callers, Database(t)
  PROVE  RangesInv'
<1>1. CASE Calm
  BY <1>1 DEF Calm, RangesInv
<1>2. ASSUME NEW ws, NEW kept, Logs(t, ws, kept) PROVE RangesInv'
  <2>1. call[t].at = "idle" /\ LogAndTrigger(t, ws, kept)
    BY <1>2 DEF Logs, Free
  <2>2. /\ \A u \in Callers \ {t} : call'[u] = call[u]
        /\ call' = call \/ call'[t].at = "waiting"
        /\ \/ worker'.at = worker.at /\ worker'.batch = worker.batch /\ worker'.to = worker.to
           \/ worker'.at = "pending"
    BY <2>1, LogIs
  <2>3. /\ \A u \in Callers : Holds(call'[u]) => call'[u] = call[u]
        /\ Holds(worker') => Holds(worker) /\ worker'.batch = worker.batch /\ worker'.to = worker.to
    BY <2>2 DEF Holds
  <2> QED BY <2>3 DEF RangesInv
<1> QED BY <1>1, <1>2, DatabaseKinds DEF LogsStatement, LogsCommit

\* The leader takes what lies behind the batch of the worker.
LEMMA WaitRanges ==
  ASSUME TypeInv, HandsInv, RangesInv, NEW t \in Callers, Wait(t)
  PROVE  RangesInv'
<1>1. call \in [Callers -> CallT]
  BY Typed
<1>2. ASSUME worker' = worker,
             \A u \in Callers : Holds(call'[u])
               => Holds(call[u]) /\ call'[u].to = call[u].to /\ call'[u].batch = call[u].batch
      PROVE  RangesInv'
  BY <1>2 DEF RangesInv
<1>3. CASE Take(t)
  <2>1. /\ worker' = worker /\ call'[t].to = group.enqueued /\ call'[t].batch = group.buf
        /\ \A u \in Callers \ {t} : call'[u] = call[u]
    BY <1>1, <1>3 DEF Take, CallT
  <2>2. Holds(worker) => worker.to + Len(group.buf) <= group.enqueued
    BY DEF HandsInv
  <2> QED BY <2>1, <2>2 DEF RangesInv
<1>4. CASE Write(t) \/ Sync(t)
  <2>1. /\ worker' = worker /\ Holds(call[t]) /\ call'[t].to = call[t].to /\ call'[t].batch = call[t].batch
        /\ \A u \in Callers \ {t} : call'[u] = call[u]
    BY <1>1, <1>4 DEF Write, Sync, CallT, Holds
  <2> QED BY <1>2, <2>1
<1>5. CASE Answer(t) \/ Elect(t) \/ Flushed(t) \/ SyncFails(t)
  <2>1. /\ worker' = worker /\ ~Holds(call'[t])
        /\ \A u \in Callers \ {t} : call'[u] = call[u]
    BY <1>1, <1>5, Rests DEF Answer, Elect, Flushed, SyncFails, CallT, Holds
  <2> QED BY <1>2, <2>1
<1> QED BY <1>3, <1>4, <1>5 DEF Wait

\* And the worker what lies behind the batch of the leader.
LEMMA WorkRanges ==
  ASSUME TypeInv, HandsInv, RangesInv, Capture \/ Return \/ Work
  PROVE  RangesInv'
<1>1. worker \in WorkT
  BY Typed
<1>2. call' = call
  BY DEF Capture, Return, Work, Rename, RenameFails, Mark, FlushTake, FlushWrite, FlushSync, FlushDone, FlushFails, Rotate
<1>3. CASE FlushTake
  <2>1. worker'.at \in {"idle", "rotate"} \/ (worker'.to = group.enqueued /\ worker'.batch = group.buf)
    BY <1>1, <1>3, Rests DEF FlushTake, WorkT
  <2>2. \A t \in Callers : Holds(call[t]) => call[t].to + Len(group.buf) <= group.enqueued
    BY DEF HandsInv
  <2> QED BY <1>2, <2>1, <2>2 DEF RangesInv, Holds
<1>4. CASE FlushWrite \/ FlushSync
  <2>1. Holds(worker) /\ worker'.to = worker.to /\ worker'.batch = worker.batch
    BY <1>1, <1>4 DEF FlushWrite, FlushSync, WorkT, Holds
  <2> QED BY <1>2, <2>1 DEF RangesInv
<1>5. CASE Capture \/ Return \/ Rename \/ RenameFails \/ Mark \/ FlushDone \/ FlushFails \/ Rotate
  <2>1. ~Holds(worker')
    BY <1>1, <1>5, Rests
       DEF Capture, Return, Rename, RenameFails, Mark, FlushDone, FlushFails, Rotate, WorkT, Holds, Job
  <2> QED BY <2>1 DEF RangesInv
<1> QED BY <1>3, <1>4, <1>5 DEF Work

---------------------------------------------------------------------------
(* The steps under the database lock, by what they mean for the log.       *)

\* Nothing is committed and nothing logged.
Quiet ==
  /\ Calm /\ eng'.base = eng.base /\ mishaps \subseteq mishaps'
  /\ \A w \in Writes : told'[w] = told[w] \/ (told[w] \in {"new", "open"} /\ told'[w] \in {"open", "undone"})
  /\ \A w \in ToSet(buffer'.stmts) : w \in ToSet(buffer.stmts) \/ told[w] = "new"

\* Statements, by what becomes of them.
LEMMA StatementIs ==
  ASSUME TypeInv, ToldInv, BlockInv, NEW t \in Callers, Statement(t)
  PROVE  Quiet \/ (LogsStatement(t) /\ ~eng.tx.open)
<1>1. /\ Fresh \in Writes /\ ~eng.tx.aborted /\ UNCHANGED <<chunks, synced, file, front, db, mishaps>> /\ Free(t)
      /\ eng' = IF eng.tx.open THEN [eng EXCEPT !.tx.shadow = Append(@, Fresh)]
                ELSE [eng EXCEPT !.base = Plus(@, {Fresh})]
      /\ buffer.on => /\ buffer' = [buffer EXCEPT !.stmts = Append(@, Fresh)]
                      /\ Tell({Fresh}, {Fresh}, IF eng.tx.open THEN "open" ELSE "acked")
                      /\ NoRecord
      /\ ~buffer.on => LogAndTrigger(t, {Fresh}, {Fresh}) /\ UNCHANGED buffer
  BY DEF Statement, Fresh
<1>2. eng.tx.open => buffer.on
  BY ToldIs
<1>3. CASE ~buffer.on
  BY <1>1, <1>2, <1>3 DEF LogsStatement, Logs
<1>4. CASE buffer.on
  <2> DEFINE what == IF eng.tx.open THEN "open" ELSE "acked"
  <2>1. told[Fresh] = "new"
    <3>1. PICK k \in 0 .. MaxWrites : (\A w \in Writes : told[w] # "new" <=> w <= k) /\ Fresh = k + 1
      BY FreshIs
    <3> QED BY <1>1, <3>1
  <2>2. \A w \in Writes : told'[w] = IF w = Fresh THEN what ELSE told[w]
    <3>1. told \in [Writes -> Tells] /\ what \in Tells
      BY ToldIs DEF Tells
    <3>2. \A w \in Writes : told'[w] = IF w \in {Fresh} THEN what ELSE IF w \in {Fresh} THEN "undone" ELSE told[w]
      BY <1>1, <1>4, <3>1, TellType
    <3> QED BY <3>2
  <2>3. ToSet(buffer'.stmts) = ToSet(buffer.stmts) \cup {Fresh}
    <3>1. buffer'.stmts = Append(buffer.stmts, Fresh) /\ buffer.stmts \in Seq(Writes)
      BY <1>1, <1>4, BufferIs DEF TypeInv
    <3> QED BY <1>1, <3>1, ToSets
  <2>4. Calm
    BY <1>1, <1>4 DEF Calm, NoRecord
  <2>5. eng \in [tx : TxT, base : Databases]
    BY DEF TypeInv
  <2>6. CASE eng.tx.open
    <3>1. eng'.base = eng.base
      BY <1>1, <2>5, <2>6
    <3> QED BY <1>1, <2>1, <2>2, <2>3, <2>4, <2>6, <3>1 DEF Quiet
  <2>7. eng.tx.open
    BY <1>4 DEF BlockInv
  <2> QED BY <2>6, <2>7
<1> QED BY <1>3, <1>4

\* An empty COMMIT changes nothing.
LEMMA CommitIs ==
  ASSUME TypeInv, ToldInv, BlockInv, NEW t \in Callers, Commit(t)
  PROVE  Quiet \/ LogsCommit(t)
<1> DEFINE ws == ToSet(buffer.stmts)
<1>1. /\ eng' = [tx |-> NoTx, base |-> Plus(eng.base, Committing)] /\ buffer' = NoBuffer
      /\ mishaps' = mishaps \cup (IF eng.tx.aborted /\ ws # {} THEN {"aborted"} ELSE {})
      /\ UNCHANGED <<chunks, synced, file, front, db>> /\ Free(t)
      /\ IF ws # {} THEN LogAndTrigger(t, ws, Committing) ELSE NoRecord /\ Tell(ToSet(eng.tx.shadow), Committing, "acked")
  BY DEF Commit, Committing
<1>2. Committing \subseteq ws
  BY ShadowBuffered DEF Committing
<1>3. CASE ws # {}
  BY <1>1, <1>3 DEF LogsCommit, Logs
<1>4. CASE ws = {}
  <2>1. Committing = {} /\ eng.base \in Databases
    BY <1>2, <1>4, BufferIs
  <2>2. Plus(eng.base, {}) = eng.base
    <3>1. Plus(eng.base, {}) \in Databases /\ \A w \in Writes : Plus(eng.base, {})[w] = eng.base[w]
      BY <2>1, PlusIs
    <3> QED BY <2>1, <3>1 DEF Databases
  <2>3. eng'.base = eng.base
    BY <1>1, <2>1, <2>2
  <2>4. ToSet(buffer'.stmts) = {}
    BY <1>1, ToSets DEF NoBuffer
  <2>5. Calm /\ told' = told /\ mishaps \subseteq mishaps'
    <3>1. ToSet(eng.tx.shadow) = {}
      BY <1>4 DEF BlockInv
    <3>2. NoRecord /\ Tell({}, {}, "acked")
      BY <1>1, <1>4, <2>1, <3>1
    <3>3. told' = told
      BY <3>2, ToldIs, TellNobody
    <3> QED BY <1>1, <3>2, <3>3 DEF Calm, NoRecord
  <2> QED BY <2>3, <2>4, <2>5 DEF Quiet
<1> QED BY <1>3, <1>4

\* All of them.
LEMMA DatabaseIs ==
  ASSUME TypeInv, ToldInv, BlockInv, MarksInv, NEW t \in Callers, Plain(t)
  PROVE  Quiet \/ (LogsStatement(t) /\ ~eng.tx.open) \/ LogsCommit(t)
<1>1. /\ ToSet(eng.tx.shadow) \subseteq Writes /\ told \in [Writes -> Tells]
      /\ \A w \in ToSet(eng.tx.shadow) : told[w] = "open"
  BY ToldIs
<1>2. /\ eng \in [tx : TxT, base : Databases] /\ eng.tx \in TxT
      /\ buffer \in [on : BOOLEAN, stmts : Seq(Writes), marks : StackT(Nat)] /\ buffer.stmts \in Seq(Writes)
  BY BufferIs DEF TypeInv
<1>3. ASSUME NEW gone \in SUBSET ToSet(eng.tx.shadow), Tell(gone, {}, "undone")
      PROVE  \A w \in Writes : told'[w] = told[w] \/ (told[w] \in {"new", "open"} /\ told'[w] \in {"open", "undone"})
  <2>1. \A w \in Writes : told'[w] = IF w \in gone THEN "undone" ELSE told[w]
    BY <1>1, <1>3, TellType DEF Tells
  <2> QED BY <1>1, <1>3, <2>1
<1>4. CASE FailStatement(t)
  BY <1>2, <1>4 DEF FailStatement, Quiet, Calm, logVars
<1>5. CASE Begin(t)
  <2>1. /\ Calm /\ told' = told /\ mishaps' = mishaps /\ eng'.base = eng.base /\ buffer' = [NoBuffer EXCEPT !.on = TRUE]
    BY <1>2, <1>5 DEF Begin, Calm, logVars
  <2>2. ToSet(buffer'.stmts) = {}
    BY <2>1, ToSets DEF NoBuffer
  <2> QED BY <2>1, <2>2 DEF Quiet
<1>6. CASE Rollback(t)
  <2>1. /\ Calm /\ eng' = EngineAt(eng.base) /\ Tell(ToSet(eng.tx.shadow), {}, "undone") /\ mishaps \subseteq mishaps'
        /\ buffer' = buffer \/ buffer' = NoBuffer
    BY <1>6 DEF Rollback, Calm, logVars
  <2>2. eng'.base = eng.base /\ (buffer' = NoBuffer => buffer'.stmts = <<>>)
    BY <2>1 DEF EngineAt, NoBuffer
  <2>3. ToSet(buffer'.stmts) \subseteq ToSet(buffer.stmts)
    BY <2>1, <2>2, ToSets
  <2> QED BY <1>3, <2>1, <2>2, <2>3 DEF Quiet
<1>7. ASSUME NEW n \in Names, Savepoint(t, n) PROVE Quiet
  <2>1. /\ Calm /\ told' = told /\ mishaps' = mishaps /\ eng'.base = eng.base /\ buffer'.stmts = buffer.stmts
    BY <1>2, <1>7 DEF Savepoint, Calm, logVars
  <2> QED BY <2>1 DEF Quiet
<1>8. ASSUME NEW n \in Names, RollbackTo(t, n) PROVE Quiet
  <2>1. PICK i \in Place(eng.tx.saves, n) :
          /\ eng' = [eng EXCEPT !.tx = [open |-> TRUE, aborted |-> FALSE, shadow |-> eng.tx.saves[i].at,
                                        saves |-> SubSeq(eng.tx.saves, 1, i)]]
          /\ Tell(ToSet(eng.tx.shadow) \ ToSet(eng.tx.saves[i].at), {}, "undone")
    BY <1>8 DEF RollbackTo
  <2>2. Calm /\ mishaps' = mishaps /\ eng'.base = eng.base
    BY <1>2, <1>8, <2>1 DEF RollbackTo, Calm, logVars
  <2>3. \A w \in Writes : told'[w] = told[w] \/ (told[w] \in {"new", "open"} /\ told'[w] \in {"open", "undone"})
    BY <1>3, <2>1
  <2>4. ToSet(buffer'.stmts) \subseteq ToSet(buffer.stmts)
    <3>1. CASE Place(buffer.marks, n) = {}
      BY <1>8, <3>1 DEF RollbackTo
    <3>2. CASE Place(buffer.marks, n) # {}
      <4> DEFINE j == CHOOSE l \in Place(buffer.marks, n) : TRUE
      <4>1. /\ buffer' = [buffer EXCEPT !.stmts = SubSeq(@, 1, buffer.marks[j].at), !.marks = SubSeq(@, 1, j)]
            /\ j \in Place(buffer.marks, n)
        BY <1>8, <3>2 DEF RollbackTo
      <4> HIDE DEF j
      <4>2. buffer'.stmts = SubSeq(buffer.stmts, 1, buffer.marks[j].at)
        BY <1>2, <4>1
      <4>3. j \in DOMAIN buffer.marks
        BY <4>1 DEF Place
      <4>4. buffer.marks[j].at \in 0 .. Len(buffer.stmts)
        BY <4>3, BufferIs DEF MarksInv
      <4> QED BY <1>2, <4>2, <4>4, ToSets
    <3> QED BY <3>1, <3>2
  <2> QED BY <2>2, <2>3, <2>4 DEF Quiet
<1>9. ASSUME NEW n \in Names, Release(t, n) PROVE Quiet
  <2>1. PICK i \in Place(eng.tx.saves, n) : eng' = [eng EXCEPT !.tx.saves = SubSeq(@, 1, i - 1)]
    BY <1>9 DEF Release
  <2>2. Calm /\ told' = told /\ mishaps' = mishaps /\ buffer' = buffer /\ eng'.base = eng.base
    BY <1>2, <1>9, <2>1 DEF Release, Calm, logVars
  <2> QED BY <2>2 DEF Quiet
<1>10. CASE Checkpoint(t)
  BY <1>10 DEF Checkpoint, Quiet, Calm, logVars
<1> QED BY <1>4, <1>5, <1>6, <1>7, <1>8, <1>9, <1>10, StatementIs, CommitIs DEF Plain

\* They keep the records in step with the engine.
LEMMA DatabaseContent ==
  ASSUME TypeInv, TypeInv', ToldInv, BlockInv, MarksInv, ContentInv, NEW t \in Callers, Plain(t)
  PROVE  ContentInv'
<1>1. Calm => Carries /\ lsn' = lsn /\ db' = db /\ worker' = worker
  BY SameCarries DEF Calm
<1>2. eng.base \in Databases /\ \A w \in Writes : eng.base[w] \in Nat
  BY BufferIs DEF Databases
<1>3. CASE Quiet
  BY <1>1, <1>3, QuietStep DEF Quiet
<1>5. CASE LogsStatement(t) /\ ~eng.tx.open
  <2>1. /\ Fresh \in Writes /\ ~buffer.on /\ LogAndTrigger(t, {Fresh}, {Fresh})
        /\ UNCHANGED <<chunks, db, buffer, mishaps>> /\ call[t].at = "idle"
        /\ eng' = [eng EXCEPT !.base = Plus(@, {Fresh})]
    BY <1>5 DEF LogsStatement, Logs, Free
  <2>2. eng'.base = Plus(eng.base, {Fresh})
    BY <2>1 DEF TypeInv
  <2>3. told[Fresh] = "new"
    <3>1. PICK k \in 0 .. MaxWrites : (\A w \in Writes : told[w] # "new" <=> w <= k) /\ Fresh = k + 1
      BY FreshIs
    <3> QED BY <2>1, <3>1
  <2>4. Fresh \notin ToSet(buffer.stmts)
    BY <2>3, ToldIs
  <2> DEFINE ws == {Fresh}
  <2>5. /\ ws \in SUBSET Writes /\ \A w \in ws : told[w] = "new"
        /\ ToSet(buffer'.stmts) \subseteq ToSet(buffer.stmts) \ ws
    BY <2>1, <2>3, <2>4
  <2>6. LogAndTrigger(t, ws, ws) /\ eng'.base = Plus(eng.base, ws) /\ Answers(ws, ws)
    BY <1>5, <2>1, <2>2, StatementAnswers
  <2> HIDE DEF ws
  <2> QED BY <2>1, <2>5, <2>6, LogStep
<1>6. CASE LogsCommit(t)
  <2> DEFINE ws == ToSet(buffer.stmts)
  <2>1. /\ eng'.base = Plus(eng.base, Committing) /\ buffer' = NoBuffer /\ ws # {}
        /\ mishaps' = mishaps \cup (IF eng.tx.aborted /\ ws # {} THEN {"aborted"} ELSE {})
        /\ LogAndTrigger(t, ws, Committing) /\ UNCHANGED <<chunks, db>> /\ call[t].at = "idle"
    BY <1>6 DEF LogsCommit, Logs, Free
  <2>2. /\ ToSet(eng.tx.shadow) \subseteq Writes /\ ws \subseteq Writes
        /\ \A w \in ToSet(eng.tx.shadow) : told[w] = "open"
    BY ToldIs
  <2>3. Committing \in SUBSET ws
    BY ShadowBuffered DEF Committing
  <2>4. \A w \in Committing : told[w] \in {"new", "open"}
    BY <2>2 DEF Committing
  <2>5. ToSet(buffer'.stmts) \subseteq ToSet(buffer.stmts) \ ws
    BY <2>1, ToSets DEF NoBuffer
  <2>6. "refused" \notin mishaps' => ws = ToSet(eng.tx.shadow)
    BY <2>1 DEF BlockInv
  <2>7. "refused" \notin mishaps' => \A w \in ws : told[w] \in {"new", "open"}
    BY <2>2, <2>6
  <2>8. mishaps' \cap {"aborted", "refused"} = {} => Committing = ws
    <3>1. SUFFICES ASSUME mishaps' \cap {"aborted", "refused"} = {} PROVE Committing = ws
      OBVIOUS
    <3>2. ~eng.tx.aborted /\ ws = ToSet(eng.tx.shadow)
      BY <2>1, <2>6, <3>1
    <3>3. eng.tx.open
      <4>1. ~eng.tx.open => ToSet(eng.tx.shadow) = {}
        BY ToldIs, NestedEmpty, ToSets
      <4> QED BY <2>1, <3>2, <4>1
    <3> QED BY <3>2, <3>3 DEF Committing
  <2>9. /\ \A w \in ws : told[w] = "new" \/ w \in ToSet(buffer.stmts)
        /\ mishaps \subseteq mishaps'
    BY <2>1
  <2>10. ws \in SUBSET Writes /\ Answers(ws, Committing)
    BY <2>2, CommitAnswers
  <2> HIDE DEF ws
  <2> QED BY <2>1, <2>3, <2>4, <2>5, <2>7, <2>8, <2>9, <2>10, LogStep
<1> QED BY <1>3, <1>5, <1>6, DatabaseIs

\* And hand out tickets for what they logged.
LEMMA DatabaseTickets ==
  ASSUME TypeInv, ToldInv, BlockInv, MarksInv, TicketInv, NEW t \in Callers, Plain(t)
  PROVE  TicketInv'
<1>1. \A u \in Callers : call[u].ws \in SUBSET Writes
  BY Typed
<1>2. \A u \in Callers : \A w \in call[u].ws : w \in Writes /\ told[w] = "sent" /\ w \notin ToSet(buffer.stmts)
                                               /\ \A v \in Callers : w \in call[v].ws => v = u
  BY <1>1 DEF TicketInv
<1>3. CASE Quiet
  <2>1. call' = call
    BY <1>3 DEF Quiet, Calm
  <2>2. \A w \in Writes : told[w] = "sent" => told'[w] = "sent"
    BY <1>3 DEF Quiet
  <2>3. \A w \in ToSet(buffer'.stmts) : w \in ToSet(buffer.stmts) \/ told[w] = "new"
    BY <1>3 DEF Quiet
  <2> QED BY <1>2, <2>1, <2>2, <2>3 DEF TicketInv
<1>4. ASSUME NEW ws \in SUBSET Writes, NEW kept \in SUBSET ws, LogAndTrigger(t, ws, kept), Answers(ws, kept),
             \A w \in ws : told[w] = "new" \/ w \in ToSet(buffer.stmts),
             ToSet(buffer'.stmts) \subseteq ToSet(buffer.stmts) \ ws
      PROVE  TicketInv'
  <2>1. \A u \in Callers \ {t} : call'[u] = call[u]
    BY <1>4, LogIs
  <2>2. \A u \in Callers : call[u].ws \cap ws = {}
    BY <1>2, <1>4
  <2>3. told \in [Writes -> Tells]
    BY ToldIs
  <2>4. \A w \in Writes : w \notin ws => told'[w] = told[w]
    <3>1. Tell(ws, kept, "unknown") \/ Tell(ws, kept, "sent")
      BY <1>4, LogTells
    <3> QED BY <1>4, <2>3, <3>1, TellType DEF Tells
  <2>5. CASE call' = call
    BY <1>2, <1>4, <2>2, <2>4, <2>5 DEF TicketInv
  <2>6. CASE call'[t].ws = kept /\ Tell(ws, kept, "sent")
    <3>1. \A w \in kept : told'[w] = "sent"
      BY <1>4, <2>3, <2>6, TellType DEF Tells
    <3>2. SUFFICES ASSUME NEW u \in Callers, NEW w \in call'[u].ws
                   PROVE  /\ told'[w] = "sent" /\ w \notin ToSet(buffer'.stmts)
                          /\ \A v \in Callers : w \in call'[v].ws => v = u
      BY DEF TicketInv
    <3>3. CASE u = t
      <4>1. w \in kept /\ w \in ws
        BY <1>4, <2>6, <3>2, <3>3
      <4>2. \A v \in Callers \ {t} : w \notin call'[v].ws
        BY <2>1, <2>2, <4>1
      <4> QED BY <1>4, <3>1, <3>3, <4>1, <4>2
    <3>4. CASE u # t
      <4>1. w \in call[u].ws /\ w \notin ws /\ w \in Writes
        BY <1>2, <2>1, <2>2, <3>2, <3>4
      <4>2. w \notin call'[t].ws
        BY <1>4, <2>6, <4>1
      <4>3. \A v \in Callers : w \in call'[v].ws => v = u
        BY <1>2, <2>1, <4>1, <4>2
      <4> QED BY <1>2, <1>4, <2>4, <4>1, <4>3
    <3> QED BY <3>3, <3>4
  <2> QED BY <1>4, <2>5, <2>6, LogTells
<1>5. CASE LogsStatement(t) /\ ~eng.tx.open
  <2> DEFINE ws == {Fresh}
  <2>1. Fresh \in Writes /\ LogAndTrigger(t, ws, ws) /\ buffer' = buffer
    BY <1>5 DEF LogsStatement, Logs
  <2>2. told[Fresh] = "new"
    <3>1. PICK k \in 0 .. MaxWrites : (\A w \in Writes : told[w] # "new" <=> w <= k) /\ Fresh = k + 1
      BY FreshIs
    <3> QED BY <2>1, <3>1
  <2>3. Fresh \notin ToSet(buffer.stmts)
    BY <2>2, ToldIs
  <2>4. /\ ws \in SUBSET Writes /\ \A w \in ws : told[w] = "new"
        /\ ToSet(buffer'.stmts) \subseteq ToSet(buffer.stmts) \ ws /\ Answers(ws, ws)
    BY <1>5, <2>1, <2>2, <2>3, StatementAnswers
  <2> HIDE DEF ws
  <2> QED BY <1>4, <2>1, <2>4
<1>6. CASE LogsCommit(t)
  <2> DEFINE ws == ToSet(buffer.stmts)
  <2>1. LogAndTrigger(t, ws, Committing) /\ buffer' = NoBuffer
    BY <1>6 DEF LogsCommit, Logs
  <2>2. ws \in SUBSET Writes /\ Committing \in SUBSET ws /\ Answers(ws, Committing)
    BY ToldIs, ShadowBuffered, CommitAnswers DEF Committing
  <2>3. ToSet(buffer'.stmts) \subseteq ToSet(buffer.stmts) \ ws
    BY <2>1, ToSets DEF NoBuffer
  <2> QED BY <1>4, <2>1, <2>2, <2>3
<1> QED BY <1>3, <1>5, <1>6, DatabaseIs

\* A crash leaves no transaction, no buffer and no ticket.
LEMMA CrashKeeps ==
  ASSUME TypeInv, TypeInv', ToldInv, LogInv, Crash
  PROVE  ToldInv' /\ TicketInv' /\ MarksInv' /\ BlockInv'
<1>1. PICK k \in synced .. Len(Active) : \E torn \in BOOLEAN : k \in 0 .. Len(Active) /\ CrashTo(k, torn)
  BY CrashIs
<1>2. PICK torn \in BOOLEAN : k \in 0 .. Len(Active) /\ CrashTo(k, torn)
  BY <1>1
<1> DEFINE cs == chunks'
           base == Reopened(db.data, cs)
<1>3. cs = Kept(k, torn)
  BY <1>2 DEF CrashTo
<1>4. /\ eng'.base = base /\ eng'.tx = NoTx /\ buffer' = NoBuffer /\ db' = db
      /\ worker'.at = "pending" => worker'.snap = eng'.base
      /\ call' = [t \in Callers |-> Idle]
      /\ \A w \in Writes : told'[w] = CASE told[w] = "sent" -> "unknown"
                                        [] told[w] = "open" -> "undone"
                                        [] OTHER -> told[w]
  <2>1. /\ eng'.base = base /\ eng'.tx = NoTx
    BY <1>2 DEF CrashTo, EngineAt
  <2>2. worker'.at = "pending" => worker'.snap = base
    <3>1. CASE Replayable(chunks') = {}
      BY <1>2, <3>1, Rests DEF CrashTo
    <3>2. CASE Replayable(chunks') # {}
      <4>1. worker' = [NoJob EXCEPT !.at = "pending", !.snap = base, !.lsn = LastLsn(cs)]
        BY <1>2, <3>2 DEF CrashTo
      <4> HIDE DEF base, cs
      <4> QED BY <4>1 DEF NoJob
    <3> QED BY <3>1, <3>2
  <2> HIDE DEF base, cs
  <2> QED BY <2>1, <2>2 DEF Crash
<1>5. /\ \A p \in Parse(cs) : At(cs, p) \in Recs(Live)
      /\ \A w \in Writes : ~(\E p \in Replayable(cs) : w \in At(cs, p).ws) => base[w] = db.data[w]
  <2> HIDE DEF cs
  <2>1. k \in 0 .. Len(Active) /\ torn \in BOOLEAN
    BY <1>2
  <2>2. \A p \in Parse(cs) : At(cs, p) \in Recs(Live)
    BY <1>3, <2>1, BootIs
  <2>3. \A w \in Writes : ~(\E p \in Replayable(cs) : w \in At(cs, p).ws) => Reopened(db.data, cs)[w] = db.data[w]
    BY <1>3, <2>1, BootIs
  <2> QED BY <2>2, <2>3
<1>6. \A p \in Replayable(cs) : p \in Parse(cs)
  BY DEF Replayable
<1> HIDE DEF cs, base
<1>7. TicketInv' /\ MarksInv' /\ BlockInv'
  <2>1. eng'.tx.open = FALSE /\ eng'.tx.shadow = <<>> /\ eng'.tx.saves = <<>>
        /\ buffer'.on = FALSE /\ buffer'.stmts = <<>> /\ buffer'.marks = <<>>
    BY <1>4, NestedEmpty DEF NoBuffer
  <2>2. TicketInv'
    BY <1>4 DEF TicketInv, Idle
  <2>3. MarksInv'
    BY <2>1 DEF MarksInv
  <2>4. BlockInv'
    BY <2>1, FollowsEmpty DEF BlockInv
  <2> QED BY <2>2, <2>3, <2>4
<1>8. ToldInv'
  <2>1. \A w \in Writes : told'[w] \in {"new", "open"} => told[w] = "new"
    BY <1>4
  <2>2. \A w \in Writes : told'[w] # "new" <=> told[w] # "new"
    BY <1>4
  <2>3. InOrder(told')
    BY <2>2, ToldIs DEF InOrder
  <2>4. ASSUME NEW w \in Writes, told[w] = "new" PROVE eng'.base[w] = 0 /\ db.data[w] = 0
    <3>1. ~\E p \in Replayable(cs) : w \in At(cs, p).ws
      BY <1>5, <1>6, <2>4 DEF LogInv
    <3>2. db.data[w] = 0
      BY <2>4 DEF ToldInv
    <3> QED BY <1>4, <1>5, <3>1, <3>2
  <2>5. eng.base \in Databases
    BY BufferIs
  <2>6. ToSet(eng'.tx.shadow) = {} /\ ToSet(buffer'.stmts) = {} /\ Nested(eng'.tx) /\ ~eng'.tx.open
    BY <1>4, NestedEmpty, ToSets DEF NoBuffer
  <2>7. \A w \in Writes : told'[w] \in {"new", "open"} => told[w] \in {"new", "open"} /\ eng'.base[w] = eng.base[w]
    BY <2>1, <2>4 DEF ToldInv
  <2> QED BY <1>4, <2>3, <2>6, <2>7, ToldCarries
<1> QED BY <1>7, <1>8

---------------------------------------------------------------------------
(* Acknowledged writes.  The parts of AckInv, as relations between places, *)
(* so that they can be stated before and after a step.                     *)

Safe(bad) == bad \cap {"overtaken", "torn", "refused"} = {}

Stored(cs, s, w) ==
  \E c \in 1 .. Len(cs) : \E i \in 1 .. Len(cs[c]) :
    (c = Len(cs) => i <= s) /\ cs[c][i].kind = "DATA" /\ w \in cs[c][i].ws

InHand(h, w, seq) ==
  /\ h.at \in {"taken", "written"} /\ h.to < seq + Len(h.batch)
  /\ \E i \in DOMAIN h.batch : w \in h.batch[i].ws

InBuf(g, w, seq) == g.enqueued < seq + Len(g.buf) /\ \E i \in DOMAIN g.buf : w \in g.buf[i].ws

Due(g, cl, wk, w, seq) ==
  g.flushed < seq /\ (InBuf(g, w, seq) \/ InHand(wk, w, seq) \/ \E t \in Callers : InHand(cl[t], w, seq))

Intact(cs) == \A c \in 1 .. Len(cs) : \A i \in 1 .. Len(cs[c]) : cs[c][i].kind # "TORN"

WrittenTo(h, chunk) == h.at = "written" => \A i \in DOMAIN h.batch : \E j \in DOMAIN chunk : chunk[j] = h.batch[i]

Backed(cs, s, g, cl, wk, td) ==
  /\ Intact(cs)
  /\ \A t \in Callers : WrittenTo(cl[t], cs[Len(cs)])
  /\ WrittenTo(wk, cs[Len(cs)])
  /\ \A w \in Writes : td[w] = "acked" => Stored(cs, s, w)
  /\ ~g.failed => \A t \in Callers : \A w \in cl[t].ws : Stored(cs, s, w) \/ Due(g, cl, wk, w, cl[t].seq)

\* AckInv by its parts, before and after a step.
LEMMA AckIs ==
  /\ AckInv <=> (Safe(mishaps) => Backed(chunks, synced, group, call, worker, told))
  /\ AckInv' <=> (Safe(mishaps') => Backed(chunks', synced', group', call', worker', told'))
<1>1. AckInv <=> (Safe(mishaps) => Backed(chunks, synced, group, call, worker, told))
  BY DEF AckInv, Safe, Backed, Intact, WrittenTo, Durable, Stored, Pending, Due, InBuf, InHand, Active
<1>2. AckInv' <=> (Safe(mishaps') => Backed(chunks', synced', group', call', worker', told'))
  BY DEF AckInv, Safe, Backed, Intact, WrittenTo, Durable, Stored, Pending, Due, InBuf, InHand, Active
<1> QED BY <1>1, <1>2

\* A step that leaves the files alone: it is enough to follow the tickets.
LEMMA FilesSame ==
  ASSUME AckInv, chunks' = chunks, synced' = synced, mishaps \subseteq mishaps',
         \A t \in Callers : call'[t].at = "written" => call[t].at = "written" /\ call'[t].batch = call[t].batch,
         worker'.at = "written" => worker.at = "written" /\ worker'.batch = worker.batch,
         Safe(mishaps') => \A w \in Writes : told'[w] = "acked" => told[w] = "acked" \/ Stored(chunks, synced, w),
         Safe(mishaps') /\ ~group'.failed =>
           \A t \in Callers : \A w \in call'[t].ws :
             Stored(chunks, synced, w) \/ Due(group', call', worker', w, call'[t].seq)
  PROVE  AckInv'
<1>1. SUFFICES ASSUME Safe(mishaps') PROVE Backed(chunks', synced', group', call', worker', told')
  BY AckIs
<1>2. Backed(chunks, synced, group, call, worker, told)
  BY <1>1, AckIs DEF Safe
<1>3. /\ \A t \in Callers : WrittenTo(call'[t], chunks[Len(chunks)])
      /\ WrittenTo(worker', chunks[Len(chunks)])
  BY <1>2 DEF Backed, WrittenTo
<1>4. \A w \in Writes : told'[w] = "acked" => Stored(chunks, synced, w)
  BY <1>1, <1>2 DEF Backed
<1> QED BY <1>1, <1>2, <1>3, <1>4 DEF Backed

\* What is due stays due.
LEMMA StaysDue ==
  ASSUME NEW g, NEW cl, NEW wk, NEW h, NEW dl, NEW vk, NEW w, NEW seq, Due(g, cl, wk, w, seq),
         h.flushed < seq,
         InBuf(g, w, seq) => InBuf(h, w, seq) \/ InHand(vk, w, seq) \/ \E t \in Callers : InHand(dl[t], w, seq),
         InHand(wk, w, seq) => InHand(vk, w, seq),
         \A t \in Callers : InHand(cl[t], w, seq) => InHand(dl[t], w, seq)
  PROVE  Due(h, dl, vk, w, seq)
BY DEF Due

\* The tickets are in order before the step.
LEMMA TicketsBacked ==
  ASSUME AckInv, Safe(mishaps'), mishaps \subseteq mishaps', ~group.failed, NEW t \in Callers, NEW w \in call[t].ws
  PROVE  Stored(chunks, synced, w) \/ Due(group, call, worker, w, call[t].seq)
BY AckIs DEF Safe, Backed

\* A longer buffer: the numbers move along.
LEMMA BufGrows ==
  ASSUME NEW g \in GroupT, NEW h, NEW r, h.buf = Append(g.buf, r), h.enqueued = g.enqueued + 1,
         NEW w, NEW seq \in Nat
  PROVE  /\ InBuf(g, w, seq) => InBuf(h, w, seq)
         /\ w \in r.ws /\ g.enqueued < seq => InBuf(h, w, seq)
<1>1. g.buf \in Seq(IntactT) /\ g.enqueued \in Nat
  BY DEF GroupT
<1>2. /\ Len(g.buf) \in Nat /\ Len(h.buf) = Len(g.buf) + 1 /\ h.buf[Len(g.buf) + 1] = r
      /\ DOMAIN g.buf = 1 .. Len(g.buf) /\ DOMAIN h.buf = 1 .. (Len(g.buf) + 1)
      /\ \A i \in 1 .. Len(g.buf) : h.buf[i] = g.buf[i]
  BY <1>1
<1>3. ASSUME InBuf(g, w, seq) PROVE InBuf(h, w, seq)
  <2>1. PICK i \in 1 .. Len(g.buf) : w \in g.buf[i].ws
    BY <1>2, <1>3 DEF InBuf
  <2>2. i \in DOMAIN h.buf /\ w \in h.buf[i].ws
    BY <1>2, <2>1
  <2>3. h.enqueued < seq + Len(h.buf)
    BY <1>1, <1>2, <1>3 DEF InBuf
  <2> QED BY <2>2, <2>3 DEF InBuf
<1>4. ASSUME w \in r.ws, g.enqueued < seq PROVE InBuf(h, w, seq)
  <2>1. Len(g.buf) + 1 \in DOMAIN h.buf /\ w \in h.buf[Len(g.buf) + 1].ws
    BY <1>2, <1>4
  <2>2. h.enqueued < seq + Len(h.buf)
    BY <1>1, <1>2, <1>4
  <2> QED BY <2>1, <2>2 DEF InBuf
<1> QED BY <1>3, <1>4

\* A record is logged: its ticket waits for the number it was given.
LEMMA LogAck ==
  ASSUME TypeInv, HandsInv, AckInv, NEW t \in Callers, NEW ws \in SUBSET Writes, NEW kept \in SUBSET ws,
         call[t].at = "idle", ToldInv, LogAndTrigger(t, ws, kept), Answers(ws, kept),
         UNCHANGED <<chunks, synced>>, mishaps \subseteq mishaps'
  PROVE  AckInv'
<1> DEFINE new == Data(lsn + 1, ws)
<1>1. /\ group'.buf = Append(group.buf, new) /\ group'.enqueued = group.enqueued + 1
      /\ group'.flushed = group.flushed /\ group'.failed = group.failed
      /\ \A u \in Callers \ {t} : call'[u] = call[u]
  BY LogIs
<1>2. \/ call' = call /\ Tell(ws, kept, "unknown")
      \/ /\ call'[t].at = "waiting" /\ call'[t].seq = group.enqueued + 1 /\ call'[t].ws = kept
         /\ Tell(ws, kept, "sent")
  BY LogTells
<1>3. \/ worker'.at = worker.at /\ worker'.batch = worker.batch /\ worker'.to = worker.to
      \/ worker.at = "idle" /\ worker'.at = "pending"
  BY LogIs
<1>4. new.ws = ws
  BY DEF Data
<1>5. /\ group \in GroupT /\ group.enqueued \in Nat /\ group.flushed \in Nat /\ Len(group.buf) \in Nat
      /\ \A u \in Callers : call[u].seq \in Nat
  BY Typed
<1>6. group.flushed < group.enqueued + 1
  <2>1. group.flushed + Len(group.buf) <= group.enqueued
    BY DEF HandsInv
  <2> QED BY <1>5, <2>1
<1> HIDE DEF new
<1>7. \A w \in Writes : told'[w] = "acked" => told[w] = "acked"
  <2>1. told \in [Writes -> Tells]
    BY ToldIs
  <2> QED BY <1>2, <2>1, TellType DEF Tells
<1>8. \A w, seq : InHand(worker, w, seq) => InHand(worker', w, seq)
  BY <1>3 DEF InHand
<1>9. \A w, seq : \A u \in Callers : InHand(call[u], w, seq) => InHand(call'[u], w, seq)
  BY <1>1 DEF InHand
<1>10. ASSUME Safe(mishaps'), ~group'.failed, NEW u \in Callers, NEW w \in call'[u].ws
       PROVE  Stored(chunks, synced, w) \/ Due(group', call', worker', w, call'[u].seq)
  <2>1. CASE call'[u] = call[u]
    <3>1. ~group.failed /\ w \in call[u].ws /\ call[u].seq \in Nat
      BY <1>1, <1>5, <1>10, <2>1
    <3>2. Stored(chunks, synced, w) \/ Due(group, call, worker, w, call[u].seq)
      BY <1>10, <3>1, TicketsBacked
    <3>3. InBuf(group, w, call[u].seq) => InBuf(group', w, call[u].seq)
      BY <1>1, <1>5, <3>1, BufGrows
    <3>4. ASSUME Due(group, call, worker, w, call[u].seq) PROVE Due(group', call', worker', w, call[u].seq)
      <4>1. group'.flushed < call[u].seq
        BY <1>1, <3>4 DEF Due
      <4> QED BY <1>8, <1>9, <3>3, <3>4, <4>1, StaysDue
    <3> QED BY <2>1, <3>2, <3>4
  <2>2. CASE call'[u] # call[u]
    <3>1. u = t /\ call'[u].seq = group.enqueued + 1 /\ w \in ws
      BY <1>1, <1>2, <1>10, <2>2
    <3>2. InBuf(group', w, group.enqueued + 1)
      <4> DEFINE s == group.enqueued + 1
      <4>1. s \in Nat /\ group.enqueued < s /\ w \in new.ws
        BY <1>4, <1>5, <3>1
      <4> HIDE DEF s
      <4>2. InBuf(group', w, s)
        BY <1>1, <1>5, <4>1, BufGrows
      <4> QED BY <4>2 DEF s
    <3>3. group'.flushed < group.enqueued + 1
      BY <1>1, <1>6
    <3> QED BY <3>1, <3>2, <3>3 DEF Due
  <2> QED BY <2>1, <2>2
<1>11. \A u \in Callers : call'[u].at = "written" => call[u].at = "written" /\ call'[u].batch = call[u].batch
  BY <1>1, <1>2
<1>12. worker'.at = "written" => worker.at = "written" /\ worker'.batch = worker.batch
  BY <1>3
<1> QED BY <1>7, <1>10, <1>11, <1>12, FilesSame

\* The steps under the database lock.
LEMMA DatabaseAck ==
  ASSUME TypeInv, HandsInv, ToldInv, BlockInv, MarksInv, AckInv, NEW t \in Callers, Plain(t)
  PROVE  AckInv'
<1>1. CASE Quiet
  <2>1. UNCHANGED <<group, chunks, synced, call, worker>> /\ mishaps \subseteq mishaps'
    BY <1>1 DEF Quiet, Calm
  <2>2. \A w \in Writes : told'[w] = "acked" => told[w] = "acked"
    BY <1>1 DEF Quiet
  <2>3. Safe(mishaps') /\ ~group'.failed =>
           \A u \in Callers : \A w \in call'[u].ws :
             Stored(chunks, synced, w) \/ Due(group', call', worker', w, call'[u].seq)
    BY <2>1, TicketsBacked
  <2> QED BY <2>1, <2>2, <2>3, FilesSame
<1>3. CASE LogsStatement(t) /\ ~eng.tx.open
  <2> DEFINE ws == {Fresh}
  <2>1. LogAndTrigger(t, ws, ws) /\ ws \in SUBSET Writes /\ UNCHANGED <<chunks, synced, mishaps>> /\ call[t].at = "idle"
    BY <1>3 DEF LogsStatement, Logs, Free
  <2>2. Answers(ws, ws)
    BY <1>3, StatementAnswers
  <2> HIDE DEF ws
  <2> QED BY <2>1, <2>2, LogAck
<1>4. CASE LogsCommit(t)
  <2> DEFINE ws == ToSet(buffer.stmts)
  <2>1. /\ LogAndTrigger(t, ws, Committing) /\ UNCHANGED <<chunks, synced>> /\ mishaps \subseteq mishaps' /\ call[t].at = "idle"
    BY <1>4 DEF LogsCommit, Logs, Free
  <2>2. ws \in SUBSET Writes /\ Committing \in SUBSET ws /\ Answers(ws, Committing)
    BY ToldIs, ShadowBuffered, CommitAnswers DEF Committing
  <2> HIDE DEF ws
  <2> QED BY <2>1, <2>2, LogAck
<1> QED BY <1>1, <1>3, <1>4, DatabaseIs

\* Ok is returned for what a flush has covered.
LEMMA AnswerAck ==
  ASSUME TypeInv, ToldInv, AckInv, NEW t \in Callers, Answer(t)
  PROVE  AckInv'
<1> DEFINE what == IF group.failed THEN "unknown" ELSE "acked"
<1>1. /\ call[t].at = "waiting" /\ (group.failed \/ group.flushed >= call[t].seq)
      /\ Tell({}, call[t].ws, what) /\ call' = [call EXCEPT ![t] = Idle]
      /\ UNCHANGED <<group, chunks, synced, worker, mishaps>>
  BY DEF Answer, logVars
<1>2. told \in [Writes -> Tells] /\ call \in [Callers -> CallT] /\ group.flushed \in Nat /\ call[t].seq \in Nat
  BY ToldIs, Typed
<1>3. \A w \in Writes : told'[w] = IF w \in call[t].ws THEN what ELSE told[w]
  BY <1>1, <1>2, TellType DEF Tells
<1>4. call'[t] = Idle /\ \A u \in Callers \ {t} : call'[u] = call[u]
  BY <1>1, <1>2
<1>5. ASSUME Safe(mishaps'), NEW w \in Writes, told'[w] = "acked" PROVE told[w] = "acked" \/ Stored(chunks, synced, w)
  <2>1. CASE w \in call[t].ws
    <3>1. ~group.failed
      BY <1>3, <1>5, <2>1
    <3>2. Stored(chunks, synced, w) \/ Due(group, call, worker, w, call[t].seq)
      BY <1>1, <1>5, <2>1, <3>1, TicketsBacked
    <3>3. ~Due(group, call, worker, w, call[t].seq)
      BY <1>1, <1>2, <3>1 DEF Due
    <3> QED BY <3>2, <3>3
  <2>2. CASE w \notin call[t].ws
    BY <1>3, <1>5, <2>2
  <2> QED BY <2>1, <2>2
<1>6. ASSUME Safe(mishaps'), ~group'.failed, NEW u \in Callers, NEW w \in call'[u].ws
      PROVE  Stored(chunks, synced, w) \/ Due(group', call', worker', w, call'[u].seq)
  <2>1. call'[u] = call[u]
    BY <1>4, <1>6 DEF Idle
  <2>2. Stored(chunks, synced, w) \/ Due(group, call, worker, w, call[u].seq)
    BY <1>1, <1>6, <2>1, TicketsBacked
  <2>3. ASSUME Due(group, call, worker, w, call[u].seq) PROVE Due(group', call', worker', w, call[u].seq)
    <3>1. \A seq : \A v \in Callers : InHand(call[v], w, seq) => InHand(call'[v], w, seq)
      BY <1>1, <1>4 DEF InHand
    <3>2. group' = group /\ worker' = worker /\ group'.flushed < call[u].seq
      BY <1>1, <2>3 DEF Due
    <3> QED BY <2>3, <3>1, <3>2, StaysDue
  <2> QED BY <2>1, <2>2, <2>3
<1>7. \A u \in Callers : call'[u].at = "written" => call[u].at = "written" /\ call'[u].batch = call[u].batch
  BY <1>4, Rests
<1>8. chunks' = chunks /\ synced' = synced /\ mishaps' = mishaps /\ worker' = worker
  BY <1>1
<1> QED BY <1>5, <1>6, <1>7, <1>8, FilesSame

\* A step of the group commit that leaves the files alone and tells nobody.
LEMMA TicketsKeep ==
  ASSUME TypeInv, AckInv, UNCHANGED <<chunks, synced, told>>, mishaps' = mishaps,
         \A u \in Callers : /\ call'[u].at = "written" => call[u].at = "written" /\ call'[u].batch = call[u].batch
                            /\ call'[u].ws = call[u].ws /\ call'[u].seq = call[u].seq,
         worker'.at = "written" => worker.at = "written" /\ worker'.batch = worker.batch,
         group'.failed \/ (group'.failed = group.failed /\ group'.flushed = group.flushed),
         ~group'.failed => \A w \in Writes : \A seq \in Nat :
           /\ InHand(worker, w, seq) => InHand(worker', w, seq)
           /\ \A u \in Callers : InHand(call[u], w, seq) => InHand(call'[u], w, seq)
           /\ InBuf(group, w, seq)
                => InBuf(group', w, seq) \/ InHand(worker', w, seq) \/ \E u \in Callers : InHand(call'[u], w, seq)
  PROVE  AckInv'
<1>1. ASSUME Safe(mishaps'), ~group'.failed, NEW u \in Callers, NEW w \in call'[u].ws
      PROVE  Stored(chunks, synced, w) \/ Due(group', call', worker', w, call'[u].seq)
  <2> DEFINE seq == call[u].seq
  <2>1. ~group.failed /\ group'.flushed = group.flushed /\ w \in call[u].ws /\ call'[u].seq = seq
    BY <1>1
  <2>2. Stored(chunks, synced, w) \/ Due(group, call, worker, w, seq)
    BY <1>1, <2>1, TicketsBacked
  <2>3. w \in Writes /\ seq \in Nat
    BY <2>1, Typed
  <2> HIDE DEF seq
  <2>4. ASSUME Due(group, call, worker, w, seq) PROVE Due(group', call', worker', w, seq)
    <3>1. group'.flushed < seq
      BY <2>1, <2>4 DEF Due
    <3> QED BY <1>1, <2>3, <2>4, <3>1, StaysDue
  <2> QED BY <2>1, <2>2, <2>4
<1> QED BY <1>1, FilesSame

\* A step that moves the files on.
LEMMA FilesMove ==
  ASSUME TypeInv, AckInv, UNCHANGED <<group, told, mishaps>>,
         \A u \in Callers : call'[u].ws = call[u].ws /\ call'[u].seq = call[u].seq,
         Backed(chunks, synced, group, call, worker, told) =>
           /\ Intact(chunks')
           /\ \A u \in Callers : WrittenTo(call'[u], chunks'[Len(chunks')])
           /\ WrittenTo(worker', chunks'[Len(chunks')])
           /\ \A w \in Writes : \A seq \in Nat :
                /\ Stored(chunks, synced, w) => Stored(chunks', synced', w)
                /\ InHand(worker, w, seq) => InHand(worker', w, seq) \/ Stored(chunks', synced', w)
                /\ \A u \in Callers : InHand(call[u], w, seq) => InHand(call'[u], w, seq) \/ Stored(chunks', synced', w)
  PROVE  AckInv'
<1>1. SUFFICES ASSUME Safe(mishaps') PROVE Backed(chunks', synced', group', call', worker', told')
  BY AckIs
<1>2. Backed(chunks, synced, group, call, worker, told)
  BY <1>1, AckIs
<1>3. /\ Intact(chunks')
      /\ \A u \in Callers : WrittenTo(call'[u], chunks'[Len(chunks')])
      /\ WrittenTo(worker', chunks'[Len(chunks')])
      /\ \A w \in Writes : \A seq \in Nat :
           /\ Stored(chunks, synced, w) => Stored(chunks', synced', w)
           /\ InHand(worker, w, seq) => InHand(worker', w, seq) \/ Stored(chunks', synced', w)
           /\ \A u \in Callers : InHand(call[u], w, seq) => InHand(call'[u], w, seq) \/ Stored(chunks', synced', w)
  BY <1>2
<1>4. \A w \in Writes : told'[w] = "acked" => Stored(chunks', synced', w)
  <2>1. 0 \in Nat
    OBVIOUS
  <2> QED BY <1>2, <1>3, <2>1 DEF Backed
<1>5. ASSUME ~group'.failed, NEW u \in Callers, NEW w \in call'[u].ws
      PROVE  Stored(chunks', synced', w) \/ Due(group', call', worker', w, call'[u].seq)
  <2>1. w \in call[u].ws /\ w \in Writes /\ ~group.failed /\ call[u].seq \in Nat
    BY <1>5, Typed
  <2>2. Stored(chunks, synced, w) \/ Due(group, call, worker, w, call[u].seq)
    BY <1>2, <2>1 DEF Backed
  <2>3. CASE Stored(chunks, synced, w)
    BY <1>3, <2>1, <2>3
  <2>4. CASE Due(group, call, worker, w, call[u].seq) /\ ~Stored(chunks', synced', w)
    <3>1. group' = group /\ group'.flushed < call[u].seq
      BY <2>4 DEF Due
    <3>2. InHand(worker, w, call[u].seq) => InHand(worker', w, call[u].seq)
      BY <1>3, <2>1, <2>4
    <3>3. \A v \in Callers : InHand(call[v], w, call[u].seq) => InHand(call'[v], w, call[u].seq)
      BY <1>3, <2>1, <2>4
    <3>4. Due(group', call', worker', w, call[u].seq)
      BY <2>4, <3>1, <3>2, <3>3, StaysDue
    <3> QED BY <3>4
  <2> QED BY <2>2, <2>3, <2>4
<1> QED BY <1>3, <1>4, <1>5 DEF Backed

\* The write of a batch.
LEMMA WriteOutFiles ==
  ASSUME TypeInv, NEW who, NEW b \in Seq(IntactT), WriteOut(who, b), synced' = synced
  PROVE  /\ Intact(chunks) => Intact(chunks')
         /\ \A w : Stored(chunks, synced, w) => Stored(chunks', synced', w)
         /\ \A i \in DOMAIN b : \E j \in DOMAIN chunks'[Len(chunks')] : chunks'[Len(chunks')][j] = b[i]
<1> DEFINE n == Len(chunks)
           m == Len(Active)
<1>1. /\ Len(chunks') = n /\ chunks'[n] = Active \o b /\ Active \o b \in Seq(RecordsT)
      /\ \A c \in 1 .. n : c # n => chunks'[c] = chunks[c]
  BY FileTypes
<1>2. n \in 1 .. n /\ n \in Nat /\ m \in Nat /\ Active \in Seq(RecordsT) /\ Active = chunks[n] /\ synced \in 0 .. m
  BY ActiveIs DEF TypeInv
<1>3. /\ Len(Active \o b) = m + Len(b) /\ Len(b) \in Nat /\ DOMAIN b = 1 .. Len(b)
      /\ DOMAIN (Active \o b) = 1 .. (m + Len(b))
      /\ \A i \in 1 .. m : (Active \o b)[i] = Active[i]
      /\ \A i \in 1 .. Len(b) : (Active \o b)[m + i] = b[i]
  <2>1. b \in Seq(RecordsT)
    BY IntactSeq
  <2>2. Active \in Seq(RecordsT)
    BY <1>2
  <2> QED BY ONLY <2>1, <2>2
<1>4. \A i \in 1 .. Len(b) : b[i].kind # "TORN"
  <2>1. \A R : \A s \in Seq(R) : \A j \in 1 .. Len(s) : s[j] \in R
    OBVIOUS
  <2>2. \A i \in 1 .. Len(b) : b[i] \in IntactT
    BY <2>1, Zenon
  <2> QED BY <2>2 DEF IntactT
<1> DEFINE s == Active \o b
<1>5. \A i \in 1 .. (m + Len(b)) : i \in 1 .. m \/ (i - m \in 1 .. Len(b) /\ s[i] = b[i - m])
  <2>1. SUFFICES ASSUME NEW i \in 1 .. (m + Len(b)), i \notin 1 .. m
                 PROVE  i - m \in 1 .. Len(b) /\ s[i] = b[i - m]
    OBVIOUS
  <2>2. i - m \in 1 .. Len(b) /\ i = m + (i - m)
    BY <1>2, <1>3, <2>1
  <2> QED BY <1>3, <2>2
<1>6. chunks'[n] = s /\ Len(s) = m + Len(b) /\ DOMAIN s = 1 .. (m + Len(b))
  BY <1>1, <1>3
<1>7. /\ \A i \in 1 .. m : s[i] = chunks[n][i]
      /\ \A i \in 1 .. Len(b) : s[m + i] = b[i]
  BY <1>2, <1>3
<1> HIDE DEF s, m, n
<1>8. ASSUME Intact(chunks) PROVE Intact(chunks')
  <2>1. ASSUME NEW c \in 1 .. n, NEW i \in 1 .. Len(chunks'[c]) PROVE chunks'[c][i].kind # "TORN"
    <3>1. CASE c # n
      BY <1>1, <1>8, <2>1, <3>1 DEF Intact, n
    <3>2. CASE c = n
      <4>1. \A j \in 1 .. m : chunks[n][j].kind # "TORN"
        BY <1>2, <1>8 DEF Intact, n, m
      <4> QED BY <1>4, <1>5, <1>6, <1>7, <2>1, <3>2, <4>1
    <3> QED BY <3>1, <3>2
  <2> QED BY <1>1, <2>1 DEF Intact
<1>9. ASSUME NEW w, Stored(chunks, synced, w) PROVE Stored(chunks', synced', w)
  <2>1. PICK c \in 1 .. n : \E i \in 1 .. Len(chunks[c]) :
          (c = n => i <= synced) /\ chunks[c][i].kind = "DATA" /\ w \in chunks[c][i].ws
    BY <1>9 DEF Stored, n
  <2>2. PICK i \in 1 .. Len(chunks[c]) : (c = n => i <= synced) /\ chunks[c][i].kind = "DATA" /\ w \in chunks[c][i].ws
    BY <2>1
  <2>3. chunks'[c][i] = chunks[c][i] /\ i \in 1 .. Len(chunks'[c])
    <3>1. CASE c # n
      BY <1>1, <2>2, <3>1
    <3>2. CASE c = n
      <4>1. i \in 1 .. m
        BY <1>2, <2>2, <3>2 DEF m
      <4>2. i \in 1 .. (m + Len(b))
        BY <1>2, <1>3, <4>1
      <4> QED BY <1>6, <1>7, <3>2, <4>1, <4>2
    <3> QED BY <3>1, <3>2
  <2> QED BY <1>1, <2>2, <2>3 DEF Stored
<1>10. \A i \in DOMAIN b : \E j \in DOMAIN s : s[j] = b[i]
  <2>1. \A i \in 1 .. Len(b) : m + i \in 1 .. (m + Len(b))
    BY <1>2, <1>3
  <2> QED BY <1>3, <1>6, <1>7, <2>1
<1> QED BY <1>1, <1>6, <1>8, <1>9, <1>10

\* A record with a write is a data record.
LEMMA DataIs ==
  ASSUME TypeInv, LogInv, Intact(chunks), NEW c \in 1 .. Len(chunks), NEW i \in 1 .. Len(chunks[c]),
         NEW w \in chunks[c][i].ws
  PROVE  chunks[c][i].kind = "DATA"
<1>1. chunks \in Seq(Seq(RecordsT)) /\ DOMAIN chunks = 1 .. Len(chunks) /\ chunks[c] \in Seq(RecordsT)
  BY DEF TypeInv
<1>2. \A j \in 1 .. i : j \in 1 .. Len(chunks[c])
  BY <1>1
<1>3. i \in Parsed(chunks[c])
  BY <1>2 DEF Parsed, Intact
<1>4. <<c, i>> \in Parse(chunks)
  BY <1>1, <1>3, ParseIs
<1>5. At(chunks, <<c, i>>) \in Recs(Live)
  BY <1>4, DiskIs
<1>6. chunks[c][i] \in Recs(Live)
  BY <1>5 DEF At
<1> QED BY <1>6, RecTypes DEF LogInv

\* An fsync.
LEMMA SyncFiles ==
  ASSUME TypeInv, LogInv, chunks' = chunks, synced' = Len(Active), Intact(chunks)
  PROVE  /\ \A w : Stored(chunks, synced, w) => Stored(chunks', synced', w)
         /\ \A h, w, seq : h.at = "written" /\ WrittenTo(h, Active) /\ InHand(h, w, seq) => Stored(chunks', synced', w)
<1>1. /\ Len(chunks) \in 1 .. Len(chunks) /\ Active \in Seq(RecordsT) /\ Active = chunks[Len(chunks)]
      /\ Len(Active) \in Nat /\ synced \in 0 .. Len(Active) /\ DOMAIN Active = 1 .. Len(Active)
  BY ActiveIs DEF TypeInv
<1>2. ASSUME NEW c \in 1 .. Len(chunks), NEW i \in 1 .. Len(chunks[c]), NEW w,
             chunks[c][i].kind = "DATA", w \in chunks[c][i].ws
      PROVE  Stored(chunks', synced', w)
  <2>1. c = Len(chunks) => i <= Len(Active)
    BY <1>1
  <2> QED BY <1>2, <2>1 DEF Stored
<1>3. ASSUME NEW w, Stored(chunks, synced, w) PROVE Stored(chunks', synced', w)
  BY <1>2, <1>3 DEF Stored
<1>4. ASSUME NEW h, NEW w, NEW seq, h.at = "written", WrittenTo(h, Active), InHand(h, w, seq) PROVE Stored(chunks', synced', w)
  <2>1. PICK i \in DOMAIN h.batch : w \in h.batch[i].ws
    BY <1>4 DEF InHand
  <2>2. PICK j \in DOMAIN Active : Active[j] = h.batch[i]
    BY <1>4, <2>1 DEF WrittenTo
  <2>3. j \in 1 .. Len(chunks[Len(chunks)]) /\ w \in chunks[Len(chunks)][j].ws
    BY <1>1, <2>1, <2>2
  <2>4. chunks[Len(chunks)][j].kind = "DATA"
    BY <1>1, <2>3, DataIs
  <2> QED BY <1>1, <1>2, <2>3, <2>4
<1> QED BY <1>3, <1>4

\* A flush is done, and none is left behind.
LEMMA FlushedAck ==
  ASSUME TypeInv, HandsInv, AckInv, UNCHANGED <<chunks, synced, told>>, mishaps \subseteq mishaps',
         \A u \in Callers : /\ call'[u].at = "written" => call[u].at = "written" /\ call'[u].batch = call[u].batch
                            /\ call'[u].ws = call[u].ws /\ call'[u].seq = call[u].seq,
         worker'.at = "written" => worker.at = "written" /\ worker'.batch = worker.batch,
         NEW to \in Nat, group'.flushed = to, to + Len(group.buf) <= group.enqueued,
         group'.failed = group.failed, group'.buf = group.buf, group'.enqueued = group.enqueued,
         Safe(mishaps') => \A w : \A seq \in Nat :
           /\ InHand(worker, w, seq) => to < seq /\ InHand(worker', w, seq)
           /\ \A u \in Callers : InHand(call[u], w, seq) => to < seq /\ InHand(call'[u], w, seq)
  PROVE  AckInv'
<1>1. ASSUME Safe(mishaps'), ~group'.failed, NEW u \in Callers, NEW w \in call'[u].ws
      PROVE  Stored(chunks, synced, w) \/ Due(group', call', worker', w, call'[u].seq)
  <2> DEFINE seq == call[u].seq
  <2>1. ~group.failed /\ w \in call[u].ws /\ call'[u].seq = seq
    BY <1>1
  <2>2. Stored(chunks, synced, w) \/ Due(group, call, worker, w, seq)
    BY <1>1, <2>1, TicketsBacked
  <2>3. /\ seq \in Nat /\ Len(group.buf) \in Nat /\ group.enqueued \in Nat
    BY <2>1, Typed
  <2> HIDE DEF seq
  <2>4. ASSUME Due(group, call, worker, w, seq) PROVE Due(group', call', worker', w, seq)
    <3>1. CASE InBuf(group, w, seq)
      <4>1. InBuf(group', w, seq) /\ group.enqueued < seq + Len(group.buf)
        BY <3>1 DEF InBuf
      <4>2. to < seq
        BY <2>3, <4>1
      <4> QED BY <4>1, <4>2 DEF Due
    <3>2. CASE InHand(worker, w, seq) \/ \E v \in Callers : InHand(call[v], w, seq)
      <4>1. to < seq /\ (InHand(worker', w, seq) \/ \E v \in Callers : InHand(call'[v], w, seq))
        BY <1>1, <2>3, <3>2
      <4> QED BY <4>1 DEF Due
    <3> QED BY <2>4, <3>1, <3>2 DEF Due
  <2> QED BY <2>1, <2>2, <2>4
<1> QED BY <1>1, FilesSame

\* wait_flushed.
LEMMA WaitAck ==
  ASSUME TypeInv, HandsInv, RangesInv, LogInv, ToldInv, AckInv, NEW t \in Callers, Wait(t)
  PROVE  AckInv'
<1>1. /\ call \in [Callers -> CallT] /\ call[t] \in CallT /\ group \in GroupT
      /\ call[t].batch \in Seq(IntactT) /\ call[t].to \in Nat
  BY Typed
<1>2. CASE Elect(t)
  <2>1. /\ UNCHANGED <<chunks, synced, worker, told, mishaps>> /\ call[t].at = "waiting"
        /\ group'.buf = group.buf /\ group'.enqueued = group.enqueued /\ group'.failed = group.failed
        /\ group'.flushed = group.flushed /\ call' = [call EXCEPT ![t].at = "elected"]
    BY <1>1, <1>2 DEF Elect, GroupT
  <2>2. /\ call'[t].at = "elected" /\ call'[t].ws = call[t].ws /\ call'[t].seq = call[t].seq
        /\ \A u \in Callers \ {t} : call'[u] = call[u]
    BY <1>1, <2>1 DEF CallT
  <2>3. \A u \in Callers : /\ call'[u].at = "written" => call[u].at = "written" /\ call'[u].batch = call[u].batch
                           /\ call'[u].ws = call[u].ws /\ call'[u].seq = call[u].seq
    BY <2>2
  <2>4. \A w, seq : \A u \in Callers : InHand(call[u], w, seq) => InHand(call'[u], w, seq)
    BY <2>1, <2>2 DEF InHand
  <2>5. \A w : \A seq \in Nat : InBuf(group, w, seq) => InBuf(group', w, seq)
    BY <2>1 DEF InBuf
  <2> QED BY <2>1, <2>3, <2>4, <2>5, TicketsKeep
<1>3. CASE Take(t)
  <2>1. /\ UNCHANGED <<chunks, synced, worker, told, mishaps>> /\ call[t].at = "elected"
        /\ group'.failed = group.failed /\ group'.flushed = group.flushed
        /\ call' = [call EXCEPT ![t].at = "taken", ![t].batch = group.buf, ![t].to = group.enqueued]
    BY <1>1, <1>3 DEF Take, GroupT
  <2>2. /\ call'[t].at = "taken" /\ call'[t].ws = call[t].ws /\ call'[t].seq = call[t].seq /\ call'[t].batch = group.buf
        /\ call'[t].to = group.enqueued
        /\ \A u \in Callers \ {t} : call'[u] = call[u]
    BY <1>1, <2>1 DEF CallT
  <2>3. \A u \in Callers : /\ call'[u].at = "written" => call[u].at = "written" /\ call'[u].batch = call[u].batch
                           /\ call'[u].ws = call[u].ws /\ call'[u].seq = call[u].seq
    BY <2>2
  <2>4. \A w, seq : \A u \in Callers : InHand(call[u], w, seq) => InHand(call'[u], w, seq)
    BY <2>1, <2>2 DEF InHand
  <2>5. \A w : \A seq \in Nat : InBuf(group, w, seq) => InHand(call'[t], w, seq)
    BY <2>2 DEF InBuf, InHand
  <2> QED BY <2>1, <2>3, <2>4, <2>5, TicketsKeep
<1>4. CASE Write(t)
  <2> DEFINE b == call[t].batch
  <2>1. /\ UNCHANGED <<group, synced, worker, told, mishaps>> /\ call[t].at = "taken" /\ WriteOut(t, b)
        /\ call' = [call EXCEPT ![t].at = "written"] /\ file = {}
    BY <1>4 DEF Write, WriteOut
  <2>2. /\ call'[t].at = "written" /\ call'[t].ws = call[t].ws /\ call'[t].seq = call[t].seq /\ call'[t].batch = b
        /\ call'[t].to = call[t].to
        /\ \A u \in Callers \ {t} : call'[u] = call[u]
    BY <1>1, <2>1 DEF CallT
  <2>3. worker.at # "written" /\ \A u \in Callers : call[u].at # "written"
    BY <2>1, NobodyWrites
  <2>4. b \in Seq(IntactT)
    BY <1>1
  <2>5. call[t].batch = b
    OBVIOUS
  <2> HIDE DEF b
  <2>6. /\ Intact(chunks) => Intact(chunks')
        /\ \A w : Stored(chunks, synced, w) => Stored(chunks', synced', w)
        /\ \A i \in DOMAIN b : \E j \in DOMAIN chunks'[Len(chunks')] : chunks'[Len(chunks')][j] = b[i]
    BY <2>1, <2>4, WriteOutFiles
  <2>7. WrittenTo(worker', chunks'[Len(chunks')]) /\ \A u \in Callers : WrittenTo(call'[u], chunks'[Len(chunks')])
    BY <2>1, <2>2, <2>3, <2>6 DEF WrittenTo
  <2>8. \A w, seq : \A u \in Callers : InHand(call[u], w, seq) => InHand(call'[u], w, seq)
    BY <2>2, <2>5 DEF InHand
  <2>9. \A u \in Callers : call'[u].ws = call[u].ws /\ call'[u].seq = call[u].seq
    BY <2>2
  <2>10. worker' = worker /\ UNCHANGED <<group, told, mishaps>>
    BY <2>1
  <2> QED BY <2>6, <2>7, <2>8, <2>9, <2>10, FilesMove DEF Backed
<1>5. CASE Sync(t)
  <2>1. /\ UNCHANGED <<group, chunks, worker, told, mishaps>> /\ call[t].at = "written" /\ synced' = Len(Active)
        /\ call' = [call EXCEPT ![t].at = "synced"]
    BY <1>5 DEF Sync, SyncOut
  <2>2. /\ call'[t].at = "synced" /\ call'[t].ws = call[t].ws /\ call'[t].seq = call[t].seq
        /\ \A u \in Callers \ {t} : call'[u] = call[u]
    BY <1>1, <2>1 DEF CallT
  <2>3. Active = chunks[Len(chunks)]
    BY DEF Active
  <2>4. ASSUME Backed(chunks, synced, group, call, worker, told)
        PROVE  /\ Intact(chunks')
               /\ \A u \in Callers : WrittenTo(call'[u], chunks'[Len(chunks')])
               /\ WrittenTo(worker', chunks'[Len(chunks')])
               /\ \A w \in Writes : \A seq \in Nat :
                    /\ Stored(chunks, synced, w) => Stored(chunks', synced', w)
                    /\ InHand(worker, w, seq) => InHand(worker', w, seq) \/ Stored(chunks', synced', w)
                    /\ \A u \in Callers : InHand(call[u], w, seq) => InHand(call'[u], w, seq) \/ Stored(chunks', synced', w)
    <3>1. Intact(chunks) /\ (\A u \in Callers : WrittenTo(call[u], Active)) /\ WrittenTo(worker, Active)
      BY <2>3, <2>4 DEF Backed
    <3>2. /\ \A w : Stored(chunks, synced, w) => Stored(chunks', synced', w)
          /\ \A h, w, seq : h.at = "written" /\ WrittenTo(h, Active) /\ InHand(h, w, seq) => Stored(chunks', synced', w)
      BY <2>1, <3>1, SyncFiles
    <3>3. \A u \in Callers : WrittenTo(call'[u], Active)
      BY <2>2, <3>1 DEF WrittenTo
    <3>4. \A w \in Writes : \A seq \in Nat : InHand(call[t], w, seq) => Stored(chunks', synced', w)
      BY <2>1, <3>1, <3>2
    <3> QED BY <2>1, <2>2, <2>3, <3>1, <3>2, <3>3, <3>4
  <2>5. \A u \in Callers : call'[u].ws = call[u].ws /\ call'[u].seq = call[u].seq
    BY <2>2
  <2> QED BY <2>1, <2>4, <2>5, FilesMove
<1>6. CASE Flushed(t)
  <2>1. /\ UNCHANGED <<chunks, synced, worker, told>> /\ call[t].at = "synced"
        /\ group'.buf = group.buf /\ group'.enqueued = group.enqueued /\ group'.failed = group.failed
        /\ group'.flushed = call[t].to /\ Overtakes(call[t].to, {worker})
        /\ call' = [call EXCEPT ![t].at = "waiting", ![t].batch = <<>>, ![t].to = 0]
    BY <1>1, <1>6 DEF Flushed, GroupT
  <2>2. /\ call'[t].at = "waiting" /\ call'[t].ws = call[t].ws /\ call'[t].seq = call[t].seq
        /\ \A u \in Callers \ {t} : call'[u] = call[u]
    BY <1>1, <2>1 DEF CallT
  <2>3. \A u \in Callers : /\ call'[u].at = "written" => call[u].at = "written" /\ call'[u].batch = call[u].batch
                           /\ call'[u].ws = call[u].ws /\ call'[u].seq = call[u].seq
    BY <2>2
  <2>4. call[t].to + Len(group.buf) <= group.enqueued
    BY <2>1 DEF HandsInv, Holds
  <2>5. ASSUME Safe(mishaps'), NEW w, NEW seq \in Nat
        PROVE  /\ InHand(worker, w, seq) => call[t].to < seq /\ InHand(worker', w, seq)
               /\ \A u \in Callers : ~InHand(call[u], w, seq)
    <3>1. \A u \in Callers : ~InHand(call[u], w, seq)
      BY <2>1 DEF InHand, HandsInv, Leads
    <3>2. ASSUME InHand(worker, w, seq) PROVE call[t].to < seq
      <4>1. /\ worker.at \in {"taken", "written"} /\ worker.to < seq + Len(worker.batch)
            /\ worker.batch # <<>>
        BY <3>2 DEF InHand
      <4>2. ~(worker.to <= call[t].to)
        BY <2>1, <2>5, <4>1 DEF Overtakes, Safe
      <4>3. \/ call[t].to + Len(worker.batch) <= worker.to
            \/ worker.to + Len(call[t].batch) <= call[t].to
        BY <2>1, <4>1 DEF RangesInv, Holds
      <4>4. /\ worker.to \in Nat /\ call[t].to \in Nat /\ Len(worker.batch) \in Nat /\ Len(call[t].batch) \in Nat
        BY <1>1, Typed
      <4> QED BY <4>1, <4>2, <4>3, <4>4
    <3> QED BY <2>1, <3>1, <3>2
  <2>6. mishaps \subseteq mishaps'
    BY <2>1 DEF Overtakes
  <2> QED BY <1>1, <2>1, <2>3, <2>4, <2>5, <2>6, FlushedAck
<1>7. CASE SyncFails(t)
  <2>1. /\ UNCHANGED <<chunks, synced, worker, told, mishaps>> /\ call[t].at = "written" /\ group'.failed
        /\ call' = [call EXCEPT ![t].at = "waiting", ![t].batch = <<>>, ![t].to = 0]
    BY <1>1, <1>7 DEF SyncFails, GroupT
  <2>2. /\ call'[t].at = "waiting" /\ call'[t].ws = call[t].ws /\ call'[t].seq = call[t].seq
        /\ \A u \in Callers \ {t} : call'[u] = call[u]
    BY <1>1, <2>1 DEF CallT
  <2>3. \A u \in Callers : /\ call'[u].at = "written" => call[u].at = "written" /\ call'[u].batch = call[u].batch
                           /\ call'[u].ws = call[u].ws /\ call'[u].seq = call[u].seq
    BY <2>2
  <2> QED BY <2>1, <2>3, TicketsKeep
<1> QED BY <1>2, <1>3, <1>4, <1>5, <1>6, <1>7, AnswerAck DEF Wait

\* The worker and checkpoint().
LEMMA WorkAck ==
  ASSUME TypeInv, HandsInv, RangesInv, LogInv, AckInv, Capture \/ Return \/ Work
  PROVE  AckInv'
<1>1. worker \in WorkT /\ group \in GroupT /\ worker.batch \in Seq(IntactT) /\ worker.to \in Nat
  BY Typed
<1>2. CASE Capture \/ Return \/ Rename \/ RenameFails
  <2>1. /\ UNCHANGED <<group, chunks, synced, call, told, mishaps>> /\ worker.at \in {"idle", "pending"}
        /\ \/ worker' = [worker EXCEPT !.error = FALSE]
           \/ worker' = Job(eng.base, lsn)
           \/ worker' = [worker EXCEPT !.at = "renamed"]
           \/ worker' = Failed
    BY <1>2 DEF Capture, Return, Rename, RenameFails, logVars
  <2>2. worker'.at \in {"idle", "pending", "renamed"}
    BY <1>1, <2>1, Rests DEF Job, WorkT
  <2>3. \A w, seq : ~InHand(worker, w, seq)
    BY <2>1 DEF InHand
  <2> QED BY <2>1, <2>2, <2>3, TicketsKeep
<1>3. CASE Mark
  <2>1. /\ UNCHANGED <<chunks, synced, call, told, mishaps>> /\ worker.at = "renamed" /\ worker'.at = "marked"
        /\ group'.buf = Append(group.buf, Marker(worker.lsn)) /\ group'.enqueued = group.enqueued + 1
        /\ group'.failed = group.failed /\ group'.flushed = group.flushed
    BY <1>1, <1>3 DEF Mark, WorkT, Enqueued, GroupT
  <2>2. \A w : \A seq \in Nat : InBuf(group, w, seq) => InBuf(group', w, seq)
    BY <1>1, <2>1, BufGrows
  <2>3. \A w, seq : ~InHand(worker, w, seq)
    BY <2>1 DEF InHand
  <2> QED BY <2>1, <2>2, <2>3, TicketsKeep
<1>4. CASE FlushTake
  <2>1. /\ UNCHANGED <<chunks, synced, call, told, mishaps>> /\ worker.at = "marked"
        /\ worker' = IF group.failed THEN Failed
               ELSE IF group.buf = <<>> THEN [worker EXCEPT !.at = "rotate"]
               ELSE [worker EXCEPT !.at = "taken", !.batch = group.buf, !.to = group.enqueued]
        /\ group' = IF group.failed THEN group ELSE [group EXCEPT !.buf = <<>>]
    BY <1>4 DEF FlushTake
  <2>2. \A w, seq : ~InHand(worker, w, seq)
    BY <2>1 DEF InHand
  <2>3. worker'.at \in {"idle", "rotate", "taken"}
    BY <1>1, <2>1, Rests DEF WorkT
  <2>4. group'.failed = group.failed /\ group'.flushed = group.flushed
    BY <1>1, <2>1 DEF GroupT
  <2>5. ASSUME NEW w, NEW seq \in Nat, ~group.failed, InBuf(group, w, seq) PROVE InHand(worker', w, seq)
    <3>1. group.buf # <<>>
      BY <2>5 DEF InBuf
    <3>2. worker'.at = "taken" /\ worker'.batch = group.buf /\ worker'.to = group.enqueued
      BY <1>1, <2>1, <2>5, <3>1 DEF WorkT
    <3> QED BY <2>5, <3>2 DEF InBuf, InHand
  <2> QED BY <2>1, <2>2, <2>3, <2>4, <2>5, TicketsKeep
<1>5. CASE FlushWrite
  <2> DEFINE b == worker.batch
  <2>1. /\ UNCHANGED <<group, synced, call, told, mishaps>> /\ worker.at = "taken" /\ WriteOut("worker", b)
        /\ worker' = [worker EXCEPT !.at = "written"] /\ file = {}
    BY <1>5 DEF FlushWrite, WriteOut
  <2>2. worker'.at = "written" /\ worker'.batch = b /\ worker'.to = worker.to
    BY <1>1, <2>1 DEF WorkT
  <2>3. \A u \in Callers : call[u].at # "written"
    BY <2>1, NobodyWrites
  <2>4. b \in Seq(IntactT)
    BY <1>1
  <2>5. worker.batch = b
    OBVIOUS
  <2> HIDE DEF b
  <2>6. /\ Intact(chunks) => Intact(chunks')
        /\ \A w : Stored(chunks, synced, w) => Stored(chunks', synced', w)
        /\ \A i \in DOMAIN b : \E j \in DOMAIN chunks'[Len(chunks')] : chunks'[Len(chunks')][j] = b[i]
    BY <2>1, <2>4, WriteOutFiles
  <2>7. WrittenTo(worker', chunks'[Len(chunks')]) /\ \A u \in Callers : WrittenTo(call'[u], chunks'[Len(chunks')])
    BY <2>1, <2>2, <2>3, <2>6 DEF WrittenTo
  <2>8. \A w, seq : InHand(worker, w, seq) => InHand(worker', w, seq)
    BY <2>2, <2>5 DEF InHand
  <2>9. call' = call /\ UNCHANGED <<group, told, mishaps>>
    BY <2>1
  <2> QED BY <2>6, <2>7, <2>8, <2>9, FilesMove DEF Backed
<1>6. CASE FlushSync
  <2>1. /\ UNCHANGED <<group, chunks, call, told, mishaps>> /\ worker.at = "written" /\ synced' = Len(Active)
        /\ worker' = [worker EXCEPT !.at = "synced"]
    BY <1>6 DEF FlushSync, SyncOut
  <2>2. worker'.at = "synced"
    BY <1>1, <2>1 DEF WorkT
  <2>3. Active = chunks[Len(chunks)]
    BY DEF Active
  <2>4. ASSUME Backed(chunks, synced, group, call, worker, told)
        PROVE  /\ Intact(chunks')
               /\ \A u \in Callers : WrittenTo(call'[u], chunks'[Len(chunks')])
               /\ WrittenTo(worker', chunks'[Len(chunks')])
               /\ \A w \in Writes : \A seq \in Nat :
                    /\ Stored(chunks, synced, w) => Stored(chunks', synced', w)
                    /\ InHand(worker, w, seq) => InHand(worker', w, seq) \/ Stored(chunks', synced', w)
                    /\ \A u \in Callers : InHand(call[u], w, seq) => InHand(call'[u], w, seq) \/ Stored(chunks', synced', w)
    <3>1. Intact(chunks) /\ (\A u \in Callers : WrittenTo(call[u], Active)) /\ WrittenTo(worker, Active)
      BY <2>3, <2>4 DEF Backed
    <3>2. /\ \A w : Stored(chunks, synced, w) => Stored(chunks', synced', w)
          /\ \A h, w, seq : h.at = "written" /\ WrittenTo(h, Active) /\ InHand(h, w, seq) => Stored(chunks', synced', w)
      BY <2>1, <3>1, SyncFiles
    <3>3. WrittenTo(worker', Active)
      BY <2>2 DEF WrittenTo
    <3> QED BY <2>1, <2>2, <2>3, <3>1, <3>2, <3>3
  <2> QED BY <2>1, <2>4, FilesMove
<1>7. CASE FlushDone
  <2>1. /\ UNCHANGED <<chunks, synced, call, told>> /\ worker.at = "synced"
        /\ group'.buf = group.buf /\ group'.enqueued = group.enqueued /\ group'.failed = group.failed
        /\ group'.flushed = worker.to /\ Overtakes(worker.to, { call[t] : t \in Callers })
        /\ worker'.at = "rotate"
    BY <1>1, <1>7 DEF FlushDone, GroupT, WorkT
  <2>2. worker.to + Len(group.buf) <= group.enqueued
    BY <2>1 DEF HandsInv, Holds
  <2>3. ASSUME Safe(mishaps'), NEW w, NEW seq \in Nat
        PROVE  /\ ~InHand(worker, w, seq)
               /\ \A u \in Callers : InHand(call[u], w, seq) => worker.to < seq /\ InHand(call'[u], w, seq)
    <3>1. ~InHand(worker, w, seq)
      BY <2>1 DEF InHand
    <3>2. ASSUME NEW u \in Callers, InHand(call[u], w, seq) PROVE worker.to < seq
      <4>1. /\ call[u].at \in {"taken", "written"} /\ call[u].to < seq + Len(call[u].batch)
            /\ call[u].batch # <<>>
        BY <3>2 DEF InHand
      <4>2. ~(call[u].to <= worker.to)
        BY <2>1, <2>3, <4>1 DEF Overtakes, Safe
      <4>3. \/ call[u].to + Len(worker.batch) <= worker.to
            \/ worker.to + Len(call[u].batch) <= call[u].to
        BY <2>1, <4>1 DEF RangesInv, Holds
      <4>4. /\ worker.to \in Nat /\ call[u].to \in Nat /\ Len(worker.batch) \in Nat /\ Len(call[u].batch) \in Nat
        BY <1>1, Typed
      <4> QED BY <4>1, <4>2, <4>3, <4>4
    <3> QED BY <2>1, <3>1, <3>2
  <2>4. mishaps \subseteq mishaps'
    BY <2>1 DEF Overtakes
  <2> QED BY <1>1, <2>1, <2>2, <2>3, <2>4, FlushedAck
<1>8. CASE FlushFails
  <2>1. /\ UNCHANGED <<chunks, synced, call, told, mishaps>> /\ group'.failed /\ worker'.at = "idle"
    BY <1>1, <1>8, Rests DEF FlushFails, GroupT
  <2> QED BY <2>1, TicketsKeep
<1>9. CASE Rotate
  <2>1. /\ UNCHANGED <<group, call, told, mishaps>> /\ worker.at = "rotate" /\ file = {}
        /\ synced' = 0 /\ worker'.at = "idle"
    BY <1>9, Rests DEF Rotate
  <2> DEFINE n == Len(chunks)
  <2>2. PICK k \in 0 .. Len(Active) :
          /\ k >= synced /\ Len(chunks') = n + 1 /\ chunks'[n + 1] = <<>>
          /\ \A c \in 1 .. n : chunks'[c] = Kept(k, FALSE)[c]
    BY <1>9, RotateIs
  <2>3. /\ n \in 1 .. n /\ n \in Nat /\ Active = chunks[n] /\ Len(Active) \in Nat /\ synced \in 0 .. Len(Active)
        /\ k \in Nat /\ k <= Len(Active)
    BY ActiveIs DEF TypeInv
  <2>4. \A u \in Callers : call[u].at # "written"
    BY <2>1, NobodyWrites
  <2>10. /\ \A c \in 1 .. n : c # n => chunks'[c] = chunks[c]
         /\ Len(chunks'[n]) = k /\ \A i \in 1 .. k : chunks'[n][i] = chunks[n][i]
    <3>1. FALSE \in BOOLEAN
      OBVIOUS
    <3>2. /\ \A c \in 1 .. n : c # n => Kept(k, FALSE)[c] = chunks[c]
          /\ Len(Kept(k, FALSE)[n]) = k /\ \A i \in 1 .. k : Kept(k, FALSE)[n][i] = Active[i]
      BY <3>1, KeptIs
    <3> QED BY <2>2, <2>3, <3>2
  <2> HIDE DEF n
  <2>5. ASSUME Intact(chunks) PROVE Intact(chunks')
    <3>1. ASSUME NEW c \in 1 .. Len(chunks'), NEW i \in 1 .. Len(chunks'[c]) PROVE chunks'[c][i].kind # "TORN"
      <4>1. CASE c = n + 1
        BY <2>2, <3>1, <4>1
      <4>2. CASE c # n + 1 /\ c # n
        <5>1. c \in 1 .. n
          BY <2>2, <2>3, <4>2
        <5> QED BY <2>5, <2>10, <3>1, <4>2, <5>1 DEF Intact, n
      <4>3. CASE c = n
        <5>1. i \in 1 .. k /\ i \in 1 .. Len(chunks[n])
          BY <2>3, <2>10, <3>1, <4>3
        <5> QED BY <2>3, <2>5, <2>10, <4>3, <5>1 DEF Intact, n
      <4> QED BY <4>1, <4>2, <4>3
    <3> QED BY <3>1 DEF Intact
  <2>6. ASSUME NEW w, Stored(chunks, synced, w) PROVE Stored(chunks', synced', w)
    <3>1. PICK c \in 1 .. n : \E i \in 1 .. Len(chunks[c]) :
            (c = n => i <= synced) /\ chunks[c][i].kind = "DATA" /\ w \in chunks[c][i].ws
      BY <2>6 DEF Stored, n
    <3>2. PICK i \in 1 .. Len(chunks[c]) : (c = n => i <= synced) /\ chunks[c][i].kind = "DATA" /\ w \in chunks[c][i].ws
      BY <3>1
    <3>3. c \in 1 .. Len(chunks') /\ c # Len(chunks')
      BY <2>2, <2>3
    <3>4. chunks'[c][i] = chunks[c][i] /\ i \in 1 .. Len(chunks'[c])
      <4>1. CASE c # n
        BY <2>10, <3>2, <4>1
      <4>2. CASE c = n
        <5>1. i \in 1 .. k
          BY <2>2, <2>3, <3>2, <4>2
        <5> QED BY <2>10, <4>2, <5>1
      <4> QED BY <4>1, <4>2
    <3> QED BY <3>2, <3>3, <3>4 DEF Stored
  <2>7. WrittenTo(worker', chunks'[Len(chunks')]) /\ \A u \in Callers : WrittenTo(call'[u], chunks'[Len(chunks')])
    BY <2>1, <2>4 DEF WrittenTo
  <2>8. \A w, seq : ~InHand(worker, w, seq)
    BY <2>1 DEF InHand
  <2>9. call' = call /\ UNCHANGED <<group, told, mishaps>>
    BY <2>1
  <2> QED BY <2>5, <2>6, <2>7, <2>8, <2>9, FilesMove DEF Backed
<1> QED BY <1>2, <1>3, <1>4, <1>5, <1>6, <1>7, <1>8, <1>9 DEF Work

\* A crash keeps what was fsynced.
LEMMA CrashAck ==
  ASSUME TypeInv, AckInv, Crash
  PROVE  AckInv'
<1>1. PICK k \in synced .. Len(Active) : \E torn \in BOOLEAN : k \in 0 .. Len(Active) /\ CrashTo(k, torn)
  BY CrashIs
<1>2. PICK torn \in BOOLEAN : k \in 0 .. Len(Active) /\ CrashTo(k, torn)
  BY <1>1
<1>3. SUFFICES ASSUME Safe(mishaps') PROVE Backed(chunks', synced', group', call', worker', told')
  BY AckIs
<1>4. mishaps \subseteq mishaps' /\ torn = FALSE
  BY <1>2, <1>3 DEF CrashTo, Safe
<1>5. Backed(chunks, synced, group, call, worker, told)
  BY <1>3, <1>4, AckIs DEF Safe
<1> DEFINE n == Len(chunks)
           cs == Kept(k, torn)
<1>6. /\ cs \in Seq(Seq(RecordsT)) /\ Len(cs) = n
      /\ \A c \in 1 .. n : c # n => cs[c] = chunks[c]
      /\ Len(cs[n]) = k
      /\ \A i \in 1 .. k : cs[n][i] = Active[i]
  BY <1>2, <1>4, KeptIs
<1>7. /\ n \in 1 .. n /\ Active = chunks[n] /\ Len(Active) \in Nat /\ synced \in 0 .. Len(Active) /\ k \in Nat
      /\ synced <= k /\ k <= Len(Active)
  BY <1>2, ActiveIs DEF TypeInv
<1>8. chunks' = cs /\ synced' = Len(cs[Len(cs)]) /\ synced' = k /\ worker'.at \in {"idle", "pending"}
  BY <1>2, <1>6 DEF CrashTo, NoJob
<1>9. call' = [t \in Callers |-> Idle] /\ \A w \in Writes : told'[w] = "acked" => told[w] = "acked"
  BY DEF Crash
<1> HIDE DEF n, cs
<1>10. Intact(cs)
  <2>1. ASSUME NEW c \in 1 .. n, NEW i \in 1 .. Len(cs[c]) PROVE cs[c][i].kind # "TORN"
    <3>1. CASE c # n
      BY <1>5, <1>6, <2>1, <3>1 DEF Backed, Intact, n
    <3>2. CASE c = n
      <4>1. i \in 1 .. k /\ i \in 1 .. Len(chunks[n])
        BY <1>6, <1>7, <2>1, <3>2
      <4> QED BY <1>5, <1>6, <1>7, <3>2, <4>1 DEF Backed, Intact, n
    <3> QED BY <3>1, <3>2
  <2> QED BY <1>6, <2>1 DEF Intact
<1>11. ASSUME NEW w, Stored(chunks, synced, w) PROVE Stored(cs, k, w)
  <2>1. PICK c \in 1 .. n : \E i \in 1 .. Len(chunks[c]) :
          (c = n => i <= synced) /\ chunks[c][i].kind = "DATA" /\ w \in chunks[c][i].ws
    BY <1>11 DEF Stored, n
  <2>2. PICK i \in 1 .. Len(chunks[c]) : (c = n => i <= synced) /\ chunks[c][i].kind = "DATA" /\ w \in chunks[c][i].ws
    BY <2>1
  <2>3. cs[c][i] = chunks[c][i] /\ i \in 1 .. Len(cs[c]) /\ (c = n => i <= k)
    <3>1. CASE c # n
      BY <1>6, <2>2, <3>1
    <3>2. CASE c = n
      <4>1. i \in 1 .. k
        BY <1>7, <2>2, <3>2
      <4> QED BY <1>6, <1>7, <3>2, <4>1
    <3> QED BY <3>1, <3>2
  <2> QED BY <1>6, <2>2, <2>3 DEF Stored
<1>12. \A w \in Writes : told'[w] = "acked" => Stored(chunks', synced', w)
  BY <1>5, <1>8, <1>9, <1>11 DEF Backed
<1>13. \A t \in Callers : call'[t].at = "idle" /\ call'[t].ws = {}
  BY <1>9 DEF Idle
<1> QED BY <1>8, <1>10, <1>12, <1>13 DEF Backed, WrittenTo

---------------------------------------------------------------------------
(* The invariant.                                                          *)

\* A new database.
LEMMA InitInv == Init => EmbInv
<1>1. SUFFICES ASSUME Init PROVE EmbInv
  OBVIOUS
<1>2. /\ eng = EngineAt(Nothing) /\ buffer = NoBuffer /\ lsn = 0
      /\ group = NewGroup /\ chunks = <<<<>>>> /\ synced = 0 /\ file = {}
      /\ call = [t \in Callers |-> Idle] /\ worker = NoJob /\ front = "free"
      /\ db = [data |-> Nothing, lsn |-> 0]
      /\ told = [w \in Writes |-> "new"] /\ mishaps = {}
  BY <1>1 DEF Init
<1>3. /\ chunks \in Seq(Seq(RecordsT)) /\ Len(chunks) = 1 /\ chunks[1] = <<>> /\ Active = <<>>
      /\ DOMAIN chunks = {1}
  BY <1>2 DEF Active
<1>4. /\ eng.tx.open = FALSE /\ eng.tx.shadow = <<>> /\ eng.tx.saves = <<>> /\ eng.tx = NoTx /\ eng.base = Nothing
      /\ buffer.on = FALSE /\ buffer.stmts = <<>> /\ buffer.marks = <<>>
      /\ group.buf = <<>> /\ group.failed = FALSE /\ db.data = Nothing /\ db.lsn = 0 /\ worker.at = "idle"
  BY <1>2, NestedEmpty DEF EngineAt, NoBuffer, NewGroup, NoJob
<1>5. TypeInv
  <2>1. eng \in [tx : TxT, base : Databases]
    BY <1>2, NothingIs, Rests DEF EngineAt
  <2>2. buffer \in [on : BOOLEAN, stmts : Seq(Writes), marks : StackT(Nat)]
    <3>1. <<>> \in Seq(Writes) /\ <<>> \in StackT(Nat)
      BY DEF StackT
    <3> QED BY <1>2, <3>1 DEF NoBuffer
  <2>3. group \in GroupT /\ call \in [Callers -> CallT] /\ worker \in WorkT /\ db \in [data : Databases, lsn : Nat]
    BY <1>2, NothingIs, Rests
  <2>4. told \in [Writes -> {"new", "open", "sent", "acked", "unknown", "undone"}]
    BY <1>2
  <2>5. synced \in 0 .. Len(Active)
    BY <1>2, <1>3
  <2> QED BY <1>2, <1>3, <2>1, <2>2, <2>3, <2>4, <2>5 DEF TypeInv
<1>6. HandsInv
  <2>1. group = NewGroup /\ file = {} /\ call = [t \in Callers |-> Idle] /\ worker.at \in {"idle", "pending"}
    BY <1>2, <1>4
  <2> QED BY <2>1, RestHands DEF HandsInv
<1>7. \A r : r \notin Recs(Live)
  <2> DEFINE F == Store(chunks, group.buf, call, worker)
  <2>1. IsStore(F, chunks, group.buf, call, worker)
    BY <1>3, <1>5, StoreIs DEF TypeInv, GroupT
  <2>2. \A t \in Callers : Held(call[t]) = <<>>
    BY <1>2 DEF Held, Idle
  <2>3. Held(worker) = <<>>
    BY <1>4 DEF Held
  <2> DEFINE cs == chunks
             buf == group.buf
             cl == call
             wk == worker
  <2>4. /\ cs \in Seq(Seq(RecordsT)) /\ IsStore(F, cs, buf, cl, wk) /\ buf = <<>>
        /\ \A t \in Callers : Held(cl[t]) = <<>>
        /\ Held(wk) = <<>>
    BY <1>3, <1>4, <2>1, <2>2, <2>3
  <2>5. \A p : p \notin Parse(cs)
    BY <1>3 DEF Parse, Parsed
  <2> HIDE DEF F, cs, buf, cl, wk
  <2>6. ASSUME NEW r \in Recs(F) PROVE FALSE
    <3>1. \E p \in Parse(cs) : r = At(cs, p)
      BY <2>4, <2>6, OnDisk
    <3> QED BY <2>5, <3>1
  <2> QED BY <2>6 DEF Live, F
<1>8. Single(Live)
  <2>1. \A a \in DOMAIN Live : \A i \in Parsed(Live[a]) : Live[a][i] \in Recs(Live)
    BY RecsIs
  <2> QED BY <1>7, <2>1 DEF Single
<1>9. LogInv
  BY <1>4, <1>7, <1>8 DEF LogInv
<1>10. ToldInv
  <2>1. \A w \in Writes : told[w] # "new" <=> w <= 0
    BY <1>2, WalRecordsAssumption DEF Writes
  <2>2. 0 \in 0 .. MaxWrites
    BY WalRecordsAssumption
  <2>3. ToSet(eng.tx.shadow) = {} /\ ToSet(buffer.stmts) = {}
    BY <1>4, ToSets
  <2> QED BY <1>2, <1>4, <2>1, <2>2, <2>3, NothingIs DEF ToldInv
<1>11. TicketInv /\ MarksInv /\ BlockInv
  <2>1. TicketInv
    BY <1>2 DEF TicketInv, Idle
  <2>2. MarksInv
    BY <1>4 DEF MarksInv
  <2>3. BlockInv
    BY <1>4, FollowsEmpty DEF BlockInv
  <2> QED BY <2>1, <2>2, <2>3
<1>12. OnceInv /\ UndoneInv /\ CoverInv
  <2>1. OnceInv
    BY <1>2, <1>4, <1>7, NothingIs DEF OnceInv
  <2>2. UndoneInv
    BY <1>2 DEF UndoneInv
  <2>3. CoverInv
    BY <1>7 DEF CoverInv
  <2> QED BY <2>1, <2>2, <2>3
<1>13. AckInv
  <2>1. \A t \in Callers : call[t].at = "idle" /\ call[t].ws = {}
    BY <1>2 DEF Idle
  <2>2. Intact(chunks)
    BY <1>3 DEF Intact
  <2>3. \A w \in Writes : told[w] # "acked"
    BY <1>2
  <2>4. Backed(chunks, synced, group, call, worker, told)
    BY <1>4, <2>1, <2>2, <2>3 DEF Backed, WrittenTo
  <2> QED BY <2>4, AckIs
<1>14. MarkerInv
  BY <1>4, <1>7 DEF MarkerInv
<1>15. RangesInv
  BY <1>4 DEF RangesInv, Holds
<1> QED BY <1>5, <1>6, <1>9, <1>10, <1>11, <1>12, <1>13, <1>14, <1>15 DEF EmbInv

\* What holds whatever happened.
LEMMA ShapeKeeps ==
  ASSUME TypeInv, HandsInv, RangesInv, MarksInv, MarkerInv, [Next]_vars
  PROVE  TypeInv' /\ HandsInv' /\ RangesInv' /\ MarksInv' /\ MarkerInv'
<1>1. ASSUME NEW t \in Callers, Database(t) PROVE TypeInv' /\ HandsInv' /\ RangesInv' /\ MarksInv' /\ MarkerInv'
  <2>1. TypeInv'
    BY <1>1, DatabaseTypes
  <2> QED BY <1>1, <2>1, DatabaseHands, DatabaseRanges, DatabaseMarks, DatabaseMarker
<1>2. ASSUME NEW t \in Callers, Wait(t) PROVE TypeInv' /\ HandsInv' /\ RangesInv' /\ MarksInv' /\ MarkerInv'
  <2>1. TypeInv'
    BY <1>2, WaitTypes
  <2>2. buffer' = buffer
    BY <1>2 DEF Wait, Answer, Elect, Take, Write, Sync, Flushed, SyncFails
  <2>3. MarksInv'
    BY <2>2 DEF MarksInv
  <2> QED BY <1>2, <2>1, <2>3, WaitHands, WaitRanges, AsideMarker
<1>3. CASE Capture \/ Return \/ Work
  <2>1. TypeInv'
    BY <1>3, WorkTypes
  <2>2. buffer' = buffer
    BY <1>3, <2>1, WorkIs DEF Aside
  <2>3. MarksInv'
    BY <2>2 DEF MarksInv
  <2> QED BY <1>3, <2>1, <2>3, WorkHands, WorkRanges, AsideMarker
<1>4. CASE Crash
  <2>1. TypeInv' /\ HandsInv'
    BY <1>4, CrashTypes, CrashHands
  <2>2. MarkerInv'
    BY <1>4, <2>1, CrashMarker
  <2>3. call' = [t \in Callers |-> Idle] /\ buffer' = NoBuffer
    BY <1>4 DEF Crash
  <2>4. RangesInv'
    BY <2>3 DEF RangesInv, Holds, Idle
  <2>5. buffer'.marks = <<>>
    BY <2>3 DEF NoBuffer
  <2>6. MarksInv'
    BY <2>5 DEF MarksInv
  <2> QED BY <2>1, <2>2, <2>4, <2>6
<1>5. CASE UNCHANGED vars
  <2>1. UNCHANGED <<eng, buffer, lsn, group, chunks, synced, file, call, worker, front, db, told, mishaps>>
    BY <1>5 DEF vars
  <2>2. Live' = Live
    BY <2>1 DEF Live
  <2> QED BY <2>1, <2>2 DEF TypeInv, HandsInv, RangesInv, MarksInv, MarkerInv, Active
<1> QED BY <1>1, <1>2, <1>3, <1>4, <1>5 DEF Next, Read

\* A mishap is not forgotten.
LEMMA MishapsGrow ==
  ASSUME TypeInv, TypeInv', [Next]_vars
  PROVE  mishaps \subseteq mishaps'
<1>1. ASSUME NEW t \in Callers, Database(t) PROVE mishaps \subseteq mishaps'
  <2>1. CASE Statement(t) \/ FailStatement(t) \/ Begin(t) \/ NestedBegin(t) \/ Checkpoint(t)
    BY <2>1 DEF Statement, FailStatement, Begin, NestedBegin, Checkpoint
  <2>2. CASE Commit(t) \/ RefuseCommit(t) \/ Rollback(t)
    BY <2>2 DEF Commit, RefuseCommit, Rollback
  <2>3. CASE \E n \in Names : Savepoint(t, n) \/ RollbackTo(t, n) \/ Release(t, n)
    BY <2>3 DEF Savepoint, RollbackTo, Release
  <2> QED BY <1>1, <2>1, <2>2, <2>3 DEF Database
<1>2. ASSUME NEW t \in Callers, Wait(t) PROVE mishaps \subseteq mishaps'
  <2>1. CASE Answer(t)
    BY <2>1 DEF Answer
  <2>2. CASE ~Answer(t)
    BY <1>2, <2>2, WaitIs DEF Aside
  <2> QED BY <2>1, <2>2
<1>3. CASE Capture \/ Return \/ Work
  BY <1>3, WorkIs DEF Aside
<1>4. CASE Crash
  <2>1. PICK k \in synced .. Len(Active) : \E torn \in BOOLEAN : k \in 0 .. Len(Active) /\ CrashTo(k, torn)
    BY <1>4, CrashIs
  <2> QED BY <2>1 DEF CrashTo
<1>5. CASE UNCHANGED vars
  BY <1>5 DEF vars
<1> QED BY <1>1, <1>2, <1>3, <1>4, <1>5 DEF Next, Read

\* Every step keeps it.
LEMMA NextInv == EmbInv /\ [Next]_vars => EmbInv'
<1>1. SUFFICES ASSUME EmbInv, [Next]_vars PROVE EmbInv'
  OBVIOUS
<1>2. TypeInv /\ HandsInv /\ RangesInv /\ MarksInv /\ MarkerInv
  BY <1>1 DEF EmbInv
<1>3. TypeInv' /\ HandsInv' /\ RangesInv' /\ MarksInv' /\ MarkerInv'
  BY <1>1, <1>2, ShapeKeeps
<1>4. SUFFICES ASSUME InStep(mishaps')
               PROVE  ContentInv' /\ ToldInv' /\ TicketInv' /\ BlockInv' /\ AckInv'
  BY <1>3 DEF EmbInv, ContentInv, InStep
<1>5. /\ LogInv /\ ToldInv /\ TicketInv /\ BlockInv
      /\ OnceInv /\ UndoneInv /\ AckInv /\ CoverInv
  <2>1. mishaps \subseteq mishaps'
    BY <1>1, <1>2, <1>3, MishapsGrow
  <2>2. InStep(mishaps)
    BY <1>4, <2>1 DEF InStep
  <2> QED BY <1>1, <2>2 DEF EmbInv
<1>6. ContentInv
  BY <1>5 DEF ContentInv
<1>7. ASSUME UNCHANGED <<eng, buffer, lsn, group, chunks, synced, file, call, worker, front, db, told, mishaps>>
      PROVE  ContentInv' /\ ToldInv' /\ TicketInv' /\ BlockInv' /\ AckInv'
  <2>1. ToldInv' /\ TicketInv' /\ BlockInv'
    BY <1>5, <1>7 DEF ToldInv, TicketInv, BlockInv
  <2>2. AckInv'
    <3>1. Safe(mishaps') => Backed(chunks', synced', group', call', worker', told')
      BY <1>5, <1>7, AckIs
    <3> QED BY <3>1, AckIs
  <2>3. Live' = Live
    BY <1>7 DEF Live
  <2>4. ContentInv'
    BY <1>5, <1>7, <2>3 DEF ContentInv, LogInv, OnceInv, UndoneInv, CoverInv
  <2> QED BY <2>1, <2>2, <2>4
<1>8. ASSUME NEW t \in Callers, Database(t)
      PROVE  ContentInv' /\ ToldInv' /\ TicketInv' /\ BlockInv' /\ AckInv'
  <2>1. CASE Plain(t)
    <3>1. BlockInv' /\ ToldInv'
      BY <1>2, <1>5, <2>1, DatabaseBlock, DatabaseTold
    <3>2. ContentInv' /\ TicketInv' /\ AckInv'
      BY <1>2, <1>3, <1>5, <1>6, <2>1, DatabaseContent, DatabaseTickets, DatabaseAck
    <3> QED BY <3>1, <3>2
  <2>2. CASE ~Plain(t)
    BY <1>2, <1>4, <1>5, <1>7, <1>8, <2>2, DatabasePlain
  <2> QED BY <2>1, <2>2
<1>9. ASSUME NEW t \in Callers, Wait(t)
      PROVE  ContentInv' /\ ToldInv' /\ TicketInv' /\ BlockInv' /\ AckInv'
  <2>1. AckInv'
    BY <1>2, <1>5, <1>9, WaitAck
  <2>2. CASE Answer(t)
    <3>1. ContentInv' /\ ToldInv' /\ TicketInv'
      BY <1>2, <1>5, <1>6, <2>2, AnswerStep
    <3>2. UNCHANGED <<eng, buffer>>
      BY <2>2 DEF Answer
    <3>3. BlockInv'
      BY <1>5, <3>2 DEF BlockInv
    <3> QED BY <2>1, <3>1, <3>3
  <2>3. CASE ~Answer(t)
    <3>1. ContentInv'
      BY <1>2, <1>3, <1>5, <1>6, <1>9, <2>3, AsideContent
    <3>2. ToldInv' /\ TicketInv' /\ BlockInv'
      BY <1>2, <1>3, <1>5, <1>9, <2>3, WaitIs, AsideKeeps
    <3> QED BY <2>1, <3>1, <3>2
  <2> QED BY <2>2, <2>3
<1>10. CASE Capture \/ Return \/ Work
  <2>1. AckInv'
    BY <1>2, <1>5, <1>10, WorkAck
  <2>2. ContentInv'
    BY <1>2, <1>3, <1>5, <1>6, <1>10, AsideContent
  <2>3. ToldInv' /\ TicketInv' /\ BlockInv'
    BY <1>2, <1>3, <1>5, <1>10, WorkIs, AsideKeeps
  <2> QED BY <2>1, <2>2, <2>3
<1>11. CASE Crash
  <2>1. AckInv'
    BY <1>2, <1>5, <1>11, CrashAck
  <2>2. ContentInv'
    BY <1>2, <1>3, <1>5, <1>6, <1>11, CrashStep
  <2>3. ToldInv' /\ TicketInv' /\ BlockInv'
    BY <1>2, <1>3, <1>5, <1>11, CrashKeeps
  <2> QED BY <2>1, <2>2, <2>3
<1>12. CASE UNCHANGED vars
  BY <1>7, <1>12 DEF vars
<1> QED BY <1>1, <1>8, <1>9, <1>10, <1>11, <1>12 DEF Next, Read

\* The inductive invariant holds in every state.
LEMMA EmbAlways == EmbSpec => []EmbInv
<1>1. Init => EmbInv
  BY InitInv
<1>2. EmbInv /\ [Next]_vars => EmbInv'
  BY NextInv
<1> QED BY <1>1, <1>2, PTL DEF EmbSpec

---------------------------------------------------------------------------
(* The theorems.                                                           *)

\* A set without two members has at most one.
LEMMA AtMostOne ==
  ASSUME NEW S, \A x, y \in S : x = y
  PROVE  Cardinality(S) <= 1
<1>1. CASE S = {}
  BY <1>1, FS_EmptySet
<1>2. CASE S # {}
  <2>1. PICK x \in S : TRUE
    BY <1>2
  <2>2. S = {x}
    BY <2>1
  <2> QED BY <2>2, FS_Singleton
<1> QED BY <1>1, <1>2

\* What EmbTypeOK says follows.
LEMMA TypesFollow == EmbInv => EmbTypeOK
<1>1. SUFFICES ASSUME EmbInv PROVE EmbTypeOK
  OBVIOUS
<1>2. TypeInv /\ HandsInv /\ MarkerInv
  BY <1>1 DEF EmbInv
<1>3. \A R : \A s \in Seq(R) : \A x \in Range(s) : x \in R
  BY DEF Range
<1>4. eng.base \in Databases /\ Range(eng.tx.shadow) \subseteq Writes /\ Range(buffer.stmts) \subseteq Writes
  <2>1. eng.base \in Databases /\ eng.tx.shadow \in Seq(Writes) /\ buffer.stmts \in Seq(Writes)
    BY <1>2, BufferIs
  <2>2. (\A x \in Range(eng.tx.shadow) : x \in Writes) /\ \A x \in Range(buffer.stmts) : x \in Writes
    BY <1>3, <2>1, Zenon
  <2> QED BY <2>1, <2>2
<1>5. \A c \in Range(chunks) : Range(c) \subseteq RecordsT
  <2>1. chunks \in Seq(Seq(RecordsT))
    BY <1>2 DEF TypeInv
  <2>2. \A c \in Range(chunks) : c \in Seq(RecordsT)
    BY <1>3, <2>1, Zenon
  <2>3. \A c \in Range(chunks) : \A x \in Range(c) : x \in RecordsT
    BY <1>3, <2>2, Zenon
  <2> QED BY <2>3
<1>6. group.flushed <= group.enqueued
  <2>1. group.flushed + Len(group.buf) <= group.enqueued
    BY <1>2 DEF HandsInv
  <2>2. group.flushed \in Nat /\ Len(group.buf) \in Nat /\ group.enqueued \in Nat
    BY <1>2, Typed
  <2> QED BY <2>1, <2>2
<1>7. Cardinality(file) <= 1
  <2>1. \A x, y \in file : x = y
    BY <1>2 DEF HandsInv, Leads
  <2> QED BY <2>1, AtMostOne
<1>8. Cardinality({ t \in Callers : call[t].at \notin {"idle", "waiting"} }) <= 1
  <2> DEFINE S == { t \in Callers : call[t].at \notin {"idle", "waiting"} }
  <2>1. \A t \in S : t \in Callers /\ Leads(call[t])
    BY <1>2, Typed DEF Leads, CallT
  <2>2. \A x, y \in S : x = y
    BY <1>2, <2>1 DEF HandsInv
  <2> HIDE DEF S
  <2>3. Cardinality(S) <= 1
    BY <2>2, AtMostOne
  <2> QED BY <2>3 DEF S
<1>9. group.leader = (\E t \in Callers : call[t].at \in {"elected", "taken", "written", "synced"})
  <2>1. group.leader \in BOOLEAN
    BY <1>2, Typed DEF GroupT
  <2>2. group.leader <=> \E t \in Callers : call[t].at \in {"elected", "taken", "written", "synced"}
    BY <1>2 DEF HandsInv, Leads
  <2> QED BY <2>1, <2>2
<1>10. Floor(chunks) <= db.lsn
  <2>1. chunks \in Seq(Seq(RecordsT)) /\ lsn \in Nat /\ db.lsn \in Nat
    BY <1>2 DEF TypeInv
  <2>2. \A p \in Parse(chunks) : At(chunks, p) \in Recs(Live)
    BY <1>2, DiskIs
  <2>3. \A p \in Parse(chunks) : At(chunks, p).lsn <= lsn /\ (At(chunks, p).kind = "MARK" => At(chunks, p).lsn <= db.lsn)
    BY <1>2, <2>2 DEF MarkerInv
  <2>4. Floor(chunks) = 0 \/ \E p \in Parse(chunks) : At(chunks, p).kind = "MARK" /\ At(chunks, p).lsn = Floor(chunks)
    BY <2>1, <2>3, FloorIs
  <2> QED BY <2>1, <2>3, <2>4
<1>11. file = { t \in Callers : call[t].at = "written" } \cup (IF worker.at = "written" THEN {"worker"} ELSE {})
  BY <1>2 DEF HandsInv
<1>12. /\ lsn \in Nat /\ synced \in 0 .. Len(Active)
       /\ told \in [Writes -> {"new", "open", "sent", "acked", "unknown", "undone"}]
       /\ mishaps \subseteq {"overtaken", "torn", "window", "refused", "aborted", "nested"}
  BY <1>2 DEF TypeInv
<1> QED BY <1>4, <1>5, <1>6, <1>7, <1>8, <1>9, <1>10, <1>11, <1>12 DEF EmbTypeOK

\* An acknowledged write is above the floor and in the log, or below it and in
\* the snapshot.
LEMMA AckedFollow == EmbInv => AckedSurvive
<1>1. SUFFICES ASSUME EmbInv, Safe(mishaps), InStep(mishaps), NEW w \in Writes, told[w] = "acked"
               PROVE  Reopened(db.data, Kept(synced, FALSE))[w] > 0
  BY DEF AckedSurvive, Safe, InStep
<1>2. TypeInv /\ LogInv /\ CoverInv /\ AckInv
  BY <1>1 DEF EmbInv
<1> DEFINE cs == Kept(synced, FALSE)
           n == Len(chunks)
<1>3. Intact(chunks) /\ Stored(chunks, synced, w)
  BY <1>1, <1>2, AckIs DEF Backed
<1>4. PICK c \in 1 .. n : \E i \in 1 .. Len(chunks[c]) :
        (c = n => i <= synced) /\ chunks[c][i].kind = "DATA" /\ w \in chunks[c][i].ws
  BY <1>3 DEF Stored
<1>5. PICK i \in 1 .. Len(chunks[c]) : (c = n => i <= synced) /\ chunks[c][i].kind = "DATA" /\ w \in chunks[c][i].ws
  BY <1>4
<1>6. /\ n \in 1 .. n /\ Active = chunks[n] /\ Len(Active) \in Nat /\ synced \in 0 .. Len(Active)
      /\ chunks \in Seq(Seq(RecordsT)) /\ chunks[c] \in Seq(RecordsT)
  BY <1>2, ActiveIs DEF TypeInv
<1>7. /\ cs \in Seq(Seq(RecordsT)) /\ Len(cs) = n
      /\ \A d \in 1 .. n : d # n => cs[d] = chunks[d]
      /\ Len(cs[n]) = synced
      /\ \A j \in 1 .. synced : cs[n][j] = Active[j]
  <2>1. FALSE \in BOOLEAN /\ synced \in 0 .. Len(Active)
    BY <1>6
  <2> QED BY <1>2, <2>1, KeptIs
<1>8. /\ Floor(cs) \in Nat
      /\ Floor(cs) = 0 \/ \E p \in Parse(cs) : At(cs, p).kind = "MARK" /\ At(cs, p).lsn = Floor(cs)
      /\ \A p \in Parse(cs) : At(cs, p) \in Recs(Live)
      /\ (\E p \in Replayable(cs) : w \in At(cs, p).ws) => Reopened(db.data, cs)[w] = db.data[w] + 1
      /\ ~(\E p \in Replayable(cs) : w \in At(cs, p).ws) => Reopened(db.data, cs)[w] = db.data[w]
  <2>1. synced \in 0 .. Len(Active) /\ cs = Kept(synced, FALSE) /\ FALSE \in BOOLEAN
    BY <1>6
  <2> HIDE DEF cs
  <2>2. Floor(cs) \in Nat /\ \A p \in Parse(cs) : At(cs, p) \in Recs(Live)
    BY <1>2, <2>1, BootIs
  <2>3. Floor(cs) = 0 \/ \E p \in Parse(cs) : At(cs, p).kind = "MARK" /\ At(cs, p).lsn = Floor(cs)
    BY <1>2, <2>1, BootIs
  <2>4. /\ (\E p \in Replayable(cs) : w \in At(cs, p).ws) => Reopened(db.data, cs)[w] = db.data[w] + 1
        /\ ~(\E p \in Replayable(cs) : w \in At(cs, p).ws) => Reopened(db.data, cs)[w] = db.data[w]
    BY <1>2, <2>1, BootIs
  <2> QED BY <2>2, <2>3, <2>4
<1> HIDE DEF cs
<1>9. i \in 1 .. Len(cs[c]) /\ \A j \in 1 .. i : cs[c][j] = chunks[c][j] /\ j \in 1 .. Len(chunks[c])
  <2>1. CASE c # n
    BY <1>5, <1>6, <1>7, <2>1
  <2>2. CASE c = n
    <3>1. i \in 1 .. synced /\ \A j \in 1 .. i : j \in 1 .. synced /\ j \in 1 .. Len(chunks[c])
      BY <1>5, <1>6, <2>2
    <3> QED BY <1>6, <1>7, <2>2, <3>1
  <2> QED BY <2>1, <2>2
<1>10. i \in Parsed(cs[c]) /\ cs[c][i] = chunks[c][i]
  <2>1. \A j \in 1 .. i : cs[c][j].kind # "TORN"
    BY <1>3, <1>9 DEF Intact
  <2>2. i \in 1 .. i
    BY <1>6
  <2> QED BY <1>9, <2>1, <2>2 DEF Parsed
<1> DEFINE p == <<c, i>>
           r == chunks[c][i]
<1>11. p \in Parse(cs) /\ At(cs, p) = r
  <2>1. c \in DOMAIN cs
    BY <1>7
  <2> QED BY <1>10, <2>1, ParseIs DEF At
<1>12. r \in Recs(Live) /\ r.kind = "DATA" /\ w \in r.ws
  BY <1>5, <1>8, <1>11
<1>13. db.data[w] \in Nat
  BY <1>2 DEF TypeInv, Databases
<1> HIDE DEF p, r
<1>14. r.lsn \in Nat /\ r.lsn > 0
  BY <1>2, <1>12, RecTypes DEF LogInv
<1>15. CASE r.lsn > Floor(cs)
  <2>1. p \in Replayable(cs) /\ w \in At(cs, p).ws
    BY <1>11, <1>12, <1>15 DEF Replayable
  <2>2. Reopened(db.data, cs)[w] = db.data[w] + 1
    BY <1>8, <2>1
  <2>3. Reopened(db.data, cs)[w] > 0
    BY <1>13, <2>2
  <2> QED BY <2>3 DEF cs
<1>16. CASE ~(r.lsn > Floor(cs))
  <2>1. r.lsn <= Floor(cs) /\ Floor(cs) # 0
    BY <1>8, <1>14, <1>16
  <2>2. PICK q \in Parse(cs) : At(cs, q).kind = "MARK" /\ At(cs, q).lsn = Floor(cs)
    BY <1>8, <2>1
  <2>3. At(cs, q) \in Recs(Live) /\ r.lsn <= At(cs, q).lsn
    BY <1>8, <2>1, <2>2
  <2>4. db.data[w] > 0
    BY <1>1, <1>2, <1>12, <2>2, <2>3 DEF CoverInv
  <2>5. Reopened(db.data, cs)[w] = db.data[w] + 1 \/ Reopened(db.data, cs)[w] = db.data[w]
    BY <1>8
  <2>6. Reopened(db.data, cs)[w] > 0
    BY <1>13, <2>4, <2>5
  <2> QED BY <2>6 DEF cs
<1> QED BY <1>15, <1>16

\* What was rolled back is in no record, and what is in the snapshot in none
\* above its LSN.
LEMMA ExactFollow == EmbInv => ("nested" \notin mishaps => ReplayIsExact)
<1>1. SUFFICES ASSUME EmbInv, "nested" \notin mishaps PROVE ReplayIsExact
  OBVIOUS
<1>5. CASE "refused" \in mishaps
  BY <1>5 DEF ReplayIsExact
<1>6. SUFFICES ASSUME "refused" \notin mishaps PROVE ReplayIsExact
  BY <1>5
<1>2. TypeInv /\ LogInv /\ OnceInv /\ UndoneInv
  BY <1>1, <1>6 DEF EmbInv, InStep
<1>3. mishaps \cap {"window", "refused"} = {} => \A w \in Writes : eng.base[w] <= 1
  BY <1>2 DEF OnceInv
<1>4. ASSUME mishaps \cap {"aborted", "refused", "nested"} = {}, NEW w \in Writes, told[w] = "undone"
      PROVE  eng.base[w] = 0 /\ Reopened(db.data, Kept(Len(Active), FALSE))[w] = 0
  <2> DEFINE cs == Kept(Len(Active), FALSE)
  <2>1. eng.base[w] = 0 /\ db.data[w] = 0 /\ \A r \in Recs(Live) : w \notin r.ws
    BY <1>2, <1>4 DEF UndoneInv
  <2>2. Len(Active) \in 0 .. Len(Active) /\ cs = Kept(Len(Active), FALSE) /\ FALSE \in BOOLEAN
    BY <1>2, ActiveIs
  <2> HIDE DEF cs
  <2>3. \A p \in Parse(cs) : At(cs, p) \in Recs(Live)
    BY <1>2, <2>2, BootIs
  <2>4. ~(\E p \in Replayable(cs) : w \in At(cs, p).ws) => Reopened(db.data, cs)[w] = db.data[w]
    BY <1>2, <2>2, BootIs
  <2>5. ~\E p \in Replayable(cs) : w \in At(cs, p).ws
    BY <2>1, <2>3 DEF Replayable
  <2>6. Reopened(db.data, cs)[w] = 0
    BY <2>1, <2>4, <2>5
  <2> QED BY <2>1, <2>6 DEF cs
<1> QED BY <1>3, <1>4 DEF ReplayIsExact

\* Types, the file lock, one leader at a time, and no marker that names a
\* snapshot newer than the one on the disk.
THEOREM EmbTypes == EmbSpec => []EmbTypeOK
<1>1. EmbSpec => []EmbInv
  BY EmbAlways
<1>2. EmbInv => EmbTypeOK
  BY TypesFollow
<1> QED BY <1>1, <1>2, PTL

\* What wait() returned Ok for survives a crash in the very same state, for any
\* number of callers, writes, savepoints, checkpoints, failures and crashes,
\* unless one of the four schedules named in AckedSurvive has happened.
THEOREM AckedStay == EmbSpec => []AckedSurvive
<1>1. EmbSpec => []EmbInv
  BY EmbAlways
<1>2. EmbInv => AckedSurvive
  BY AckedFollow
<1> QED BY <1>1, <1>2, PTL

\* Replay applies nothing twice and nothing that was rolled back, unless one of
\* the schedules named in ReplayIsExact, or a BEGIN that threw a buffer away, has
\* happened.
THEOREM ReplayExact == EmbSpec => []("nested" \notin mishaps => ReplayIsExact)
<1>1. EmbSpec => []EmbInv
  BY EmbAlways
<1>2. EmbInv => ("nested" \notin mishaps => ReplayIsExact)
  BY ExactFollow
<1> QED BY <1>1, <1>2, PTL
=============================================================================
