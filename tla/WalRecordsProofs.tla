-------------------------- MODULE WalRecordsProofs --------------------------
(***************************************************************************)
(* Replay as a loop: the states an engine passes through while it replays  *)
(* a log, one per record.                                                  *)
(***************************************************************************)
EXTENDS WalRecords, Iteration, TLAPS

LinesT == [kind : {"BEGIN", "SQL", "COMMIT", "ROLLBACK", "MARK", "INPUTS"},
           tx : Nat, w : 0 .. MaxWrites]

Engines == [base : Databases, open : BOOLEAN, shadow : SUBSET (0 .. MaxWrites)]

\* Plus stays within the databases.
LEMMA PlusType ==
  ASSUME NEW d \in Databases, NEW ws
  PROVE  Plus(d, ws) \in Databases /\ \A w \in Writes : Plus(d, ws)[w] = IF w \in ws THEN d[w] + 1 ELSE d[w]
BY DEF Plus, Databases

\* A record takes an engine to an engine.
LEMMA ReplayRecordType ==
  ASSUME NEW st \in Engines, NEW r \in LinesT
  PROVE  ReplayRecord(st, r) \in Engines
<1>1. st.base \in Databases /\ r.w \in 0 .. MaxWrites /\ st.shadow \in SUBSET (0 .. MaxWrites)
  BY DEF Engines, LinesT
<1>2. Plus(st.base, {r.w}) \in Databases /\ Plus(st.base, st.shadow) \in Databases
  BY <1>1, PlusType
<1>3. st = [base |-> st.base, open |-> st.open, shadow |-> st.shadow] /\ st.open \in BOOLEAN
  BY DEF Engines
<1>4. /\ [st EXCEPT !.open = TRUE, !.shadow = {}] \in Engines
      /\ [st EXCEPT !.shadow = @ \cup {r.w}] \in Engines
      /\ [st EXCEPT !.base = Plus(@, {r.w})] \in Engines
      /\ [st EXCEPT !.open = FALSE, !.base = Plus(@, st.shadow)] \in Engines
      /\ [st EXCEPT !.open = FALSE] \in Engines
  BY <1>1, <1>2, <1>3 DEF Engines
<1>5. r.kind \in {"BEGIN", "SQL", "COMMIT", "ROLLBACK", "MARK", "INPUTS"}
  BY DEF LinesT
<1> QED BY <1>4, <1>5 DEF ReplayRecord

\* Replayed is the last state of the loop over the log.
LEMMA ReplayLoop ==
  ASSUME NEW st \in Engines, NEW lg \in Seq(LinesT)
  PROVE  \E f \in [0 .. Len(lg) -> Engines] :
           /\ f[0] = st
           /\ \A i \in 1 .. Len(lg) : f[i] = ReplayRecord(f[i - 1], lg[i])
           /\ Replayed(st, lg) = f[Len(lg)]
<1> DEFINE n == Len(lg)
           step == [xi \in Engines \X (1 .. n) |-> ReplayRecord(xi[1], lg[xi[2]])]
           Eq(g) == g = [i \in 0 .. n |-> IF i = 0 THEN st ELSE ReplayRecord(g[i - 1], lg[i])]
           upto == CHOOSE g : Eq(g)
<1>1. n \in Nat
  OBVIOUS
<1>2. ASSUME NEW x \in Engines, NEW i \in 1 .. n
      PROVE  ReplayRecord(x, lg[i]) \in Engines /\ step[<<x, i>>] = ReplayRecord(x, lg[i])
  <2>1. lg[i] \in LinesT
    OBVIOUS
  <2> QED BY <2>1, ReplayRecordType
<1> HIDE DEF n, step
<1>3. IsStep(step, n, Engines)
  BY <1>2 DEF IsStep
<1>4. PICK f : IsLoop(f, n, Engines, st, step)
  BY <1>1, <1>3, LoopExists
<1>5. \A i \in 1 .. n : i - 1 \in 0 .. n /\ f[i - 1] \in Engines /\ i # 0 /\ i \in 0 .. n
  BY <1>1, <1>4 DEF IsLoop
<1>6. f[0] = st /\ \A i \in 1 .. n : f[i] = ReplayRecord(f[i - 1], lg[i])
  BY <1>1, <1>2, <1>4, <1>5 DEF IsLoop
<1>7. Eq(f)
  <2>1. \A i \in 0 .. n : f[i] = IF i = 0 THEN st ELSE ReplayRecord(f[i - 1], lg[i])
    BY <1>1, <1>6
  <2>2. f = [i \in 0 .. n |-> f[i]]
    BY <1>4 DEF IsLoop
  <2> QED BY <2>1, <2>2
<1>8. Eq(upto)
  <2> HIDE DEF Eq
  <2>1. \E g : Eq(g)
    BY <1>7
  <2> QED BY <2>1, Zenon
<1>9. Replayed(st, lg) = upto[n]
  BY Zenon DEF Replayed, n
<1> HIDE DEF upto
<1>10. upto[0] = st /\ \A i \in 1 .. n : upto[i] = ReplayRecord(upto[i - 1], lg[i])
  BY <1>1, <1>5, <1>8
<1>11. 0 .. n \subseteq {i \in 0 .. n : upto[i] \in Engines}
  <2> DEFINE S == {i \in 0 .. n : upto[i] \in Engines}
  <2>1. 0 \in S
    BY <1>1, <1>10
  <2>2. ASSUME NEW i \in 0 .. (n - 1), i \in S PROVE i + 1 \in S
    <3>1. i + 1 \in 1 .. n /\ i + 1 \in 0 .. n /\ (i + 1) - 1 = i
      BY <1>1, <2>2
    <3>2. upto[i + 1] = ReplayRecord(upto[i], lg[i + 1])
      BY <1>10, <3>1
    <3> QED BY <1>2, <2>2, <3>1, <3>2
  <2> HIDE DEF S
  <2> QED BY <1>1, <2>1, <2>2, UpTo DEF S
<1>12. upto \in [0 .. n -> Engines]
  BY <1>8, <1>11
<1> QED BY <1>9, <1>10, <1>12 DEF n

\* The loop over a log passes through what each of its prefixes leaves.
LEMMA ReplayStates ==
  ASSUME NEW st \in Engines, NEW lg \in Seq(LinesT)
  PROVE  \E f \in [0 .. Len(lg) -> Engines] :
           /\ f[0] = st
           /\ \A i \in 1 .. Len(lg) : f[i] = ReplayRecord(f[i - 1], lg[i])
           /\ \A n \in 0 .. Len(lg) : Replayed(st, SubSeq(lg, 1, n)) = f[n]
<1>1. PICK f \in [0 .. Len(lg) -> Engines] :
           /\ f[0] = st
           /\ \A i \in 1 .. Len(lg) : f[i] = ReplayRecord(f[i - 1], lg[i])
  BY ReplayLoop
<1>2. ASSUME NEW n \in 0 .. Len(lg) PROVE Replayed(st, SubSeq(lg, 1, n)) = f[n]
  <2> DEFINE s == SubSeq(lg, 1, n)
  <2>1. s \in Seq(LinesT) /\ Len(s) = n /\ \A i \in 1 .. n : s[i] = lg[i]
    OBVIOUS
  <2> HIDE DEF s
  <2>2. PICK g \in [0 .. Len(s) -> Engines] :
             /\ g[0] = st
             /\ \A i \in 1 .. Len(s) : g[i] = ReplayRecord(g[i - 1], s[i])
             /\ Replayed(st, s) = g[Len(s)]
    BY <2>1, ReplayLoop
  <2> DEFINE S == {i \in 0 .. n : g[i] = f[i]}
  <2>3. 0 \in S
    BY <1>1, <2>2
  <2>4. ASSUME NEW i \in 0 .. (n - 1), i \in S PROVE i + 1 \in S
    <3>1. i + 1 \in 1 .. n /\ i + 1 \in 1 .. Len(lg) /\ (i + 1) - 1 = i
      OBVIOUS
    <3>2. g[i + 1] = ReplayRecord(g[i], lg[i + 1]) /\ f[i + 1] = ReplayRecord(f[i], lg[i + 1])
      BY <1>1, <2>1, <2>2, <3>1
    <3>3. g[i] = f[i]
      BY <2>4
    <3> QED BY <3>1, <3>2, <3>3
  <2>5. 0 .. n \subseteq S
    <3> HIDE DEF S
    <3>1. n \in Nat
      OBVIOUS
    <3> QED BY <2>3, <2>4, <3>1, UpTo
  <2>6. g[n] = f[n]
    BY <2>5
  <2> QED BY <2>1, <2>2, <2>6 DEF s
<1> QED BY <1>1, <1>2

\* Replaying one more record.
LEMMA ReplayedAppend ==
  ASSUME NEW st \in Engines, NEW lg \in Seq(LinesT), NEW r \in LinesT
  PROVE  /\ Replayed(st, Append(lg, r)) = ReplayRecord(Replayed(st, lg), r)
         /\ Replayed(st, lg) \in Engines
<1> DEFINE l == Append(lg, r)
           n == Len(lg)
<1>1. l \in Seq(LinesT) /\ Len(l) = n + 1 /\ l[n + 1] = r /\ n \in Nat
      /\ SubSeq(l, 1, n) = lg /\ SubSeq(l, 1, n + 1) = l
  OBVIOUS
<1> HIDE DEF l, n
<1>2. PICK f \in [0 .. Len(l) -> Engines] :
           /\ \A i \in 1 .. Len(l) : f[i] = ReplayRecord(f[i - 1], l[i])
           /\ \A k \in 0 .. Len(l) : Replayed(st, SubSeq(l, 1, k)) = f[k]
  BY <1>1, ReplayStates
<1>3. n + 1 \in 1 .. Len(l) /\ n \in 0 .. Len(l) /\ n + 1 \in 0 .. Len(l) /\ n + 1 - 1 = n
  BY <1>1
<1>4. f[n + 1] = ReplayRecord(f[n], r)
  BY <1>1, <1>2, <1>3
<1>5. Replayed(st, lg) = f[n] /\ Replayed(st, l) = f[n + 1] /\ f[n] \in Engines
  BY <1>1, <1>2, <1>3
<1> QED BY <1>4, <1>5 DEF l

\* Replaying nothing.
LEMMA ReplayedEmpty ==
  ASSUME NEW st \in Engines
  PROVE  Replayed(st, <<>>) = st
<1> DEFINE e == <<>>
<1>1. e \in Seq(LinesT) /\ Len(e) = 0
  OBVIOUS
<1> HIDE DEF e
<1>2. PICK f \in [0 .. Len(e) -> Engines] : f[0] = st /\ Replayed(st, e) = f[Len(e)]
  BY <1>1, ReplayLoop
<1> QED BY <1>1, <1>2 DEF e

\* Replay takes an engine to an engine.
LEMMA ReplayedType ==
  ASSUME NEW st \in Engines, NEW lg \in Seq(LinesT)
  PROVE  Replayed(st, lg) \in Engines
<1>1. PICK f \in [0 .. Len(lg) -> Engines] : Replayed(st, lg) = f[Len(lg)]
  BY ReplayLoop
<1>2. Len(lg) \in 0 .. Len(lg)
  OBVIOUS
<1> QED BY <1>1, <1>2
=============================================================================
