-------------------------- MODULE RowLocksProofs --------------------------
(* Proofs about the tuple-lock table (LockTable), for every set of rows and *)
(* versions and every sequence of calls, and about the statements that use  *)
(* it (RowLocks), for any number of sessions, rows, keys and statements.    *)
EXTENDS RowLocks, Iteration, FiniteSetTheorems, TLAPS

---------------------------------------------------------------------------
(* The lock table.                                                         *)

\* The conflict matrix of LockMode::conflicts_with is symmetric.
LEMMA ConflictSymmetric ==
  \A m, n \in Modes : ConflictsWith(m, n) <=> ConflictsWith(n, m)
BY DEF Modes, ConflictsWith

\* A granted lock keeps the table a table.
LEMMA GrantType ==
  ASSUME NEW lt \in Tables, NEW r \in Rows, NEW m \in Modes, NEW v \in Versions
  PROVE  Grant(lt, r, m, v) \in Tables
BY DEF Grant, Tables

\* A parked wait keeps the table a table.
LEMMA ParkType ==
  ASSUME NEW lt \in Tables, NEW r \in Rows, NEW v \in Versions,
         NEW B \in SUBSET Versions
  PROVE  Park(lt, r, v, B) \in Tables
BY DEF Park, Tables

\* Blockers are versions, and never the caller.
LEMMA BlockersType ==
  ASSUME NEW lt \in Tables, NEW r \in Rows, NEW m, NEW v
  PROVE  Blockers(lt, r, m, v) \subseteq Versions \ {v}
<1>1. lt.holders[r] \subseteq Versions \X Modes
  BY DEF Tables
<1> QED BY <1>1 DEF Blockers

\* The table acquire leaves is one of three: granted, untouched or parked.
LEMMA AcquireCases ==
  ASSUME NEW lt \in Tables, NEW r \in Rows, NEW m \in Modes, NEW v \in Versions,
         NEW p \in Policies
  PROVE  LET B == Blockers(lt, r, m, v)
             t == Acquire(lt, r, m, v, p).lt
         IN  \/ B = {} /\ t = Grant(lt, r, m, v)
             \/ t = lt
             \/ t = Park(lt, r, v, B)
BY DEF Acquire, Policies

\* Releasing keeps the table a table.
LEMMA ReleaseType ==
  ASSUME NEW lt \in Tables, NEW v \in Versions
  PROVE  ReleaseAll(lt, v) \in Tables
BY DEF ReleaseAll, Tables

\* Waiting behind transactions changes only the waiter's edges, and adds none
\* to itself.
LEMMA WaitOnVersionsTable ==
  ASSUME NEW lt \in Tables, NEW v \in Versions, NEW B \in SUBSET Versions
  PROVE  /\ WaitOnVersions(lt, v, B).lt \in Tables
         /\ WaitOnVersions(lt, v, B).lt.holders = lt.holders
         /\ \A w \in Versions : WaitOnVersions(lt, v, B).lt.waitFor[w] =
                                  lt.waitFor[w] \cup (IF w = v THEN B \ {v} ELSE {})
BY DEF WaitOnVersions, Tables

\* Dropping a version's edges changes nothing else.
LEMMA ClearWaitTable ==
  ASSUME NEW lt \in Tables, NEW v \in Versions
  PROVE  /\ ClearWait(lt, v) \in Tables
         /\ ClearWait(lt, v).holders = lt.holders
         /\ \A w \in Versions : ClearWait(lt, v).waitFor[w] = IF w = v THEN {} ELSE lt.waitFor[w]
BY DEF ClearWait, Tables

\* The lock table is well formed whatever its callers do, and no version ever
\* waits for itself.
THEOREM TypeCorrect == Spec => []TypeOK
<1>1. Init => TypeOK
  BY DEF Init, TypeOK, EmptyTable, Tables
<1>2. TypeOK /\ [Next]_locks => TypeOK'
  <2> SUFFICES ASSUME TypeOK, [Next]_locks PROVE TypeOK'
    OBVIOUS
  <2>0. locks \in Tables /\ \A w \in Versions : w \notin locks.waitFor[w]
    BY DEF TypeOK
  <2>1. CASE DoAcquire
    <3>1. PICK r \in Rows, m \in Modes, v \in Versions, p \in Policies :
            locks' = Acquire(locks, r, m, v, p).lt
      BY <2>1 DEF DoAcquire
    <3> DEFINE B == Blockers(locks, r, m, v)
    <3>2. B \in SUBSET Versions /\ v \notin B
      BY <2>0, BlockersType
    <3>3. /\ Grant(locks, r, m, v) \in Tables
          /\ Park(locks, r, v, B) \in Tables
      BY <2>0, <3>2, GrantType, ParkType
    <3> HIDE DEF B
    <3>4. \A w \in Versions : /\ w \notin Grant(locks, r, m, v).waitFor[w]
                              /\ w \notin Park(locks, r, v, B).waitFor[w]
      BY <2>0, <3>2 DEF Grant, Park, Tables
    <3>5. locks' \in {locks, Grant(locks, r, m, v), Park(locks, r, v, B)}
      BY <2>0, <3>1, AcquireCases DEF B
    <3> QED BY <2>0, <3>3, <3>4, <3>5 DEF TypeOK
  <2>2. CASE DoReleaseAll
    <3>1. PICK v \in Versions : locks' = ReleaseAll(locks, v)
      BY <2>2 DEF DoReleaseAll
    <3>2. \A w \in Versions : locks'.waitFor[w] \subseteq locks.waitFor[w]
      BY <3>1 DEF ReleaseAll
    <3> QED BY <2>0, <3>1, <3>2, ReleaseType DEF TypeOK
  <2>3. CASE DoWaitOnVersions
    BY <2>0, <2>3, WaitOnVersionsTable DEF DoWaitOnVersions, TypeOK
  <2>4. CASE DoClearWait
    BY <2>0, <2>4, ClearWaitTable DEF DoClearWait, TypeOK
  <2>5. CASE UNCHANGED locks
    BY <2>5 DEF TypeOK
  <2> QED BY <2>1, <2>2, <2>3, <2>4, <2>5 DEF Next
<1> QED BY <1>1, <1>2, PTL DEF Spec

\* No two versions hold one row of a table in conflicting modes.
Compatible(lt) ==
  \A r \in Rows : \A g, h \in lt.holders[r] :
    g[1] # h[1] => ~ConflictsWith(g[2], h[2])

\* A grant adds a lock only where nothing conflicting is held.
LEMMA GrantCompatible ==
  ASSUME NEW lt \in Tables, NEW r \in Rows, NEW m \in Modes, NEW v \in Versions,
         Compatible(lt), Blockers(lt, r, m, v) = {}
  PROVE  Compatible(Grant(lt, r, m, v))
<1> DEFINE gt == Grant(lt, r, m, v)
<1>1. \A q \in Rows : lt.holders[q] \subseteq Versions \X Modes
  BY DEF Tables
<1>2. \A q \in Rows : gt.holders[q] = IF q = r THEN lt.holders[q] \cup {<<v, m>>}
                                            ELSE lt.holders[q]
  BY DEF Grant, Tables
<1>3. \A h \in lt.holders[r] : h[1] # v => ~ConflictsWith(h[2], m)
  BY DEF Blockers
<1>4. \A h \in lt.holders[r] : h[1] # v => ~ConflictsWith(m, h[2])
  BY <1>1, <1>3, ConflictSymmetric
<1>5. <<v, m>>[1] = v /\ <<v, m>>[2] = m
  OBVIOUS
<1> SUFFICES ASSUME NEW q \in Rows, NEW g \in gt.holders[q], NEW h \in gt.holders[q],
                    g[1] # h[1]
             PROVE  ~ConflictsWith(g[2], h[2])
  BY DEF Compatible
<1>6. CASE g \in lt.holders[q] /\ h \in lt.holders[q]
  BY <1>6 DEF Compatible
<1>7. CASE q = r /\ g = <<v, m>> /\ h \in lt.holders[r]
  BY <1>4, <1>5, <1>7
<1>8. CASE q = r /\ h = <<v, m>> /\ g \in lt.holders[r]
  BY <1>3, <1>5, <1>8
<1>9. CASE g = <<v, m>> /\ h = <<v, m>>
  BY <1>9
<1> QED BY <1>2, <1>6, <1>7, <1>8, <1>9

\* Mutual exclusion: acquire checks held against requested only, on the way
\* in; because the matrix is symmetric, conflicting holders never coexist.
THEOREM MutualExclusion == Spec => []NoConflictingHolders
<1>1. Init => NoConflictingHolders
  BY DEF Init, NoConflictingHolders, EmptyTable
<1>2. TypeOK /\ NoConflictingHolders /\ [Next]_locks => NoConflictingHolders'
  <2> SUFFICES ASSUME TypeOK, Compatible(locks), [Next]_locks
               PROVE  Compatible(locks')
    BY DEF NoConflictingHolders, Compatible
  <2>1. CASE DoAcquire
    <3>1. PICK r \in Rows, m \in Modes, v \in Versions, p \in Policies :
            locks' = Acquire(locks, r, m, v, p).lt
      BY <2>1 DEF DoAcquire
    <3>2. CASE Blockers(locks, r, m, v) = {} /\ locks' = Grant(locks, r, m, v)
      BY <3>2, GrantCompatible DEF TypeOK
    <3>3. CASE locks' = locks
      BY <3>3
    <3>4. CASE locks' = Park(locks, r, v, Blockers(locks, r, m, v))
      <4>1. locks'.holders = locks.holders
        BY <3>4 DEF Park
      <4> QED BY <4>1 DEF Compatible
    <3> QED BY <3>1, <3>2, <3>3, <3>4, AcquireCases DEF TypeOK
  <2>2. CASE DoReleaseAll
    <3>1. \A r \in Rows : locks'.holders[r] \subseteq locks.holders[r]
      BY <2>2 DEF DoReleaseAll, ReleaseAll
    <3> QED BY <3>1 DEF Compatible
  <2>3. CASE DoWaitOnVersions
    <3>1. locks'.holders = locks.holders
      BY <2>3, WaitOnVersionsTable DEF DoWaitOnVersions, TypeOK
    <3> QED BY <3>1 DEF Compatible
  <2>4. CASE DoClearWait
    <3>1. locks'.holders = locks.holders
      BY <2>4, ClearWaitTable DEF DoClearWait, TypeOK
    <3> QED BY <3>1 DEF Compatible
  <2>5. CASE UNCHANGED locks
    BY <2>5
  <2> QED BY <2>1, <2>2, <2>3, <2>4, <2>5 DEF Next
<1> QED BY <1>1, <1>2, TypeCorrect, PTL DEF Spec

---------------------------------------------------------------------------
USE DEF Open, NoStmt

(* The row walk.  It is a loop over the rows of the statement, so what it  *)
(* does to the lock table is proved by induction on the position.          *)

IsWalk(st) == /\ st.rows \in Seq(Rows) /\ st.mode \in Modes
              /\ st.policy \in Policies /\ st.limit \in Nat

\* What the loop carries from row to row.
Accs == [lt : Tables, taken : Nat, out : {"ok", "unavailable", "wait", "deadlock"}]

TakeStep(acc, i, v, st) ==
  IF acc.out # "ok" \/ acc.taken >= st.limit THEN acc ELSE TakeRow(acc, st.rows[i], v, st)

\* What acquire leaves and reports.
LEMMA AcquireAnswers ==
  ASSUME NEW lt \in Tables, NEW r \in Rows, NEW m \in Modes, NEW v \in Versions,
         NEW p \in Policies
  PROVE  LET B == Blockers(lt, r, m, v)
             a == Acquire(lt, r, m, v, p)
         IN  \/ B = {} /\ a.lt = Grant(lt, r, m, v) /\ a.out.kind = "Granted"
             \/ B # {} /\ p = "NoWait" /\ a.lt = lt /\ a.out.kind = "NotAvailable"
             \/ B # {} /\ p = "SkipLocked" /\ a.lt = lt /\ a.out.kind = "Skip"
             \/ /\ B # {} /\ p = "Wait" /\ a.lt = Park(lt, r, v, B)
                /\ \/ a.out.kind = "WouldBlock"
                   \/ a.out.kind = "Deadlock" /\ Cycles(a.lt.waitFor, v) # {}
<1> DEFINE B == Blockers(lt, r, m, v)
<1>1. CASE B = {}
  BY <1>1 DEF Acquire
<1>2. CASE B # {} /\ p = "NoWait"
  BY <1>2 DEF Acquire
<1>3. CASE B # {} /\ p = "SkipLocked"
  BY <1>3 DEF Acquire
<1>4. CASE B # {} /\ p = "Wait"
  <2> DEFINE t == Park(lt, r, v, B)
  <2>1. Acquire(lt, r, m, v, p) = [lt |-> t, out |-> WaitOutcome(t, v)]
    BY <1>4 DEF Acquire
  <2>2. \/ WaitOutcome(t, v).kind = "WouldBlock"
        \/ WaitOutcome(t, v).kind = "Deadlock" /\ FindCycle(t.waitFor, v) # {}
    BY DEF WaitOutcome
  <2>3. FindCycle(t.waitFor, v) # {} => Cycles(t.waitFor, v) # {}
    BY DEF FindCycle
  <2> HIDE DEF t
  <2> QED BY <1>4, <2>1, <2>2, <2>3 DEF t
<1> QED BY <1>1, <1>2, <1>3, <1>4 DEF Policies

\* One row: granted, passed over or parked.
LEMMA TakeRowCases ==
  ASSUME NEW acc \in Accs, acc.out = "ok", NEW r \in Rows, NEW v \in Versions,
         NEW st, IsWalk(st)
  PROVE  LET B == Blockers(acc.lt, r, st.mode, v)
             t == TakeRow(acc, r, v, st)
         IN  /\ t \in Accs
             /\ \/ /\ B = {} /\ t.lt = Grant(acc.lt, r, st.mode, v)
                   /\ t.taken = acc.taken + 1 /\ t.out = "ok"
                \/ /\ st.policy # "Wait" /\ t.lt = acc.lt
                   /\ t.taken = acc.taken /\ t.out \in {"ok", "unavailable"}
                \/ /\ st.policy = "Wait" /\ t.lt = Park(acc.lt, r, v, B)
                   /\ t.taken = acc.taken /\ t.out \in {"wait", "deadlock"}
                   /\ t.out = "deadlock" => Cycles(t.lt.waitFor, v) # {}
<1> DEFINE B == Blockers(acc.lt, r, st.mode, v)
           a == Acquire(acc.lt, r, st.mode, v, st.policy)
           t == TakeRow(acc, r, v, st)
<1>1. acc.lt \in Tables /\ acc.taken \in Nat /\ st.mode \in Modes /\ st.policy \in Policies
  BY DEF Accs, IsWalk
<1>2. B \in SUBSET Versions
  BY <1>1, BlockersType
<1>3. Grant(acc.lt, r, st.mode, v) \in Tables /\ Park(acc.lt, r, v, B) \in Tables
  BY <1>1, <1>2, GrantType, ParkType
<1>4. \/ B = {} /\ a.lt = Grant(acc.lt, r, st.mode, v) /\ a.out.kind = "Granted"
      \/ B # {} /\ st.policy = "NoWait" /\ a.lt = acc.lt /\ a.out.kind = "NotAvailable"
      \/ B # {} /\ st.policy = "SkipLocked" /\ a.lt = acc.lt /\ a.out.kind = "Skip"
      \/ /\ B # {} /\ st.policy = "Wait" /\ a.lt = Park(acc.lt, r, v, B)
         /\ \/ a.out.kind = "WouldBlock"
            \/ a.out.kind = "Deadlock" /\ Cycles(a.lt.waitFor, v) # {}
  BY <1>1, AcquireAnswers
<1>5. t = CASE a.out.kind = "Granted" -> [lt |-> a.lt, taken |-> acc.taken + 1, out |-> "ok"]
            [] a.out.kind = "Skip" -> acc
            [] a.out.kind = "NotAvailable" -> [acc EXCEPT !.out = "unavailable"]
            [] a.out.kind = "WouldBlock" -> [acc EXCEPT !.lt = a.lt, !.out = "wait"]
            [] a.out.kind = "Deadlock" ->
                 [acc EXCEPT !.lt = a.lt,
                             !.out = IF a.out.victim = v THEN "deadlock" ELSE "wait"]
  BY DEF TakeRow
<1> HIDE DEF B, a, t
<1>6. CASE a.out.kind = "Granted"
  <2>1. t = [lt |-> a.lt, taken |-> acc.taken + 1, out |-> "ok"]
    BY <1>5, <1>6
  <2> QED BY <1>1, <1>3, <1>4, <1>6, <2>1 DEF Accs, B, t
<1>7. CASE a.out.kind = "Skip"
  <2>1. t = acc
    BY <1>5, <1>7
  <2> QED BY <1>1, <1>4, <1>7, <2>1 DEF Accs, B, t
<1>8. CASE a.out.kind = "NotAvailable"
  <2>1. t = [acc EXCEPT !.out = "unavailable"]
    BY <1>5, <1>8
  <2> QED BY <1>1, <1>4, <1>8, <2>1 DEF Accs, B, t
<1>9. CASE a.out.kind = "WouldBlock"
  <2>1. t = [acc EXCEPT !.lt = a.lt, !.out = "wait"]
    BY <1>5, <1>9
  <2> QED BY <1>1, <1>3, <1>4, <1>9, <2>1 DEF Accs, B, t
<1>10. CASE a.out.kind = "Deadlock"
  <2>1. t = [acc EXCEPT !.lt = a.lt,
                        !.out = IF a.out.victim = v THEN "deadlock" ELSE "wait"]
    BY <1>5, <1>10
  <2>2. t.lt = a.lt /\ t.taken = acc.taken /\ t.out \in {"deadlock", "wait"} /\ t \in Accs
    BY <1>1, <1>3, <1>4, <1>10, <2>1 DEF Accs
  <2> QED BY <1>4, <1>10, <2>2 DEF B, t
<1> QED BY <1>4, <1>6, <1>7, <1>8, <1>9, <1>10

\* The walk is the loop of TakeStep over the rows.
LEMMA WalkLoop ==
  ASSUME NEW lt \in Tables, NEW v \in Versions, NEW st, IsWalk(st)
  PROVE  \E f \in [0 .. Len(st.rows) -> Accs] :
           /\ f[0] = [lt |-> lt, taken |-> 0, out |-> "ok"]
           /\ \A i \in 1 .. Len(st.rows) : f[i] = TakeStep(f[i - 1], i, v, st)
           /\ Walk(lt, v, st) = [lt |-> f[Len(st.rows)].lt, out |-> f[Len(st.rows)].out]
<1> DEFINE n == Len(st.rows)
           first == [lt |-> lt, taken |-> 0, out |-> "ok"]
           step == [xi \in Accs \X (1 .. n) |-> TakeStep(xi[1], xi[2], v, st)]
           Eq(g) == g = [i \in 0 .. n |->
                           IF i = 0 THEN [lt |-> lt, taken |-> 0, out |-> "ok"]
                           ELSE IF g[i - 1].out # "ok" \/ g[i - 1].taken >= st.limit THEN g[i - 1]
                           ELSE TakeRow(g[i - 1], st.rows[i], v, st)]
           upto == CHOOSE g : Eq(g)
<1>1. n \in Nat /\ first \in Accs
  BY DEF IsWalk, Accs
<1>2. ASSUME NEW x \in Accs, NEW i \in 1 .. n
      PROVE  TakeStep(x, i, v, st) \in Accs /\ step[<<x, i>>] = TakeStep(x, i, v, st)
  <2>1. st.rows[i] \in Rows
    BY DEF IsWalk
  <2>2. x.out = "ok" => TakeRow(x, st.rows[i], v, st) \in Accs
    BY <2>1, TakeRowCases
  <2> QED BY <2>2 DEF TakeStep
<1> HIDE DEF n, first, step
<1>3. IsStep(step, n, Accs)
  BY <1>2 DEF IsStep
<1>4. PICK f : IsLoop(f, n, Accs, first, step)
  BY <1>1, <1>3, LoopExists
<1>5. \A i \in 1 .. n : i - 1 \in 0 .. n /\ f[i - 1] \in Accs /\ i # 0 /\ i \in 0 .. n
  BY <1>1, <1>4 DEF IsLoop
<1>6. f[0] = first /\ \A i \in 1 .. n : f[i] = TakeStep(f[i - 1], i, v, st)
  BY <1>1, <1>2, <1>4, <1>5 DEF IsLoop
<1>7. Eq(f)
  <2>1. \A i \in 0 .. n :
          f[i] = IF i = 0 THEN [lt |-> lt, taken |-> 0, out |-> "ok"]
                 ELSE IF f[i - 1].out # "ok" \/ f[i - 1].taken >= st.limit THEN f[i - 1]
                 ELSE TakeRow(f[i - 1], st.rows[i], v, st)
    BY <1>1, <1>6 DEF TakeStep, first
  <2>2. f = [i \in 0 .. n |-> f[i]]
    BY <1>4 DEF IsLoop
  <2> QED BY <2>1, <2>2
<1>8. Eq(upto)
  <2> HIDE DEF Eq
  <2>1. \E g : Eq(g)
    BY <1>7
  <2> QED BY <2>1, Zenon
<1>9. Walk(lt, v, st) = [lt |-> upto[n].lt, out |-> upto[n].out]
  BY Zenon DEF Walk, n
<1> HIDE DEF upto
<1>10. upto[0] = first /\ \A i \in 1 .. n : upto[i] = TakeStep(upto[i - 1], i, v, st)
  BY <1>1, <1>5, <1>8 DEF TakeStep, first
<1>11. 0 .. n \subseteq {i \in 0 .. n : upto[i] \in Accs}
  <2> DEFINE S == {i \in 0 .. n : upto[i] \in Accs}
  <2>1. 0 \in S
    BY <1>1, <1>10
  <2>2. ASSUME NEW i \in 0 .. (n - 1), i \in S PROVE i + 1 \in S
    <3>1. i + 1 \in 1 .. n /\ i + 1 \in 0 .. n /\ (i + 1) - 1 = i
      BY <1>1, <2>2
    <3>2. upto[i + 1] = TakeStep(upto[i], i + 1, v, st)
      BY <1>10, <3>1
    <3> QED BY <1>2, <2>2, <3>1, <3>2
  <2> HIDE DEF S
  <2> QED BY <1>1, <2>1, <2>2, UpTo DEF S
<1>12. upto \in [0 .. n -> Accs]
  BY <1>8, <1>11
<1> QED BY <1>9, <1>10, <1>12 DEF n, first

\* What a statement of version v may do to the entries of the others: nothing.
OthersKept(lt, t, v) ==
  /\ t \in Tables
  /\ \A r \in Rows : /\ lt.holders[r] \subseteq t.holders[r]
                     /\ \A h \in t.holders[r] : h[1] # v => h \in lt.holders[r]
                     /\ \A w \in t.waiters[r] : w # v => w \in lt.waiters[r]
  /\ \A w \in Versions : w # v => t.waitFor[w] = lt.waitFor[w]

\* The versions that hold a row of the walk in a mode it cannot share.
Behind(lt, v, st) ==
  {w \in Versions :
     /\ w # v /\ st.policy = "Wait" /\ st.limit > 0
     /\ \E i \in DOMAIN st.rows : \E m \in Modes :
          <<w, m>> \in lt.holders[st.rows[i]] /\ ConflictsWith(m, st.mode)}

\* The loop invariant: v gains wait edges only to versions that were in its
\* way when the walk began, and has none after a row it was granted.
WalkKeeps(lt, acc, i, v, st) ==
  /\ OthersKept(lt, acc.lt, v)
  /\ acc.lt.waitFor[v] \subseteq lt.waitFor[v] \cup Behind(lt, v, st)
  /\ Compatible(lt) => Compatible(acc.lt)
  /\ acc.out = "deadlock" => Cycles(acc.lt.waitFor, v) # {}
  /\ acc.out = "unavailable" => st.policy # "Wait"
  /\ i = 0 => acc.taken = 0
  /\ st.policy = "Wait" /\ st.limit > 0 /\ i > 0 /\ acc.out = "ok" => acc.lt.waitFor[v] = {}

\* The fields of the table a grant leaves.
LEMMA GrantFields ==
  ASSUME NEW lt \in Tables, NEW r \in Rows, NEW m \in Modes, NEW v \in Versions
  PROVE  LET t == Grant(lt, r, m, v)
         IN  /\ \A q \in Rows : /\ lt.holders[q] \subseteq t.holders[q]
                                /\ \A h \in t.holders[q] : h[1] # v => h \in lt.holders[q]
                                /\ t.waiters[q] \subseteq lt.waiters[q]
             /\ \A w \in Versions : t.waitFor[w] = IF w = v THEN {} ELSE lt.waitFor[w]
BY DEF Grant, Tables

\* One row keeps the loop invariant.
LEMMA TakeKeeps ==
  ASSUME NEW lt \in Tables, NEW v \in Versions, NEW st, IsWalk(st),
         NEW i \in 1 .. Len(st.rows), NEW acc \in Accs, WalkKeeps(lt, acc, i - 1, v, st)
  PROVE  WalkKeeps(lt, TakeStep(acc, i, v, st), i, v, st)
<1> DEFINE r == st.rows[i]
           t == TakeRow(acc, r, v, st)
           B == Blockers(acc.lt, r, st.mode, v)
<1>1. /\ r \in Rows /\ acc.lt \in Tables /\ st.mode \in Modes /\ i \in DOMAIN st.rows
      /\ acc.taken \in Nat /\ st.limit \in Nat /\ i \in Nat /\ i > 0
  BY DEF IsWalk, Accs
<1>2. CASE acc.out # "ok" \/ acc.taken >= st.limit
  <2>1. TakeStep(acc, i, v, st) = acc
    BY <1>2 DEF TakeStep
  <2>2. ASSUME st.policy = "Wait", st.limit > 0, acc.out = "ok" PROVE acc.lt.waitFor[v] = {}
    <3>1. i - 1 # 0
      BY <1>1, <1>2, <2>2 DEF WalkKeeps
    <3>2. i - 1 > 0
      BY <1>1, <3>1
    <3> QED BY <2>2, <3>2 DEF WalkKeeps
  <2> QED BY <1>1, <2>1, <2>2 DEF WalkKeeps
<1>3. CASE acc.out = "ok" /\ ~(acc.taken >= st.limit)
  <2>1. TakeStep(acc, i, v, st) = t
    BY <1>3 DEF TakeStep
  <2>2. /\ t \in Accs
        /\ \/ /\ B = {} /\ t.lt = Grant(acc.lt, r, st.mode, v)
              /\ t.taken = acc.taken + 1 /\ t.out = "ok"
           \/ /\ st.policy # "Wait" /\ t.lt = acc.lt
              /\ t.taken = acc.taken /\ t.out \in {"ok", "unavailable"}
           \/ /\ st.policy = "Wait" /\ t.lt = Park(acc.lt, r, v, B)
              /\ t.taken = acc.taken /\ t.out \in {"wait", "deadlock"}
              /\ t.out = "deadlock" => Cycles(t.lt.waitFor, v) # {}
    BY <1>1, <1>3, TakeRowCases
  <2>3. B \in SUBSET Versions /\ v \notin B
    BY <1>1, BlockersType
  <2>4. t.lt \in Tables
    BY <2>2 DEF Accs
  <2>5. st.policy = "Wait" => B \subseteq Behind(lt, v, st)
    <3> SUFFICES ASSUME st.policy = "Wait", NEW w \in B PROVE w \in Behind(lt, v, st)
      OBVIOUS
    <3>1. PICK h \in acc.lt.holders[r] : h[1] = w /\ h[1] # v /\ ConflictsWith(h[2], st.mode)
      BY DEF Blockers
    <3>2. h \in lt.holders[r] /\ h \in Versions \X Modes
      BY <1>1, <3>1 DEF WalkKeeps, OthersKept, Tables
    <3>3. h = <<w, h[2]>> /\ h[2] \in Modes /\ w \in Versions
      BY <3>1, <3>2
    <3>4. st.limit > 0
      BY <1>1, <1>3
    <3> QED BY <1>1, <3>1, <3>2, <3>3, <3>4 DEF Behind
  <2> HIDE DEF t, B, r
  <2>6. CASE B = {} /\ t.lt = Grant(acc.lt, r, st.mode, v) /\ t.out = "ok"
    <3>1. /\ \A q \in Rows : /\ acc.lt.holders[q] \subseteq t.lt.holders[q]
                             /\ \A h \in t.lt.holders[q] : h[1] # v => h \in acc.lt.holders[q]
                             /\ t.lt.waiters[q] \subseteq acc.lt.waiters[q]
          /\ \A w \in Versions : t.lt.waitFor[w] = IF w = v THEN {} ELSE acc.lt.waitFor[w]
      BY <1>1, <2>6, GrantFields
    <3>2. OthersKept(lt, t.lt, v)
      BY <2>4, <3>1 DEF WalkKeeps, OthersKept
    <3>3. Compatible(lt) => Compatible(t.lt)
      BY <1>1, <2>6, GrantCompatible DEF WalkKeeps, B
    <3> QED BY <1>1, <2>1, <2>6, <3>1, <3>2, <3>3 DEF WalkKeeps
  <2>7. CASE st.policy # "Wait" /\ t.lt = acc.lt /\ t.out \in {"ok", "unavailable"}
    BY <1>1, <2>1, <2>7 DEF WalkKeeps
  <2>8. CASE /\ st.policy = "Wait" /\ t.lt = Park(acc.lt, r, v, B)
             /\ t.out \in {"wait", "deadlock"}
             /\ t.out = "deadlock" => Cycles(t.lt.waitFor, v) # {}
    <3>1. /\ t.lt.holders = acc.lt.holders
          /\ \A q \in Rows : \A w \in t.lt.waiters[q] : w # v => w \in acc.lt.waiters[q]
          /\ \A w \in Versions : t.lt.waitFor[w] = IF w = v THEN acc.lt.waitFor[w] \cup B
                                                             ELSE acc.lt.waitFor[w]
      <4> DEFINE p == Park(acc.lt, r, v, B)
      <4>1. /\ p.holders = acc.lt.holders
            /\ \A q \in Rows : \A w \in p.waiters[q] : w # v => w \in acc.lt.waiters[q]
            /\ \A w \in Versions : p.waitFor[w] = IF w = v THEN acc.lt.waitFor[w] \cup B
                                                           ELSE acc.lt.waitFor[w]
        BY <1>1, <2>3 DEF Park, Tables
      <4>2. t.lt = p
        BY <2>8
      <4> HIDE DEF p
      <4> QED BY <4>1, <4>2
    <3>2. OthersKept(lt, t.lt, v)
      BY <2>4, <3>1 DEF WalkKeeps, OthersKept
    <3>3. Compatible(lt) => Compatible(t.lt)
      BY <3>1 DEF WalkKeeps, Compatible
    <3>4. t.lt.waitFor[v] \subseteq lt.waitFor[v] \cup Behind(lt, v, st)
      BY <2>5, <2>8, <3>1 DEF WalkKeeps
    <3>5. t.out # "ok" /\ t.out # "unavailable" /\ i # 0
      BY <1>1, <2>8
    <3> QED BY <2>1, <2>8, <3>2, <3>3, <3>4, <3>5 DEF WalkKeeps
  <2> QED BY <2>2, <2>6, <2>7, <2>8
<1> QED BY <1>2, <1>3

\* What a walk leaves behind.
LEMMA WalkAnswers ==
  ASSUME NEW lt \in Tables, NEW v \in Versions, NEW st, IsWalk(st)
  PROVE  LET w == Walk(lt, v, st)
         IN  /\ OthersKept(lt, w.lt, v)
             /\ w.lt.waitFor[v] \subseteq lt.waitFor[v] \cup Behind(lt, v, st)
             /\ Compatible(lt) => Compatible(w.lt)
             /\ w.out \in {"ok", "unavailable", "wait", "deadlock"}
             /\ w.out = "deadlock" => Cycles(w.lt.waitFor, v) # {}
             /\ w.out = "unavailable" => st.policy # "Wait"
             /\ st.policy = "Wait" /\ st.limit > 0 /\ Len(st.rows) > 0 /\ w.out = "ok"
                  => w.lt.waitFor[v] = {}
<1> DEFINE n == Len(st.rows)
<1>0. n \in Nat
  BY DEF IsWalk
<1>1. PICK f \in [0 .. n -> Accs] :
        /\ f[0] = [lt |-> lt, taken |-> 0, out |-> "ok"]
        /\ \A i \in 1 .. n : f[i] = TakeStep(f[i - 1], i, v, st)
        /\ Walk(lt, v, st) = [lt |-> f[n].lt, out |-> f[n].out]
  BY WalkLoop
<1> DEFINE S == {i \in 0 .. n : WalkKeeps(lt, f[i], i, v, st)}
<1>2. 0 \in S
  BY <1>0, <1>1 DEF WalkKeeps, OthersKept
<1>3. ASSUME NEW i \in 0 .. (n - 1), i \in S PROVE i + 1 \in S
  <2>1. i + 1 \in 1 .. n /\ (i + 1) - 1 = i /\ i + 1 \in 0 .. n /\ f[i] \in Accs
    BY <1>0, <1>1, <1>3
  <2>2. f[i + 1] = TakeStep(f[i], i + 1, v, st)
    BY <1>1, <2>1
  <2>3. WalkKeeps(lt, f[i], (i + 1) - 1, v, st)
    BY <1>3, <2>1
  <2>4. WalkKeeps(lt, TakeStep(f[i], i + 1, v, st), i + 1, v, st)
    BY <2>1, <2>3, TakeKeeps
  <2> QED BY <2>1, <2>2, <2>4
<1>4. 0 .. n \subseteq S
  <2> HIDE DEF S
  <2> QED BY <1>0, <1>2, <1>3, UpTo
<1>5. n \in S /\ f[n] \in Accs
  BY <1>0, <1>1, <1>4
<1>6. WalkKeeps(lt, f[n], n, v, st) /\ f[n].out \in {"ok", "unavailable", "wait", "deadlock"}
  BY <1>5 DEF Accs
<1>7. Walk(lt, v, st).lt = f[n].lt /\ Walk(lt, v, st).out = f[n].out
  BY <1>1
<1> QED BY <1>6, <1>7 DEF WalkKeeps

---------------------------------------------------------------------------
(* An attempt.                                                             *)

\* The versions in the way of a statement of version v: those that hold a row
\* of its walk and those that own a key it claims.
WayIn(lt, owners, v, st) ==
  Behind(lt, v, st) \cup {w \in Versions : w # v /\ \E k \in st.claims : <<k, w>> \in owners}

Way(v, st) == WayIn(locks, keyOwners, v, st)

\* What the wait for keys leaves and answers.
LEMMA KeyWaitAnswers ==
  ASSUME NEW lt \in Tables, NEW v \in Versions, NEW K, NEW inTx \in BOOLEAN
  PROVE  LET w == KeyWait(lt, v, K, inTx)
         IN  /\ OthersKept(lt, w.lt, v) /\ w.lt.holders = lt.holders
             /\ w.lt.waitFor[v] \subseteq lt.waitFor[v] \cup KeyHolders(v, K)
             /\ w.out \in {"ok", "wait", "deadlock"}
             /\ w.out = "deadlock" => Cycles(w.lt.waitFor, v) # {}
             /\ w.out = "ok" => KeyHolders(v, K) = {}
<1> DEFINE H == KeyHolders(v, K)
           p == WaitOnVersions(lt, v, H)
           w == KeyWait(lt, v, K, inTx)
<1>0. H \in SUBSET Versions /\ v \notin H
  BY DEF KeyHolders
<1>1. CASE H = {}
  <2>1. w.lt = (IF inTx THEN ClearWait(lt, v) ELSE lt) /\ w.out = "ok"
    BY <1>1 DEF KeyWait
  <2>3. ClearWait(lt, v).waitFor[v] = {} /\ OthersKept(lt, ClearWait(lt, v), v)
    BY DEF ClearWait, Tables, OthersKept
  <2>4. OthersKept(lt, lt, v)
    BY DEF OthersKept
  <2>5. ClearWait(lt, v).holders = lt.holders
    BY ClearWaitTable
  <2> HIDE DEF w
  <2> QED BY <1>1, <2>1, <2>3, <2>4, <2>5 DEF w
<1>2. CASE H # {} /\ ~inTx
  <2>1. w = [lt |-> lt, out |-> "wait"]
    BY <1>2 DEF KeyWait
  <2> HIDE DEF w
  <2> QED BY <1>2, <2>1 DEF w, OthersKept
<1>3. CASE H # {} /\ inTx
  <2>1. w = [lt |-> p.lt, out |-> IF p.out.kind = "Deadlock" /\ p.out.victim = v
                                  THEN "deadlock" ELSE "wait"]
    BY <1>3 DEF KeyWait
  <2>2. /\ p.lt.waitFor[v] = lt.waitFor[v] \cup H /\ p.lt.holders = lt.holders
        /\ OthersKept(lt, p.lt, v)
    BY <1>0 DEF WaitOnVersions, Tables, OthersKept
  <2>3. p.out = WaitOutcome(p.lt, v)
    BY DEF WaitOnVersions
  <2>4. p.out.kind = "Deadlock" => FindCycle(p.lt.waitFor, v) # {}
    BY <2>3 DEF WaitOutcome
  <2>5. FindCycle(p.lt.waitFor, v) # {} => Cycles(p.lt.waitFor, v) # {}
    BY DEF FindCycle
  <2> HIDE DEF p, w
  <2>6. w.lt = p.lt /\ w.out \in {"wait", "deadlock"}
        /\ (w.out = "deadlock" => p.out.kind = "Deadlock")
    BY <2>1
  <2> QED BY <2>2, <2>4, <2>5, <2>6 DEF w
<1> QED BY <1>1, <1>2, <1>3

\* What a statement leaves and answers.
Answers(e, v, st) ==
  /\ OthersKept(locks, e.lt, v)
  /\ e.lt.waitFor[v] \subseteq locks.waitFor[v] \cup Way(v, st)
  /\ Compatible(locks) => Compatible(e.lt)
  /\ e.out \in {"ok", "unavailable", "duplicate", "wait", "deadlock"}
  /\ e.out = "deadlock" => Cycles(e.lt.waitFor, v) # {}

\* What one run of a statement under the guard does to the table, and its
\* answer: it succeeds only when nobody else owns the keys it claims and its
\* new keys are not in the catalog it reads.
LEMMA ExecuteAnswers ==
  ASSUME locks \in Tables, NEW v \in Versions, NEW st \in Stmts, NEW inTx \in BOOLEAN,
         NEW shadow
  PROVE  LET e == Execute(locks, v, st, inTx, shadow)
         IN  /\ Answers(e, v, st)
             /\ e.out = "ok" => ~Duplicate(st, shadow) /\ KeyHolders(v, st.claims) = {}
<1> DEFINE e == Execute(locks, v, st, inTx, shadow)
           key == IF st.kind \in {"insert", "update"} THEN KeyWait(locks, v, st.claims, inTx)
                  ELSE [lt |-> locks, out |-> "ok"]
<1>1. IsWalk(st) /\ (st.kind \notin {"insert", "update"} => st.claims = {})
  BY StmtsAssumption DEF StmtOK, IsWalk
<1>2. /\ OthersKept(locks, key.lt, v) /\ key.lt.holders = locks.holders
      /\ key.lt.waitFor[v] \subseteq locks.waitFor[v] \cup KeyHolders(v, st.claims)
      /\ key.out \in {"ok", "wait", "deadlock"}
      /\ key.out = "deadlock" => Cycles(key.lt.waitFor, v) # {}
      /\ key.out = "ok" => KeyHolders(v, st.claims) = {}
  <2>1. CASE st.kind \in {"insert", "update"}
    <3>1. key = KeyWait(locks, v, st.claims, inTx)
      BY <2>1
    <3> HIDE DEF key
    <3> QED BY <3>1, KeyWaitAnswers
  <2>2. CASE st.kind \notin {"insert", "update"}
    <3>1. key.lt = locks /\ key.out = "ok"
      BY <2>2
    <3>2. KeyHolders(v, st.claims) = {}
      BY <1>1, <2>2 DEF KeyHolders
    <3>3. OthersKept(locks, locks, v)
      BY DEF OthersKept
    <3> HIDE DEF key
    <3> QED BY <3>1, <3>2, <3>3
  <2> QED BY <2>1, <2>2
<1>3. e = IF key.out # "ok" THEN key
          ELSE IF Duplicate(st, shadow) THEN [lt |-> key.lt, out |-> "duplicate"]
          ELSE Walk(key.lt, v, st)
  BY DEF Execute
<1>4. key.lt \in Tables
  BY <1>2 DEF OthersKept
<1> HIDE DEF e, key
<1>5. KeyHolders(v, st.claims) \subseteq Way(v, st) /\ Behind(locks, v, st) \subseteq Way(v, st)
  BY DEF KeyHolders, Way, WayIn
<1>6. Compatible(locks) => Compatible(key.lt)
  BY <1>2 DEF Compatible
<1>7. CASE key.out # "ok"
  BY <1>2, <1>3, <1>5, <1>6, <1>7 DEF Answers, e
<1>8. CASE key.out = "ok" /\ Duplicate(st, shadow)
  <2>1. e.lt = key.lt /\ e.out = "duplicate"
    BY <1>3, <1>8
  <2> QED BY <1>2, <1>5, <1>6, <2>1 DEF Answers, e
<1>9. CASE key.out = "ok" /\ ~Duplicate(st, shadow)
  <2> DEFINE w == Walk(key.lt, v, st)
  <2>1. e = w
    BY <1>3, <1>9
  <2>2. /\ OthersKept(key.lt, w.lt, v)
        /\ w.lt.waitFor[v] \subseteq key.lt.waitFor[v] \cup Behind(key.lt, v, st)
        /\ Compatible(key.lt) => Compatible(w.lt)
        /\ w.out \in {"ok", "unavailable", "wait", "deadlock"}
        /\ w.out = "deadlock" => Cycles(w.lt.waitFor, v) # {}
    BY <1>1, <1>4, WalkAnswers
  <2>3. Behind(key.lt, v, st) = Behind(locks, v, st)
    BY <1>2 DEF Behind
  <2> HIDE DEF w
  <2>4. OthersKept(locks, w.lt, v)
    BY <1>2, <2>2 DEF OthersKept
  <2>5. w.lt.waitFor[v] \subseteq locks.waitFor[v] \cup Way(v, st)
    BY <1>2, <1>5, <2>2, <2>3
  <2> QED BY <1>2, <1>6, <1>9, <2>1, <2>2, <2>4, <2>5 DEF Answers, e
<1> QED BY <1>2, <1>7, <1>8, <1>9

---------------------------------------------------------------------------
(* The lock table and the open transactions.                               *)

\* Every transaction has a version of its own, older than the next one, and
\* uncommitted keys belong to transactions that are open.
Owned ==
  /\ \A s \in Sessions : sess[s].v < nextVersion
  /\ \A s, t \in Sessions : Open(s) /\ sess[s].v = sess[t].v => s = t
  /\ \A s \in Sessions : sess[s].pc = "pending" => sess[s].stmt \in Stmts
  /\ \A o \in keyOwners : o[2] \in OpenVersions

TableInv == LocksTypeOK /\ Owned /\ NoLeakedLocks /\ NoConflictingHolders

\* Whatever is in the way of a statement is an open transaction.
LEMMA WayIsOpen ==
  ASSUME TableInv, NEW v \in Versions, NEW st \in Stmts
  PROVE  Way(v, st) \subseteq OpenVersions
<1>1. IsWalk(st)
  BY StmtsAssumption DEF StmtOK, IsWalk
<1> SUFFICES ASSUME NEW w \in Way(v, st) PROVE w \in OpenVersions
  OBVIOUS
<1>2. CASE \E k \in st.claims : <<k, w>> \in keyOwners
  <2>1. PICK k \in st.claims : <<k, w>> \in keyOwners
    BY <1>2
  <2>2. <<k, w>>[2] = w
    OBVIOUS
  <2> QED BY <2>1, <2>2 DEF TableInv, Owned
<1>3. CASE w \in Behind(locks, v, st)
  <2>2. PICK i \in DOMAIN st.rows, m \in Modes : <<w, m>> \in locks.holders[st.rows[i]]
    BY <1>3 DEF Behind
  <2>3. st.rows[i] \in Rows
    BY <1>1, <2>2 DEF IsWalk
  <2>4. <<w, m>>[1] = w
    OBVIOUS
  <2> QED BY <2>2, <2>3, <2>4 DEF TableInv, NoLeakedLocks
<1> QED BY <1>2, <1>3 DEF Way, WayIn

\* The session s takes a step: it keeps its version and the others stand still.
Moves(s) ==
  /\ sess' \in [Sessions -> SessStates]
  /\ sess'[s].v = sess[s].v
  /\ \A t \in Sessions : t # s => sess'[t] = sess[t]

\* The version an attempt runs under.
Runs(s) == IF Open(s) THEN sess[s].v ELSE nextVersion

\* What an attempt of s does: e is what the engine left and answered, out what
\* the client gets, takes and frees the keys it adds and gives up, and jumps
\* those it took without waiting for them.
AttemptIs(s, e, out, takes, frees, jumps) ==
  LET v == Runs(s)
  IN  /\ v \in Versions /\ sess[s].stmt \in Stmts /\ sess[s].pc = "pending"
      /\ Answers(e, v, sess[s].stmt)
      /\ out = e.out \/ (e.out = "ok" /\ out = "failed")
      /\ out # "ok" => takes = {} /\ frees = {}
      /\ takes \subseteq Keys /\ frees \subseteq Own(v)
      /\ takes \cap Shadow(s) = {}
      /\ \A k \in takes \ jumps : Rivals(v, k) = {}
      /\ locks' = IF Open(s) THEN e.lt ELSE ReleaseAll(e.lt, v)
      /\ Moves(s)
      /\ sess'[s].frozen = sess[s].frozen
      /\ out = "wait" => /\ sess'[s].pc = sess[s].pc /\ sess'[s].stmt = sess[s].stmt
                         /\ sess'[s].aborted = sess[s].aborted
      /\ out # "wait" => sess'[s].pc = "idle" /\ sess'[s].aborted = AbortMark(out, Open(s))
      /\ keyOwners' = (keyOwners \ Owners(frees, v))
                        \cup (IF Open(s) THEN Owners(takes, v) ELSE {})
      /\ committedKeys' = committedKeys \cup (IF Open(s) THEN {} ELSE takes)
      /\ raced' = (raced \cup Races(v, jumps)) \cap keyOwners'
      /\ Leave(v, IF out = "wait" THEN {} ELSE Versions, frees)
      /\ nextVersion' = nextVersion

\* An attempt is one of these.
LEMMA AttemptCases ==
  ASSUME TableInv, NEW s \in Sessions, Attempt(s)
  PROVE  \E e, out, takes, frees, jumps : AttemptIs(s, e, out, takes, frees, jumps)
<1> DEFINE v == Runs(s)
           st == sess[s].stmt
           sh == Shadow(s)
           e == Execute(locks, v, st, Open(s), sh)
<1>1. v \in Versions
  BY RowLocksAssumption DEF TableInv, LocksTypeOK, Runs, SessStates
<1>2. sess[s].pc = "pending" /\ st \in Stmts /\ locks \in Tables
  BY DEF Attempt, TableInv, Owned, LocksTypeOK
<1>3. Answers(e, v, st) /\ (e.out = "ok" => ~Duplicate(st, sh) /\ KeyHolders(v, st.claims) = {})
  <2>1. Open(s) \in BOOLEAN
    OBVIOUS
  <2> HIDE DEF v, st, sh
  <2> QED BY <1>1, <1>2, <2>1, ExecuteAnswers
<1> DEFINE tk(o) == IF o = "ok" THEN Takes(st, sh) ELSE {}
           fr(o) == IF o = "ok" THEN Frees(st, sh) \cap Own(v) ELSE {}
           jp(o) == IF Upserts(st, sh) THEN tk(o) ELSE {}
<1>4. PICK out \in {e.out} \cup (IF e.out = "ok" THEN {"failed"} ELSE {}) :
        /\ locks' = StatementLocks(e.lt, v, Open(s))
        /\ sess' = [sess EXCEPT
              ![s].seen = IF Open(s) /\ ~sess[s].frozen THEN committedKeys ELSE @,
              ![s].pc = IF out = "wait" THEN @ ELSE "idle",
              ![s].stmt = IF out = "wait" THEN @ ELSE NoStmt,
              ![s].aborted = IF out = "wait" THEN @ ELSE AbortMark(out, Open(s))]
        /\ keyOwners' = (keyOwners \ Owners(fr(out), v))
                          \cup (IF Open(s) THEN Owners(tk(out), v) ELSE {})
        /\ committedKeys' = committedKeys \cup (IF Open(s) THEN {} ELSE tk(out))
        /\ raced' = (raced \cup Races(v, jp(out))) \cap keyOwners'
        /\ Leave(v, IF out = "wait" THEN {} ELSE Versions, fr(out))
        /\ nextVersion' = nextVersion
  BY DEF Attempt, Runs
<1>5. out = e.out \/ (e.out = "ok" /\ out = "failed")
  BY <1>4
<1>6. out \in {"ok", "unavailable", "duplicate", "wait", "deadlock", "failed"}
  BY <1>3, <1>5 DEF Answers
<1>7. StmtOK(st)
  BY <1>2, StmtsAssumption
<1> DEFINE takes == tk(out)
           frees == fr(out)
           jumps == jp(out)
<1>8. takes \subseteq Keys /\ frees \subseteq Own(v) /\ (out # "ok" => takes = {} /\ frees = {})
  BY <1>7 DEF StmtOK, Takes
<1>9. takes \cap sh = {}
  BY <1>3, <1>5 DEF Duplicate
<1>10. \A k \in takes \ jumps : Rivals(v, k) = {}
  <2> SUFFICES ASSUME NEW k \in takes \ jumps PROVE Rivals(v, k) = {}
    OBVIOUS
  <2>1. out = "ok" /\ k \in st.claims
    BY DEF Takes
  <2>2. KeyHolders(v, st.claims) = {}
    BY <1>3, <1>5, <2>1
  <2> HIDE DEF v, st
  <2> QED BY <2>1, <2>2 DEF KeyHolders, Rivals
<1>11. /\ Moves(s) /\ sess'[s].frozen = sess[s].frozen
       /\ out = "wait" => /\ sess'[s].pc = sess[s].pc /\ sess'[s].stmt = sess[s].stmt
                          /\ sess'[s].aborted = sess[s].aborted
       /\ out # "wait" => sess'[s].pc = "idle" /\ sess'[s].aborted = AbortMark(out, Open(s))
  <2> DEFINE new == [sess[s] EXCEPT
                       !.seen = IF Open(s) /\ ~sess[s].frozen THEN committedKeys ELSE @,
                       !.pc = IF out = "wait" THEN @ ELSE "idle",
                       !.stmt = IF out = "wait" THEN @ ELSE NoStmt,
                       !.aborted = IF out = "wait" THEN @ ELSE AbortMark(out, Open(s))]
  <2>1. sess \in [Sessions -> SessStates] /\ sess[s] \in SessStates /\ committedKeys \subseteq Keys
    BY DEF TableInv, LocksTypeOK
  <2>2. out # "wait" => AbortMark(out, Open(s)) \in
                          {"no", "unavailable", "deadlock", "duplicate", "failed"}
    BY <1>6 DEF AbortMark
  <2>3. new \in SessStates
    BY <2>1, <2>2 DEF SessStates
  <2>4. sess' = [sess EXCEPT ![s] = new]
    BY <1>4, <2>1
  <2>5. /\ new.v = sess[s].v /\ new.frozen = sess[s].frozen
        /\ out = "wait" => /\ new.pc = sess[s].pc /\ new.stmt = sess[s].stmt
                           /\ new.aborted = sess[s].aborted
        /\ out # "wait" => new.pc = "idle" /\ new.aborted = AbortMark(out, Open(s))
    BY <2>1 DEF SessStates
  <2> HIDE DEF new
  <2>6. sess'[s] = new /\ \A t \in Sessions : t # s => sess'[t] = sess[t]
    BY <2>1, <2>4
  <2>7. sess' \in [Sessions -> SessStates]
    BY <2>1, <2>3, <2>4
  <2> QED BY <2>5, <2>6, <2>7 DEF Moves
<1>12. locks' = IF Open(s) THEN e.lt ELSE ReleaseAll(e.lt, v)
  BY <1>4 DEF StatementLocks
<1>13. /\ keyOwners' = (keyOwners \ Owners(frees, v))
                         \cup (IF Open(s) THEN Owners(takes, v) ELSE {})
       /\ committedKeys' = committedKeys \cup (IF Open(s) THEN {} ELSE takes)
       /\ raced' = (raced \cup Races(v, jumps)) \cap keyOwners'
       /\ Leave(v, IF out = "wait" THEN {} ELSE Versions, frees)
       /\ nextVersion' = nextVersion
  BY <1>4
<1> HIDE DEF takes, frees, jumps, e
<1> WITNESS e, out, takes, frees, jumps
<1> QED BY <1>1, <1>2, <1>3, <1>5, <1>8, <1>9, <1>10, <1>11, <1>12, <1>13 DEF AttemptIs

\* NoLeakedLocks of a table, for the versions in V.
Unleaked(lt, V) ==
  /\ \A r \in Rows : /\ \A h \in lt.holders[r] : h[1] \in V
                     /\ lt.waiters[r] \subseteq V
  /\ \A v \in Versions : /\ lt.waitFor[v] \subseteq V
                         /\ lt.waitFor[v] # {} => v \in V

\* NoLeakedLocks, of a table and the open versions.
LEMMA UnleakedIs == NoLeakedLocks <=> Unleaked(locks, OpenVersions)
BY DEF NoLeakedLocks, Unleaked

\* A statement of an open transaction leaks nothing.
LEMMA AnswersUnleaked ==
  ASSUME locks \in Tables, NEW V, Unleaked(locks, V), NEW v \in Versions, NEW st, NEW e,
         Answers(e, v, st), Way(v, st) \subseteq V
  PROVE  /\ v \in V => Unleaked(e.lt, V)
         /\ Unleaked(ReleaseAll(e.lt, v), V)
<1>1. OthersKept(locks, e.lt, v) /\ e.lt.waitFor[v] \subseteq locks.waitFor[v] \cup Way(v, st)
  BY DEF Answers
<1>2. \A r \in Rows : /\ \A h \in e.lt.holders[r] : h[1] = v \/ h[1] \in V
                      /\ \A w \in e.lt.waiters[r] : w = v \/ w \in V
  BY <1>1 DEF OthersKept, Unleaked
<1>3. \A w \in Versions : e.lt.waitFor[w] \subseteq V
  BY <1>1 DEF OthersKept, Unleaked
<1>4. \A w \in Versions : w # v /\ e.lt.waitFor[w] # {} => w \in V
  BY <1>1 DEF OthersKept, Unleaked
<1>5. v \in V => Unleaked(e.lt, V)
  BY <1>2, <1>3, <1>4 DEF Unleaked
<1>6. Unleaked(ReleaseAll(e.lt, v), V)
  <2> DEFINE t == ReleaseAll(e.lt, v)
  <2>1. /\ \A r \in Rows : /\ t.holders[r] = {h \in e.lt.holders[r] : h[1] # v}
                           /\ t.waiters[r] = e.lt.waiters[r] \ {v}
        /\ \A w \in Versions : t.waitFor[w] = IF w = v THEN {} ELSE e.lt.waitFor[w] \ {v}
    BY DEF ReleaseAll
  <2> HIDE DEF t
  <2>2. \A r \in Rows : /\ \A h \in t.holders[r] : h[1] \in V
                        /\ t.waiters[r] \subseteq V
    BY <1>2, <2>1
  <2>3. \A w \in Versions : t.waitFor[w] \subseteq V /\ t.waitFor[w] \subseteq e.lt.waitFor[w]
    BY <1>3, <2>1
  <2>4. \A w \in Versions : t.waitFor[w] # {} => w # v /\ e.lt.waitFor[w] # {}
    BY <2>1, <2>3
  <2>5. Unleaked(t, V)
    BY <1>4, <2>2, <2>3, <2>4 DEF Unleaked
  <2> QED BY <2>5 DEF t
<1> QED BY <1>5, <1>6

\* Releasing a version leaves nothing of it.
LEMMA ReleaseUnleaked ==
  ASSUME NEW V, Unleaked(locks, V), NEW v
  PROVE  Unleaked(ReleaseAll(locks, v), V \ {v})
<1> DEFINE t == ReleaseAll(locks, v)
<1>1. /\ \A r \in Rows : /\ t.holders[r] = {h \in locks.holders[r] : h[1] # v}
                         /\ t.waiters[r] = locks.waiters[r] \ {v}
      /\ \A w \in Versions : t.waitFor[w] = IF w = v THEN {} ELSE locks.waitFor[w] \ {v}
  BY DEF ReleaseAll
<1> HIDE DEF t
<1>2. \A r \in Rows : /\ \A h \in t.holders[r] : h[1] \in V \ {v}
                      /\ t.waiters[r] \subseteq V \ {v}
  BY <1>1 DEF Unleaked
<1>3. \A w \in Versions : t.waitFor[w] \subseteq V \ {v} /\ t.waitFor[w] \subseteq locks.waitFor[w]
  BY <1>1 DEF Unleaked
<1>4. \A w \in Versions : t.waitFor[w] # {} => w # v /\ locks.waitFor[w] # {}
  BY <1>1, <1>3
<1>5. \A w \in Versions : t.waitFor[w] # {} => w \in V \ {v}
  BY <1>4 DEF Unleaked
<1>6. Unleaked(t, V \ {v})
  BY <1>2, <1>3, <1>5 DEF Unleaked
<1> QED BY <1>6 DEF t

\* A release adds no holder.
LEMMA ReleaseCompatible ==
  ASSUME NEW lt, NEW v, Compatible(lt)
  PROVE  Compatible(ReleaseAll(lt, v))
<1>1. \A r \in Rows : ReleaseAll(lt, v).holders[r] \subseteq lt.holders[r]
  BY DEF ReleaseAll
<1> QED BY <1>1 DEF Compatible

\* The ghost of the edges left over only ever holds edges of the table.
LEMMA LeaveType ==
  ASSUME NEW v, NEW over, NEW freed, locks' \in Tables, Leave(v, over, freed)
  PROVE  left' \in [Versions -> SUBSET Versions]
BY DEF Leave, Tables

\* A session that moves opens and closes no transaction.
LEMMA MovesOpen ==
  ASSUME NEW s \in Sessions, Moves(s)
  PROVE  /\ OpenVersions' = OpenVersions
         /\ \A t \in Sessions : sess'[t].v = sess[t].v
<1>1. \A t \in Sessions : sess'[t].v = sess[t].v
  BY DEF Moves
<1> QED BY <1>1 DEF OpenVersions

\* Versions stay distinct and keys owned when a session moves.
LEMMA MovesOwned ==
  ASSUME TableInv, NEW s \in Sessions, Moves(s), nextVersion' = nextVersion,
         sess'[s].pc = "pending" => sess'[s].stmt \in Stmts,
         \A o \in keyOwners' : o[2] \in OpenVersions
  PROVE  Owned'
<1>1. OpenVersions' = OpenVersions /\ \A t \in Sessions : sess'[t].v = sess[t].v
  BY MovesOpen
<1>2. \A t \in Sessions : sess'[t].v < nextVersion'
  BY <1>1 DEF TableInv, Owned
<1>3. \A a, t \in Sessions : sess'[a].v # 0 /\ sess'[a].v = sess'[t].v => a = t
  BY <1>1 DEF TableInv, Owned
<1>4. \A t \in Sessions : sess'[t].pc = "pending" => sess'[t].stmt \in Stmts
  BY DEF TableInv, Owned, Moves
<1> QED BY <1>1, <1>2, <1>3, <1>4 DEF Owned

\* A step that leaves the lock table alone keeps TableInv.
LEMMA QuietKeepsTable ==
  ASSUME TableInv, NEW s \in Sessions, Moves(s), nextVersion' = nextVersion,
         sess'[s].pc = "pending" => sess'[s].stmt \in Stmts,
         locks' = locks, committedKeys' = committedKeys,
         \A o \in keyOwners' : o \in Keys \X Versions /\ o[2] \in OpenVersions,
         raced' \subseteq keyOwners', left' \in [Versions -> SUBSET Versions]
  PROVE  TableInv'
<1>1. Owned'
  BY MovesOwned
<1>2. LocksTypeOK'
  BY DEF TableInv, LocksTypeOK, Moves
<1>3. NoLeakedLocks' /\ NoConflictingHolders'
  BY MovesOpen DEF TableInv, NoLeakedLocks, NoConflictingHolders
<1> QED BY <1>1, <1>2, <1>3 DEF TableInv

\* Every step of the sessions keeps TableInv: an attempt.
LEMMA AttemptKeepsTable ==
  ASSUME TableInv, NEW s \in Sessions, Attempt(s)
  PROVE  TableInv'
<1>1. PICK e, out, takes, frees, jumps : AttemptIs(s, e, out, takes, frees, jumps)
  BY AttemptCases
<1> DEFINE v == Runs(s)
<1>2. /\ v \in Versions /\ sess[s].stmt \in Stmts /\ Answers(e, v, sess[s].stmt)
      /\ locks' = IF Open(s) THEN e.lt ELSE ReleaseAll(e.lt, v)
      /\ Moves(s) /\ nextVersion' = nextVersion
      /\ takes \subseteq Keys
      /\ keyOwners' = (keyOwners \ Owners(frees, v))
                        \cup (IF Open(s) THEN Owners(takes, v) ELSE {})
      /\ committedKeys' = committedKeys \cup (IF Open(s) THEN {} ELSE takes)
      /\ raced' \subseteq keyOwners'
      /\ Leave(v, IF out = "wait" THEN {} ELSE Versions, frees)
  BY <1>1 DEF AttemptIs
<1>3. sess'[s].pc = "pending" => sess'[s].stmt \in Stmts
  BY <1>1 DEF AttemptIs
<1>4. Open(s) => v \in OpenVersions
  BY DEF OpenVersions, Runs
<1> HIDE DEF v
<1>5. locks' \in Tables
  BY <1>2, ReleaseType DEF Answers, OthersKept
<1>6. \A o \in keyOwners' : o \in Keys \X Versions /\ o[2] \in OpenVersions
  <2> TAKE o \in keyOwners'
  <2>1. CASE o \in keyOwners
    BY <2>1 DEF TableInv, LocksTypeOK, Owned
  <2>2. CASE o \in Owners(takes, v) /\ Open(s)
    <3>1. PICK k \in takes : o = <<k, v>>
      BY <2>2 DEF Owners
    <3> QED BY <1>2, <1>4, <2>2, <3>1
  <2> QED BY <1>2, <2>1, <2>2
<1>7. LocksTypeOK'
  <2>1. left' \in [Versions -> SUBSET Versions]
    BY <1>2, <1>5, LeaveType
  <2>2. committedKeys' \subseteq Keys
    BY <1>2 DEF TableInv, LocksTypeOK
  <2> QED BY <1>2, <1>5, <1>6, <2>1, <2>2 DEF TableInv, LocksTypeOK, Moves
<1>8. Owned'
  BY <1>2, <1>3, <1>6, MovesOwned
<1>9. NoLeakedLocks'
  <2>1. Unleaked(locks, OpenVersions) /\ locks \in Tables
    BY UnleakedIs DEF TableInv, LocksTypeOK
  <2>2. Way(v, sess[s].stmt) \subseteq OpenVersions
    BY <1>2, WayIsOpen
  <2>3. /\ v \in OpenVersions => Unleaked(e.lt, OpenVersions)
        /\ Unleaked(ReleaseAll(e.lt, v), OpenVersions)
    BY <1>2, <2>1, <2>2, AnswersUnleaked
  <2>4. Unleaked(locks', OpenVersions)
    BY <1>2, <1>4, <2>3
  <2>5. Unleaked(locks', OpenVersions')
    BY <1>2, <2>4, MovesOpen
  <2> QED BY <2>5 DEF NoLeakedLocks, Unleaked
<1>10. NoConflictingHolders'
  <2>1. Compatible(locks)
    BY DEF TableInv, NoConflictingHolders, Compatible
  <2>2. Compatible(e.lt)
    BY <1>2, <2>1 DEF Answers
  <2>3. Compatible(locks')
    BY <1>2, <2>2, ReleaseCompatible
  <2> QED BY <2>3 DEF NoConflictingHolders, Compatible
<1> QED BY <1>7, <1>8, <1>9, <1>10 DEF TableInv

\* The end of a transaction.
LEMMA EndIs ==
  ASSUME TableInv, NEW s \in Sessions, Commit(s) \/ Rollback(s)
  PROVE  LET v == sess[s].v
         IN  /\ Open(s) /\ v \in Versions /\ locks' = ReleaseAll(locks, v)
             /\ keyOwners' = {o \in keyOwners : o[2] # v}
             /\ \A k \in committedKeys' : k \in committedKeys \/ k \in Own(v)
             /\ raced' = raced \cap keyOwners' /\ Leave(v, {}, {})
             /\ sess' = [sess EXCEPT ![s] = Closed] /\ sess'[s] = Closed
             /\ \A t \in Sessions : t # s => sess'[t] = sess[t]
             /\ nextVersion' = nextVersion
<1>1. sess \in [Sessions -> SessStates] /\ (Open(s) => sess[s].v \in Versions)
  BY RowLocksAssumption DEF TableInv, LocksTypeOK, SessStates
<1> QED BY <1>1 DEF Commit, Rollback, EndTx

\* A session with no transaction.
LEMMA ClosedIs ==
  /\ Closed.v = 0 /\ Closed.pc = "idle" /\ Closed.aborted = "no" /\ Closed.frozen = FALSE
  /\ Closed \in SessStates
BY RowLocksAssumption DEF Closed, SessStates, NoMark

\* The end of a transaction keeps TableInv.
LEMMA EndKeepsTable ==
  ASSUME TableInv, NEW s \in Sessions, Commit(s) \/ Rollback(s)
  PROVE  TableInv'
<1> DEFINE v == sess[s].v
<1>1. /\ Open(s) /\ v \in Versions /\ locks' = ReleaseAll(locks, v)
      /\ keyOwners' = {o \in keyOwners : o[2] # v}
      /\ \A k \in committedKeys' : k \in committedKeys \/ k \in Own(v)
      /\ raced' = raced \cap keyOwners' /\ Leave(v, {}, {})
      /\ sess' = [sess EXCEPT ![s] = Closed] /\ sess'[s] = Closed
      /\ \A t \in Sessions : t # s => sess'[t] = sess[t]
      /\ nextVersion' = nextVersion
  BY EndIs
<1>2. OpenVersions' = OpenVersions \ {v}
  <2>1. \A t \in Sessions : sess'[t].v # 0 <=> t # s /\ sess[t].v # 0
    BY <1>1, ClosedIs
  <2>2. \A t \in Sessions : t # s /\ sess[t].v # 0 => sess[t].v # v
    BY <1>1 DEF TableInv, Owned
  <2> QED BY <1>1, <2>1, <2>2 DEF OpenVersions
<1> HIDE DEF v
<1>3. locks' \in Tables
  BY <1>1, ReleaseType DEF TableInv, LocksTypeOK
<1>4. LocksTypeOK'
  <2>1. keyOwners' \subseteq Keys \X Versions /\ raced' \subseteq keyOwners'
    BY <1>1 DEF TableInv, LocksTypeOK
  <2>2. committedKeys' \subseteq Keys
    BY <1>1 DEF TableInv, LocksTypeOK, Own
  <2>3. sess' \in [Sessions -> SessStates]
    BY <1>1, ClosedIs DEF TableInv, LocksTypeOK
  <2>4. left' \in [Versions -> SUBSET Versions]
    BY <1>1, <1>3, LeaveType
  <2> QED BY <1>1, <1>3, <2>1, <2>2, <2>3, <2>4 DEF TableInv, LocksTypeOK
<1>5. Owned'
  <2>1. \A o \in keyOwners' : o[2] \in OpenVersions'
    BY <1>1, <1>2 DEF TableInv, Owned
  <2>2. \A t \in Sessions : sess'[t].v < nextVersion'
    BY <1>1, ClosedIs DEF TableInv, Owned, LocksTypeOK
  <2>3. \A a, t \in Sessions : sess'[a].v # 0 /\ sess'[a].v = sess'[t].v => a = t
    BY <1>1, ClosedIs DEF TableInv, Owned
  <2>4. \A t \in Sessions : sess'[t].pc = "pending" => sess'[t].stmt \in Stmts
    BY <1>1, ClosedIs DEF TableInv, Owned
  <2> QED BY <2>1, <2>2, <2>3, <2>4 DEF Owned
<1>6. NoLeakedLocks'
  <2>1. Unleaked(locks, OpenVersions)
    BY UnleakedIs DEF TableInv
  <2>2. Unleaked(ReleaseAll(locks, v), OpenVersions \ {v})
    BY <2>1, ReleaseUnleaked
  <2>3. Unleaked(locks', OpenVersions')
    BY <1>1, <1>2, <2>2
  <2> QED BY <2>3 DEF NoLeakedLocks, Unleaked
<1>7. NoConflictingHolders'
  <2>1. Compatible(locks)
    BY DEF TableInv, NoConflictingHolders, Compatible
  <2>2. Compatible(locks')
    BY <1>1, <2>1, ReleaseCompatible
  <2> QED BY <2>2 DEF NoConflictingHolders, Compatible
<1> QED BY <1>4, <1>5, <1>6, <1>7 DEF TableInv

\* What BEGIN does: a session nobody knew gets the next version.
LEMMA BeginIs ==
  ASSUME TableInv, NEW s \in Sessions, Begin(s)
  PROVE  /\ nextVersion \in 1 .. MaxVersion /\ sess[s].v = 0
         /\ nextVersion' = nextVersion + 1
         /\ sess' \in [Sessions -> SessStates]
         /\ sess'[s].v = nextVersion /\ sess'[s].pc = "idle" /\ sess'[s].aborted = "no"
         /\ \A t \in Sessions : t # s => sess'[t] = sess[t]
         /\ OpenVersions' = OpenVersions \cup {nextVersion}
<1>1. PICK frozen \in BOOLEAN :
        sess' = [sess EXCEPT ![s] = [Closed EXCEPT !.v = nextVersion, !.frozen = frozen,
                                                   !.seen = committedKeys]]
  BY DEF Begin
<1> DEFINE new == [Closed EXCEPT !.v = nextVersion, !.frozen = frozen, !.seen = committedKeys]
<1>2. /\ nextVersion \in 1 .. MaxVersion /\ sess[s].v = 0 /\ nextVersion' = nextVersion + 1
  BY RowLocksAssumption DEF Begin, TableInv, LocksTypeOK
<1>3. sess \in [Sessions -> SessStates] /\ committedKeys \subseteq Keys
  BY DEF TableInv, LocksTypeOK
<1>4. new.v = nextVersion /\ new.pc = "idle" /\ new.aborted = "no" /\ new \in SessStates
  <2>1. nextVersion \in 0 .. MaxVersion
    BY <1>2, RowLocksAssumption
  <2> QED BY <1>3, <2>1, ClosedIs DEF SessStates
<1> HIDE DEF new
<1>5. sess' = [sess EXCEPT ![s] = new]
  BY <1>1 DEF new
<1>6. sess'[s] = new /\ \A t \in Sessions : t # s => sess'[t] = sess[t]
  BY <1>3, <1>5
<1>7. sess' \in [Sessions -> SessStates]
  BY <1>3, <1>4, <1>5
<1>8. OpenVersions' = OpenVersions \cup {nextVersion}
  <2>1. \A t \in Sessions : sess'[t].v # 0 <=> (t = s \/ sess[t].v # 0)
    BY <1>2, <1>4, <1>6
  <2> QED BY <1>2, <1>4, <1>6, <2>1 DEF OpenVersions
<1> QED BY <1>2, <1>4, <1>6, <1>7, <1>8

\* BEGIN keeps TableInv.
LEMMA BeginKeepsTable ==
  ASSUME TableInv, NEW s \in Sessions, Begin(s)
  PROVE  TableInv'
<1>1. /\ locks' = locks /\ keyOwners' = keyOwners /\ committedKeys' = committedKeys
      /\ raced' = raced /\ left' = left
  BY DEF Begin
<1>2. /\ nextVersion \in 1 .. MaxVersion /\ sess[s].v = 0
      /\ nextVersion' = nextVersion + 1
      /\ sess' \in [Sessions -> SessStates]
      /\ sess'[s].v = nextVersion /\ sess'[s].pc = "idle"
      /\ \A t \in Sessions : t # s => sess'[t] = sess[t]
      /\ OpenVersions' = OpenVersions \cup {nextVersion}
  BY BeginIs
<1>3. \A t \in Sessions : sess[t].v \in Nat
  BY DEF TableInv, LocksTypeOK, SessStates
<1>4. LocksTypeOK'
  <2>1. nextVersion' \in 1 .. (MaxVersion + 1)
    BY <1>2, RowLocksAssumption
  <2> QED BY <1>1, <1>2, <2>1 DEF TableInv, LocksTypeOK
<1>5. Owned'
  <2>1. \A o \in keyOwners' : o[2] \in OpenVersions'
    BY <1>1, <1>2 DEF TableInv, Owned
  <2>2. \A t \in Sessions : sess'[t].v < nextVersion'
    BY <1>2, <1>3 DEF TableInv, Owned
  <2>3. \A a, t \in Sessions : sess'[a].v # 0 /\ sess'[a].v = sess'[t].v => a = t
    BY <1>2, <1>3 DEF TableInv, Owned
  <2>4. \A t \in Sessions : sess'[t].pc = "pending" => sess'[t].stmt \in Stmts
    BY <1>2 DEF TableInv, Owned
  <2> QED BY <2>1, <2>2, <2>3, <2>4 DEF Owned
<1>6. NoLeakedLocks'
  <2>1. Unleaked(locks, OpenVersions)
    BY UnleakedIs DEF TableInv
  <2>2. Unleaked(locks', OpenVersions')
    BY <1>1, <1>2, <2>1 DEF Unleaked
  <2> QED BY <2>2 DEF NoLeakedLocks, Unleaked
<1> QED BY <1>1, <1>4, <1>5, <1>6 DEF TableInv, NoConflictingHolders

\* The session s takes the state new.
LEMMA PutSess ==
  ASSUME TableInv, NEW s \in Sessions, NEW new \in SessStates, new.v = sess[s].v,
         sess' = [sess EXCEPT ![s] = new]
  PROVE  Moves(s) /\ sess'[s] = new
BY DEF Moves, TableInv, LocksTypeOK

\* A statement that ends without the engine: 40001 from the rebase, a timeout
\* or a cancel.
LEMMA StopIs ==
  ASSUME TableInv, NEW s \in Sessions, RebaseFails(s) \/ GiveUp(s)
  PROVE  /\ Moves(s) /\ sess'[s].pc = "idle" /\ sess'[s].frozen = sess[s].frozen
         /\ sess'[s].aborted = sess[s].aborted
         /\ UNCHANGED <<locks, nextVersion, keyOwners, committedKeys, raced>>
         /\ Leave(sess[s].v, Versions, {})
<1>1. sess \in [Sessions -> SessStates]
      /\ sess' = [sess EXCEPT ![s].pc = "idle", ![s].stmt = NoStmt]
  BY DEF RebaseFails, GiveUp, TableInv, LocksTypeOK
<1> DEFINE new == [sess[s] EXCEPT !.pc = "idle", !.stmt = NoStmt]
<1>2. /\ new \in SessStates /\ new.pc = "idle" /\ new.frozen = sess[s].frozen
      /\ new.aborted = sess[s].aborted /\ new.v = sess[s].v
  BY <1>1 DEF SessStates
<1>3. sess' = [sess EXCEPT ![s] = new]
  BY <1>1
<1> HIDE DEF new
<1>4. Moves(s) /\ sess'[s] = new
  BY <1>2, <1>3, PutSess
<1> QED BY <1>2, <1>4 DEF RebaseFails, GiveUp

\* A statement is sent, or retried on other rows.
LEMMA SendIs ==
  ASSUME TableInv, NEW s \in Sessions, Issue(s) \/ Rechoose(s)
  PROVE  /\ Moves(s) /\ sess'[s].pc = "pending" /\ sess'[s].stmt \in Stmts
         /\ sess'[s].frozen = sess[s].frozen /\ sess'[s].aborted = sess[s].aborted
         /\ UNCHANGED <<locks, nextVersion, keyOwners, committedKeys, raced>>
         /\ Issue(s) => sess[s].pc = "idle" /\ left' = left
         /\ Rechoose(s) => Leave(sess[s].v, Versions, {})
<1>1. sess \in [Sessions -> SessStates]
  BY DEF TableInv, LocksTypeOK
<1>2. PICK st \in Stmts : sess' = [sess EXCEPT ![s] = [sess[s] EXCEPT !.pc = "pending",
                                                                     !.stmt = st]]
  <2>1. CASE Issue(s)
    <3>1. PICK st \in Stmts : sess' = [sess EXCEPT ![s].pc = "pending", ![s].stmt = st]
      BY <2>1 DEF Issue
    <3> QED BY <1>1, <3>1
  <2>2. CASE Rechoose(s)
    <3>1. PICK st \in Stmts : sess' = [sess EXCEPT ![s].stmt = st]
      BY <2>2 DEF Rechoose
    <3>2. sess[s].pc = "pending" /\ sess[s] \in SessStates
      BY <1>1, <2>2 DEF Rechoose
    <3>3. [sess[s] EXCEPT !.stmt = st] = [sess[s] EXCEPT !.pc = "pending", !.stmt = st]
      BY <3>2 DEF SessStates
    <3> QED BY <1>1, <3>1, <3>3
  <2> QED BY <2>1, <2>2
<1>3. /\ Moves(s) /\ sess'[s].pc = "pending" /\ sess'[s].stmt \in Stmts
      /\ sess'[s].frozen = sess[s].frozen /\ sess'[s].aborted = sess[s].aborted
  BY <1>1, <1>2 DEF Moves, SessStates
<1> QED BY <1>3 DEF Issue, Rechoose

\* A block is poisoned or gets a savepoint.
LEMMA NoteIs ==
  ASSUME TableInv, NEW s \in Sessions, Poison(s) \/ Savepoint(s)
  PROVE  /\ Moves(s) /\ sess'[s].pc = "idle" /\ sess[s].pc = "idle"
         /\ (sess[s].frozen => sess'[s].frozen) /\ sess'[s].aborted = sess[s].aborted
         /\ UNCHANGED <<locks, nextVersion, keyOwners, committedKeys, raced, left>>
<1>1. sess \in [Sessions -> SessStates] /\ committedKeys \subseteq Keys
      /\ Own(sess[s].v) \subseteq Keys
  BY DEF TableInv, LocksTypeOK, Own
<1>2. CASE Poison(s)
  <2>1. sess' = [sess EXCEPT ![s].frozen = TRUE, ![s].seen = committedKeys] /\ sess[s].pc = "idle"
    BY <1>2 DEF Poison
  <2> DEFINE new == [sess[s] EXCEPT !.frozen = TRUE, !.seen = committedKeys]
  <2>2. /\ new \in SessStates /\ new.pc = "idle" /\ new.frozen = TRUE
        /\ new.aborted = sess[s].aborted /\ new.v = sess[s].v
    BY <1>1, <2>1 DEF SessStates
  <2>3. sess' = [sess EXCEPT ![s] = new]
    BY <1>1, <2>1
  <2> HIDE DEF new
  <2>4. Moves(s) /\ sess'[s] = new
    BY <2>2, <2>3, PutSess
  <2> QED BY <1>2, <2>1, <2>2, <2>4 DEF Poison
<1>3. CASE Savepoint(s)
  <2>1. sess' = [sess EXCEPT ![s].mark = [on |-> TRUE, keys |-> Own(sess[s].v),
                                          seen |-> sess[s].seen]] /\ sess[s].pc = "idle"
    BY <1>3 DEF Savepoint
  <2> DEFINE mark == [on |-> TRUE, keys |-> Own(sess[s].v), seen |-> sess[s].seen]
             new == [sess[s] EXCEPT !.mark = mark]
  <2>2. /\ new \in SessStates /\ new.pc = "idle" /\ new.frozen = sess[s].frozen
        /\ new.aborted = sess[s].aborted /\ new.v = sess[s].v
    BY <1>1, <2>1 DEF SessStates
  <2>3. sess' = [sess EXCEPT ![s] = new]
    BY <1>1, <2>1
  <2> HIDE DEF new, mark
  <2>4. Moves(s) /\ sess'[s] = new
    BY <2>2, <2>3, PutSess
  <2> QED BY <1>3, <2>1, <2>2, <2>4 DEF Savepoint
<1> QED BY <1>2, <1>3

\* ROLLBACK TO.
LEMMA BackIs ==
  ASSUME TableInv, NEW s \in Sessions, RollbackTo(s)
  PROVE  LET v    == sess[s].v
             back == sess[s].mark.keys \ Own(v)
         IN  /\ Moves(s) /\ sess'[s].pc = "idle" /\ sess[s].pc = "idle"
             /\ sess'[s].frozen = sess[s].frozen /\ sess'[s].aborted = "no"
             /\ Open(s) /\ v \in Versions /\ sess[s].mark.keys \subseteq Keys
             /\ keyOwners' = {o \in keyOwners : o[2] # v} \cup Owners(sess[s].mark.keys, v)
             /\ raced' = (raced \cup Races(v, back) \cup Owners(back \cap committedKeys, v))
                           \cap keyOwners'
             /\ UNCHANGED <<locks, nextVersion, committedKeys>>
             /\ Leave(v, {}, Own(v) \ sess[s].mark.keys)
<1>1. sess \in [Sessions -> SessStates] /\ sess[s].mark.keys \subseteq Keys
      /\ sess[s].mark.seen \subseteq Keys
  BY DEF TableInv, LocksTypeOK, SessStates
<1>2. sess' = [sess EXCEPT ![s].aborted = "no", ![s].seen = sess[s].mark.seen]
      /\ sess[s].pc = "idle" /\ Open(s)
  BY DEF RollbackTo
<1>3. sess[s].v \in Versions
  BY <1>1, <1>2, RowLocksAssumption DEF SessStates
<1> DEFINE new == [sess[s] EXCEPT !.aborted = "no", !.seen = sess[s].mark.seen]
<1>4. /\ new \in SessStates /\ new.pc = "idle" /\ new.frozen = sess[s].frozen
      /\ new.aborted = "no" /\ new.v = sess[s].v
  BY <1>1, <1>2 DEF SessStates
<1>5. sess' = [sess EXCEPT ![s] = new]
  BY <1>1, <1>2
<1> HIDE DEF new
<1>6. Moves(s) /\ sess'[s] = new
  BY <1>4, <1>5, PutSess
<1> QED BY <1>1, <1>2, <1>3, <1>4, <1>6 DEF RollbackTo

\* These keep TableInv.
LEMMA OthersKeepTable ==
  ASSUME TableInv, NEW s \in Sessions,
         RebaseFails(s) \/ GiveUp(s) \/ Issue(s) \/ Rechoose(s) \/ Poison(s) \/ Savepoint(s)
           \/ RollbackTo(s)
  PROVE  TableInv'
<1>1. locks \in Tables /\ left \in [Versions -> SUBSET Versions]
  BY DEF TableInv, LocksTypeOK
<1>2. \A o \in keyOwners : o \in Keys \X Versions /\ o[2] \in OpenVersions
  BY DEF TableInv, LocksTypeOK, Owned
<1>3. raced \subseteq keyOwners
  BY DEF TableInv, LocksTypeOK
<1>4. CASE RebaseFails(s) \/ GiveUp(s)
  <2>1. /\ Moves(s) /\ sess'[s].pc = "idle"
        /\ UNCHANGED <<locks, nextVersion, keyOwners, committedKeys, raced>>
        /\ Leave(sess[s].v, Versions, {})
    BY <1>4, StopIs
  <2>2. left' \in [Versions -> SUBSET Versions]
    BY <1>1, <2>1, LeaveType
  <2> QED BY <1>2, <1>3, <2>1, <2>2, QuietKeepsTable
<1>5. CASE Issue(s) \/ Rechoose(s)
  <2>1. /\ Moves(s) /\ sess'[s].stmt \in Stmts
        /\ UNCHANGED <<locks, nextVersion, keyOwners, committedKeys, raced>>
        /\ left' = left \/ Leave(sess[s].v, Versions, {})
    BY <1>5, SendIs
  <2>2. left' \in [Versions -> SUBSET Versions]
    BY <1>1, <2>1, LeaveType
  <2> QED BY <1>2, <1>3, <2>1, <2>2, QuietKeepsTable
<1>6. CASE Poison(s) \/ Savepoint(s)
  <2>1. /\ Moves(s) /\ sess'[s].pc = "idle"
        /\ UNCHANGED <<locks, nextVersion, keyOwners, committedKeys, raced, left>>
    BY <1>6, NoteIs
  <2> QED BY <1>1, <1>2, <1>3, <2>1, QuietKeepsTable
<1>7. CASE RollbackTo(s)
  <2> DEFINE v == sess[s].v
  <2>1. /\ Moves(s) /\ sess'[s].pc = "idle" /\ Open(s)
        /\ v \in Versions /\ sess[s].mark.keys \subseteq Keys
        /\ keyOwners' = {o \in keyOwners : o[2] # v} \cup Owners(sess[s].mark.keys, v)
        /\ raced' \subseteq keyOwners'
        /\ UNCHANGED <<locks, nextVersion, committedKeys>>
        /\ Leave(v, {}, Own(v) \ sess[s].mark.keys)
    BY <1>7, BackIs
  <2>2. left' \in [Versions -> SUBSET Versions]
    BY <1>1, <2>1, LeaveType
  <2>3. v \in OpenVersions
    BY <2>1 DEF OpenVersions
  <2> HIDE DEF v
  <2>4. \A o \in keyOwners' : o \in Keys \X Versions /\ o[2] \in OpenVersions
    BY <1>2, <2>1, <2>3 DEF Owners
  <2> QED BY <2>1, <2>2, <2>4, QuietKeepsTable
<1> QED BY <1>4, <1>5, <1>6, <1>7

\* TableInv holds.
LEMMA TableInvHolds == LocksSpec => []TableInv
<1>1. LocksInit => TableInv
  <2> SUFFICES ASSUME LocksInit PROVE TableInv
    OBVIOUS
  <2>1. /\ locks = EmptyTable /\ nextVersion = 1 /\ keyOwners = {} /\ committedKeys = {}
        /\ raced = {} /\ left \in [Versions -> SUBSET Versions]
        /\ sess \in [Sessions -> {Closed}]
    BY DEF LocksInit, Init
  <2>2. \A s \in Sessions : sess[s] = Closed
    BY <2>1
  <2>3. LocksTypeOK
    <3>1. EmptyTable \in Tables
      BY DEF EmptyTable, Tables
    <3> QED BY <2>1, <3>1, ClosedIs, RowLocksAssumption DEF LocksTypeOK
  <2>4. Owned
    BY <2>1, <2>2, ClosedIs DEF Owned
  <2>5. NoLeakedLocks /\ NoConflictingHolders
    BY <2>1 DEF NoLeakedLocks, NoConflictingHolders, EmptyTable
  <2> QED BY <2>3, <2>4, <2>5 DEF TableInv
<1>2. TableInv /\ [LocksNext]_vars => TableInv'
  <2> SUFFICES ASSUME TableInv, [LocksNext]_vars PROVE TableInv'
    OBVIOUS
  <2>1. CASE UNCHANGED vars
    <3>1. LocksTypeOK'
      BY <2>1 DEF vars, TableInv, LocksTypeOK
    <3>2. OpenVersions' = OpenVersions
      BY <2>1 DEF vars, OpenVersions
    <3>3. Owned'
      BY <2>1, <3>2 DEF vars, TableInv, Owned
    <3>4. NoLeakedLocks' /\ NoConflictingHolders'
      BY <2>1, <3>2 DEF vars, TableInv, NoLeakedLocks, NoConflictingHolders
    <3> QED BY <3>1, <3>3, <3>4 DEF TableInv
  <2>2. ASSUME NEW s \in Sessions,
               \/ Attempt(s) \/ RebaseFails(s) \/ Rechoose(s) \/ GiveUp(s)
               \/ Begin(s) \/ Issue(s) \/ Poison(s) \/ Savepoint(s) \/ RollbackTo(s)
               \/ Commit(s) \/ Rollback(s)
        PROVE  TableInv'
    BY <2>2, AttemptKeepsTable, BeginKeepsTable, EndKeepsTable, OthersKeepTable
  <2> QED BY <2>1, <2>2 DEF LocksNext
<1> QED BY <1>1, <1>2, PTL DEF LocksSpec

\* The lock table, the sessions of the retry loop and the key bookkeeping
\* keep their types, whatever rows a statement walks and wherever it stops;
\* no block is aborted because it had to wait.
THEOREM LocksTypes == LocksSpec => []LocksTypeOK
<1>1. TableInv => LocksTypeOK
  BY DEF TableInv
<1> QED BY <1>1, TableInvHolds, PTL

\* Nothing in the lock table outlives its owner: a blocked statement keeps
\* what it took, but only in the name of an open transaction, and the end of
\* a transaction or of an autocommit statement removes every trace of it.
THEOREM LocksDieWithTheirOwner == LocksSpec => []NoLeakedLocks
<1>1. TableInv => NoLeakedLocks
  BY DEF TableInv
<1> QED BY <1>1, TableInvHolds, PTL

\* Mutual exclusion among the sessions: statements that take several rows
\* under one guard and stop half-way never hold a row in a mode that
\* conflicts with another session's.
THEOREM SessionsExcludeEachOther == LocksSpec => []NoConflictingHolders
<1>1. TableInv => NoConflictingHolders
  BY DEF TableInv
<1> QED BY <1>1, TableInvHolds, PTL

---------------------------------------------------------------------------
(* Unique keys.                                                            *)

\* No version is 0, and the next one is nobody's yet.
LEMMA NextIsFree ==
  ASSUME TableInv
  PROVE  /\ 0 \notin Versions
         /\ nextVersion \notin OpenVersions
         /\ \A s \in Sessions : Open(s) => sess[s].v \in Versions /\ sess[s].v # nextVersion
         /\ \A r \in Rows : \A h \in locks.holders[r] : h[1] \in OpenVersions
         /\ nextVersion \in Versions => locks.waitFor[nextVersion] = {}
<1>1. \A s \in Sessions : sess[s].v # nextVersion
  BY RowLocksAssumption DEF TableInv, Owned, LocksTypeOK, SessStates
<1>2. nextVersion \notin OpenVersions
  BY <1>1 DEF OpenVersions
<1>3. \A s \in Sessions : Open(s) => sess[s].v \in Versions
  BY RowLocksAssumption DEF TableInv, LocksTypeOK, SessStates
<1>4. Unleaked(locks, OpenVersions)
  BY UnleakedIs DEF TableInv
<1> QED BY <1>1, <1>2, <1>3, <1>4, RowLocksAssumption DEF Unleaked

\* An owner of a key, and who races when v takes the keys K.
LEMMA OwnerIs ==
  ASSUME TableInv, NEW v, NEW K
  PROVE  /\ \A o \in keyOwners : /\ o[1] \in Keys /\ o[2] \in Versions /\ o = <<o[1], o[2]>>
                                 /\ o[2] # v => o[2] \in Rivals(v, o[1])
         /\ \A o \in keyOwners : o[1] \in K /\ o[2] # v => o \in Races(v, K)
         /\ v \in Versions => \A k \in K \cap Keys : Rivals(v, k) # {} => <<k, v>> \in Races(v, K)
<1>1. \A o \in keyOwners : /\ o \in Keys \X Versions
                           /\ o[1] \in Keys /\ o[2] \in Versions /\ o = <<o[1], o[2]>>
  BY DEF TableInv, LocksTypeOK
<1>2. \A o \in keyOwners : o[2] # v => o[2] \in Rivals(v, o[1])
  BY <1>1 DEF Rivals
<1>3. \A o \in keyOwners : o[1] \in K /\ o[2] # v => o \in Races(v, K)
  BY <1>1, <1>2 DEF Races
<1>4. ASSUME v \in Versions, NEW k \in K \cap Keys, Rivals(v, k) # {}
      PROVE  <<k, v>> \in Races(v, K)
  <2>1. <<k, v>> \in Keys \X Versions /\ <<k, v>>[1] = k /\ <<k, v>>[2] = v
    BY <1>4
  <2> QED BY <1>4, <2>1 DEF Races
<1> QED BY <1>1, <1>2, <1>3, <1>4

\* A session that moves and does not thaw thaws no version.
LEMMA MovesFrozen ==
  ASSUME NEW s \in Sessions, Moves(s), sess[s].frozen => sess'[s].frozen
  PROVE  FrozenVersions \subseteq FrozenVersions'
<1> SUFFICES ASSUME NEW t \in Sessions, sess[t].v # 0, sess[t].frozen
             PROVE  sess'[t].v = sess[t].v /\ sess'[t].frozen
  BY DEF FrozenVersions
<1> QED BY DEF Moves

\* Keys after an attempt: what it took it waited for, or both sides race.
LEMMA AttemptKeepsKeys ==
  ASSUME TableInv, FirstWriterOwnsKey, NEW s \in Sessions, Attempt(s)
  PROVE  FirstWriterOwnsKey'
<1>1. PICK e, out, takes, frees, jumps : AttemptIs(s, e, out, takes, frees, jumps)
  BY AttemptCases
<1> DEFINE v == Runs(s)
<1>2. /\ v \in Versions /\ takes \subseteq Keys /\ takes \cap Shadow(s) = {}
      /\ \A k \in takes \ jumps : Rivals(v, k) = {}
      /\ keyOwners' = (keyOwners \ Owners(frees, v))
                        \cup (IF Open(s) THEN Owners(takes, v) ELSE {})
      /\ committedKeys' = committedKeys \cup (IF Open(s) THEN {} ELSE takes)
      /\ raced' = (raced \cup Races(v, jumps)) \cap keyOwners'
      /\ Moves(s) /\ sess'[s].frozen = sess[s].frozen
  BY <1>1 DEF AttemptIs
<1>3. FrozenVersions \subseteq FrozenVersions'
  BY <1>2, MovesFrozen
<1>4. Open(s) => v = sess[s].v
  BY DEF Runs
<1>5. ~Open(s) => \A o \in keyOwners : o[2] # v
  BY NextIsFree DEF Runs, TableInv, Owned
<1> HIDE DEF v
<1>6. \A o \in keyOwners : /\ o[1] \in Keys /\ o[2] \in Versions /\ o = <<o[1], o[2]>>
                           /\ o[2] # v => o[2] \in Rivals(v, o[1])
  BY OwnerIs
<1>7. \A o \in keyOwners : o[1] \in jumps /\ o[2] # v => o \in Races(v, jumps)
  BY OwnerIs
<1>8. \A k \in jumps \cap Keys : Rivals(v, k) # {} => <<k, v>> \in Races(v, jumps)
  BY <1>2, OwnerIs
<1>9. \A o \in keyOwners : o[2] # v /\ o[1] \in takes => o[1] \in jumps /\ o \in Races(v, jumps)
  BY <1>2, <1>6, <1>7
<1>10. \A o \in Owners(takes, v) : o[1] \in takes /\ o[2] = v /\ o = <<o[1], v>>
  BY DEF Owners
<1> SUFFICES ASSUME NEW o \in keyOwners' \ raced'
             PROVE  /\ o[1] \in committedKeys' => o[2] \in FrozenVersions'
                    /\ \A p \in keyOwners' : p[1] = o[1] => p = o
  BY DEF FirstWriterOwnsKey
<1>11. CASE o \in keyOwners
  <2>1. /\ o \notin raced /\ o \notin Races(v, jumps)
    BY <1>2
  <2>2. /\ o[1] \in committedKeys => o[2] \in FrozenVersions
        /\ \A p \in keyOwners : p[1] = o[1] => p = o
    BY <1>11, <2>1 DEF FirstWriterOwnsKey
  <2>3. o[1] \in takes => o[2] = v
    BY <1>9, <1>11, <2>1
  <2>4. o[1] \in committedKeys' => o[2] \in FrozenVersions'
    BY <1>2, <1>3, <1>5, <1>11, <2>2, <2>3
  <2>5. ASSUME NEW p \in keyOwners', p[1] = o[1] PROVE p = o
    <3>1. CASE p \in keyOwners
      BY <2>2, <2>5, <3>1
    <3>2. CASE p \in Owners(takes, v)
      BY <1>6, <1>10, <1>11, <2>3, <2>5, <3>2
    <3> QED BY <1>2, <3>1, <3>2
  <2> QED BY <2>4, <2>5
<1>12. CASE o \notin keyOwners
  <2>1. Open(s) /\ o \in Owners(takes, v) /\ o \notin Races(v, jumps)
    BY <1>2, <1>12
  <2>2. o[1] \in takes /\ o[2] = v /\ o = <<o[1], v>> /\ o[1] \in Keys
    BY <1>2, <1>10, <2>1
  <2>3. o[1] \in committedKeys' => o[2] \in FrozenVersions'
    <3>1. o[1] \notin Shadow(s)
      BY <1>2, <2>2
    <3>2. o[1] \in committedKeys => sess[s].frozen
      BY <3>1 DEF Shadow
    <3>3. sess[s].frozen => v \in FrozenVersions
      BY <1>4, <2>1 DEF FrozenVersions
    <3> QED BY <1>2, <1>3, <2>1, <2>2, <3>2, <3>3
  <2>4. Rivals(v, o[1]) = {}
    <3>1. CASE o[1] \in jumps
      BY <1>8, <2>1, <2>2, <3>1
    <3>2. CASE o[1] \notin jumps
      BY <1>2, <2>2, <3>2
    <3> QED BY <3>1, <3>2
  <2>5. ASSUME NEW p \in keyOwners', p[1] = o[1] PROVE p = o
    <3>1. CASE p \in keyOwners
      BY <1>6, <2>2, <2>4, <2>5, <3>1
    <3>2. CASE p \in Owners(takes, v)
      BY <1>10, <2>2, <2>5, <3>2
    <3> QED BY <1>2, <3>1, <3>2
  <2> QED BY <2>3, <2>5
<1> QED BY <1>11, <1>12

\* The end of a transaction: what it commits nobody else owned.
LEMMA EndKeepsKeys ==
  ASSUME TableInv, FirstWriterOwnsKey, NEW s \in Sessions, Commit(s) \/ Rollback(s)
  PROVE  FirstWriterOwnsKey'
<1> DEFINE v == sess[s].v
<1>1. /\ keyOwners' = {o \in keyOwners : o[2] # v}
      /\ \A k \in committedKeys' : k \in committedKeys \/ k \in Own(v)
      /\ raced' = raced \cap keyOwners'
      /\ \A t \in Sessions : t # s => sess'[t] = sess[t]
  BY EndIs
<1>2. FrozenVersions \ {v} \subseteq FrozenVersions'
  <2> SUFFICES ASSUME NEW t \in Sessions, sess[t].v # 0, sess[t].frozen, sess[t].v # v
               PROVE  sess'[t].v = sess[t].v /\ sess'[t].frozen
    BY DEF FrozenVersions
  <2> QED BY <1>1
<1> HIDE DEF v
<1> SUFFICES ASSUME NEW o \in keyOwners' \ raced'
             PROVE  /\ o[1] \in committedKeys' => o[2] \in FrozenVersions'
                    /\ \A p \in keyOwners' : p[1] = o[1] => p = o
  BY DEF FirstWriterOwnsKey
<1>3. o \in keyOwners /\ o \notin raced /\ o[2] # v
  BY <1>1
<1>4. /\ o[1] \in committedKeys => o[2] \in FrozenVersions
      /\ \A p \in keyOwners : p[1] = o[1] => p = o
  BY <1>3 DEF FirstWriterOwnsKey
<1>5. o[1] \notin Own(v)
  <2> SUFFICES ASSUME o[1] \in Own(v) PROVE FALSE
    OBVIOUS
  <2>1. <<o[1], v>> \in keyOwners /\ <<o[1], v>>[1] = o[1] /\ <<o[1], v>>[2] = v
    BY DEF Own
  <2> QED BY <1>3, <1>4, <2>1
<1> QED BY <1>1, <1>2, <1>3, <1>4, <1>5

\* ROLLBACK TO: the keys that come back race with whoever took them since.
LEMMA BackKeepsKeys ==
  ASSUME TableInv, FirstWriterOwnsKey, NEW s \in Sessions, RollbackTo(s)
  PROVE  FirstWriterOwnsKey'
<1> DEFINE v == sess[s].v
           K == sess[s].mark.keys
           back == K \ Own(v)
<1>1. /\ Moves(s) /\ sess'[s].frozen = sess[s].frozen /\ v \in Versions /\ K \subseteq Keys
      /\ keyOwners' = {o \in keyOwners : o[2] # v} \cup Owners(K, v)
      /\ raced' = (raced \cup Races(v, back) \cup Owners(back \cap committedKeys, v))
                    \cap keyOwners'
      /\ committedKeys' = committedKeys
  BY BackIs
<1>2. FrozenVersions \subseteq FrozenVersions'
  BY <1>1, MovesFrozen
<1>3. \A k \in Own(v) : <<k, v>> \in keyOwners
  BY DEF Own
<1>4. \A k \in back : k \in K /\ k \in Keys /\ k \notin Own(v)
  BY <1>1
<1>5. \A k \in K : k \in back \/ k \in Own(v)
  OBVIOUS
<1> HIDE DEF v, K, back
<1>6. \A o \in keyOwners : /\ o[1] \in Keys /\ o[2] \in Versions /\ o = <<o[1], o[2]>>
                           /\ o[2] # v => o[2] \in Rivals(v, o[1])
  BY OwnerIs
<1>7. \A o \in keyOwners : o[1] \in back /\ o[2] # v => o \in Races(v, back)
  BY OwnerIs
<1>8. \A k \in back : Rivals(v, k) # {} => <<k, v>> \in Races(v, back)
  BY <1>1, <1>4, OwnerIs
<1>9. \A o \in Owners(K, v) : o[1] \in K /\ o[2] = v /\ o = <<o[1], v>>
  BY DEF Owners
<1> SUFFICES ASSUME NEW o \in keyOwners' \ raced'
             PROVE  /\ o[1] \in committedKeys' => o[2] \in FrozenVersions'
                    /\ \A p \in keyOwners' : p[1] = o[1] => p = o
  BY DEF FirstWriterOwnsKey
<1>10. o \notin raced /\ o \notin Races(v, back) /\ o \notin Owners(back \cap committedKeys, v)
  BY <1>1
<1>11. CASE o \in keyOwners
  <2>1. /\ o[1] \in committedKeys => o[2] \in FrozenVersions
        /\ \A p \in keyOwners : p[1] = o[1] => p = o
    BY <1>10, <1>11 DEF FirstWriterOwnsKey
  <2>2. ASSUME NEW p \in Owners(K, v), p[1] = o[1] PROVE p = o
    <3>1. p[1] \in K /\ p = <<p[1], v>>
      BY <1>9, <2>2
    <3>2. CASE p[1] \in Own(v)
      BY <1>3, <2>1, <2>2, <3>1, <3>2
    <3>3. CASE p[1] \in back
      <4>1. o[2] = v
        BY <1>7, <1>10, <1>11, <2>2, <3>3
      <4> QED BY <1>6, <1>11, <2>2, <3>1, <4>1
    <3> QED BY <1>5, <3>1, <3>2, <3>3
  <2> QED BY <1>1, <1>2, <2>1, <2>2
<1>12. CASE o \notin keyOwners
  <2>1. o \in Owners(K, v)
    BY <1>1, <1>12
  <2>2. o[1] \in K /\ o[2] = v /\ o = <<o[1], v>>
    BY <1>9, <2>1
  <2>3. o[1] \in back
    BY <1>3, <1>5, <1>12, <2>2
  <2>4. o[1] \notin committedKeys
    BY <1>10, <2>2, <2>3 DEF Owners
  <2>5. Rivals(v, o[1]) = {}
    BY <1>8, <1>10, <2>2, <2>3
  <2>6. ASSUME NEW p \in keyOwners', p[1] = o[1] PROVE p = o
    <3>1. CASE p \in keyOwners /\ p[2] # v
      BY <1>6, <2>5, <2>6, <3>1
    <3>2. CASE p \in Owners(K, v)
      BY <1>9, <2>2, <2>6, <3>2
    <3> QED BY <1>1, <3>1, <3>2
  <2> QED BY <1>1, <2>4, <2>6
<1> QED BY <1>11, <1>12

\* The first writer of a unique key owns it until its transaction ends: the
\* wait for other transactions and the probe of the statement's own catalog
\* leave no way for a second uncommitted owner, nor for an owner of a key that
\* is committed, but the two FirstWriterOwnsKey names: a race with a key nobody
\* waited for, and an owner frozen on an older catalog.
THEOREM KeysHaveOneOwner == LocksSpec => []FirstWriterOwnsKey
<1>1. LocksInit => FirstWriterOwnsKey
  BY DEF LocksInit, FirstWriterOwnsKey
<1>2. TableInv /\ FirstWriterOwnsKey /\ [LocksNext]_vars => FirstWriterOwnsKey'
  <2> SUFFICES ASSUME TableInv, FirstWriterOwnsKey, [LocksNext]_vars
               PROVE  FirstWriterOwnsKey'
    OBVIOUS
  <2>1. ASSUME FrozenVersions \subseteq FrozenVersions', keyOwners' = keyOwners,
               committedKeys' = committedKeys, raced' = raced
        PROVE  FirstWriterOwnsKey'
    BY <2>1 DEF FirstWriterOwnsKey
  <2>2. ASSUME NEW s \in Sessions,
               RebaseFails(s) \/ GiveUp(s) \/ Issue(s) \/ Rechoose(s) \/ Poison(s) \/ Savepoint(s)
        PROVE  FirstWriterOwnsKey'
    <3>1. /\ Moves(s) /\ (sess[s].frozen => sess'[s].frozen)
          /\ keyOwners' = keyOwners /\ committedKeys' = committedKeys /\ raced' = raced
      BY <2>2, StopIs, SendIs, NoteIs
    <3> QED BY <2>1, <3>1, MovesFrozen
  <2>3. ASSUME NEW s \in Sessions, Begin(s) PROVE FirstWriterOwnsKey'
    <3>1. sess[s].v = 0 /\ \A t \in Sessions : t # s => sess'[t] = sess[t]
      BY <2>3, BeginIs
    <3>2. FrozenVersions \subseteq FrozenVersions'
      <4> SUFFICES ASSUME NEW t \in Sessions, sess[t].v # 0, sess[t].frozen
                   PROVE  sess'[t].v = sess[t].v /\ sess'[t].frozen
        BY DEF FrozenVersions
      <4> QED BY <3>1
    <3> QED BY <2>1, <2>3, <3>2 DEF Begin
  <2>4. CASE UNCHANGED vars
    BY <2>1, <2>4 DEF vars, FrozenVersions
  <2> QED BY <2>2, <2>3, <2>4, AttemptKeepsKeys, EndKeepsKeys, BackKeepsKeys DEF LocksNext
<1> QED BY <1>1, <1>2, TableInvHolds, PTL DEF LocksSpec

---------------------------------------------------------------------------
(* Deadlock victims.                                                       *)

\* A cycle of a graph is a cycle of every graph that has its edges.
LEMMA CyclesGrow ==
  ASSUME NEW G \in [Versions -> SUBSET Versions], NEW H \in [Versions -> SUBSET Versions],
         \A u \in Versions : G[u] \subseteq H[u], NEW v, Cycles(G, v) # {}
  PROVE  Cycles(H, v) # {}
<1>1. Waiting(G) \subseteq Waiting(H) /\ Waiting(H) \subseteq Versions
  BY DEF Waiting
<1>2. IsFiniteSet(Waiting(H))
  <2>1. IsFiniteSet(1 .. (MaxVersion + 1))
    BY RowLocksAssumption, FS_Interval
  <2> QED BY <1>1, <2>1, RowLocksAssumption, FS_Subset
<1>3. /\ Cardinality(Waiting(G)) <= Cardinality(Waiting(H))
      /\ Cardinality(Waiting(G)) \in Nat /\ Cardinality(Waiting(H)) \in Nat
  BY <1>1, <1>2, FS_Subset, FS_CardinalityType
<1> DEFINE IsCycle(p) == /\ p[1] = v
                         /\ \A i, j \in DOMAIN p : p[i] = p[j] => i = j
                         /\ \A i \in 1..(Len(p) - 1) : p[i + 1] \in G[p[i]]
                         /\ v \in G[p[Len(p)]]
<1>4a. PICK n \in 1 .. Cardinality(Waiting(G)) : \E p \in [1 .. n -> Waiting(G)] : IsCycle(p)
  BY DEF Cycles
<1>4. PICK p \in [1 .. n -> Waiting(G)] : IsCycle(p)
  BY <1>4a
<1>5. Len(p) = n /\ n \in 1 .. Cardinality(Waiting(H)) /\ p \in [1 .. n -> Waiting(H)]
  BY <1>1, <1>3, <1>4
<1>6. \A i \in 1 .. n : p[i] \in Versions
  BY <1>1, <1>5
<1>7. /\ \A i \in 1..(Len(p) - 1) : p[i + 1] \in H[p[i]]
      /\ v \in H[p[Len(p)]]
  BY <1>3, <1>4, <1>5, <1>6
<1>8. p \in Cycles(H, v)
  BY <1>4, <1>5, <1>7 DEF Cycles
<1> QED BY <1>8

\* Every wait edge is explained by what its owner waits for now, or is one of
\* those a wait that is over left behind.
Explained(s) ==
  locks.waitFor[sess[s].v] \subseteq
    left[sess[s].v] \cup (IF sess[s].pc = "pending" THEN Way(sess[s].v, sess[s].stmt) ELSE {})

WaitsInv == \A s \in Sessions : Open(s) => Explained(s)

\* Who holds a row of the walk stays in the way while it keeps its locks.
LEMMA BehindStays ==
  ASSUME NEW lt, NEW t, NEW v, NEW st \in Stmts, NEW w \in Behind(lt, v, st),
         \A r \in Rows : \A h \in lt.holders[r] : h[1] = w => h \in t.holders[r]
  PROVE  w \in Behind(t, v, st)
<1>1. IsWalk(st)
  BY StmtsAssumption DEF StmtOK, IsWalk
<1>2. PICK i \in DOMAIN st.rows, m \in Modes :
        <<w, m>> \in lt.holders[st.rows[i]] /\ ConflictsWith(m, st.mode)
  BY DEF Behind
<1>3. st.rows[i] \in Rows /\ <<w, m>>[1] = w
  BY <1>1, <1>2 DEF IsWalk
<1>4. <<w, m>> \in t.holders[st.rows[i]]
  BY <1>2, <1>3
<1> QED BY <1>2, <1>4 DEF Behind

\* Who is in the way stays there while it keeps its locks and its keys.
LEMMA WayStays ==
  ASSUME NEW lt, NEW t, NEW ow, NEW on, NEW v, NEW st \in Stmts, NEW w \in WayIn(lt, ow, v, st),
         \A r \in Rows : \A h \in lt.holders[r] : h[1] = w => h \in t.holders[r],
         \A o \in ow : o[2] = w => o \in on
  PROVE  w \in WayIn(t, on, v, st)
<1>1. CASE w \in Behind(lt, v, st)
  BY <1>1, BehindStays DEF WayIn
<1>2. CASE w \in Versions /\ w # v /\ \E k \in st.claims : <<k, w>> \in ow
  <2>1. PICK k \in st.claims : <<k, w>> \in ow
    BY <1>2
  <2>2. <<k, w>>[2] = w
    OBVIOUS
  <2> QED BY <1>2, <2>1, <2>2 DEF WayIn
<1> QED BY <1>1, <1>2 DEF WayIn

\* The edges of the session t, which takes no part in a step of version x,
\* stay explained: x only adds locks and frees the keys it says, or it ends and
\* takes its edges along.
LEMMA BystanderKeeps ==
  ASSUME TableInv, WaitsInv, NEW t \in Sessions, Open(t), sess'[t] = sess[t],
         NEW x, NEW over, NEW freed, Leave(x, over, freed),
         locks'.waitFor[sess[t].v] \subseteq locks.waitFor[sess[t].v],
         \A r \in Rows : \A h \in locks.holders[r] : h[1] # x => h \in locks'.holders[r],
         \A o \in keyOwners : o[2] # x => o \in keyOwners',
         \/ x \notin locks'.waitFor[sess[t].v]
         \/ /\ \A r \in Rows : locks.holders[r] \subseteq locks'.holders[r]
            /\ \A o \in keyOwners : o \in keyOwners' \/ o[1] \in freed
  PROVE  Explained(t)'
<1> DEFINE u == sess[t].v
           st == sess[t].stmt
<1>1. /\ sess'[t].v = u /\ sess'[t].stmt = st /\ sess'[t].pc = sess[t].pc
      /\ u \in Versions /\ (sess[t].pc = "pending" => st \in Stmts)
  BY NextIsFree DEF TableInv, Owned
<1>2. left'[u] = locks'.waitFor[u] \cap
                   (left[u] \cup (IF u = x THEN over ELSE {})
                            \cup (IF u \in Wanting(freed) THEN {x} ELSE {}))
  BY <1>1 DEF Leave
<1>3. sess[t].pc = "pending" /\ st.claims \cap freed # {} => u \in Wanting(freed)
  BY DEF Wanting
<1>4. locks.waitFor[u] \subseteq
        left[u] \cup (IF sess[t].pc = "pending" THEN WayIn(locks, keyOwners, u, st) ELSE {})
  BY DEF WaitsInv, Explained, Way
<1>5. locks'.waitFor[u] \subseteq locks.waitFor[u]
  OBVIOUS
<1>6. \/ x \notin locks'.waitFor[u]
      \/ /\ \A r \in Rows : locks.holders[r] \subseteq locks'.holders[r]
         /\ \A o \in keyOwners : o \in keyOwners' \/ o[1] \in freed
  OBVIOUS
<1> HIDE DEF u, st
<1> SUFFICES ASSUME NEW w \in locks'.waitFor[u], w \notin left'[u]
             PROVE  sess[t].pc = "pending" /\ w \in WayIn(locks', keyOwners', u, st)
  BY <1>1 DEF Explained, Way
<1>7. sess[t].pc = "pending" /\ w \in WayIn(locks, keyOwners, u, st)
  BY <1>2, <1>4, <1>5
<1>8. CASE w # x
  BY <1>1, <1>7, <1>8, WayStays
<1>9. CASE w = x
  <2>1. /\ \A r \in Rows : locks.holders[r] \subseteq locks'.holders[r]
        /\ \A o \in keyOwners : o \in keyOwners' \/ o[1] \in freed
    BY <1>6, <1>9
  <2>2. CASE w \in Behind(locks, u, st)
    <3>1. w \in Behind(locks', u, st)
      BY <1>1, <1>7, <2>1, <2>2, BehindStays
    <3> QED BY <1>7, <3>1 DEF WayIn
  <2>3. CASE w \in Versions /\ w # u /\ \E k \in st.claims : <<k, w>> \in keyOwners
    <3>1. PICK k \in st.claims : <<k, w>> \in keyOwners
      BY <2>3
    <3>2. <<k, w>>[1] = k
      OBVIOUS
    <3>3. k \notin freed
      BY <1>2, <1>3, <1>7, <1>9, <3>1
    <3>4. <<k, w>> \in keyOwners'
      BY <2>1, <3>1, <3>2, <3>3
    <3> QED BY <1>7, <2>3, <3>1, <3>4 DEF WayIn
  <2> QED BY <1>7, <2>2, <2>3 DEF WayIn
<1> QED BY <1>7, <1>8, <1>9

\* Two open sessions have two versions.
LEMMA DifferentVersions ==
  ASSUME TableInv, NEW s \in Sessions, NEW t \in Sessions, s # t, Open(t)
  PROVE  sess[t].v # sess[s].v
BY DEF TableInv, Owned

\* A wait that is over leaves all its edges to the ghost.
LEMMA OverIsLeft ==
  ASSUME NEW v \in Versions, NEW freed, locks' \in Tables, Leave(v, Versions, freed)
  PROVE  locks'.waitFor[v] \subseteq left'[v]
<1>1. locks'.waitFor[v] \subseteq Versions
  BY DEF Tables
<1> QED BY <1>1 DEF Leave

\* An attempt leaves explained edges.
LEMMA AttemptKeepsWaits ==
  ASSUME TableInv, WaitsInv, NEW s \in Sessions, Attempt(s)
  PROVE  WaitsInv'
<1>1. PICK e, out, takes, frees, jumps : AttemptIs(s, e, out, takes, frees, jumps)
  BY AttemptCases
<1> DEFINE v == Runs(s)
           st == sess[s].stmt
           over == IF out = "wait" THEN {} ELSE Versions
<1>2. /\ v \in Versions /\ st \in Stmts /\ sess[s].pc = "pending"
      /\ OthersKept(locks, e.lt, v)
      /\ e.lt.waitFor[v] \subseteq locks.waitFor[v] \cup Way(v, st)
      /\ out # "ok" => takes = {} /\ frees = {}
      /\ locks' = IF Open(s) THEN e.lt ELSE ReleaseAll(e.lt, v)
      /\ Moves(s)
      /\ out = "wait" => sess'[s].pc = sess[s].pc /\ sess'[s].stmt = sess[s].stmt
      /\ out # "wait" => sess'[s].pc = "idle"
      /\ keyOwners' = (keyOwners \ Owners(frees, v))
                        \cup (IF Open(s) THEN Owners(takes, v) ELSE {})
      /\ Leave(v, over, frees)
  BY <1>1 DEF AttemptIs, Answers
<1>3. /\ Open(s) => v = sess[s].v
      /\ ~Open(s) => v = nextVersion
  BY DEF Runs
<1> HIDE DEF v
<1>4. locks' \in Tables
  BY <1>2, ReleaseType DEF OthersKept
<1>5. \A r \in Rows : locks.holders[r] \subseteq locks'.holders[r]
  <2>1. CASE Open(s)
    BY <1>2, <2>1 DEF OthersKept
  <2>2. CASE ~Open(s)
    <3>1. v = nextVersion /\ locks' = ReleaseAll(e.lt, v)
      BY <1>2, <1>3, <2>2
    <3>2. \A r \in Rows : locks'.holders[r] = {h \in e.lt.holders[r] : h[1] # v}
      BY <3>1 DEF ReleaseAll
    <3>3. \A r \in Rows : \A h \in locks.holders[r] : h[1] # v
      BY <3>1, NextIsFree
    <3> QED BY <1>2, <3>2, <3>3 DEF OthersKept
  <2> QED BY <2>1, <2>2
<1>6. \A w \in Versions : w # v => locks'.waitFor[w] \subseteq locks.waitFor[w]
  <2>1. CASE Open(s)
    BY <1>2, <2>1 DEF OthersKept
  <2>2. CASE ~Open(s)
    <3>1. \A w \in Versions : w # v => locks'.waitFor[w] = e.lt.waitFor[w] \ {v}
      BY <1>2, <2>2 DEF ReleaseAll
    <3> QED BY <1>2, <3>1 DEF OthersKept
  <2> QED BY <2>1, <2>2
<1>7. \A o \in keyOwners : /\ o[2] # v => o \in keyOwners'
                           /\ o \in keyOwners' \/ o[1] \in frees
  BY <1>2 DEF Owners
<1>8. ASSUME NEW t \in Sessions, Open(t), t # s PROVE Explained(t)'
  <2>1. sess[t].v \in Versions /\ sess[t].v # v /\ sess'[t] = sess[t]
    BY <1>2, <1>3, <1>8, DifferentVersions, NextIsFree DEF Moves
  <2>2. locks'.waitFor[sess[t].v] \subseteq locks.waitFor[sess[t].v]
    BY <1>6, <2>1
  <2> HIDE DEF over
  <2> QED BY <1>2, <1>5, <1>7, <1>8, <2>1, <2>2, BystanderKeeps
<1>9. ASSUME Open(s) PROVE Explained(s)'
  <2>1. v = sess[s].v /\ locks' = e.lt /\ sess'[s].v = v
    BY <1>2, <1>3, <1>9 DEF Moves
  <2>2. CASE out # "wait"
    <3>1. locks'.waitFor[v] \subseteq left'[v]
      BY <1>2, <1>4, <2>2, OverIsLeft
    <3> QED BY <2>1, <3>1 DEF Explained
  <2>3. CASE out = "wait"
    <3>1. keyOwners' = keyOwners /\ sess'[s].pc = "pending" /\ sess'[s].stmt = st
      BY <1>2, <2>3 DEF Owners
    <3>2. locks.waitFor[v] \subseteq left[v] \cup Way(v, st)
      BY <1>2, <1>9, <2>1 DEF WaitsInv, Explained
    <3>3. left'[v] = locks'.waitFor[v] \cap
                       (left[v] \cup {} \cup (IF v \in Wanting(frees) THEN {v} ELSE {}))
      BY <1>2, <2>3 DEF Leave
    <3> HIDE DEF st, over
    <3>4. Way(v, st) \subseteq WayIn(locks', keyOwners', v, st)
      BY <1>2, <1>5, <3>1, WayStays DEF Way
    <3>5. locks'.waitFor[v] \subseteq left'[v] \cup WayIn(locks', keyOwners', v, st)
      BY <1>2, <2>1, <3>2, <3>3, <3>4
    <3> QED BY <2>1, <3>1, <3>5 DEF Explained, Way
  <2> QED BY <2>2, <2>3
<1>10. \A t \in Sessions : Open(t)' => Open(t)
  BY <1>2 DEF Moves
<1> QED BY <1>8, <1>9, <1>10 DEF WaitsInv

\* So does the end of a transaction.
LEMMA EndKeepsWaits ==
  ASSUME TableInv, WaitsInv, NEW s \in Sessions, Commit(s) \/ Rollback(s)
  PROVE  WaitsInv'
<1> DEFINE v == sess[s].v
<1>1. /\ locks' = ReleaseAll(locks, v) /\ Leave(v, {}, {})
      /\ keyOwners' = {o \in keyOwners : o[2] # v}
      /\ sess'[s] = Closed
      /\ \A t \in Sessions : t # s => sess'[t] = sess[t]
  BY EndIs
<1>2. /\ \A r \in Rows : \A h \in locks.holders[r] : h[1] # v => h \in locks'.holders[r]
      /\ \A o \in keyOwners : o[2] # v => o \in keyOwners'
      /\ \A w \in Versions : w # v => locks'.waitFor[w] = locks.waitFor[w] \ {v}
  BY <1>1 DEF ReleaseAll
<1>3. ASSUME NEW t \in Sessions, Open(t)' PROVE Explained(t)'
  <2>1. t # s /\ Open(t) /\ sess'[t] = sess[t]
    BY <1>1, <1>3, ClosedIs
  <2>2. sess[t].v \in Versions /\ sess[t].v # v
    BY <2>1, DifferentVersions, NextIsFree
  <2>3. /\ locks'.waitFor[sess[t].v] \subseteq locks.waitFor[sess[t].v]
        /\ v \notin locks'.waitFor[sess[t].v]
    BY <1>2, <2>2
  <2> HIDE DEF v
  <2> QED BY <1>1, <1>2, <2>1, <2>3, BystanderKeeps
<1> QED BY <1>3 DEF WaitsInv

\* BEGIN starts without edges.
LEMMA BeginKeepsWaits ==
  ASSUME TableInv, WaitsInv, NEW s \in Sessions, Begin(s)
  PROVE  WaitsInv'
<1>1. locks' = locks /\ keyOwners' = keyOwners /\ left' = left
  BY DEF Begin
<1>2. /\ nextVersion \in 1 .. MaxVersion /\ sess'[s].v = nextVersion
      /\ \A t \in Sessions : t # s => sess'[t] = sess[t]
  BY BeginIs
<1>3. ASSUME NEW t \in Sessions, t # s, Open(t)' PROVE Explained(t)'
  BY <1>1, <1>2, <1>3 DEF WaitsInv, Explained, Way
<1>4. Explained(s)'
  <2>1. locks.waitFor[nextVersion] = {}
    BY <1>2, NextIsFree, RowLocksAssumption
  <2> QED BY <1>1, <1>2, <2>1 DEF Explained
<1> QED BY <1>3, <1>4 DEF WaitsInv

\* A step that touches no lock: the others' edges stay explained, and so do its
\* own when its wait is over or it had none.
LEMMA QuietKeepsWaits ==
  ASSUME TableInv, WaitsInv, NEW s \in Sessions, Moves(s), locks' = locks,
         NEW over, NEW freed, Leave(sess[s].v, over, freed),
         \A o \in keyOwners : o[2] # sess[s].v => o \in keyOwners',
         \A o \in keyOwners : o \in keyOwners' \/ o[1] \in freed,
         over = Versions \/ sess[s].pc = "idle"
  PROVE  WaitsInv'
<1>1. ASSUME NEW t \in Sessions, t # s, Open(t)' PROVE Explained(t)'
  <2>1. sess'[t] = sess[t] /\ Open(t)
    BY <1>1 DEF Moves
  <2> QED BY <2>1, BystanderKeeps
<1>2. ASSUME Open(s)' PROVE Explained(s)'
  <2> DEFINE v == sess[s].v
  <2>1. v # 0 /\ v \in Versions /\ sess'[s].v = v /\ locks' \in Tables
    BY <1>2, NextIsFree DEF Moves, TableInv, LocksTypeOK
  <2>2. CASE over = Versions
    <3>1. Leave(v, Versions, freed)
      BY <2>2
    <3> HIDE DEF v
    <3> QED BY <2>1, <3>1, OverIsLeft DEF Explained
  <2>3. CASE sess[s].pc = "idle"
    <3>1. locks.waitFor[v] \subseteq left[v]
      BY <2>1, <2>3 DEF WaitsInv, Explained
    <3>2. left[v] \cap locks'.waitFor[v] \subseteq left'[v]
      BY <2>1 DEF Leave
    <3> HIDE DEF v
    <3> QED BY <2>1, <3>1, <3>2 DEF Explained
  <2> QED BY <2>2, <2>3
<1> QED BY <1>1, <1>2 DEF WaitsInv

\* The remaining steps.
LEMMA OthersKeepWaits ==
  ASSUME TableInv, WaitsInv, NEW s \in Sessions,
         RebaseFails(s) \/ GiveUp(s) \/ Issue(s) \/ Rechoose(s) \/ Poison(s) \/ Savepoint(s)
           \/ RollbackTo(s)
  PROVE  WaitsInv'
<1>1. CASE RebaseFails(s) \/ GiveUp(s) \/ Rechoose(s)
  <2>1. /\ Moves(s) /\ locks' = locks /\ keyOwners' = keyOwners
        /\ Leave(sess[s].v, Versions, {})
    BY <1>1, StopIs, SendIs
  <2> QED BY <2>1, QuietKeepsWaits
<1>2. CASE Issue(s) \/ Poison(s) \/ Savepoint(s)
  <2>1. /\ Moves(s) /\ locks' = locks /\ keyOwners' = keyOwners /\ left' = left
        /\ sess[s].pc = "idle"
    BY <1>2, SendIs, NoteIs
  <2>2. ASSUME NEW t \in Sessions, Open(t)' PROVE Explained(t)'
    <3>1. CASE t = s
      <4>1. sess'[s].v = sess[s].v /\ locks.waitFor[sess[s].v] \subseteq left[sess[s].v]
        BY <2>1, <2>2, <3>1 DEF WaitsInv, Explained, Moves
      <4> QED BY <2>1, <3>1, <4>1 DEF Explained
    <3>2. CASE t # s
      <4>1. sess'[t] = sess[t] /\ Open(t)
        BY <2>1, <2>2, <3>2 DEF Moves
      <4> QED BY <2>1, <4>1 DEF WaitsInv, Explained, Way
    <3> QED BY <3>1, <3>2
  <2> QED BY <2>2 DEF WaitsInv
<1>3. CASE RollbackTo(s)
  <2> DEFINE v == sess[s].v
             freed == Own(v) \ sess[s].mark.keys
  <2>1. /\ Moves(s) /\ locks' = locks /\ sess[s].pc = "idle"
        /\ keyOwners' = {o \in keyOwners : o[2] # v} \cup Owners(sess[s].mark.keys, v)
        /\ Leave(v, {}, freed)
    BY <1>3, BackIs
  <2>2. \A o \in keyOwners : o[2] # v => o \in keyOwners'
    BY <2>1
  <2>3. ASSUME NEW o \in keyOwners PROVE o \in keyOwners' \/ o[1] \in freed
    <3>1. o[1] \in Keys /\ o = <<o[1], o[2]>>
      BY OwnerIs
    <3> QED BY <2>1, <3>1 DEF Own, Owners
  <2> HIDE DEF freed
  <2> QED BY <2>1, <2>2, <2>3, QuietKeepsWaits
<1> QED BY <1>1, <1>2, <1>3

\* Every edge of the wait-for graph is explained.
LEMMA WaitsInvHolds == LocksSpec => []WaitsInv
<1>1. LocksInit => WaitsInv
  BY ClosedIs DEF LocksInit, WaitsInv
<1>2. ASSUME TableInv, WaitsInv, [LocksNext]_vars PROVE WaitsInv'
  <2>1. CASE UNCHANGED vars
    BY <1>2, <2>1 DEF vars, WaitsInv, Explained, Way
  <2> QED BY <1>2, <2>1, AttemptKeepsWaits, EndKeepsWaits, BeginKeepsWaits, OthersKeepWaits
          DEF LocksNext
<1> QED BY <1>1, <1>2, TableInvHolds, PTL DEF LocksSpec

\* Whatever is in the way of a pending statement really blocks it.
LEMMA WayReallyBlocks ==
  ASSUME NEW s \in Sessions, Open(s), sess[s].pc = "pending",
         NEW w \in Way(sess[s].v, sess[s].stmt)
  PROVE  w \in Versions /\ ReallyBlocks(sess[s].v, w)
<1>1. /\ w \in Versions /\ w # sess[s].v
      /\ \/ w \in Behind(locks, sess[s].v, sess[s].stmt)
         \/ \E k \in sess[s].stmt.claims : <<k, w>> \in keyOwners
  BY DEF Way, WayIn, Behind
<1>2. CASE w \in Behind(locks, sess[s].v, sess[s].stmt)
  <2>1. /\ sess[s].stmt.policy = "Wait"
        /\ \E i \in DOMAIN sess[s].stmt.rows : \E m \in Modes :
             <<w, m>> \in locks.holders[sess[s].stmt.rows[i]]
               /\ ConflictsWith(m, sess[s].stmt.mode)
    BY <1>2 DEF Behind
  <2> QED BY <1>1, <2>1 DEF ReallyBlocks
<1>3. CASE \E k \in sess[s].stmt.claims : <<k, w>> \in keyOwners
  BY <1>1, <1>3 DEF ReallyBlocks
<1> QED BY <1>1, <1>2, <1>3

\* A transaction is aborted as a deadlock victim only when it stands on a cycle
\* of transactions that really wait for one another, or whose wait is over and
\* left its edge behind in one of the ways Leave names.  clear_wait, the grant
\* and release_all together leave no other stale edge, whatever timeouts,
\* cancels, savepoints and re-chosen rows come between.
THEOREM VictimsStandOnCycles == LocksSpec => OnlyRealDeadlocks
<1>1. ASSUME TableInv, WaitsInv, [LocksNext]_vars
      PROVE  [\A s \in Sessions :
                sess[s].aborted = "no" /\ sess'[s].aborted = "deadlock"
                  => Cycles(Waits, sess[s].v) # {}]_vars
  <2> SUFFICES ASSUME LocksNext, NEW s \in Sessions, sess[s].aborted = "no",
                      sess'[s].aborted = "deadlock"
               PROVE  Cycles(Waits, sess[s].v) # {}
    BY <1>1
  <2>1. PICK e, out, takes, frees, jumps : AttemptIs(s, e, out, takes, frees, jumps)
    <3>1. PICK t \in Sessions :
            \/ Attempt(t) \/ RebaseFails(t) \/ Rechoose(t) \/ GiveUp(t)
            \/ Begin(t) \/ Issue(t) \/ Poison(t) \/ Savepoint(t) \/ RollbackTo(t)
            \/ Commit(t) \/ Rollback(t)
      BY DEF LocksNext
    <3>2. CASE Attempt(t)
      <4>1. PICK e, out, takes, frees, jumps : AttemptIs(t, e, out, takes, frees, jumps)
        BY <1>1, <3>2, AttemptCases
      <4>2. t = s
        BY <4>1 DEF AttemptIs, Moves
      <4> QED BY <4>1, <4>2
    <3>3. CASE RebaseFails(t) \/ GiveUp(t) \/ Issue(t) \/ Rechoose(t) \/ Poison(t) \/ Savepoint(t)
                 \/ RollbackTo(t)
      <4>1. Moves(t) /\ sess'[t].aborted \in {sess[t].aborted, "no"}
        BY <1>1, <3>3, StopIs, SendIs, NoteIs, BackIs
      <4> QED BY <4>1 DEF Moves
    <3>4. CASE Begin(t)
      BY <1>1, <3>4, BeginIs
    <3>5. CASE Commit(t) \/ Rollback(t)
      BY <1>1, <3>5, EndIs, ClosedIs
    <3> QED BY <3>1, <3>2, <3>3, <3>4, <3>5
  <2> DEFINE v == Runs(s)
  <2>2. /\ v \in Versions /\ sess[s].stmt \in Stmts /\ sess[s].pc = "pending"
        /\ Answers(e, v, sess[s].stmt)
        /\ out = e.out \/ (e.out = "ok" /\ out = "failed")
        /\ AbortMark(out, Open(s)) = "deadlock"
    BY <2>1 DEF AttemptIs
  <2>3. Open(s) /\ v = sess[s].v /\ e.out = "deadlock"
    BY <2>2 DEF AbortMark, Runs
  <2> HIDE DEF v
  <2>5. /\ Cycles(e.lt.waitFor, v) # {}
        /\ OthersKept(locks, e.lt, v)
        /\ e.lt.waitFor[v] \subseteq locks.waitFor[v] \cup Way(v, sess[s].stmt)
    BY <2>2, <2>3 DEF Answers
  <2>6. e.lt.waitFor \in [Versions -> SUBSET Versions]
    BY <2>5 DEF OthersKept, Tables
  <2>7. Waits \in [Versions -> SUBSET Versions]
    BY DEF Waits
  <2>8. locks.waitFor \in [Versions -> SUBSET Versions]
    BY <1>1 DEF TableInv, LocksTypeOK, Tables
  <2>9. ASSUME NEW u \in Versions, NEW w \in locks.waitFor[u] PROVE w \in Waits[u]
    <3>1. u \in OpenVersions
      BY <1>1 DEF TableInv, NoLeakedLocks
    <3>2. PICK t \in Sessions : Open(t) /\ sess[t].v = u
      BY <3>1 DEF OpenVersions
    <3>3. w \in Versions
      BY <2>8, <2>9
    <3>4. w \in left[u] \/ (sess[t].pc = "pending" /\ w \in Way(sess[t].v, sess[t].stmt))
      BY <1>1, <2>9, <3>2 DEF WaitsInv, Explained
    <3>5. w \in left[u] \/ ReallyBlocks(u, w)
      BY <3>2, <3>4, WayReallyBlocks
    <3> QED BY <3>3, <3>5 DEF Waits
  <2>10. ASSUME NEW w \in Way(v, sess[s].stmt) PROVE w \in Waits[v]
    <3>1. w \in Versions /\ ReallyBlocks(v, w)
      BY <2>2, <2>3, <2>10, WayReallyBlocks
    <3> QED BY <2>2, <3>1 DEF Waits
  <2>11. \A u \in Versions : e.lt.waitFor[u] \subseteq Waits[u]
    <3> TAKE u \in Versions
    <3>1. CASE u = v
      BY <2>5, <2>9, <2>10, <3>1
    <3>2. CASE u # v
      <4>1. e.lt.waitFor[u] = locks.waitFor[u]
        BY <2>5, <3>2 DEF OthersKept
      <4> QED BY <2>9, <4>1
    <3> QED BY <3>1, <3>2
  <2> QED BY <2>3, <2>5, <2>6, <2>7, <2>11, CyclesGrow
<1> QED BY <1>1, TableInvHolds, WaitsInvHolds, PTL DEF LocksSpec, OnlyRealDeadlocks
=============================================================================
