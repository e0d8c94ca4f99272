----------------------------- MODULE Iteration -----------------------------
(***************************************************************************)
(* What the proofs need to reason about loops.  A loop over a sequence is  *)
(* a recursive function of its position in the models; the lemmas here     *)
(* give induction up to a position, and the existence of the function a    *)
(* loop defines.  They come from the well-foundedness of < alone.          *)
(***************************************************************************)
EXTENDS Integers, WellFoundedInduction, TLAPS

\* A set of naturals that has an element has a least one.
LEMMA LeastNatural ==
  ASSUME NEW T \in SUBSET Nat, T # {}
  PROVE  \E m \in T : \A k \in T : m <= k
<1> DEFINE R == OpToRel(<, Nat)
<1>1. IsWellFoundedOn(R, Nat)
  BY NatLessThanWellFounded
<1>2. \A i, j \in Nat : i < j => <<i, j>> \in R
  BY DEF OpToRel
<1> HIDE DEF R
<1>3. PICK m \in T : \A y \in T : ~(<<y, m>> \in R)
  BY <1>1, WFMin
<1>4. \A k \in T : m <= k
  <2> TAKE k \in T
  <2>1. k \in Nat /\ m \in Nat
    OBVIOUS
  <2>2. ~(k < m)
    BY <1>2, <1>3, <2>1
  <2> QED BY <2>1, <2>2
<1> QED BY <1>4

\* Induction up to n, on membership in a set.
LEMMA UpTo ==
  ASSUME NEW n \in Nat, NEW S, 0 \in S, \A i \in 0 .. (n - 1) : i \in S => i + 1 \in S
  PROVE  0 .. n \subseteq S
<1> DEFINE T == {i \in 0 .. n : i \notin S}
<1>1. SUFFICES ASSUME T # {} PROVE FALSE
  OBVIOUS
<1>2. PICK m \in T : \A k \in T : m <= k
  <2>1. T \in SUBSET Nat
    OBVIOUS
  <2> HIDE DEF T
  <2> QED BY <1>1, <2>1, LeastNatural
<1>3. m \in 1 .. n /\ m - 1 \in 0 .. (n - 1) /\ m - 1 \notin T
  BY <1>2
<1>4. m - 1 \in S
  BY <1>3
<1> QED BY <1>2, <1>3, <1>4

\* f is the loop of n steps from `first`: a function of the position, in A.
IsLoop(f, n, A, first, step) ==
  /\ f \in [0 .. n -> A] /\ f[0] = first
  /\ \A i \in 1 .. n : f[i] = step[<<f[i - 1], i>>]

\* Steps are closed in A.
IsStep(step, n, A) == \A x \in A : \A i \in 1 .. n : step[<<x, i>>] \in A

\* A loop that starts in `first` and whose steps are `step` stays in A if its
\* start and its steps do, and it is a function of the position.
LEMMA LoopExists ==
  ASSUME NEW n \in Nat, NEW A, NEW first \in A, NEW step,
         IsStep(step, n, A)
  PROVE  \E f : IsLoop(f, n, A, first, step)
<1> USE DEF IsStep, IsLoop
<1> DEFINE Loop(f, m) == IsLoop(f, m, A, first, step)
           S == {m \in Nat : \E f : Loop(f, m)}
<1>1. 0 \in S
  <2>1. Loop([i \in 0 .. 0 |-> first], 0)
    OBVIOUS
  <2> QED BY <2>1
<1>2. ASSUME NEW m \in 0 .. (n - 1), m \in S PROVE m + 1 \in S
  <2>1. PICK f : Loop(f, m)
    BY <1>2
  <2> DEFINE next == step[<<f[m], m + 1>>]
             g    == [i \in 0 .. (m + 1) |-> IF i = m + 1 THEN next ELSE f[i]]
  <2>2. next \in A
    BY <2>1
  <2>3. g \in [0 .. (m + 1) -> A] /\ g[0] = first
    BY <2>1, <2>2
  <2>4. ASSUME NEW i \in 1 .. (m + 1) PROVE g[i] = step[<<g[i - 1], i>>]
    <3>1. CASE i = m + 1
      BY <3>1
    <3>2. CASE i # m + 1
      <4>1. i \in 1 .. m /\ i - 1 \in 0 .. m /\ i - 1 # m + 1 /\ i - 1 \in 0 .. (m + 1)
        BY <2>4, <3>2
      <4>2. g[i] = f[i] /\ g[i - 1] = f[i - 1]
        BY <3>2, <4>1
      <4> QED BY <2>1, <4>1, <4>2
    <3> QED BY <3>1, <3>2
  <2> HIDE DEF g
  <2>5. Loop(g, m + 1) /\ m + 1 \in Nat
    BY <2>3, <2>4
  <2> QED BY <2>5
<1>3. n \in S
  <2> HIDE DEF S
  <2> QED BY <1>1, <1>2, UpTo
<1> QED BY <1>3
=============================================================================
