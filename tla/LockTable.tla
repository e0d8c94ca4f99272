----------------------------- MODULE LockTable -----------------------------
(***************************************************************************)
(* The tuple-lock table of spg-engine (crates/spg-engine/src/locks.rs):    *)
(* who holds which row in which mode, who is parked on which row, and the  *)
(* wait-for graph the deadlock detector walks.                             *)
(*                                                                         *)
(* The table is one value, `locks`, as it is one field of the Engine, and  *)
(* every operation is an operator from a table to a table, so that a       *)
(* statement that takes several locks under one engine guard is a fold of  *)
(* them (module RowLocks).  A row is (RelId, RowId) in the code; here it   *)
(* is one value of Rows.  The FIFO order of `waiters` is never read by the *)
(* code, so waiters are a set; an absent wait_for entry and an empty one   *)
(* are the same thing to every reader.  An entry of the code's `entries`   *)
(* map exists exactly when it has a holder or a waiter.                    *)
(***************************************************************************)
EXTENDS Naturals, Sequences, FiniteSets

CONSTANTS Rows,      \* lockable rows, (RelId, RowId) in the code
          Versions   \* writer versions, the identity of a lock owner

ASSUME VersionsAssumption == Versions \subseteq Nat

VARIABLE locks

Modes == {"KeyShare", "Share", "NoKeyUpdate", "Exclusive"}

Policies == {"Wait", "NoWait", "SkipLocked"}

\* Mutant: a shared lock no longer blocks FOR NO KEY UPDATE.
ConflictsWithMutant(held, requested) ==
  \/ held = "KeyShare"    /\ requested = "Exclusive"
  \/ held = "Share"       /\ requested = "Exclusive"
  \/ held = "NoKeyUpdate" /\ requested # "KeyShare"
  \/ held = "Exclusive"

\* LockMode::conflicts_with: does a lock held in `held` block `requested`?
ConflictsWith(held, requested) ==
  \/ held = "KeyShare"    /\ requested = "Exclusive"
  \/ held = "Share"       /\ requested \in {"NoKeyUpdate", "Exclusive"}
  \/ held = "NoKeyUpdate" /\ requested # "KeyShare"
  \/ held = "Exclusive"

Tables == [holders : [Rows -> SUBSET (Versions \X Modes)],
           waiters : [Rows -> SUBSET Versions],
           waitFor : [Versions -> SUBSET Versions]]

EmptyTable == [holders |-> [r \in Rows |-> {}],
               waiters |-> [r \in Rows |-> {}],
               waitFor |-> [v \in Versions |-> {}]]

---------------------------------------------------------------------------
(* find_cycle / dfs_cycle.  The search starts at `start`, follows edges in *)
(* ascending order, never repeats a node of the current path and stops at  *)
(* the first edge back to `start`: it returns the lexicographically least  *)
(* of the simple cycles through `start`.                                   *)

Waiting(waitFor) == {v \in Versions : waitFor[v] # {}}

\* Mutant: the search looks no further than the holders' own waits.
CyclesMutant(waitFor, start) ==
  {p \in UNION {[1..n -> Waiting(waitFor)] : n \in 1..2} :
     /\ p[1] = start
     /\ \A i, j \in DOMAIN p : p[i] = p[j] => i = j
     /\ \A i \in 1..(Len(p) - 1) : p[i + 1] \in waitFor[p[i]]
     /\ start \in waitFor[p[Len(p)]]}

Cycles(waitFor, start) ==
  {p \in UNION {[1..n -> Waiting(waitFor)] : n \in 1..Cardinality(Waiting(waitFor))} :
     /\ p[1] = start
     /\ \A i, j \in DOMAIN p : p[i] = p[j] => i = j
     /\ \A i \in 1..(Len(p) - 1) : p[i + 1] \in waitFor[p[i]]
     /\ start \in waitFor[p[Len(p)]]}

LexLess(p, q) ==
  \E i \in DOMAIN p \cap DOMAIN q :
    /\ p[i] < q[i]
    /\ \A j \in 1..(i - 1) : p[j] = q[j]

\* The versions on the cycle find_cycle returns; {} when it returns None.
FindCycle(waitFor, start) ==
  LET cs    == Cycles(waitFor, start)
      first == CHOOSE p \in cs :
                 \A q \in cs \ {p} : LexLess(Append(p, start), Append(q, start))
  IN  IF cs = {} THEN {} ELSE {first[i] : i \in DOMAIN first}

\* "Abort the youngest (highest version) in the cycle."
Youngest(cycle) == CHOOSE v \in cycle : \A w \in cycle : w <= v

---------------------------------------------------------------------------
(* The operations.                                                         *)

\* Mutant: a version that strengthens its own lock waits for itself.
BlockersMutant(lt, row, mode, v) ==
  {h[1] : h \in {g \in lt.holders[row] : ConflictsWith(g[2], mode)}}

\* The distinct conflicting holders; a version never blocks itself.
Blockers(lt, row, mode, v) ==
  {h[1] : h \in {g \in lt.holders[row] : g[1] # v /\ ConflictsWith(g[2], mode)}}

Grant(lt, row, mode, v) ==
  [holders |-> [lt.holders EXCEPT ![row] = @ \cup {<<v, mode>>}],
   waiters |-> [lt.waiters EXCEPT ![row] = @ \ {v}],
   waitFor |-> [lt.waitFor EXCEPT ![v] = {}]]

\* WaitPolicy::Wait behind `blockers`: edges are added, never replaced.
Park(lt, row, v, blockers) ==
  [holders |-> lt.holders,
   waiters |-> [lt.waiters EXCEPT ![row] = @ \cup {v}],
   waitFor |-> [lt.waitFor EXCEPT ![v] = @ \cup blockers]]

\* What the detector says of a table in which v has just been parked.
WaitOutcome(lt, v) ==
  LET cycle == FindCycle(lt.waitFor, v)
  IN  IF cycle = {} THEN [kind |-> "WouldBlock"]
                    ELSE [kind |-> "Deadlock", victim |-> Youngest(cycle)]

\* LockTable::acquire: the table it leaves and the outcome it reports.
Acquire(lt, row, mode, v, policy) ==
  LET blockers == Blockers(lt, row, mode, v)
      parked   == Park(lt, row, v, blockers)
  IN  CASE blockers = {}         -> [lt |-> Grant(lt, row, mode, v),
                                     out |-> [kind |-> "Granted"]]
        [] blockers # {} /\ policy = "NoWait"
                                 -> [lt |-> lt, out |-> [kind |-> "NotAvailable"]]
        [] blockers # {} /\ policy = "SkipLocked"
                                 -> [lt |-> lt, out |-> [kind |-> "Skip"]]
        [] blockers # {} /\ policy = "Wait"
                                 -> [lt |-> parked, out |-> WaitOutcome(parked, v)]

\* Mutant: the version stays among the holders.
ReleaseAllMutant(lt, v) ==
  [lt EXCEPT !.waiters = [r \in Rows |-> @[r] \ {v}],
             !.waitFor = [w \in Versions |-> IF w = v THEN {} ELSE @[w] \ {v}]]

\* LockTable::release_all, at COMMIT, ROLLBACK or the end of an autocommit
\* statement.
ReleaseAll(lt, v) ==
  [holders |-> [r \in Rows |-> {h \in lt.holders[r] : h[1] # v}],
   waiters |-> [r \in Rows |-> lt.waiters[r] \ {v}],
   waitFor |-> [w \in Versions |-> IF w = v THEN {} ELSE lt.waitFor[w] \ {v}]]

\* LockTable::wait_on_versions: park behind whole transactions.
WaitOnVersions(lt, v, blockers) ==
  LET parked == [lt EXCEPT !.waitFor[v] = @ \cup (blockers \ {v})]
  IN  [lt |-> parked, out |-> WaitOutcome(parked, v)]

ClearWait(lt, v) == [lt EXCEPT !.waitFor[v] = {}]

---------------------------------------------------------------------------
(* The table under every sequence of calls any caller could make.          *)

Init == locks = EmptyTable

DoAcquire == \E r \in Rows, m \in Modes, v \in Versions, p \in Policies :
               locks' = Acquire(locks, r, m, v, p).lt

DoReleaseAll == \E v \in Versions : locks' = ReleaseAll(locks, v)

DoWaitOnVersions == \E v \in Versions, B \in SUBSET Versions :
                      locks' = WaitOnVersions(locks, v, B).lt

DoClearWait == \E v \in Versions : locks' = ClearWait(locks, v)

Next == DoAcquire \/ DoReleaseAll \/ DoWaitOnVersions \/ DoClearWait

Spec == Init /\ [][Next]_locks

---------------------------------------------------------------------------
\* The table keeps its shape under every call: holders and waiters per row,
\* wait edges per version (LockTable in locks.rs), and none of a version to
\* itself, which the detector would take for a deadlock of one.
TypeOK ==
  /\ locks \in Tables
  /\ \A v \in Versions : v \notin locks.waitFor[v]

\* No two versions ever hold one row in modes the conflict matrix forbids:
\* checking `held` against `requested` only on the way in is enough because
\* the matrix is symmetric.
NoConflictingHolders ==
  \A r \in Rows : \A g, h \in locks.holders[r] :
    g[1] # h[1] => ~ConflictsWith(g[2], h[2])
=============================================================================
