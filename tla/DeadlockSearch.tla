--------------------------- MODULE DeadlockSearch ---------------------------
(***************************************************************************)
(* The depth-first search of locks.rs (dfs_cycle), step for step, against  *)
(* what LockTable says it finds: in every reachable table the search is    *)
(* run from every version.  wait_on_versions can draw any edge, so every   *)
(* wait-for graph over the versions is reached.                            *)
(* Only TLC uses this module: the search is recursive.                     *)
(***************************************************************************)
EXTENDS LockTable, SequencesExt

RECURSIVE DfsCycle(_, _, _, _), FirstHit(_, _, _, _)

\* Mutant: the edges are walked in descending order.
DfsCycleMutant(waitFor, start, node, onPath) ==
  FirstHit(waitFor, start, SetToSortSeq(waitFor[node], >), onPath \cup {node})

\* The search from `node`, the path so far in `onPath`: the first cycle back
\* to `start`, or {} (the code's None).  A node is taken off the path when
\* its edges are exhausted, so it can be reached again another way.
DfsCycle(waitFor, start, node, onPath) ==
  FirstHit(waitFor, start, SetToSortSeq(waitFor[node], <), onPath \cup {node})

\* The loop over a node's edges, in ascending order (BTreeSet).
FirstHit(waitFor, start, edges, onPath) ==
  IF edges = <<>> THEN {}
  ELSE LET next  == Head(edges)
           below == IF next \in onPath THEN {}
                    ELSE DfsCycle(waitFor, start, next, onPath)
       IN  IF next = start THEN onPath \cup {start}
           ELSE IF below # {} THEN below
           ELSE FirstHit(waitFor, start, Tail(edges), onPath)

---------------------------------------------------------------------------
\* The search returns exactly the least simple cycle through its start, and
\* None only when there is none.
SearchFindsLeastCycle ==
  \A v \in Versions : DfsCycle(locks.waitFor, v, v, {}) = FindCycle(locks.waitFor, v)

\* Everything v waits for, directly or through others.
ReachedFrom(v) ==
  LET step[n \in 0..Cardinality(Versions)] ==
        IF n = 0 THEN locks.waitFor[v]
        ELSE step[n - 1] \cup UNION {locks.waitFor[w] : w \in step[n - 1]}
  IN  step[Cardinality(Versions)]

\* If v waits for itself through others, then one member of that knot, its
\* youngest, is named victim by its own search: no deadlock is one that each
\* waiter leaves for another to break.
SomeMemberIsItsOwnVictim ==
  \A v \in Versions :
    v \in ReachedFrom(v)
      => LET knot == {w \in ReachedFrom(v) : v \in ReachedFrom(w)}
             top  == Youngest(knot)
         IN  WaitOutcome(locks, top) = [kind |-> "Deadlock", victim |-> top]
=============================================================================
