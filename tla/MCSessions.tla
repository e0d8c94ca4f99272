----------------------------- MODULE MCSessions -----------------------------
(* Instances of Sessions.                                                  *)
EXTENDS Sessions, TLC

CONSTANTS a, b

\* As many statements of each kind as `some` says, and none of the others.
Only(some) == [k \in Kinds |-> IF k \in DOMAIN some THEN some[k] ELSE 0]

\* What clients are about: settings and savepoints; modes and levels;
\* failures; cursors; notifications.
Scripts ==
  {Only([begin |-> 1, set |-> 3, save |-> 2, leave |-> 1]),
   Only([begin |-> 2, mode |-> 1, query |-> 2, leave |-> 1]),
   Only([begin |-> 1, query |-> 3, fail |-> 1, save |-> 1]),
   Only([begin |-> 2, query |-> 2, declare |-> 1]),
   Only([begin |-> 2, notify |-> 1, listen |-> 2, leave |-> 1])}

\* Sessions and values are interchangeable.
SessSymmetry == Permutations(Sessions) \cup Permutations(Values)
=============================================================================
