---------------------------- MODULE PrefixCopy ------------------------------
(***************************************************************************)
(* What a replica promises its readers.  The primary's log takes a         *)
(* database through a sequence of states, the feed; the replica shows one  *)
(* of them at a time, in that order, skipping as many as it likes and      *)
(* never inventing one.  A replica that keeps a log of its own never shows *)
(* an older state than before, not even after a crash; one without may     *)
(* fall back when it crashes.  Of a replica that is broken nothing is      *)
(* promised, and it stays broken.                                          *)
(***************************************************************************)
EXTENDS Naturals, Sequences

VARIABLES feed,     \* the states of the primary, one per log record
          replica,  \* the state a reader of the replica sees
          durable,  \* does the replica log what it applies?
          broken    \* has it met what it does not cope with?

copyVars == <<feed, replica, durable, broken>>

CopyInit == feed # <<>> /\ replica = feed[1] /\ durable \in BOOLEAN /\ ~broken

\* The primary logs: the states so far stay what they are.
Grow ==
  /\ Len(feed') > Len(feed)
  /\ SubSeq(feed', 1, Len(feed)) = feed
  /\ UNCHANGED <<replica, durable, broken>>

CatchUp ==
  /\ \E n \in 1..Len(feed) : \E m \in n..Len(feed) :
       replica = feed[n] /\ replica' = feed[m]
  /\ UNCHANGED <<feed, durable, broken>>

FallBack ==
  /\ ~durable
  /\ \E m \in 1..Len(feed) : replica' = feed[m]
  /\ UNCHANGED <<feed, durable, broken>>

CopySpec == CopyInit /\ [][Grow \/ CatchUp \/ FallBack \/ broken']_copyVars
=============================================================================
