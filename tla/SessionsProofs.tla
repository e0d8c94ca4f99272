--------------------------- MODULE SessionsProofs ---------------------------
(***************************************************************************)
(* Proofs about Sessions, for any set of connections, values, savepoint    *)
(* names and budgets: what belongs to a block ends with it, no statement   *)
(* slips past the read-only mode, the abort firewall or the serializable   *)
(* check, notifications follow the COMMIT of their block, and a connection *)
(* sees its last SET LOCAL that counts and else its last SET, except after *)
(* the mishaps the properties name.                                        *)
(*                                                                         *)
(* The first two are not inductive.  A statement slips when what the       *)
(* client asked for (want), its block (slot) and the live session          *)
(* disagree, so the invariant SlipInv says what ties the three together,   *)
(* connection by connection, as long as that connection met none of the    *)
(* mishaps.  A statement disturbs its own connection, and through the live *)
(* session one other, which Executes then notes: lemma StatementKeeps.     *)
(* Notifications have an invariant of their own, NoticeInv.                *)
(*                                                                         *)
(* The settings have a third one, SettingInv.  The code keeps a log of     *)
(* prior values (undo) and of depths (marks); the client's script is a     *)
(* list of SET LOCALs and SAVEPOINTs.  Ties says that the log is the       *)
(* script: its entries stand, in order, for the SET LOCALs that count      *)
(* (map at), its marks for the SAVEPOINTs that count (map sv), a mark's    *)
(* depth is the number of SET LOCALs before its SAVEPOINT, and each prior  *)
(* value is what the SET LOCAL before set, or the last SET.  Cutting the   *)
(* log at a mark is then cutting the script at its SAVEPOINT.              *)
(***************************************************************************)
EXTENDS Sessions, FiniteSetTheorems, TLAPS

BagFields  == {"setting", "iso", "ro", "cursor"}
SlotFields == {"open", "aborted", "iso", "ro", "ssi", "read", "ran", "wrote",
               "poisoned", "others", "stamped", "marks", "undo"}
WantFields == {"base", "listens", "ro", "failed", "read", "script"}

IsBag(l)  == l = [f \in BagFields |-> l[f]]
IsSlot(x) == x = [f \in SlotFields |-> x[f]]
IsWant(w) == w = [f \in WantFields |-> w[f]]

\* The shapes of the state; a bag does not carry the mode.
Shapes ==
  /\ cur \in Sessions \cup {0}
  /\ IsBag(live)
  /\ parked = [i \in Sessions \cup {0} |-> parked[i]]
  /\ \A i \in Sessions \cup {0} : IsBag(parked[i]) /\ parked[i].ro = FALSE
  /\ slot = [t \in Sessions |-> slot[t]] /\ \A t \in Sessions : IsSlot(slot[t])
  /\ want = [t \in Sessions |-> want[t]] /\ \A t \in Sessions : IsWant(want[t])

\* Without a block there is nothing of a block.
AtRest(s) ==
  ~slot[s].open => /\ slot[s].iso = "rc" /\ slot[s].ssi = FALSE /\ slot[s].others # "clash"
                   /\ want[s].failed = FALSE /\ want[s].read = FALSE

\* The level of the block is the session's.
LevelOK(s) ==
  ~Met(s, {"race", "disconnect", "refused"})
    => /\ Bag(s).iso = slot[s].iso
       /\ ~slot[s].open => Bag(s).cursor \in {"none", "held"} /\ ~Bag(s).ro

\* While s is live, the mode its client asked for is live.
ModeOK(s) ==
  ~Met(s, {"swapped", "race", "disconnect"})
    => <<s, "readonly">> \notin slipped /\ (cur = s /\ want[s].ro => live.ro)

\* A block with a failed statement is marked aborted.
FailureOK(s) ==
  ~Met(s, {"rebase"})
    => <<s, "failed">> \notin slipped /\ (want[s].failed => slot[s].aborted)

\* A serializable block is checked as one, and knows of its reads and of the
\* commits of others.
ReadsOK(s) ==
  ~Met(s, {"switched", "unstamped", "race"})
    => /\ <<s, "skew">> \notin slipped
       /\ slot[s].iso = "ser" => slot[s].ssi
       /\ slot[s].open /\ Bag(s).iso = "ser" => slot[s].iso = "ser"
       /\ slot[s].ssi /\ want[s].read => slot[s].read
       /\ slot[s].ssi /\ slot[s].others # "none" => slot[s].stamped

Sound(s) == AtRest(s) /\ LevelOK(s) /\ ModeOK(s) /\ FailureOK(s) /\ ReadsOK(s)

SlipInv == Shapes /\ \A s \in Sessions : Sound(s)

---------------------------------------------------------------------------
(* Shapes of the constants of the model.                                   *)

\* The shapes of an empty bag, a closed block and a client without one.
LEMMA Constants0 ==
  /\ IsBag(Fresh) /\ IsSlot(Closed)
  /\ \A b, l : IsWant(NoBlock(b, l))
<1>1. IsBag(Fresh)
  BY DEF IsBag, Fresh, BagFields
<1>2. IsSlot(Closed)
  BY DEF IsSlot, Closed, SlotFields
<1>3. \A b, l : IsWant(NoBlock(b, l))
  BY DEF IsWant, NoBlock, WantFields
<1> QED BY <1>1, <1>2, <1>3

\* The initial state.
LEMMA InitSound == ASSUME Init PROVE SlipInv
<1>1. Shapes
  BY Constants0 DEF Init, Shapes, Fresh
<1>2. ASSUME NEW s \in Sessions PROVE Sound(s)
  BY <1>2, SessionsAssumption DEF Init, Sound, AtRest, LevelOK, ModeOK, FailureOK,
     ReadsOK, Met, Bag, Fresh, Closed, NoBlock
<1> QED BY <1>1, <1>2 DEF SlipInv

\* What a statement of s may do to the other connections: nothing to their
\* blocks but that commits move under them, and to their sessions only if it
\* notes a race.
LEMMA StatementKeeps ==
  ASSUME SlipInv, NEW s \in Sessions,
         cur' = cur, parked' = parked, IsBag(live'),
         slot' = [t \in Sessions |-> slot'[t]],
         want' = [t \in Sessions |-> want'[t]],
         \A t \in Sessions : IsSlot(slot'[t]) /\ IsWant(want'[t]),
         mishaps \subseteq mishaps',
         cur # s => <<s, "race">> \in mishaps'
                    /\ (cur \in Sessions => <<cur, "race">> \in mishaps'),
         \A t \in Sessions \ {s} :
           /\ want'[t] = want[t]
           /\ \A f \in {"open", "aborted", "iso", "ssi", "read"} : slot'[t][f] = slot[t][f]
           /\ slot'[t].ssi /\ slot'[t].others # "none"
                => slot'[t].stamped \/ <<t, "unstamped">> \in mishaps'
                   \/ (slot[t].others # "none" /\ (slot[t].stamped => slot'[t].stamped))
           /\ ~slot[t].open => slot'[t].others = slot[t].others
           /\ \A k : <<t, k>> \in slipped' => <<t, k>> \in slipped,
         Sound(s)'
  PROVE  SlipInv'
<1>1. Shapes'
  BY DEF SlipInv, Shapes
<1>2. ASSUME NEW t \in Sessions, t # s PROVE Sound(t)'
  <2>1. Sound(t) /\ want'[t] = want[t]
    BY <1>2 DEF SlipInv
  <2>2. \A k : <<t, k>> \in slipped' => <<t, k>> \in slipped
    BY <1>2
  <2>3. /\ slot'[t].open = slot[t].open /\ slot'[t].aborted = slot[t].aborted
        /\ slot'[t].iso = slot[t].iso /\ slot'[t].ssi = slot[t].ssi
        /\ slot'[t].read = slot[t].read
        /\ ~slot[t].open => slot'[t].others = slot[t].others
    BY <1>2
  <2>4. \A K : Met(t, K) => Met(t, K)'
    BY DEF Met
  <2>5. CASE cur = t
    <3>1. <<t, "race">> \in mishaps'
      BY <1>2, <2>5
    <3> QED BY <2>1, <2>2, <2>3, <2>4, <3>1
            DEF Sound, AtRest, LevelOK, ModeOK, FailureOK, ReadsOK, Met
  <2>6. CASE cur # t
    <3>1. Bag(t)' = Bag(t)
      BY <2>6 DEF Bag
    <3>2. AtRest(t)' /\ LevelOK(t)' /\ ModeOK(t)' /\ FailureOK(t)'
      BY <2>1, <2>2, <2>3, <2>4, <2>6, <3>1
      DEF Sound, AtRest, LevelOK, ModeOK, FailureOK
    <3>3. ReadsOK(t)'
      BY <1>2, <2>1, <2>2, <2>3, <2>4, <3>1 DEF Sound, ReadsOK, Met
    <3> QED BY <3>2, <3>3 DEF Sound
  <2> QED BY <2>5, <2>6
<1> QED BY <1>1, <1>2 DEF SlipInv

---------------------------------------------------------------------------
(* What Executes and Succeeds note.                                        *)

\* A statement leaves the live session where it is and notes its mishaps.
LEMMA Executing ==
  ASSUME SlipInv, NEW s \in Sessions, NEW ms, Executes(s, ms)
  PROVE  /\ cur' = cur /\ mishaps \subseteq mishaps' /\ ms \subseteq mishaps'
         /\ cur # s => <<s, "race">> \in mishaps'
                       /\ (cur \in Sessions => <<cur, "race">> \in mishaps')
<1>1. cur # s => <<s, "race">> \in Race(s) /\ (cur \in Sessions => <<cur, "race">> \in Race(s))
  BY SessionsAssumption DEF Race, When
<1> QED BY <1>1 DEF Executes

\* A connection whose session is not live has met a race.
LEMMA Noting ==
  ASSUME SlipInv, NEW s \in Sessions, NEW ms, Executes(s, ms)
  PROVE  /\ \A K : Met(s, K) => Met(s, K)'
         /\ cur # s => (Met(s, {"race", "disconnect", "refused"})'
                        /\ Met(s, {"swapped", "race", "disconnect"})'
                        /\ Met(s, {"switched", "unstamped", "race"})')
         /\ cur = s => Bag(s) = live /\ Bag(s)' = live'
<1>1. /\ cur' = cur /\ mishaps \subseteq mishaps'
      /\ cur # s => <<s, "race">> \in mishaps'
  BY Executing
<1> QED BY <1>1 DEF Met, Bag

\* What may slip in a statement that succeeds.
LEMMA Succeeding ==
  ASSUME NEW s \in Sessions, NEW wrong, Succeeds(s, wrong)
  PROVE  /\ \A t \in Sessions \ {s} : \A k : <<t, k>> \in slipped' => <<t, k>> \in slipped
         /\ \A k : <<s, k>> \in slipped'
                     => (<<s, k>> \in slipped \/ (k = "failed" /\ want[s].failed) \/ k \in wrong)
BY DEF Succeeds, When

\* A statement that writes its own block leaves the other blocks.
LEMMA SlotUpdate ==
  ASSUME Shapes, NEW s \in Sessions, NEW x, IsSlot(x), slot' = [slot EXCEPT ![s] = x]
  PROVE  /\ slot' = [t \in Sessions |-> slot'[t]] /\ slot'[s] = x
         /\ \A t \in Sessions : IsSlot(slot'[t])
         /\ \A t \in Sessions \ {s} : slot'[t] = slot[t]
BY DEF Shapes

\* The same for what the client asked for.
LEMMA WantUpdate ==
  ASSUME Shapes, NEW s \in Sessions, NEW w, IsWant(w), want' = [want EXCEPT ![s] = w]
  PROVE  /\ want' = [t \in Sessions |-> want'[t]] /\ want'[s] = w
         /\ \A t \in Sessions : IsWant(want'[t])
         /\ \A t \in Sessions \ {s} : want'[t] = want[t]
BY DEF Shapes

\* A statement of s that only touches its own block.
LEMMA OwnKeeps ==
  ASSUME SlipInv, NEW s \in Sessions, NEW ms, Executes(s, ms),
         NEW x, NEW w, IsSlot(x), IsWant(w), IsBag(live'), parked' = parked,
         slot' = [slot EXCEPT ![s] = x], want' = [want EXCEPT ![s] = w],
         \A t \in Sessions \ {s} : \A k : <<t, k>> \in slipped' => <<t, k>> \in slipped,
         Sound(s)'
  PROVE  SlipInv'
<1>1. Shapes
  BY DEF SlipInv
<1>2. /\ slot' = [t \in Sessions |-> slot'[t]] /\ want' = [t \in Sessions |-> want'[t]]
      /\ \A t \in Sessions : IsSlot(slot'[t]) /\ IsWant(want'[t])
      /\ \A t \in Sessions \ {s} : slot'[t] = slot[t] /\ want'[t] = want[t]
  BY <1>1, SlotUpdate, WantUpdate
<1> QED BY <1>2, Executing, StatementKeeps

\* A statement of s that stays in its block (x) and keeps its level, its mode
\* and its request for one (w).
LEMMA BlockKeeps ==
  ASSUME SlipInv, NEW s \in Sessions, NEW ms, Executes(s, ms),
         NEW x, NEW w, IsSlot(x), IsWant(w), IsBag(live'), parked' = parked,
         slot' = [slot EXCEPT ![s] = x], want' = [want EXCEPT ![s] = w],
         x.open = slot[s].open, x.iso = slot[s].iso, x.ssi = slot[s].ssi,
         x.stamped = slot[s].stamped, x.others # "none" => slot[s].others # "none",
         x.open \/ x.others = slot[s].others,
         live'.iso = live.iso, live'.ro = live.ro, w.ro = want[s].ro,
         x.open \/ live'.cursor = "none" \/ live'.cursor = live.cursor,
         x.open \/ (w.failed = want[s].failed /\ w.read = want[s].read),
         w.failed => (x.aborted \/ <<s, "rebase">> \in mishaps'
                      \/ (want[s].failed /\ x.aborted = slot[s].aborted)),
         (w.read = want[s].read /\ x.read = slot[s].read) \/ x.read = x.ssi,
         \A t \in Sessions \ {s} : \A k : <<t, k>> \in slipped' => <<t, k>> \in slipped,
         \A k : <<s, k>> \in slipped'
                  => (<<s, k>> \in slipped
                      \/ (k = "failed" /\ want[s].failed /\ ~slot[s].aborted)
                      \/ (k = "readonly" /\ want[s].ro /\ ~live.ro))
  PROVE  SlipInv'
<1>1. Sound(s) /\ Shapes
  BY DEF SlipInv
<1>2. slot'[s] = x /\ want'[s] = w
  BY <1>1, SlotUpdate, WantUpdate
<1>3. cur' = cur /\ mishaps \subseteq mishaps'
  BY Executing
<1>4. \A K : Met(s, K) => Met(s, K)'
  BY Noting
<1>5. /\ cur # s => (Met(s, {"race", "disconnect", "refused"})'
                     /\ Met(s, {"swapped", "race", "disconnect"})'
                     /\ Met(s, {"switched", "unstamped", "race"})')
      /\ cur = s => Bag(s) = live /\ Bag(s)' = live'
  BY Noting
<1>6. AtRest(s)'
  BY <1>1, <1>2 DEF Sound, AtRest
<1>7. LevelOK(s)'
  BY <1>1, <1>2, <1>4, <1>5 DEF Sound, LevelOK
<1>8. ModeOK(s)'
  BY <1>1, <1>2, <1>3, <1>4, <1>5 DEF Sound, ModeOK
<1>9. FailureOK(s)'
  <2>1. <<s, "rebase">> \in mishaps' => Met(s, {"rebase"})'
    BY DEF Met
  <2> QED BY <1>1, <1>2, <1>4, <2>1 DEF Sound, FailureOK
<1>10. ReadsOK(s)'
  BY <1>1, <1>2, <1>4, <1>5 DEF Sound, ReadsOK
<1> QED BY <1>6, <1>7, <1>8, <1>9, <1>10, OwnKeeps DEF Sound

---------------------------------------------------------------------------
(* The statements that stay in their block.                                *)

\* What is not written, as an update.
LEMMA Unchanged ==
  ASSUME Shapes, NEW s \in Sessions
  PROVE  /\ slot' = slot => slot' = [slot EXCEPT ![s] = slot[s]]
         /\ want' = want => want' = [want EXCEPT ![s] = want[s]]
         /\ IsSlot(slot[s]) /\ IsWant(want[s]) /\ IsBag(live)
BY DEF Shapes

\* SHOW, and a statement the firewall refuses, change nothing.
LEMMA ShowKeeps == ASSUME SlipInv, NEW s \in Sessions, Show(s) \/ Refuse(s) PROVE SlipInv'
<1>1. Executes(s, {}) /\ UNCHANGED <<live, parked, slot, want, slipped>>
  BY DEF Show, Refuse
<1>2. Shapes
  BY DEF SlipInv
<1> QED BY <1>1, <1>2, Unchanged, BlockKeeps

\* A rebase that fails is noted as a mishap.
LEMMA RebaseFailsKeeps == ASSUME SlipInv, NEW s \in Sessions, RebaseFails(s) PROVE SlipInv'
<1> DEFINE w == [want[s] EXCEPT !.failed = TRUE]
<1>1. /\ Executes(s, {<<s, "rebase">>}) /\ UNCHANGED <<live, parked, slot, slipped>>
      /\ slot[s].others = "clash" /\ slot[s].open
  BY DEF RebaseFails, Rebases, SlipInv, Sound, AtRest
<1>2. Shapes
  BY DEF SlipInv
<1>3. IsSlot(slot[s]) /\ IsWant(want[s]) /\ IsBag(live) /\ slot' = [slot EXCEPT ![s] = slot[s]]
  BY <1>1, <1>2, Unchanged
<1>4. want' = [want EXCEPT ![s] = w]
  BY <1>2 DEF RebaseFails, Shapes
<1>5. IsWant(w) /\ w.read = want[s].read /\ w.ro = want[s].ro
  BY <1>3 DEF IsWant, WantFields
<1>6. <<s, "rebase">> \in mishaps'
  BY <1>1, Executing
<1> HIDE DEF w
<1> QED BY <1>1, <1>3, <1>4, <1>5, <1>6, BlockKeeps

\* An error marks the block.
LEMMA FailKeeps == ASSUME SlipInv, NEW s \in Sessions, Fail(s) PROVE SlipInv'
<1> DEFINE x == [slot[s] EXCEPT !.aborted = TRUE]
           w == [want[s] EXCEPT !.failed = TRUE]
<1>1. Executes(s, {}) /\ UNCHANGED <<live, parked, slipped>> /\ slot[s].open
  BY DEF Fail
<1>2. Shapes
  BY DEF SlipInv
<1>3. IsSlot(slot[s]) /\ IsWant(want[s]) /\ IsBag(live)
  BY <1>2, Unchanged
<1>4. slot' = [slot EXCEPT ![s] = x] /\ want' = [want EXCEPT ![s] = w]
  BY <1>2 DEF Fail, Shapes
<1>5. /\ IsSlot(x) /\ x.aborted = TRUE
      /\ \A f \in SlotFields \ {"aborted"} : x[f] = slot[s][f]
  BY <1>3 DEF IsSlot, SlotFields
<1>6. IsWant(w) /\ \A f \in WantFields \ {"failed"} : w[f] = want[s][f]
  BY <1>3 DEF IsWant, WantFields
<1> HIDE DEF x, w
<1> QED BY <1>1, <1>3, <1>4, <1>5, <1>6, BlockKeeps DEF SlotFields, WantFields

\* SELECT reads and leaves the rest alone.
LEMMA SelectKeeps == ASSUME SlipInv, NEW s \in Sessions, Select(s) PROVE SlipInv'
<1> DEFINE x == [slot[s] EXCEPT !.ran = TRUE, !.read = slot[s].ssi]
           w == [want[s] EXCEPT !.read = TRUE]
<1>1. /\ Executes(s, {}) /\ Succeeds(s, {}) /\ UNCHANGED <<live, parked>>
      /\ slot[s].open /\ ~slot[s].aborted
  BY DEF Select, Rebases, Passes
<1>2. Shapes
  BY DEF SlipInv
<1>3. IsSlot(slot[s]) /\ IsWant(want[s]) /\ IsBag(live)
  BY <1>2, Unchanged
<1>4. slot' = [slot EXCEPT ![s] = x] /\ want' = [want EXCEPT ![s] = w]
  BY <1>2 DEF Select, Shapes
<1>5. /\ IsSlot(x) /\ x.read = slot[s].ssi
      /\ \A f \in SlotFields \ {"ran", "read"} : x[f] = slot[s][f]
  BY <1>3 DEF IsSlot, SlotFields
<1>6. IsWant(w) /\ \A f \in WantFields \ {"read"} : w[f] = want[s][f]
  BY <1>3 DEF IsWant, WantFields
<1>7. /\ \A t \in Sessions \ {s} : \A k : <<t, k>> \in slipped' => <<t, k>> \in slipped
      /\ \A k : <<s, k>> \in slipped'
                  => <<s, k>> \in slipped \/ (k = "failed" /\ want[s].failed)
  BY <1>1, Succeeding
<1> HIDE DEF x, w
<1>8. /\ x.open = slot[s].open /\ x.iso = slot[s].iso /\ x.ssi = slot[s].ssi
      /\ x.stamped = slot[s].stamped /\ x.others = slot[s].others /\ x.aborted = slot[s].aborted
      /\ w.ro = want[s].ro /\ w.failed = want[s].failed
  BY <1>5, <1>6 DEF SlotFields, WantFields
<1> QED BY <1>1, <1>3, <1>4, <1>5, <1>6, <1>7, <1>8, BlockKeeps

\* The fields of a block and of a request that the invariant is about, and the
\* statements that succeed and touch none of them.
Tracked == {"open", "aborted", "iso", "ssi", "read", "others", "stamped"}
Asked   == {"ro", "failed", "read"}

\* A statement that neither opens nor ends a block keeps the invariant.
LEMMA PlainKeeps ==
  ASSUME SlipInv, NEW s \in Sessions, NEW ms, Executes(s, ms),
         NEW wrong, Succeeds(s, wrong), ~slot[s].aborted,
         wrong = {} \/ (wrong = {"readonly"} /\ want[s].ro /\ ~live.ro),
         NEW x, NEW w, IsSlot(x), IsWant(w), IsBag(live'), parked' = parked,
         slot' = [slot EXCEPT ![s] = x], want' = [want EXCEPT ![s] = w],
         \A f \in Tracked : x[f] = slot[s][f], \A f \in Asked : w[f] = want[s][f],
         live'.iso = live.iso, live'.ro = live.ro,
         slot[s].open \/ live'.cursor = "none" \/ live'.cursor = live.cursor
  PROVE  SlipInv'
<1>1. /\ x.open = slot[s].open /\ x.iso = slot[s].iso /\ x.ssi = slot[s].ssi
      /\ x.stamped = slot[s].stamped /\ x.others = slot[s].others
      /\ x.aborted = slot[s].aborted /\ x.read = slot[s].read
  BY DEF Tracked
<1>2. w.ro = want[s].ro /\ w.failed = want[s].failed /\ w.read = want[s].read
  BY DEF Asked
<1>3. /\ \A t \in Sessions \ {s} : \A k : <<t, k>> \in slipped' => <<t, k>> \in slipped
      /\ \A k : <<s, k>> \in slipped'
                  => (<<s, k>> \in slipped \/ (k = "failed" /\ want[s].failed) \/ k \in wrong)
  BY Succeeding
<1>4. \A k : <<s, k>> \in slipped'
               => (<<s, k>> \in slipped
                   \/ (k = "failed" /\ want[s].failed /\ ~slot[s].aborted)
                   \/ (k = "readonly" /\ want[s].ro /\ ~live.ro))
  BY <1>3
<1>5. /\ x.others # "none" => slot[s].others # "none"
      /\ x.open \/ x.others = slot[s].others
      /\ x.open \/ live'.cursor = "none" \/ live'.cursor = live.cursor
      /\ x.open \/ (w.failed = want[s].failed /\ w.read = want[s].read)
      /\ (w.read = want[s].read /\ x.read = slot[s].read) \/ x.read = x.ssi
  BY <1>1, <1>2
<1>6. w.failed => (x.aborted \/ <<s, "rebase">> \in mishaps'
                   \/ (want[s].failed /\ x.aborted = slot[s].aborted))
  BY <1>1, <1>2
<1> QED BY <1>1, <1>2, <1>3, <1>4, <1>5, <1>6, BlockKeeps

\* SET changes the setting and the base of its client.
LEMMA SetSessionKeeps ==
  ASSUME SlipInv, NEW s \in Sessions, NEW v, SetSession(s, v) PROVE SlipInv'
<1> DEFINE w == [want[s] EXCEPT !.base = v]
<1>1. /\ Succeeds(s, {}) /\ ~slot[s].aborted /\ UNCHANGED <<parked, slot>>
      /\ Executes(s, When(slot[s].undo # <<>>, {<<s, "mixed">>}))
      /\ live' = [live EXCEPT !.setting = v]
  BY DEF SetSession, Rebases, Passes
<1>2. Shapes
  BY DEF SlipInv
<1>3. IsSlot(slot[s]) /\ IsWant(want[s]) /\ IsBag(live) /\ slot' = [slot EXCEPT ![s] = slot[s]]
  BY <1>1, <1>2, Unchanged
<1>4. want' = [want EXCEPT ![s] = w]
  BY <1>2 DEF SetSession, Shapes
<1>5. IsWant(w) /\ \A f \in Asked : w[f] = want[s][f]
  BY <1>3 DEF IsWant, WantFields, Asked
<1>6. IsBag(live') /\ live'.iso = live.iso /\ live'.ro = live.ro /\ live'.cursor = live.cursor
  BY <1>1, <1>3 DEF IsBag, BagFields
<1> HIDE DEF w
<1> QED BY <1>1, <1>3, <1>4, <1>5, <1>6, PlainKeeps

\* SET LOCAL adds to the undo log.
LEMMA SetLocalKeeps ==
  ASSUME SlipInv, NEW s \in Sessions, NEW v, SetLocal(s, v) PROVE SlipInv'
<1> DEFINE x == [slot[s] EXCEPT !.undo = Append(@, live.setting)]
           w == [want[s] EXCEPT !.script = Append(@, LocalOf(v))]
<1>1. /\ Succeeds(s, {}) /\ ~slot[s].aborted /\ UNCHANGED parked /\ Executes(s, {})
      /\ live' = [live EXCEPT !.setting = v]
  BY DEF SetLocal, Rebases, Passes
<1>2. Shapes
  BY DEF SlipInv
<1>3. IsSlot(slot[s]) /\ IsWant(want[s]) /\ IsBag(live)
  BY <1>2, Unchanged
<1>4. slot' = [slot EXCEPT ![s] = x] /\ want' = [want EXCEPT ![s] = w]
  BY <1>2 DEF SetLocal, Shapes
<1>5. IsSlot(x) /\ \A f \in Tracked : x[f] = slot[s][f]
  BY <1>3 DEF IsSlot, SlotFields, Tracked
<1>6. IsWant(w) /\ \A f \in Asked : w[f] = want[s][f]
  BY <1>3 DEF IsWant, WantFields, Asked
<1>7. IsBag(live') /\ live'.iso = live.iso /\ live'.ro = live.ro /\ live'.cursor = live.cursor
  BY <1>1, <1>3 DEF IsBag, BagFields
<1> HIDE DEF x, w
<1> QED BY <1>1, <1>3, <1>4, <1>5, <1>6, <1>7, PlainKeeps

\* SAVEPOINT and RELEASE work on the marks and on the script.
LEMMA SavepointKeeps ==
  ASSUME SlipInv, NEW s \in Sessions, NEW n, Savepoint(s, n) PROVE SlipInv'
<1> DEFINE x == [slot[s] EXCEPT !.marks =
                   Append(WithoutMark(@, n), [name |-> n, depth |-> Len(slot[s].undo)])]
           w == [want[s] EXCEPT !.script = Append(WithoutSave(@, n), SaveOf(n))]
<1>1. Succeeds(s, {}) /\ ~slot[s].aborted /\ UNCHANGED <<live, parked>> /\ Executes(s, {})
  BY DEF Savepoint, Passes
<1>2. Shapes
  BY DEF SlipInv
<1>3. IsSlot(slot[s]) /\ IsWant(want[s]) /\ IsBag(live)
  BY <1>2, Unchanged
<1>4. slot' = [slot EXCEPT ![s] = x] /\ want' = [want EXCEPT ![s] = w]
  BY <1>2 DEF Savepoint, Shapes
<1>5. IsSlot(x) /\ \A f \in Tracked : x[f] = slot[s][f]
  BY <1>3 DEF IsSlot, SlotFields, Tracked
<1>6. IsWant(w) /\ \A f \in Asked : w[f] = want[s][f]
  BY <1>3 DEF IsWant, WantFields, Asked
<1> HIDE DEF x, w
<1> QED BY <1>1, <1>3, <1>4, <1>5, <1>6, PlainKeeps

\* RELEASE keeps the invariant.
LEMMA ReleaseKeeps ==
  ASSUME SlipInv, NEW s \in Sessions, NEW n, Release(s, n) PROVE SlipInv'
<1>1. PICK i \in MarkAt(s, n) :
        slot' = [slot EXCEPT ![s].marks = SubSeq(@, 1, i - 1)]
  BY DEF Release
<1> DEFINE at == ScriptAt(s, n)
           x == [slot[s] EXCEPT !.marks = SubSeq(@, 1, i - 1)]
           w == [want[s] EXCEPT !.script = WithoutSavesFrom(@, at)]
<1>2. Succeeds(s, {}) /\ ~slot[s].aborted /\ UNCHANGED <<live, parked>> /\ Executes(s, {})
  BY DEF Release, Passes
<1>3. Shapes
  BY DEF SlipInv
<1>4. IsSlot(slot[s]) /\ IsWant(want[s]) /\ IsBag(live)
  BY <1>3, Unchanged
<1>5. slot' = [slot EXCEPT ![s] = x]
  BY <1>1, <1>3 DEF Shapes
<1>6. want' = [want EXCEPT ![s] = w]
  BY <1>3 DEF Release, Shapes
<1>7. IsSlot(x) /\ \A f \in Tracked : x[f] = slot[s][f]
  BY <1>4 DEF IsSlot, SlotFields, Tracked
<1>8. IsWant(w) /\ \A f \in Asked : w[f] = want[s][f]
  BY <1>4 DEF IsWant, WantFields, Asked
<1> HIDE DEF x, w
<1> QED BY <1>2, <1>4, <1>5, <1>6, <1>7, <1>8, PlainKeeps

\* DECLARE and CLOSE change the cursor and poison the rebase.
LEMMA DeclareKeeps ==
  ASSUME SlipInv, NEW s \in Sessions, NEW hold, Declare(s, hold) PROVE SlipInv'
<1> DEFINE x == [slot[s] EXCEPT !.ran = TRUE, !.poisoned = TRUE]
<1>1. /\ Succeeds(s, {}) /\ ~slot[s].aborted /\ UNCHANGED <<parked, want>> /\ Executes(s, {})
      /\ slot[s].open /\ live' = [live EXCEPT !.cursor = IF hold THEN "hold" ELSE "open"]
  BY DEF Declare, Rebases, Passes
<1>2. Shapes
  BY DEF SlipInv
<1>3. IsSlot(slot[s]) /\ IsWant(want[s]) /\ IsBag(live) /\ want' = [want EXCEPT ![s] = want[s]]
  BY <1>1, <1>2, Unchanged
<1>4. slot' = [slot EXCEPT ![s] = x]
  BY <1>2 DEF Declare, Shapes
<1>5. IsSlot(x) /\ \A f \in Tracked : x[f] = slot[s][f]
  BY <1>3 DEF IsSlot, SlotFields, Tracked
<1>6. IsBag(live') /\ live'.iso = live.iso /\ live'.ro = live.ro
  BY <1>1, <1>3 DEF IsBag, BagFields
<1> HIDE DEF x
<1> QED BY <1>1, <1>3, <1>4, <1>5, <1>6, PlainKeeps

\* CLOSE keeps the invariant.
LEMMA CloseKeeps == ASSUME SlipInv, NEW s \in Sessions, Close(s) PROVE SlipInv'
<1> DEFINE x == IF slot[s].open THEN [slot[s] EXCEPT !.ran = TRUE, !.poisoned = TRUE]
                ELSE slot[s]
<1>1. /\ Succeeds(s, {}) /\ ~slot[s].aborted /\ UNCHANGED <<parked, want>> /\ Executes(s, {})
      /\ live' = [live EXCEPT !.cursor = "none"]
  BY DEF Close, Rebases, Passes
<1>2. Shapes
  BY DEF SlipInv
<1>3. IsSlot(slot[s]) /\ IsWant(want[s]) /\ IsBag(live) /\ want' = [want EXCEPT ![s] = want[s]]
  BY <1>1, <1>2, Unchanged
<1>4. slot' = [slot EXCEPT ![s] = x]
  BY <1>2 DEF Close, Shapes
<1>5. IsSlot(x) /\ \A f \in Tracked : x[f] = slot[s][f]
  BY <1>3 DEF IsSlot, SlotFields, Tracked
<1>6. IsBag(live') /\ live'.iso = live.iso /\ live'.ro = live.ro /\ live'.cursor = "none"
  BY <1>1, <1>3 DEF IsBag, BagFields
<1> HIDE DEF x
<1> QED BY <1>1, <1>3, <1>4, <1>5, <1>6, PlainKeeps

\* Poisoning the rebase leaves the fields the invariant tracks.
LEMMA Poisoned ==
  ASSUME NEW x, IsSlot(x)
  PROVE  IsSlot(Poison(x)) /\ \A f \in Tracked : Poison(x)[f] = x[f]
BY DEF IsSlot, SlotFields, Tracked, Poison

\* LISTEN, UNLISTEN and NOTIFY only poison the rebase.
LEMMA ListenKeeps ==
  ASSUME SlipInv, NEW s \in Sessions, NEW on, Listen(s, on) PROVE SlipInv'
<1> DEFINE w == [want[s] EXCEPT !.listens = on]
<1>1. /\ Succeeds(s, {}) /\ ~slot[s].aborted /\ UNCHANGED <<live, parked>>
      /\ Executes(s, When(~on /\ Listeners \ {s} # {}, Sessions \X {"shared"}))
  BY DEF Listen, Rebases, Passes
<1>2. Shapes
  BY DEF SlipInv
<1>3. IsSlot(slot[s]) /\ IsWant(want[s]) /\ IsBag(live)
  BY <1>2, Unchanged
<1>4. slot' = [slot EXCEPT ![s] = Poison(slot[s])] /\ want' = [want EXCEPT ![s] = w]
  BY <1>2 DEF Listen, Shapes
<1>5. IsSlot(Poison(slot[s])) /\ \A f \in Tracked : Poison(slot[s])[f] = slot[s][f]
  BY <1>3, Poisoned
<1>6. IsWant(w) /\ \A f \in Asked : w[f] = want[s][f]
  BY <1>3 DEF IsWant, WantFields, Asked
<1> HIDE DEF w
<1> QED BY <1>1, <1>3, <1>4, <1>5, <1>6, PlainKeeps

\* NOTIFY keeps the invariant.
LEMMA NotifyKeeps == ASSUME SlipInv, NEW s \in Sessions, Notify(s) PROVE SlipInv'
<1>1. /\ Succeeds(s, {}) /\ ~slot[s].aborted /\ UNCHANGED <<live, parked, want>>
      /\ \E ms : Executes(s, ms)
  BY DEF Notify, Rebases, Passes
<1>2. PICK ms : Executes(s, ms)
  BY <1>1
<1>3. Shapes
  BY DEF SlipInv
<1>4. IsSlot(slot[s]) /\ IsWant(want[s]) /\ IsBag(live) /\ want' = [want EXCEPT ![s] = want[s]]
  BY <1>1, <1>3, Unchanged
<1>5. slot' = [slot EXCEPT ![s] = Poison(slot[s])]
  BY <1>3 DEF Notify, Shapes
<1>6. IsSlot(Poison(slot[s])) /\ \A f \in Tracked : Poison(slot[s])[f] = slot[s][f]
  BY <1>4, Poisoned
<1> QED BY <1>1, <1>2, <1>4, <1>5, <1>6, PlainKeeps

\* Unwinding the undo log changes the setting alone.
LEMMA Restoring ==
  ASSUME NEW l, IsBag(l), NEW s \in Sessions, NEW floor
  PROVE  /\ IsBag(Restored(l, s, floor)) /\ Restored(l, s, floor).iso = l.iso
         /\ Restored(l, s, floor).ro = l.ro /\ Restored(l, s, floor).cursor = l.cursor
BY DEF IsBag, BagFields, Restored

\* ROLLBACK TO puts the setting back and recovers a failed block.
LEMMA RollbackToKeeps ==
  ASSUME SlipInv, NEW s \in Sessions, NEW n, RollbackTo(s, n) PROVE SlipInv'
<1>1. PICK i \in MarkAt(s, n), others \in {slot[s].others} \cup
                                          When(slot[s].others = "clash", {"moved"}) :
        /\ Executes(s, {})
        /\ slot' = [slot EXCEPT ![s].marks = SubSeq(@, 1, i),
                                ![s].undo = SubSeq(@, 1, slot[s].marks[i].depth),
                                ![s].aborted = FALSE,
                                ![s].others = others]
        /\ live' = Restored(live, s, slot[s].marks[i].depth)
        /\ want' = [want EXCEPT ![s].script = SubSeq(@, 1, ScriptAt(s, n)),
                                ![s].failed = FALSE]
        /\ UNCHANGED <<parked, slipped>>
  BY DEF RollbackTo
<1> DEFINE x == [slot[s] EXCEPT !.marks = SubSeq(@, 1, i),
                                !.undo = SubSeq(@, 1, slot[s].marks[i].depth),
                                !.aborted = FALSE, !.others = others]
           w == [want[s] EXCEPT !.script = SubSeq(@, 1, ScriptAt(s, n)), !.failed = FALSE]
<1>2. Shapes
  BY DEF SlipInv
<1>3. IsSlot(slot[s]) /\ IsWant(want[s]) /\ IsBag(live)
  BY <1>2, Unchanged
<1>4. slot' = [slot EXCEPT ![s] = x] /\ want' = [want EXCEPT ![s] = w]
  BY <1>1, <1>2 DEF Shapes
<1>5. /\ IsSlot(x) /\ x.others = others /\ x.open = slot[s].open /\ x.iso = slot[s].iso
      /\ x.ssi = slot[s].ssi /\ x.stamped = slot[s].stamped /\ x.read = slot[s].read
  BY <1>3 DEF IsSlot, SlotFields
<1>6. IsWant(w) /\ w.failed = FALSE /\ w.ro = want[s].ro /\ w.read = want[s].read
  BY <1>3 DEF IsWant, WantFields
<1>7. IsBag(live') /\ live'.iso = live.iso /\ live'.ro = live.ro /\ live'.cursor = live.cursor
  BY <1>1, <1>3, Restoring
<1>8. /\ others # "none" => slot[s].others # "none"
      /\ slot[s].open \/ (others = slot[s].others /\ want[s].failed = FALSE)
  BY DEF When, SlipInv, Sound, AtRest
<1> HIDE DEF x, w
<1> QED BY <1>1, <1>3, <1>4, <1>5, <1>6, <1>7, <1>8, BlockKeeps

---------------------------------------------------------------------------
(* The statements that start, switch and end a block.                      *)

\* BEGIN: block, session and request get the same level and mode.
LEMMA BeginKeeps ==
  ASSUME SlipInv, NEW s \in Sessions, NEW iso \in Levels, NEW ro \in BOOLEAN,
         Begin(s, iso, ro)
  PROVE  SlipInv'
<1> DEFINE x == [Closed EXCEPT !.open = TRUE, !.iso = iso, !.ro = ro, !.ssi = (iso = "ser")]
           w == [want[s] EXCEPT !.ro = ro]
<1>1. /\ Executes(s, {}) /\ UNCHANGED <<parked, slipped>> /\ ~slot[s].open
      /\ live' = [live EXCEPT !.iso = iso, !.ro = ro]
  BY DEF Begin
<1>2. Shapes /\ Sound(s)
  BY DEF SlipInv
<1>3. IsWant(want[s]) /\ IsBag(live)
  BY <1>2, Unchanged
<1>4. slot' = [slot EXCEPT ![s] = x] /\ want' = [want EXCEPT ![s] = w]
  BY <1>2 DEF Begin, Shapes
<1>5. /\ IsSlot(x) /\ x.open = TRUE /\ x.iso = iso /\ x.ssi = (iso = "ser")
      /\ x.others = "none"
  BY DEF IsSlot, SlotFields, Closed
<1>6. IsWant(w) /\ w.ro = ro /\ w.failed = want[s].failed /\ w.read = want[s].read
  BY <1>3 DEF IsWant, WantFields
<1>7. IsBag(live') /\ live'.iso = iso /\ live'.ro = ro
  BY <1>1, <1>3 DEF IsBag, BagFields
<1> HIDE DEF x, w
<1>8. slot'[s] = x /\ want'[s] = w
  BY <1>2, <1>4, <1>5, <1>6, SlotUpdate, WantUpdate
<1>9. cur' = cur
  BY <1>1, Executing
<1>10. /\ \A K : Met(s, K) => Met(s, K)'
       /\ cur # s => (Met(s, {"race", "disconnect", "refused"})'
                      /\ Met(s, {"swapped", "race", "disconnect"})'
                      /\ Met(s, {"switched", "unstamped", "race"})')
       /\ cur = s => Bag(s)' = live'
  BY <1>1, Noting
<1>11. want[s].failed = FALSE /\ want[s].read = FALSE
  BY <1>1, <1>2 DEF Sound, AtRest
<1>12. AtRest(s)' /\ LevelOK(s)'
  BY <1>5, <1>7, <1>8, <1>10 DEF AtRest, LevelOK
<1>13. ModeOK(s)' /\ FailureOK(s)'
  BY <1>1, <1>2, <1>6, <1>7, <1>8, <1>9, <1>10, <1>11 DEF Sound, ModeOK, FailureOK
<1>14. ReadsOK(s)'
  BY <1>1, <1>2, <1>5, <1>6, <1>7, <1>8, <1>10, <1>11 DEF Sound, ReadsOK
<1> QED BY <1>1, <1>4, <1>5, <1>6, <1>7, <1>12, <1>13, <1>14, OwnKeeps DEF Sound

\* SET TRANSACTION ISOLATION LEVEL: a switch to SERIALIZABLE is noted.
LEMMA SetLevelKeeps ==
  ASSUME SlipInv, NEW s \in Sessions, NEW iso \in Levels, SetLevel(s, iso)
  PROVE  SlipInv'
<1> DEFINE x == [slot[s] EXCEPT !.iso = iso, !.ro = live.ro]
           ms == When(iso = "ser" /\ ~slot[s].ssi, {<<s, "switched">>})
<1>1. /\ Executes(s, ms) /\ Succeeds(s, {}) /\ UNCHANGED <<parked, want>>
      /\ slot[s].open /\ ~slot[s].aborted /\ live' = [live EXCEPT !.iso = iso]
  BY DEF SetLevel, Passes
<1>2. Shapes /\ Sound(s)
  BY DEF SlipInv
<1>3. IsSlot(slot[s]) /\ IsWant(want[s]) /\ IsBag(live) /\ want' = [want EXCEPT ![s] = want[s]]
  BY <1>1, <1>2, Unchanged
<1>4. slot' = [slot EXCEPT ![s] = x]
  BY <1>2 DEF SetLevel, Shapes
<1>5. /\ IsSlot(x) /\ x.open = slot[s].open /\ x.iso = iso /\ x.aborted = slot[s].aborted
      /\ x.ssi = slot[s].ssi /\ x.read = slot[s].read
      /\ x.others = slot[s].others /\ x.stamped = slot[s].stamped
  BY <1>3 DEF IsSlot, SlotFields
<1>6. IsBag(live') /\ live'.iso = iso /\ live'.ro = live.ro
  BY <1>1, <1>3 DEF IsBag, BagFields
<1> HIDE DEF x
<1>7. slot'[s] = x /\ want'[s] = want[s]
  BY <1>1, <1>2, <1>4, <1>5, SlotUpdate
<1>8. cur' = cur /\ ms \subseteq mishaps'
  BY <1>1, Executing
<1>9. iso = "ser" /\ ~slot[s].ssi => Met(s, {"switched", "unstamped", "race"})'
  BY <1>8 DEF Met, When
<1> HIDE DEF ms
<1>10. /\ \A K : Met(s, K) => Met(s, K)'
       /\ cur # s => (Met(s, {"race", "disconnect", "refused"})'
                      /\ Met(s, {"swapped", "race", "disconnect"})'
                      /\ Met(s, {"switched", "unstamped", "race"})')
       /\ cur = s => Bag(s)' = live'
  BY <1>1, Noting
<1>11. \A k : <<s, k>> \in slipped' => <<s, k>> \in slipped \/ (k = "failed" /\ want[s].failed)
  BY <1>1, Succeeding
<1>12. AtRest(s)' /\ LevelOK(s)'
  BY <1>1, <1>5, <1>6, <1>7, <1>10 DEF AtRest, LevelOK
<1>13. ModeOK(s)' /\ FailureOK(s)'
  BY <1>1, <1>2, <1>5, <1>6, <1>7, <1>8, <1>10, <1>11 DEF Sound, ModeOK, FailureOK
<1>14. ReadsOK(s)'
  <2>1. ASSUME ~Met(s, {"switched", "unstamped", "race"})'
        PROVE  /\ cur = s /\ ~Met(s, {"switched", "unstamped", "race"})
               /\ iso = "ser" => slot[s].ssi
    BY <1>9, <1>10, <2>1
  <2> QED BY <1>2, <1>5, <1>6, <1>7, <1>10, <1>11, <2>1 DEF Sound, ReadsOK
<1>15. \A t \in Sessions \ {s} : \A k : <<t, k>> \in slipped' => <<t, k>> \in slipped
  BY <1>1, Succeeding
<1> QED BY <1>1, <1>3, <1>4, <1>5, <1>6, <1>12, <1>13, <1>14, <1>15, OwnKeeps DEF Sound

\* SET TRANSACTION READ ONLY or READ WRITE: loosening is refused by the live
\* mode, which is the one the client asked for.
LEMMA SetModeKeeps ==
  ASSUME SlipInv, NEW s \in Sessions, NEW ro \in BOOLEAN, SetMode(s, ro)
  PROVE  SlipInv'
<1> DEFINE x == [slot[s] EXCEPT !.iso = live.iso, !.ro = ro]
           w == [want[s] EXCEPT !.ro = ro]
           late == slot[s].ran \/ slot[s].marks # <<>>
           wrong == When(late /\ ~ro /\ want[s].ro, {"readonly"})
<1>1. /\ Executes(s, {}) /\ Succeeds(s, wrong) /\ UNCHANGED parked
      /\ slot[s].open /\ ~slot[s].aborted /\ ~(late /\ ~ro /\ live.ro)
      /\ live' = [live EXCEPT !.ro = ro]
  BY DEF SetMode, Passes
<1>2. Shapes /\ Sound(s)
  BY DEF SlipInv
<1>3. IsSlot(slot[s]) /\ IsWant(want[s]) /\ IsBag(live)
  BY <1>2, Unchanged
<1>4. slot' = [slot EXCEPT ![s] = x] /\ want' = [want EXCEPT ![s] = w]
  BY <1>2 DEF SetMode, Shapes
<1>5. /\ IsSlot(x) /\ x.open = slot[s].open /\ x.iso = live.iso /\ x.aborted = slot[s].aborted
      /\ x.ssi = slot[s].ssi /\ x.read = slot[s].read
      /\ x.others = slot[s].others /\ x.stamped = slot[s].stamped
  BY <1>3 DEF IsSlot, SlotFields
<1>6. IsWant(w) /\ w.ro = ro /\ w.failed = want[s].failed /\ w.read = want[s].read
  BY <1>3 DEF IsWant, WantFields
<1>7. IsBag(live') /\ live'.iso = live.iso /\ live'.ro = ro
  BY <1>1, <1>3 DEF IsBag, BagFields
<1> HIDE DEF x, w
<1>8. slot'[s] = x /\ want'[s] = w
  BY <1>2, <1>4, <1>5, <1>6, SlotUpdate, WantUpdate
<1>9. cur' = cur
  BY <1>1, Executing
<1>10. /\ \A K : Met(s, K) => Met(s, K)'
       /\ cur # s => (Met(s, {"race", "disconnect", "refused"})'
                      /\ Met(s, {"swapped", "race", "disconnect"})'
                      /\ Met(s, {"switched", "unstamped", "race"})')
       /\ cur = s => Bag(s) = live /\ Bag(s)' = live'
  BY <1>1, Noting
<1>11. \A k : <<s, k>> \in slipped'
                => (<<s, k>> \in slipped \/ (k = "failed" /\ want[s].failed) \/ k \in wrong)
  BY <1>1, Succeeding
<1>12. \A k : k \in wrong => k = "readonly" /\ want[s].ro /\ ~live.ro
  BY <1>1 DEF When
<1> HIDE DEF wrong
<1>13. AtRest(s)' /\ LevelOK(s)'
  BY <1>1, <1>5, <1>7, <1>8, <1>10 DEF AtRest, LevelOK
<1>14. ModeOK(s)'
  BY <1>2, <1>6, <1>7, <1>8, <1>9, <1>10, <1>11, <1>12 DEF Sound, ModeOK
<1>15. FailureOK(s)'
  BY <1>1, <1>2, <1>5, <1>6, <1>8, <1>10, <1>11, <1>12 DEF Sound, FailureOK
<1>16. ReadsOK(s)'
  <2>1. ASSUME ~Met(s, {"switched", "unstamped", "race"})'
        PROVE  /\ cur = s /\ ~Met(s, {"switched", "unstamped", "race"})
               /\ live.iso = "ser" => slot[s].ssi
    BY <1>1, <1>2, <1>10, <2>1 DEF Sound, ReadsOK
  <2>2. <<s, "skew">> \in slipped' => <<s, "skew">> \in slipped
    BY <1>11, <1>12
  <2> QED BY <1>2, <1>5, <1>6, <1>7, <1>8, <1>10, <2>1, <2>2 DEF Sound, ReadsOK
<1>17. \A t \in Sessions \ {s} : \A k : <<t, k>> \in slipped' => <<t, k>> \in slipped
  BY <1>1, Succeeding
<1> QED BY <1>1, <1>4, <1>5, <1>6, <1>7, <1>13, <1>14, <1>15, <1>16, <1>17, OwnKeeps DEF Sound

\* A block that is over: nothing of it is left in the slot and the request,
\* and nothing in the session unless the COMMIT was refused.
LEMMA OverIsSound ==
  ASSUME SlipInv, NEW s \in Sessions, NEW ms, Executes(s, ms),
         slot'[s] = Closed, want'[s] = NoBlock(want[s].base, want[s].listens),
         \/ <<s, "refused">> \in mishaps'
         \/ live'.iso = "rc" /\ live'.ro = FALSE /\ live'.cursor \in {"none", "held"},
         \A k : <<s, k>> \in slipped'
                  => (<<s, k>> \in slipped
                      \/ (k = "failed" /\ want[s].failed /\ ~slot[s].aborted)
                      \/ (k = "skew" /\ slot[s].iso = "ser" /\ want[s].read
                          /\ slot[s].others # "none" /\ ~(slot[s].read /\ slot[s].stamped)))
  PROVE  Sound(s)'
<1>1. Sound(s)
  BY DEF SlipInv
<1>2. /\ Closed.open = FALSE /\ Closed.iso = "rc" /\ Closed.ssi = FALSE
      /\ Closed.others = "none"
  BY DEF Closed
<1>3. want'[s].failed = FALSE /\ want'[s].read = FALSE /\ want'[s].ro = FALSE
  BY DEF NoBlock
<1>4. cur' = cur
  BY Executing
<1>5. /\ \A K : Met(s, K) => Met(s, K)'
      /\ cur # s => (Met(s, {"race", "disconnect", "refused"})'
                     /\ Met(s, {"swapped", "race", "disconnect"})'
                     /\ Met(s, {"switched", "unstamped", "race"})')
      /\ cur = s => Bag(s) = live /\ Bag(s)' = live'
  BY Noting
<1>6. <<s, "refused">> \in mishaps' => Met(s, {"race", "disconnect", "refused"})'
  BY DEF Met
<1>7. AtRest(s)' /\ LevelOK(s)'
  BY <1>2, <1>3, <1>5, <1>6 DEF AtRest, LevelOK
<1>8. ModeOK(s)' /\ FailureOK(s)'
  BY <1>1, <1>3, <1>5 DEF Sound, ModeOK, FailureOK
<1>9. ReadsOK(s)'
  BY <1>1, <1>2, <1>3, <1>5 DEF Sound, ReadsOK
<1> QED BY <1>7, <1>8, <1>9 DEF Sound

\* What ROLLBACK and COMMIT make of a session.
LEMMA Ending ==
  ASSUME NEW l, IsBag(l), NEW s \in Sessions
  PROVE  \A r \in {RolledBack(l, s), CursorsOnCommit(Defaults(Restored(l, s, 0)))} :
           /\ IsBag(r) /\ r.iso = "rc" /\ r.ro = FALSE /\ r.cursor \in {"none", "held"}
<1> DEFINE m == Restored(l, s, 0)
<1>1. IsBag(m)
  BY Restoring
<1>2. IsBag(Defaults(m)) /\ Defaults(m).iso = "rc" /\ Defaults(m).ro = FALSE
  BY <1>1 DEF IsBag, BagFields, Defaults
<1> DEFINE d == Defaults(m)
<1> HIDE DEF d, m
<1>3. /\ IsBag(CursorsOnCommit(d)) /\ CursorsOnCommit(d).iso = d.iso
      /\ CursorsOnCommit(d).ro = d.ro /\ CursorsOnCommit(d).cursor \in {"none", "held"}
  BY <1>2 DEF IsBag, BagFields, CursorsOnCommit, d
<1>4. /\ IsBag(CursorsOnRollback(d)) /\ CursorsOnRollback(d).iso = d.iso
      /\ CursorsOnRollback(d).ro = d.ro /\ CursorsOnRollback(d).cursor \in {"none", "held"}
  BY <1>2 DEF IsBag, BagFields, CursorsOnRollback, d
<1> QED BY <1>2, <1>3, <1>4 DEF RolledBack, d, m

\* ROLLBACK ends the block and puts the defaults back.
LEMMA RollbackKeeps == ASSUME SlipInv, NEW s \in Sessions, Rollback(s) PROVE SlipInv'
<1> DEFINE w == NoBlock(want[s].base, want[s].listens)
<1>1. /\ Executes(s, Shared(s)) /\ UNCHANGED <<parked, slipped>>
      /\ slot' = [slot EXCEPT ![s] = Closed] /\ want' = [want EXCEPT ![s] = w]
      /\ live' = RolledBack(live, s)
  BY DEF Rollback, Ends
<1>2. Shapes /\ IsBag(live) /\ IsSlot(Closed) /\ IsWant(w)
  BY Constants0 DEF SlipInv, Shapes
<1>3. slot'[s] = Closed /\ want'[s] = w
  BY <1>1, <1>2, SlotUpdate, WantUpdate
<1>4. IsBag(live') /\ live'.iso = "rc" /\ live'.ro = FALSE /\ live'.cursor \in {"none", "held"}
  BY <1>1, <1>2, Ending
<1>5. Sound(s)'
  BY <1>1, <1>3, <1>4, OverIsSound
<1> HIDE DEF w
<1> QED BY <1>1, <1>2, <1>4, <1>5, OwnKeeps

\* A refused COMMIT ends the block and leaves its level behind.
LEMMA RefuseCommitKeeps == ASSUME SlipInv, NEW s \in Sessions, RefuseCommit(s) PROVE SlipInv'
<1> DEFINE w == NoBlock(want[s].base, want[s].listens)
<1>1. /\ Executes(s, {<<s, "refused">>}) /\ UNCHANGED <<parked, slipped>>
      /\ slot' = [slot EXCEPT ![s] = Closed] /\ want' = [want EXCEPT ![s] = w]
      /\ live' = Defaults(Restored(live, s, 0)) \/ live' = Restored(live, s, 0)
  BY DEF RefuseCommit, Ends
<1>2. Shapes /\ IsBag(live) /\ IsSlot(Closed) /\ IsWant(w)
  BY Constants0 DEF SlipInv, Shapes
<1>3. slot'[s] = Closed /\ want'[s] = w
  BY <1>1, <1>2, SlotUpdate, WantUpdate
<1>4. IsBag(live')
  <2>1. IsBag(Restored(live, s, 0))
    BY <1>2, Restoring
  <2>2. IsBag(Defaults(Restored(live, s, 0)))
    BY <2>1 DEF IsBag, BagFields, Defaults
  <2> QED BY <1>1, <2>1, <2>2
<1>5. <<s, "refused">> \in mishaps'
  BY <1>1, Executing
<1>6. Sound(s)'
  BY <1>1, <1>3, <1>5, OverIsSound
<1> HIDE DEF w
<1> QED BY <1>1, <1>2, <1>4, <1>6, OwnKeeps

\* What others committed is noted in the open blocks and nowhere else.
LEMMA MovedOne ==
  ASSUME Shapes, NEW s \in Sessions, NEW C, NEW stamps, NEW t \in Sessions
  PROVE  /\ IsSlot(Moved(s, C, stamps)[t])
         /\ t = s \/ ~slot[t].open => Moved(s, C, stamps)[t] = slot[t]
         /\ \A f \in Tracked \ {"others", "stamped"} : Moved(s, C, stamps)[t][f] = slot[t][f]
         /\ t # s /\ slot[t].open => Moved(s, C, stamps)[t].stamped = (slot[t].stamped \/ stamps)
<1>1. IsSlot(slot[t])
  BY DEF Shapes
<1>2. CASE t = s \/ ~slot[t].open
  BY <1>1, <1>2 DEF Moved
<1>3. CASE t # s /\ slot[t].open
  <2> DEFINE o == IF t \in C THEN "clash" ELSE "moved"
             y == [slot[t] EXCEPT !.others = o, !.stamped = slot[t].stamped \/ stamps]
  <2>1. Moved(s, C, stamps)[t] = y
    BY <1>3 DEF Moved
  <2>2. /\ IsSlot(y) /\ y.stamped = (slot[t].stamped \/ stamps)
        /\ \A f \in Tracked \ {"others", "stamped"} : y[f] = slot[t][f]
    BY <1>1 DEF IsSlot, SlotFields, Tracked
  <2> HIDE DEF y
  <2> QED BY <1>3, <2>1, <2>2
<1> QED BY <1>2, <1>3

\* COMMIT: a serializable block whose reads others wrote is not let through.
LEMMA CommitKeeps == ASSUME SlipInv, NEW s \in Sessions, Commit(s) PROVE SlipInv'
<1> DEFINE w == NoBlock(want[s].base, want[s].listens)
           wrong == When(slot[s].iso = "ser" /\ want[s].read /\ slot[s].others # "none",
                         {"skew"})
<1>1. /\ Executes(s, Shared(s)) /\ Succeeds(s, wrong) /\ UNCHANGED parked
      /\ want' = [want EXCEPT ![s] = w]
      /\ live' = CursorsOnCommit(Defaults(Restored(live, s, 0)))
      /\ ~slot[s].aborted /\ ~(slot[s].read /\ slot[s].stamped)
  BY DEF Commit, Ends, Rebases, Passes
<1>2. PICK C : slot' = [t \in Sessions |-> IF t = s THEN Closed
                                           ELSE IF slot[s].wrote THEN Moved(s, C, TRUE)[t]
                                           ELSE slot[t]]
  BY DEF Commit
<1>3. Shapes /\ IsBag(live) /\ IsSlot(Closed) /\ IsWant(w)
  BY Constants0 DEF SlipInv, Shapes
<1>4. slot'[s] = Closed /\ slot' = [t \in Sessions |-> slot'[t]]
  BY <1>2
<1>5. /\ want' = [t \in Sessions |-> want'[t]] /\ want'[s] = w
      /\ \A t \in Sessions : IsWant(want'[t])
      /\ \A t \in Sessions \ {s} : want'[t] = want[t]
  BY <1>1, <1>3, WantUpdate
<1>6. IsBag(live') /\ live'.iso = "rc" /\ live'.ro = FALSE /\ live'.cursor \in {"none", "held"}
  BY <1>1, <1>3, Ending
<1>7. \A k : <<s, k>> \in slipped'
               => (<<s, k>> \in slipped
                   \/ (k = "failed" /\ want[s].failed /\ ~slot[s].aborted)
                   \/ (k = "skew" /\ slot[s].iso = "ser" /\ want[s].read
                       /\ slot[s].others # "none" /\ ~(slot[s].read /\ slot[s].stamped)))
  <2>1. \A k : <<s, k>> \in slipped'
                 => (<<s, k>> \in slipped \/ (k = "failed" /\ want[s].failed) \/ k \in wrong)
    BY <1>1, Succeeding
  <2> QED BY <1>1, <2>1 DEF When
<1>8. Sound(s)'
  BY <1>1, <1>4, <1>5, <1>6, <1>7, OverIsSound
<1>9. ASSUME NEW t \in Sessions \ {s}
      PROVE  /\ IsSlot(slot'[t])
             /\ \A f \in {"open", "aborted", "iso", "ssi", "read"} : slot'[t][f] = slot[t][f]
             /\ slot'[t].stamped \/ slot'[t] = slot[t]
             /\ ~slot[t].open => slot'[t].others = slot[t].others
  <2>1. CASE slot[s].wrote
    <3>1. slot'[t] = Moved(s, C, TRUE)[t]
      BY <1>2, <2>1
    <3>2. t \in Sessions /\ t # s
      BY <1>9
    <3> DEFINE stamps == TRUE
    <3> HIDE DEF stamps
    <3>3. /\ IsSlot(Moved(s, C, stamps)[t])
          /\ t = s \/ ~slot[t].open => Moved(s, C, stamps)[t] = slot[t]
          /\ \A f \in Tracked \ {"others", "stamped"} : Moved(s, C, stamps)[t][f] = slot[t][f]
          /\ t # s /\ slot[t].open
               => Moved(s, C, stamps)[t].stamped = (slot[t].stamped \/ stamps)
      BY <1>3, <3>2, MovedOne
    <3> QED BY <3>1, <3>2, <3>3 DEF Tracked, stamps
  <2>2. CASE ~slot[s].wrote
    <3>1. slot'[t] = slot[t]
      BY <1>2, <2>2
    <3> QED BY <1>3, <3>1 DEF Shapes
  <2> QED BY <2>1, <2>2
<1>10. /\ cur' = cur /\ mishaps \subseteq mishaps'
       /\ cur # s => <<s, "race">> \in mishaps'
                     /\ (cur \in Sessions => <<cur, "race">> \in mishaps')
  BY <1>1, Executing
<1>11. \A t \in Sessions \ {s} : \A k : <<t, k>> \in slipped' => <<t, k>> \in slipped
  BY <1>1, Succeeding
<1>12. \A t \in Sessions : IsSlot(slot'[t]) /\ IsWant(want'[t])
  BY <1>3, <1>4, <1>5, <1>9
<1>13. \A t \in Sessions \ {s} :
         /\ want'[t] = want[t]
         /\ \A f \in {"open", "aborted", "iso", "ssi", "read"} : slot'[t][f] = slot[t][f]
         /\ slot'[t].ssi /\ slot'[t].others # "none"
              => slot'[t].stamped \/ <<t, "unstamped">> \in mishaps'
                 \/ (slot[t].others # "none" /\ (slot[t].stamped => slot'[t].stamped))
         /\ ~slot[t].open => slot'[t].others = slot[t].others
         /\ \A k : <<t, k>> \in slipped' => <<t, k>> \in slipped
  BY <1>5, <1>9, <1>11
<1> QED BY <1>1, <1>4, <1>5, <1>6, <1>8, <1>10, <1>12, <1>13, StatementKeeps

\* A connection nothing of which changes stays sound.
LEMMA SameIsSound ==
  ASSUME SlipInv, NEW s \in Sessions, mishaps \subseteq mishaps', slipped' = slipped,
         slot'[s] = slot[s], want'[s] = want[s], Bag(s)' = Bag(s),
         (cur' = s /\ want[s].ro) => ((cur = s /\ live' = live)
                                      \/ Met(s, {"swapped", "race", "disconnect"})')
  PROVE  Sound(s)'
<1>1. Sound(s) /\ \A K : Met(s, K) => Met(s, K)'
  BY DEF SlipInv, Met
<1>2. AtRest(s)' /\ LevelOK(s)' /\ FailureOK(s)' /\ ReadsOK(s)'
  BY <1>1 DEF Sound, AtRest, LevelOK, FailureOK, ReadsOK
<1>3. ModeOK(s)'
  BY <1>1 DEF Sound, ModeOK
<1> QED BY <1>2, <1>3 DEF Sound

\* A write: refused in a read-only block, recorded in another one, and
\* outside a block noted by the serializable blocks it does not stamp.
LEMMA WriteKeeps == ASSUME SlipInv, NEW s \in Sessions, Write(s) PROVE SlipInv'
<1>1. Shapes
  BY DEF SlipInv
<1>2. IsSlot(slot[s]) /\ IsWant(want[s]) /\ IsBag(live)
  BY <1>1, Unchanged
<1>3. ~slot[s].aborted /\ UNCHANGED <<live, parked>>
  BY DEF Write, Rebases, Passes
<1>4. CASE /\ slot[s].open /\ live.ro
           /\ Executes(s, {})
           /\ slot' = [slot EXCEPT ![s].aborted = TRUE]
           /\ want' = [want EXCEPT ![s].failed = TRUE]
           /\ UNCHANGED slipped
  <2> DEFINE x == [slot[s] EXCEPT !.aborted = TRUE]
             w == [want[s] EXCEPT !.failed = TRUE]
  <2>1. slot' = [slot EXCEPT ![s] = x] /\ want' = [want EXCEPT ![s] = w]
    BY <1>1, <1>4 DEF Shapes
  <2>2. /\ IsSlot(x) /\ x.aborted = TRUE
        /\ \A f \in SlotFields \ {"aborted"} : x[f] = slot[s][f]
    BY <1>2 DEF IsSlot, SlotFields
  <2>3. IsWant(w) /\ \A f \in WantFields \ {"failed"} : w[f] = want[s][f]
    BY <1>2 DEF IsWant, WantFields
  <2> HIDE DEF x, w
  <2>4. /\ x.open = slot[s].open /\ x.iso = slot[s].iso /\ x.ssi = slot[s].ssi
        /\ x.stamped = slot[s].stamped /\ x.others = slot[s].others /\ x.read = slot[s].read
        /\ w.ro = want[s].ro /\ w.read = want[s].read
    BY <2>2, <2>3 DEF SlotFields, WantFields
  <2>5. IsBag(live') /\ live'.iso = live.iso /\ live'.ro = live.ro /\ parked' = parked
    BY <1>2, <1>3
  <2> QED BY <1>4, <2>1, <2>2, <2>3, <2>4, <2>5, BlockKeeps
<1>5. CASE /\ slot[s].open /\ ~live.ro
           /\ Executes(s, {})
           /\ slot' = [slot EXCEPT ![s].ran = TRUE, ![s].wrote = TRUE]
           /\ Succeeds(s, When(want[s].ro, {"readonly"}))
           /\ UNCHANGED want
  <2> DEFINE x == [slot[s] EXCEPT !.ran = TRUE, !.wrote = TRUE]
             wrong == When(want[s].ro, {"readonly"})
  <2>1. slot' = [slot EXCEPT ![s] = x] /\ want' = [want EXCEPT ![s] = want[s]]
    BY <1>1, <1>5, Unchanged DEF Shapes
  <2>2. IsSlot(x) /\ \A f \in Tracked : x[f] = slot[s][f]
    BY <1>2 DEF IsSlot, SlotFields, Tracked
  <2>3. wrong = {} \/ (wrong = {"readonly"} /\ want[s].ro /\ ~live.ro)
    BY <1>5 DEF When
  <2>4. Executes(s, {}) /\ Succeeds(s, wrong) /\ slot[s].open
    BY <1>5
  <2> HIDE DEF x, wrong
  <2> QED BY <1>2, <1>3, <2>1, <2>2, <2>3, <2>4, PlainKeeps
<1>6. CASE /\ ~slot[s].open
           /\ Executes(s, { <<t, "unstamped">> : t \in {u \in Sessions : slot[u].ssi} })
           /\ \E C \in SUBSET {t \in Sessions \ {s} : Clashable(t)} :
                slot' = Moved(s, C, FALSE)
           /\ UNCHANGED <<want, slipped>>
  <2> DEFINE ms == { <<t, "unstamped">> : t \in {u \in Sessions : slot[u].ssi} }
             stamps == FALSE
  <2>1. PICK C : slot' = Moved(s, C, stamps)
    BY <1>6
  <2>2. Executes(s, ms)
    BY <1>6
  <2>3. \A t \in Sessions : slot[t].ssi => <<t, "unstamped">> \in mishaps'
    BY <2>2, Executing
  <2> HIDE DEF ms, stamps
  <2>4. /\ cur' = cur /\ mishaps \subseteq mishaps'
        /\ cur # s => <<s, "race">> \in mishaps'
                      /\ (cur \in Sessions => <<cur, "race">> \in mishaps')
    BY <2>2, Executing
  <2>5. /\ slot' = [t \in Sessions |-> slot'[t]] /\ want' = [t \in Sessions |-> want'[t]]
        /\ \A t \in Sessions : IsWant(want'[t])
    BY <1>1, <1>6, <2>1 DEF Shapes, Moved
  <2>6. ASSUME NEW t \in Sessions
        PROVE  /\ IsSlot(slot'[t])
               /\ t = s \/ ~slot[t].open => slot'[t] = slot[t]
               /\ \A f \in Tracked \ {"others", "stamped"} : slot'[t][f] = slot[t][f]
    BY <1>1, <2>1, MovedOne
  <2>7. Sound(s)'
    <3>1. Bag(s)' = Bag(s)
      BY <1>3, <2>4 DEF Bag
    <3> QED BY <1>3, <1>6, <2>4, <2>6, <3>1, SameIsSound
  <2>8. \A t \in Sessions \ {s} :
          /\ want'[t] = want[t]
          /\ \A f \in {"open", "aborted", "iso", "ssi", "read"} : slot'[t][f] = slot[t][f]
          /\ slot'[t].ssi => <<t, "unstamped">> \in mishaps'
          /\ ~slot[t].open => slot'[t].others = slot[t].others
          /\ \A k : <<t, k>> \in slipped' => <<t, k>> \in slipped
    BY <1>6, <2>3, <2>6 DEF Tracked
  <2> QED BY <1>2, <1>3, <2>4, <2>5, <2>6, <2>7, <2>8, StatementKeeps
<1> QED BY <1>4, <1>5, <1>6 DEF Write

---------------------------------------------------------------------------
(* The steps that change whose session is live.                            *)

\* set_current_session: a bag does not carry the mode, so a connection that
\* asked for READ ONLY and comes back is noted.
LEMMA AnnounceKeeps == ASSUME SlipInv, NEW s \in Sessions, Announce(s) PROVE SlipInv'
<1>1. Shapes
  BY DEF SlipInv
<1>2. cur' = s /\ UNCHANGED <<slot, want, slipped>>
  BY DEF Announce
<1>3. CASE cur = s
  <2>1. UNCHANGED <<cur, live, parked, mishaps>>
    BY <1>2, <1>3 DEF Announce
  <2> QED BY <1>2, <2>1 DEF SlipInv, Shapes, Sound, AtRest, LevelOK, ModeOK, FailureOK,
             ReadsOK, Met, Bag
<1>4. CASE cur # s
  <2> DEFINE old == [live EXCEPT !.ro = FALSE]
  <2>1. /\ live' = parked[s] /\ parked' = [parked EXCEPT ![cur] = old, ![s] = Fresh]
        /\ mishaps' = mishaps \cup When(want[s].ro, {<<s, "swapped">>})
    BY <1>4 DEF Announce
  <2>2. mishaps \subseteq mishaps' /\ (want[s].ro => Met(s, {"swapped", "race", "disconnect"})')
    BY <2>1 DEF Met, When
  <2>3. /\ IsBag(old) /\ old.ro = FALSE /\ old.iso = live.iso /\ old.cursor = live.cursor
        /\ IsBag(Fresh) /\ Fresh.ro = FALSE
    BY <1>1, Constants0 DEF Shapes, IsBag, BagFields, Fresh
  <2> HIDE DEF old
  <2>4. /\ parked' = [i \in Sessions \cup {0} |-> parked'[i]]
        /\ cur \in Sessions => parked'[cur] = old
        /\ \A i \in (Sessions \cup {0}) \ {s, cur} : parked'[i] = parked[i]
        /\ parked'[s] = Fresh /\ parked'[cur] = old
    BY <1>1, <1>4, <2>1 DEF Shapes
  <2>5. Shapes'
    BY <1>1, <1>2, <2>1, <2>3, <2>4 DEF Shapes
  <2>6. Sound(s)'
    <3>1. Bag(s) = parked[s] /\ Bag(s)' = parked[s]
      BY <1>2, <1>4, <2>1 DEF Bag
    <3> QED BY <1>2, <2>2, <3>1, SameIsSound
  <2>7. ASSUME NEW t \in Sessions \ {s, cur} PROVE Sound(t)'
    <3>1. Bag(t)' = Bag(t) /\ cur' # t
      BY <1>2, <2>4 DEF Bag
    <3> QED BY <1>2, <2>2, <3>1, SameIsSound
  <2>8. ASSUME NEW t \in Sessions, t = cur PROVE Sound(t)'
    <3>1. Bag(t) = live /\ Bag(t)' = old /\ t # cur'
      BY <1>2, <1>4, <2>4, <2>8 DEF Bag
    <3>2. Sound(t) /\ \A K : Met(t, K) => Met(t, K)'
      BY <2>2 DEF SlipInv, Met
    <3> QED BY <1>2, <2>3, <3>1, <3>2 DEF Sound, AtRest, LevelOK, ModeOK, FailureOK, ReadsOK
  <2> QED BY <2>5, <2>6, <2>7, <2>8 DEF SlipInv
<1> QED BY <1>3, <1>4

\* A disconnect rolls the block back in whatever session is live, which is
\* noted if it is another connection's.
LEMMA LeaveKeeps == ASSUME SlipInv, NEW s \in Sessions, Leave(s) PROVE SlipInv'
<1> DEFINE l == IF slot[s].open THEN RolledBack(live, s) ELSE live
           w == NoBlock(Initially, FALSE)
<1>1. Shapes /\ Sound(s) /\ IsBag(live) /\ IsSlot(Closed) /\ IsWant(w) /\ IsBag(Fresh)
  BY Constants0 DEF SlipInv, Shapes
<1>2. /\ slot' = [slot EXCEPT ![s] = Closed] /\ want' = [want EXCEPT ![s] = w]
      /\ parked' = [parked EXCEPT ![s] = Fresh] /\ UNCHANGED slipped
      /\ mishaps \subseteq mishaps'
  BY DEF Leave
<1>3. /\ IsBag(l)
      /\ slot[s].open => l.iso = "rc" /\ l.ro = FALSE /\ l.cursor \in {"none", "held"}
      /\ ~slot[s].open => l = live
  BY <1>1, Ending
<1>4. /\ slot' = [t \in Sessions |-> slot'[t]] /\ slot'[s] = Closed
      /\ want' = [t \in Sessions |-> want'[t]] /\ want'[s] = w
      /\ \A t \in Sessions : IsSlot(slot'[t]) /\ IsWant(want'[t])
      /\ \A t \in Sessions \ {s} : slot'[t] = slot[t] /\ want'[t] = want[t]
  BY <1>1, <1>2, SlotUpdate, WantUpdate
<1>5. /\ cur = s => cur' = 0 /\ live' = [l EXCEPT !.setting = Initially, !.cursor = "none"]
      /\ cur # s => cur' = cur /\ live' = l
      /\ cur # s /\ slot[s].open /\ cur \in Sessions => <<cur, "disconnect">> \in mishaps'
  BY SessionsAssumption DEF Leave, When
<1> HIDE DEF l
<1>6. /\ IsBag(live') /\ cur' # s
      /\ cur = s => live'.iso = l.iso /\ live'.ro = l.ro /\ live'.cursor = "none"
  BY <1>3, <1>5, SessionsAssumption DEF IsBag, BagFields
<1>7. /\ parked' = [i \in Sessions \cup {0} |-> parked'[i]] /\ parked'[s] = Fresh
      /\ \A i \in Sessions \ {s} : parked'[i] = parked[i]
      /\ \A i \in Sessions \cup {0} : IsBag(parked'[i]) /\ parked'[i].ro = FALSE
  BY <1>1, <1>2 DEF Shapes, Fresh
<1>8. Shapes'
  BY <1>1, <1>4, <1>5, <1>6, <1>7 DEF Shapes
<1>9. Sound(s)'
  <2>1. \A K : Met(s, K) => Met(s, K)'
    BY <1>2 DEF Met
  <2>2. Bag(s)' = Fresh
    BY <1>6, <1>7 DEF Bag
  <2>3. /\ Fresh.iso = "rc" /\ Fresh.ro = FALSE /\ Fresh.cursor = "none"
        /\ Closed.open = FALSE /\ Closed.iso = "rc" /\ Closed.ssi = FALSE /\ Closed.others = "none"
        /\ w.failed = FALSE /\ w.read = FALSE /\ w.ro = FALSE
    BY DEF Fresh, Closed, NoBlock
  <2> HIDE DEF w
  <2> QED BY <1>1, <1>2, <1>4, <1>6, <2>1, <2>2, <2>3
          DEF Sound, AtRest, LevelOK, ModeOK, FailureOK, ReadsOK
<1>10. ASSUME NEW t \in Sessions, t # s, cur # t PROVE Sound(t)'
  <2>1. cur' # t
    BY <1>5, <1>10, SessionsAssumption
  <2>2. Bag(t)' = Bag(t)
    BY <1>7, <1>10, <2>1 DEF Bag
  <2> QED BY <1>2, <1>4, <1>10, <2>1, <2>2, SameIsSound
<1>11. ASSUME NEW t \in Sessions, t # s, cur = t PROVE Sound(t)'
  <2>1. cur' = t /\ live' = l /\ Bag(t)' = l /\ Bag(t) = live
    BY <1>5, <1>11 DEF Bag
  <2>2. CASE ~slot[s].open
    BY <1>2, <1>3, <1>4, <1>11, <2>1, <2>2, SameIsSound
  <2>3. CASE slot[s].open
    <3>1. Sound(t) /\ \A K : Met(t, K) => Met(t, K)'
      BY <1>2 DEF SlipInv, Met
    <3>2. /\ Met(t, {"race", "disconnect", "refused"})'
          /\ Met(t, {"swapped", "race", "disconnect"})'
      BY <1>5, <1>11, <2>3 DEF Met
    <3>3. slot'[t] = slot[t] /\ want'[t] = want[t]
      BY <1>4, <1>11
    <3>4. AtRest(t)' /\ LevelOK(t)' /\ ModeOK(t)' /\ FailureOK(t)'
      BY <1>2, <3>1, <3>2, <3>3 DEF Sound, AtRest, LevelOK, ModeOK, FailureOK
    <3>5. ReadsOK(t)'
      BY <1>2, <1>3, <2>1, <2>3, <3>1, <3>3 DEF Sound, ReadsOK
    <3> QED BY <3>4, <3>5 DEF Sound
  <2> QED BY <2>2, <2>3
<1> QED BY <1>8, <1>9, <1>10, <1>11 DEF SlipInv

---------------------------------------------------------------------------
(* The theorems.                                                           *)

\* Every step keeps the invariant.
LEMMA NextKeeps == ASSUME SlipInv, [Next]_vars PROVE SlipInv'
<1>1. CASE UNCHANGED vars
  BY <1>1 DEF vars, SlipInv, Shapes, Sound, AtRest, LevelOK, ModeOK, FailureOK, ReadsOK, Met, Bag
<1>2. CASE Next
  <2>1. PICK s \in Sessions :
          \/ Announce(s) \/ Show(s) \/ Refuse(s) \/ RebaseFails(s) \/ Fail(s)
          \/ Select(s) \/ Write(s)
          \/ \E iso \in Levels, ro \in BOOLEAN : Begin(s, iso, ro)
          \/ \E iso \in Levels : SetLevel(s, iso)
          \/ \E ro \in BOOLEAN : SetMode(s, ro)
          \/ Commit(s) \/ Rollback(s) \/ RefuseCommit(s)
          \/ \E v \in Values : SetSession(s, v) \/ SetLocal(s, v)
          \/ \E n \in Saves : Savepoint(s, n) \/ RollbackTo(s, n) \/ Release(s, n)
          \/ \E hold \in BOOLEAN : Declare(s, hold)
          \/ Close(s)
          \/ \E on \in BOOLEAN : Listen(s, on)
          \/ Notify(s)
          \/ Leave(s)
    BY <1>2 DEF Next
  <2>2. CASE Announce(s) \/ Show(s) \/ Refuse(s) \/ RebaseFails(s) \/ Fail(s)
             \/ Select(s) \/ Write(s)
    BY <2>2, AnnounceKeeps, ShowKeeps, RebaseFailsKeeps, FailKeeps, SelectKeeps, WriteKeeps
  <2>3. CASE \/ \E iso \in Levels, ro \in BOOLEAN : Begin(s, iso, ro)
             \/ \E iso \in Levels : SetLevel(s, iso)
             \/ \E ro \in BOOLEAN : SetMode(s, ro)
    BY <2>3, BeginKeeps, SetLevelKeeps, SetModeKeeps
  <2>4. CASE Commit(s) \/ Rollback(s) \/ RefuseCommit(s)
    BY <2>4, CommitKeeps, RollbackKeeps, RefuseCommitKeeps
  <2>5. CASE \/ \E v \in Values : SetSession(s, v) \/ SetLocal(s, v)
             \/ \E n \in Saves : Savepoint(s, n) \/ RollbackTo(s, n) \/ Release(s, n)
    BY <2>5, SetSessionKeeps, SetLocalKeeps, SavepointKeeps, RollbackToKeeps, ReleaseKeeps
  <2>6. CASE \/ \E hold \in BOOLEAN : Declare(s, hold)
             \/ Close(s)
             \/ \E on \in BOOLEAN : Listen(s, on)
             \/ Notify(s)
             \/ Leave(s)
    BY <2>6, DeclareKeeps, CloseKeeps, ListenKeeps, NotifyKeeps, LeaveKeeps
  <2> QED BY <2>1, <2>2, <2>3, <2>4, <2>5, <2>6
<1> QED BY <1>1, <1>2

\* The invariant holds.
LEMMA Invariant == SessSpec => []SlipInv
BY InitSound, NextKeeps, PTL DEF SessSpec

\* No statement runs that must not: no write in a READ ONLY block, nothing in
\* a block with a failed statement, no COMMIT of a SERIALIZABLE block over
\* stale reads, except after the mishaps NothingSlips names.
THEOREM Guarded == SessSpec => []NothingSlips
<1>1. SlipInv => NothingSlips
  BY DEF SlipInv, Sound, ModeOK, FailureOK, ReadsOK, NothingSlips
<1> QED BY <1>1, Invariant, PTL

\* A connection that met no mishap and has no block has the default level and
\* mode and no cursor but a held one; one with a block has its level.
THEOREM BlocksLeaveNothing == SessSpec => []BlockStateEndsWithBlock
<1>1. SlipInv => BlockStateEndsWithBlock
  BY DEF SlipInv, Sound, LevelOK, BlockStateEndsWithBlock
<1> QED BY <1>1, Invariant, PTL

---------------------------------------------------------------------------
(* Notifications follow their block.  The queue is one for all blocks, so  *)
(* what a block sent is still its own only while no other connection ends  *)
(* a block; the invariant says, for a connection that never shared the     *)
(* queue, that its open notifications are queued, that its block is safe   *)
(* from the refusals that would leave them there, and that all others are  *)
(* where they belong.                                                      *)

\* The notifications are numbered, and only they are queued or delivered.
Numbered ==
  /\ IsFiniteSet(notices)
  /\ \A n \in notices : /\ n = [id |-> n.id, by |-> n.by, due |-> n.due]
                        /\ n.by \in Sessions
                        /\ n.id \in 1 .. Cardinality(notices)
  /\ \A n, m \in notices : n.id = m.id => n = m
  /\ pending \subseteq 1 .. Cardinality(notices)
  /\ delivered \subseteq 1 .. Cardinality(notices)

\* A block that cannot be refused a COMMIT for a conflict.
Spared(x) == x.open /\ x.poisoned /\ x.others # "clash"

\* Where notification n is, if its sender never shared the queue.
Followed(n) ==
  ~Met(n.by, {"shared"})
    => IF n.due = "open"
       THEN n.id \in pending /\ n.id \notin delivered /\ Spared(slot[n.by])
       ELSE /\ n.id \notin pending
            /\ n.id \in delivered => n.due \in {"yes", "unheard"}
            /\ n.due = "yes" => n.id \in delivered

\* The channel is there as long as somebody listens.
ChannelOK == Listeners # {} => listening \/ \A t \in Sessions : Met(t, {"shared"})

NoticeInv == Numbered /\ ChannelOK /\ \A n \in notices : Followed(n)

\* A step that leaves the notifications alone, lets nobody start to listen and
\* leaves spared blocks spared.
LEMMA QuietFollows ==
  ASSUME NoticeInv, mishaps \subseteq mishaps',
         UNCHANGED <<pending, delivered, listening, notices>>,
         \A t \in Sessions : want'[t].listens => want[t].listens,
         \A t \in Sessions : Spared(slot[t]) => Spared(slot'[t])
  PROVE  NoticeInv'
<1>1. \A t : Met(t, {"shared"}) => Met(t, {"shared"})'
  BY DEF Met
<1>2. Numbered'
  BY DEF NoticeInv, Numbered
<1>3. ChannelOK'
  BY <1>1 DEF NoticeInv, ChannelOK, Listeners
<1>4. ASSUME NEW n \in notices PROVE Followed(n)'
  <2>1. Followed(n) /\ n.by \in Sessions
    BY DEF NoticeInv, Numbered
  <2>2. Spared(slot[n.by]) => Spared(slot'[n.by])
    BY <2>1
  <2> QED BY <1>1, <2>1, <2>2 DEF Followed, Spared
<1> QED BY <1>2, <1>3, <1>4 DEF NoticeInv

\* Settling the notifications of a block keeps their numbers.
LEMMA Settled ==
  ASSUME Numbered, NEW s, NEW due, notices' = Settle(s, due),
         pending' \subseteq pending, delivered' \subseteq delivered \cup pending
  PROVE  /\ Numbered'
         /\ \A m \in notices' : \E n \in notices :
              /\ m.id = n.id /\ m.by = n.by
              /\ IF n.by = s /\ n.due = "open" THEN m.due = due ELSE m = n
<1> DEFINE F(n) == IF n.by = s /\ n.due = "open" THEN [n EXCEPT !.due = due] ELSE n
           f    == [n \in notices |-> F(n)]
<1>1. ASSUME NEW n \in notices
      PROVE  /\ F(n).id = n.id /\ F(n).by = n.by
             /\ F(n) = [id |-> F(n).id, by |-> F(n).by, due |-> F(n).due]
             /\ IF n.by = s /\ n.due = "open" THEN F(n).due = due ELSE F(n) = n
  BY DEF Numbered
<1>2. notices' = { F(n) : n \in notices }
  BY DEF Settle
<1> HIDE DEF F
<1>3. \A n, m \in notices : F(n) = F(m) => n = m
  BY <1>1 DEF Numbered
<1>4. f \in Bijection(notices, notices')
  <2>1. f \in [notices -> notices']
    BY <1>2
  <2>2. \A n, m \in notices : f[n] = f[m] => n = m
    BY <1>3
  <2>3. \A m \in notices' : \E n \in notices : f[n] = m
    BY <1>2
  <2> QED BY <2>1, <2>2, <2>3 DEF Bijection, Injection, Surjection, IsInjective
<1>5. ExistsBijection(notices, notices')
  BY <1>4 DEF ExistsBijection
<1> HIDE DEF f
<1>6. IsFiniteSet(notices') /\ Cardinality(notices') = Cardinality(notices)
  BY <1>5, FS_Bijection DEF Numbered
<1>7. \A m \in notices' : \E n \in notices : m = F(n)
  BY <1>2
<1>8. \A m \in notices' : /\ m = [id |-> m.id, by |-> m.by, due |-> m.due]
                          /\ m.by \in Sessions /\ m.id \in 1 .. Cardinality(notices)
  BY <1>1, <1>7 DEF Numbered
<1>9. \A n, m \in notices' : n.id = m.id => n = m
  BY <1>1, <1>7 DEF Numbered
<1>10. Numbered'
  BY <1>6, <1>8, <1>9 DEF Numbered
<1> QED BY <1>1, <1>7, <1>10

\* A block of s ends, and the queue with it: its notifications are delivered,
\* if somebody listens, or lost.
LEMMA EndFollows ==
  ASSUME NoticeInv, NEW s \in Sessions, mishaps \cup Shared(s) \subseteq mishaps',
         UNCHANGED listening,
         \A t \in Sessions : want'[t].listens => want[t].listens,
         \A t \in Sessions \ {s} : Spared(slot[t]) => Spared(slot'[t]),
         NEW due, notices' = Settle(s, due), pending' = {},
         \/ due = "lost" /\ delivered' = delivered
         \/ /\ due = IF Listeners = {} THEN "unheard" ELSE "yes"
            /\ delivered' = delivered \cup When(listening, pending)
  PROVE  NoticeInv'
<1>1. \A t : Met(t, {"shared"}) => Met(t, {"shared"})'
  BY DEF Met
<1>2. /\ Numbered'
      /\ \A m \in notices' : \E n \in notices :
           /\ m.id = n.id /\ m.by = n.by
           /\ IF n.by = s /\ n.due = "open" THEN m.due = due ELSE m = n
  BY Settled DEF NoticeInv, When
<1>3. ChannelOK'
  BY <1>1 DEF NoticeInv, ChannelOK, Listeners
<1>4. ASSUME NEW m \in notices' PROVE Followed(m)'
  <2>1. PICK n \in notices : /\ m.id = n.id /\ m.by = n.by
                             /\ IF n.by = s /\ n.due = "open" THEN m.due = due ELSE m = n
    BY <1>2
  <2>2. SUFFICES ASSUME ~Met(n.by, {"shared"})' PROVE Followed(m)'
    BY <2>1 DEF Followed
  <2>3. ~Met(n.by, {"shared"}) /\ Followed(n) /\ n.by \in Sessions
    BY <1>1, <2>2 DEF NoticeInv, Numbered
  <2>4. CASE n.by = s /\ n.due = "open"
    <3>1. n.id \in pending /\ n.id \notin delivered /\ m.due = due
      BY <2>1, <2>3, <2>4 DEF Followed
    <3>2. Listeners # {} => listening
      BY <2>3 DEF NoticeInv, ChannelOK
    <3>3. \/ m.due = "lost" /\ n.id \notin delivered'
          \/ m.due = "unheard"
          \/ m.due = "yes" /\ n.id \in delivered'
      BY <3>1, <3>2 DEF When
    <3> QED BY <2>1, <2>3, <3>3 DEF Followed
  <2>5. CASE ~(n.by = s /\ n.due = "open")
    <3>1. n.id \notin pending
      <4>1. CASE n.by = s
        BY <2>3, <2>5, <4>1 DEF Followed
      <4>2. CASE n.by # s
        BY <2>2, <4>2 DEF Shared, Met
      <4> QED BY <4>1, <4>2
    <3>2. n.due # "open" /\ (n.id \in delivered' <=> n.id \in delivered)
      BY <2>3, <3>1 DEF Followed, When
    <3> QED BY <2>1, <2>3, <2>5, <3>1, <3>2 DEF Followed
  <2> QED BY <2>4, <2>5
<1> QED BY <1>2, <1>3, <1>4 DEF NoticeInv

\* A block ends that has nothing in the queue.
LEMMA SilentEndFollows ==
  ASSUME NoticeInv, NEW s \in Sessions, mishaps \subseteq mishaps',
         UNCHANGED <<listening, pending, delivered>>, ~Spared(slot[s]),
         \A t \in Sessions : want'[t].listens => want[t].listens,
         \A t \in Sessions \ {s} : Spared(slot[t]) => Spared(slot'[t]),
         notices' = Settle(s, "lost")
  PROVE  NoticeInv'
<1>1. \A t : Met(t, {"shared"}) => Met(t, {"shared"})'
  BY DEF Met
<1>2. /\ Numbered'
      /\ \A m \in notices' : \E n \in notices :
           /\ m.id = n.id /\ m.by = n.by
           /\ IF n.by = s /\ n.due = "open" THEN m.due = "lost" ELSE m = n
  BY Settled DEF NoticeInv
<1>3. ChannelOK'
  BY <1>1 DEF NoticeInv, ChannelOK, Listeners
<1>4. ASSUME NEW m \in notices' PROVE Followed(m)'
  <2>1. PICK n \in notices : /\ m.id = n.id /\ m.by = n.by
                             /\ IF n.by = s /\ n.due = "open" THEN m.due = "lost" ELSE m = n
    BY <1>2
  <2>2. SUFFICES ASSUME ~Met(n.by, {"shared"})' PROVE Followed(m)'
    BY <2>1 DEF Followed
  <2>3. ~Met(n.by, {"shared"}) /\ Followed(n) /\ n.by \in Sessions
    BY <1>1, <2>2 DEF NoticeInv, Numbered
  <2>4. ~(n.by = s /\ n.due = "open") /\ m = n
    BY <2>1, <2>3 DEF Followed
  <2>5. n.by # s => (Spared(slot[n.by]) => Spared(slot'[n.by]))
    BY <2>3
  <2> QED BY <2>3, <2>4, <2>5 DEF Followed
<1> QED BY <1>2, <1>3, <1>4 DEF NoticeInv

\* A statement that changes neither the notifications nor who listens, and of
\* its own block keeps what spares it (x).
LEMMA OwnFollows ==
  ASSUME SlipInv, NoticeInv, NEW s \in Sessions, NEW ms, Executes(s, ms),
         UNCHANGED <<pending, delivered, listening, notices>>,
         NEW w, want' = [want EXCEPT ![s] = w], w.listens = want[s].listens,
         NEW x, slot' = [slot EXCEPT ![s] = x], Spared(slot[s]) => Spared(x)
  PROVE  NoticeInv'
<1>1. mishaps \subseteq mishaps'
  BY Executing
<1>2. /\ \A t \in Sessions : want'[t].listens => want[t].listens
      /\ \A t \in Sessions : Spared(slot[t]) => Spared(slot'[t])
  BY DEF SlipInv, Shapes
<1> QED BY <1>1, <1>2, QuietFollows

\* The statements of a block, other than those that end it.
LEMMA StatementFollows ==
  ASSUME SlipInv, NoticeInv, NEW s \in Sessions,
         \/ Show(s) \/ Refuse(s) \/ RebaseFails(s) \/ Fail(s) \/ Select(s)
         \/ \E iso \in Levels, ro \in BOOLEAN : Begin(s, iso, ro)
         \/ \E iso \in Levels : SetLevel(s, iso)
         \/ \E ro \in BOOLEAN : SetMode(s, ro)
         \/ \E v \in Values : SetSession(s, v) \/ SetLocal(s, v)
         \/ \E n \in Saves : Savepoint(s, n) \/ RollbackTo(s, n) \/ Release(s, n)
         \/ \E hold \in BOOLEAN : Declare(s, hold)
         \/ Close(s)
  PROVE  NoticeInv'
<1>1. Shapes /\ IsSlot(slot[s]) /\ IsWant(want[s])
  BY Unchanged DEF SlipInv
<1>2. /\ slot' = slot => slot' = [slot EXCEPT ![s] = slot[s]]
      /\ want' = want => want' = [want EXCEPT ![s] = want[s]]
  BY <1>1, Unchanged
<1>3. CASE Show(s) \/ Refuse(s)
  BY <1>2, <1>3, OwnFollows DEF Show, Refuse
<1>4. CASE RebaseFails(s)
  <2> DEFINE w == [want[s] EXCEPT !.failed = TRUE]
  <2>1. want' = [want EXCEPT ![s] = w]
    BY <1>1, <1>4 DEF RebaseFails, Shapes
  <2>2. w.listens = want[s].listens
    BY <1>1 DEF IsWant, WantFields
  <2> HIDE DEF w
  <2> QED BY <1>2, <1>4, <2>1, <2>2, OwnFollows DEF RebaseFails
<1>5. CASE Fail(s)
  <2> DEFINE w == [want[s] EXCEPT !.failed = TRUE]
             x == [slot[s] EXCEPT !.aborted = TRUE]
  <2>1. want' = [want EXCEPT ![s] = w] /\ slot' = [slot EXCEPT ![s] = x]
    BY <1>1, <1>5 DEF Fail, Shapes
  <2>2. w.listens = want[s].listens /\ (Spared(slot[s]) => Spared(x))
    BY <1>1 DEF IsWant, WantFields, IsSlot, SlotFields, Spared
  <2> HIDE DEF w, x
  <2> QED BY <1>5, <2>1, <2>2, OwnFollows DEF Fail
<1>6. CASE Select(s)
  <2> DEFINE w == [want[s] EXCEPT !.read = TRUE]
             x == [slot[s] EXCEPT !.ran = TRUE, !.read = slot[s].ssi]
  <2>1. want' = [want EXCEPT ![s] = w] /\ slot' = [slot EXCEPT ![s] = x]
    BY <1>1, <1>6 DEF Select, Shapes
  <2>2. w.listens = want[s].listens /\ (Spared(slot[s]) => Spared(x))
    BY <1>1 DEF IsWant, WantFields, IsSlot, SlotFields, Spared
  <2> HIDE DEF w, x
  <2> QED BY <1>6, <2>1, <2>2, OwnFollows DEF Select
<1>7. ASSUME NEW iso, NEW ro, Begin(s, iso, ro) PROVE NoticeInv'
  <2> DEFINE w == [want[s] EXCEPT !.ro = ro]
             x == [Closed EXCEPT !.open = TRUE, !.iso = iso, !.ro = ro, !.ssi = (iso = "ser")]
  <2>1. want' = [want EXCEPT ![s] = w] /\ slot' = [slot EXCEPT ![s] = x]
    BY <1>1, <1>7 DEF Begin, Shapes
  <2>2. w.listens = want[s].listens /\ ~Spared(slot[s])
    BY <1>1, <1>7 DEF IsWant, WantFields, Spared, Begin
  <2> HIDE DEF w, x
  <2> QED BY <1>7, <2>1, <2>2, OwnFollows DEF Begin
<1>8. ASSUME NEW iso, SetLevel(s, iso) PROVE NoticeInv'
  <2> DEFINE x == [slot[s] EXCEPT !.iso = iso, !.ro = live.ro]
  <2>1. slot' = [slot EXCEPT ![s] = x] /\ want' = [want EXCEPT ![s] = want[s]]
    BY <1>1, <1>2, <1>8 DEF SetLevel, Shapes
  <2>2. Spared(slot[s]) => Spared(x)
    BY <1>1 DEF IsSlot, SlotFields, Spared
  <2> HIDE DEF x
  <2> QED BY <1>8, <2>1, <2>2, OwnFollows DEF SetLevel
<1>9. ASSUME NEW ro, SetMode(s, ro) PROVE NoticeInv'
  <2> DEFINE w == [want[s] EXCEPT !.ro = ro]
             x == [slot[s] EXCEPT !.iso = live.iso, !.ro = ro]
  <2>1. slot' = [slot EXCEPT ![s] = x] /\ want' = [want EXCEPT ![s] = w]
    BY <1>1, <1>9 DEF SetMode, Shapes
  <2>2. w.listens = want[s].listens /\ (Spared(slot[s]) => Spared(x))
    BY <1>1 DEF IsWant, WantFields, IsSlot, SlotFields, Spared
  <2> HIDE DEF w, x
  <2> QED BY <1>9, <2>1, <2>2, OwnFollows DEF SetMode
<1>10. ASSUME NEW v, SetSession(s, v) PROVE NoticeInv'
  <2> DEFINE w == [want[s] EXCEPT !.base = v]
  <2>1. slot' = [slot EXCEPT ![s] = slot[s]] /\ want' = [want EXCEPT ![s] = w]
    BY <1>1, <1>2, <1>10 DEF SetSession, Shapes
  <2>2. w.listens = want[s].listens
    BY <1>1 DEF IsWant, WantFields
  <2> HIDE DEF w
  <2> QED BY <1>10, <2>1, <2>2, OwnFollows DEF SetSession
<1>11. ASSUME NEW v, SetLocal(s, v) PROVE NoticeInv'
  <2> DEFINE w == [want[s] EXCEPT !.script = Append(@, LocalOf(v))]
             x == [slot[s] EXCEPT !.undo = Append(@, live.setting)]
  <2>1. slot' = [slot EXCEPT ![s] = x] /\ want' = [want EXCEPT ![s] = w]
    BY <1>1, <1>11 DEF SetLocal, Shapes
  <2>2. w.listens = want[s].listens /\ (Spared(slot[s]) => Spared(x))
    BY <1>1 DEF IsWant, WantFields, IsSlot, SlotFields, Spared
  <2> HIDE DEF w, x
  <2> QED BY <1>11, <2>1, <2>2, OwnFollows DEF SetLocal
<1>12. ASSUME NEW n, Savepoint(s, n) PROVE NoticeInv'
  <2> DEFINE w == [want[s] EXCEPT !.script = Append(WithoutSave(@, n), SaveOf(n))]
             x == [slot[s] EXCEPT !.marks =
                     Append(WithoutMark(@, n), [name |-> n, depth |-> Len(slot[s].undo)])]
  <2>1. slot' = [slot EXCEPT ![s] = x] /\ want' = [want EXCEPT ![s] = w]
    BY <1>1, <1>12 DEF Savepoint, Shapes
  <2>2. w.listens = want[s].listens /\ (Spared(slot[s]) => Spared(x))
    BY <1>1 DEF IsWant, WantFields, IsSlot, SlotFields, Spared
  <2> HIDE DEF w, x
  <2> QED BY <1>12, <2>1, <2>2, OwnFollows DEF Savepoint
<1>13. ASSUME NEW n, RollbackTo(s, n) PROVE NoticeInv'
  <2>1. PICK i \in MarkAt(s, n), others \in {slot[s].others} \cup
                                            When(slot[s].others = "clash", {"moved"}) :
          /\ Executes(s, {})
          /\ slot' = [slot EXCEPT ![s].marks = SubSeq(@, 1, i),
                                  ![s].undo = SubSeq(@, 1, slot[s].marks[i].depth),
                                  ![s].aborted = FALSE,
                                  ![s].others = others]
          /\ want' = [want EXCEPT ![s].script = SubSeq(@, 1, ScriptAt(s, n)),
                                  ![s].failed = FALSE]
          /\ UNCHANGED <<pending, listening, delivered, notices>>
    BY <1>13 DEF RollbackTo
  <2> DEFINE w == [want[s] EXCEPT !.script = SubSeq(@, 1, ScriptAt(s, n)), !.failed = FALSE]
             x == [slot[s] EXCEPT !.marks = SubSeq(@, 1, i),
                                  !.undo = SubSeq(@, 1, slot[s].marks[i].depth),
                                  !.aborted = FALSE, !.others = others]
  <2>2. slot' = [slot EXCEPT ![s] = x] /\ want' = [want EXCEPT ![s] = w]
    BY <1>1, <2>1 DEF Shapes
  <2>3. w.listens = want[s].listens /\ (Spared(slot[s]) => Spared(x))
    BY <1>1 DEF IsWant, WantFields, IsSlot, SlotFields, Spared, When
  <2> HIDE DEF w, x
  <2> QED BY <2>1, <2>2, <2>3, OwnFollows
<1>14. ASSUME NEW n, Release(s, n) PROVE NoticeInv'
  <2>1. PICK i : /\ Executes(s, {})
                 /\ slot' = [slot EXCEPT ![s].marks = SubSeq(@, 1, i - 1)]
                 /\ \E f : want' = [want EXCEPT ![s].script = f]
                 /\ UNCHANGED <<pending, listening, delivered, notices>>
    BY <1>14 DEF Release
  <2>2. PICK f : want' = [want EXCEPT ![s].script = f]
    BY <2>1
  <2> DEFINE w == [want[s] EXCEPT !.script = f]
             x == [slot[s] EXCEPT !.marks = SubSeq(@, 1, i - 1)]
  <2>3. slot' = [slot EXCEPT ![s] = x] /\ want' = [want EXCEPT ![s] = w]
    BY <1>1, <2>1, <2>2 DEF Shapes
  <2>4. w.listens = want[s].listens /\ (Spared(slot[s]) => Spared(x))
    BY <1>1 DEF IsWant, WantFields, IsSlot, SlotFields, Spared
  <2> HIDE DEF w, x
  <2> QED BY <2>1, <2>3, <2>4, OwnFollows
<1>15. ASSUME NEW hold, Declare(s, hold) PROVE NoticeInv'
  <2> DEFINE x == [slot[s] EXCEPT !.ran = TRUE, !.poisoned = TRUE]
  <2>1. slot' = [slot EXCEPT ![s] = x] /\ want' = [want EXCEPT ![s] = want[s]]
    BY <1>1, <1>2, <1>15 DEF Declare, Shapes
  <2>2. Spared(slot[s]) => Spared(x)
    BY <1>1 DEF IsSlot, SlotFields, Spared
  <2> HIDE DEF x
  <2> QED BY <1>15, <2>1, <2>2, OwnFollows DEF Declare
<1>16. CASE Close(s)
  <2> DEFINE x == IF slot[s].open THEN [slot[s] EXCEPT !.ran = TRUE, !.poisoned = TRUE]
                  ELSE slot[s]
  <2>1. slot' = [slot EXCEPT ![s] = x] /\ want' = [want EXCEPT ![s] = want[s]]
    BY <1>1, <1>2, <1>16 DEF Close, Shapes
  <2>2. Spared(slot[s]) => Spared(x)
    BY <1>1 DEF IsSlot, SlotFields, Spared
  <2> HIDE DEF x
  <2> QED BY <1>16, <2>1, <2>2, OwnFollows DEF Close
<1>17. CASE Show(s) \/ Refuse(s) \/ RebaseFails(s) \/ Fail(s) \/ Select(s) \/ Close(s)
  BY <1>3, <1>4, <1>5, <1>6, <1>16, <1>17
<1>18. CASE \/ \E iso \in Levels, ro \in BOOLEAN : Begin(s, iso, ro)
            \/ \E iso \in Levels : SetLevel(s, iso)
            \/ \E ro \in BOOLEAN : SetMode(s, ro)
            \/ \E v \in Values : SetSession(s, v) \/ SetLocal(s, v)
  BY <1>7, <1>8, <1>9, <1>10, <1>11, <1>18
<1>19. CASE \/ \E n \in Saves : Savepoint(s, n) \/ RollbackTo(s, n) \/ Release(s, n)
            \/ \E hold \in BOOLEAN : Declare(s, hold)
  BY <1>12, <1>13, <1>14, <1>15, <1>19
<1> QED BY <1>17, <1>18, <1>19

\* What others commit does not clash with a spared block.
LEMMA MovedSpares ==
  ASSUME Shapes, NEW s \in Sessions, NEW stamps, NEW t \in Sessions,
         NEW C \in SUBSET {u \in Sessions \ {s} : Clashable(u)}, Spared(slot[t])
  PROVE  Spared(Moved(s, C, stamps)[t])
<1>1. IsSlot(slot[t]) /\ t \notin C
  BY DEF Shapes, Clashable, Spared
<1>2. CASE t = s \/ ~slot[t].open
  BY <1>2 DEF Moved
<1>3. CASE t # s /\ slot[t].open
  <2> DEFINE y == [slot[t] EXCEPT !.others = "moved", !.stamped = slot[t].stamped \/ stamps]
  <2>1. Moved(s, C, stamps)[t] = y
    BY <1>1, <1>3 DEF Moved
  <2>2. Spared(y)
    BY <1>1 DEF IsSlot, SlotFields, Spared
  <2> QED BY <2>1, <2>2
<1> QED BY <1>2, <1>3

\* A write leaves the queue alone and clashes with no spared block.
LEMMA WriteFollows ==
  ASSUME SlipInv, NoticeInv, NEW s \in Sessions, Write(s) PROVE NoticeInv'
<1>1. Shapes /\ IsSlot(slot[s]) /\ IsWant(want[s])
  BY Unchanged DEF SlipInv
<1>2. UNCHANGED <<pending, listening, delivered, notices>>
  BY DEF Write
<1>3. CASE /\ Executes(s, {})
           /\ slot' = [slot EXCEPT ![s].aborted = TRUE]
           /\ want' = [want EXCEPT ![s].failed = TRUE]
  <2> DEFINE x == [slot[s] EXCEPT !.aborted = TRUE]
             w == [want[s] EXCEPT !.failed = TRUE]
  <2>1. slot' = [slot EXCEPT ![s] = x] /\ want' = [want EXCEPT ![s] = w]
    BY <1>1, <1>3 DEF Shapes
  <2>2. w.listens = want[s].listens /\ (Spared(slot[s]) => Spared(x))
    BY <1>1 DEF IsWant, WantFields, IsSlot, SlotFields, Spared
  <2> HIDE DEF w, x
  <2> QED BY <1>2, <1>3, <2>1, <2>2, OwnFollows
<1>4. CASE /\ Executes(s, {})
           /\ slot' = [slot EXCEPT ![s].ran = TRUE, ![s].wrote = TRUE]
           /\ UNCHANGED want
  <2> DEFINE x == [slot[s] EXCEPT !.ran = TRUE, !.wrote = TRUE]
  <2>1. slot' = [slot EXCEPT ![s] = x] /\ want' = [want EXCEPT ![s] = want[s]]
    BY <1>1, <1>4, Unchanged DEF Shapes
  <2>2. Spared(slot[s]) => Spared(x)
    BY <1>1 DEF IsSlot, SlotFields, Spared
  <2> HIDE DEF x
  <2> QED BY <1>2, <1>4, <2>1, <2>2, OwnFollows
<1>5. CASE /\ Executes(s, { <<t, "unstamped">> : t \in {u \in Sessions : slot[u].ssi} })
           /\ \E C \in SUBSET {t \in Sessions \ {s} : Clashable(t)} :
                slot' = Moved(s, C, FALSE)
           /\ UNCHANGED want
  <2> DEFINE stamps == FALSE
             ms     == { <<t, "unstamped">> : t \in {u \in Sessions : slot[u].ssi} }
  <2>1. PICK C \in SUBSET {t \in Sessions \ {s} : Clashable(t)} : slot' = Moved(s, C, stamps)
    BY <1>5
  <2>2. Executes(s, ms)
    BY <1>5
  <2> HIDE DEF stamps, ms
  <2>3. \A t \in Sessions : Spared(slot[t]) => Spared(slot'[t])
    BY <1>1, <2>1, MovedSpares
  <2>4. mishaps \subseteq mishaps'
    BY <2>2, Executing
  <2> QED BY <1>2, <1>5, <2>3, <2>4, QuietFollows
<1> QED BY <1>3, <1>4, <1>5 DEF Write

\* ROLLBACK and COMMIT empty the queue.
LEMMA CommitFollows ==
  ASSUME SlipInv, NoticeInv, NEW s \in Sessions, Commit(s) \/ Rollback(s) PROVE NoticeInv'
<1> DEFINE w == NoBlock(want[s].base, want[s].listens)
<1>1. /\ Executes(s, Shared(s)) /\ want' = [want EXCEPT ![s] = w]
      /\ pending' = {} /\ UNCHANGED listening
  BY DEF Commit, Rollback, Ends, NotifiesOnCommit, NotifiesOnRollback
<1>2. Shapes /\ IsWant(w) /\ w.listens = want[s].listens
  BY Constants0 DEF SlipInv, NoBlock
<1> HIDE DEF w
<1>3. \A t \in Sessions : want'[t].listens => want[t].listens
  BY <1>1, <1>2 DEF Shapes
<1>4. mishaps \cup Shared(s) \subseteq mishaps'
  BY <1>1, Executing
<1>5. ASSUME NEW t \in Sessions \ {s}, Spared(slot[t]) PROVE Spared(slot'[t])
  <2>1. CASE Rollback(s)
    BY <1>2, <1>5, <2>1 DEF Rollback, Shapes
  <2>2. CASE Commit(s)
    <3> DEFINE stamps == TRUE
    <3>1. PICK C \in SUBSET {u \in Sessions \ {s} : Clashable(u)} :
            slot' = [u \in Sessions |-> IF u = s THEN Closed
                                        ELSE IF slot[s].wrote THEN Moved(s, C, stamps)[u]
                                        ELSE slot[u]]
      BY <2>2 DEF Commit
    <3> HIDE DEF stamps
    <3>2. Spared(Moved(s, C, stamps)[t])
      BY <1>2, <1>5, MovedSpares
    <3> QED BY <1>5, <3>1, <3>2
  <2> QED BY <2>1, <2>2
<1>6. CASE Rollback(s)
  <2> DEFINE due == "lost"
  <2>1. notices' = Settle(s, due) /\ due = "lost" /\ delivered' = delivered
    BY <1>6 DEF Rollback, Ends, NotifiesOnRollback
  <2> HIDE DEF due
  <2> QED BY <1>1, <1>3, <1>4, <1>5, <2>1, EndFollows
<1>7. CASE Commit(s)
  <2> DEFINE due == IF Listeners = {} THEN "unheard" ELSE "yes"
  <2>1. /\ notices' = Settle(s, due) /\ due = IF Listeners = {} THEN "unheard" ELSE "yes"
        /\ delivered' = delivered \cup When(listening, pending)
    BY <1>7 DEF Commit, Ends, NotifiesOnCommit
  <2> HIDE DEF due
  <2> QED BY <1>1, <1>3, <1>4, <1>5, <2>1, EndFollows
<1> QED BY <1>6, <1>7

\* A COMMIT is refused for a conflict only if its block has nothing queued.
LEMMA RefuseCommitFollows ==
  ASSUME SlipInv, NoticeInv, NEW s \in Sessions, RefuseCommit(s) PROVE NoticeInv'
<1> DEFINE w == NoBlock(want[s].base, want[s].listens)
<1>1. /\ Executes(s, {<<s, "refused">>}) /\ want' = [want EXCEPT ![s] = w]
      /\ UNCHANGED <<listening, pending, delivered>> /\ notices' = Settle(s, "lost")
      /\ slot' = [slot EXCEPT ![s] = Closed] /\ ~Spared(slot[s])
  BY DEF RefuseCommit, Ends, Spared
<1>2. Shapes /\ w.listens = want[s].listens
  BY DEF SlipInv, NoBlock
<1> HIDE DEF w
<1>3. /\ \A t \in Sessions : want'[t].listens => want[t].listens
      /\ \A t \in Sessions \ {s} : Spared(slot[t]) => Spared(slot'[t])
  BY <1>1, <1>2 DEF Shapes
<1>4. mishaps \subseteq mishaps'
  BY <1>1, Executing
<1> QED BY <1>1, <1>3, <1>4, SilentEndFollows

\* A disconnect is a ROLLBACK, and without a block nothing is queued.
LEMMA LeaveFollows ==
  ASSUME SlipInv, NoticeInv, NEW s \in Sessions, Leave(s) PROVE NoticeInv'
<1> DEFINE w == NoBlock(Initially, FALSE)
           due == "lost"
<1>1. /\ want' = [want EXCEPT ![s] = w] /\ slot' = [slot EXCEPT ![s] = Closed]
      /\ UNCHANGED listening /\ notices' = Settle(s, due) /\ due = "lost"
      /\ slot[s].open => /\ pending' = {} /\ delivered' = delivered
                         /\ mishaps \cup Shared(s) \subseteq mishaps'
      /\ ~slot[s].open => UNCHANGED <<pending, delivered, mishaps>>
  BY DEF Leave, NotifiesOnRollback
<1>2. Shapes /\ w.listens = FALSE
  BY DEF SlipInv, NoBlock
<1> HIDE DEF w, due
<1>3. /\ \A t \in Sessions : want'[t].listens => want[t].listens
      /\ \A t \in Sessions \ {s} : Spared(slot[t]) => Spared(slot'[t])
  BY <1>1, <1>2 DEF Shapes
<1>4. CASE slot[s].open
  BY <1>1, <1>3, <1>4, EndFollows
<1>5. CASE ~slot[s].open
  BY <1>1, <1>3, <1>5, SilentEndFollows DEF Spared
<1> QED BY <1>4, <1>5

\* Poisoning spares.
LEMMA PoisonSpares ==
  ASSUME NEW x, IsSlot(x)
  PROVE  /\ Spared(x) => Spared(Poison(x))
         /\ x.open /\ x.others # "clash" => Spared(Poison(x))
BY DEF IsSlot, SlotFields, Spared, Poison

\* UNLISTEN takes the channel from everybody, which everybody notes.
LEMMA ListenFollows ==
  ASSUME SlipInv, NoticeInv, NEW s \in Sessions, NEW on \in BOOLEAN, Listen(s, on)
  PROVE  NoticeInv'
<1> DEFINE ms == When(~on /\ Listeners \ {s} # {}, Sessions \X {"shared"})
           w  == [want[s] EXCEPT !.listens = on]
<1>1. /\ Executes(s, ms) /\ UNCHANGED <<pending, delivered, notices>>
      /\ slot' = [slot EXCEPT ![s] = Poison(slot[s])] /\ listening' = on
      /\ want' = [want EXCEPT ![s] = w]
  BY DEF Listen, SlipInv, Shapes
<1>2. Shapes /\ IsSlot(slot[s]) /\ w.listens = on
  BY Unchanged DEF SlipInv, IsWant, WantFields
<1>3. ~on /\ Listeners \ {s} # {} => \A t \in Sessions : Met(t, {"shared"})'
  BY <1>1, Executing DEF When, Met
<1>4. mishaps \subseteq mishaps'
  BY <1>1, Executing
<1> HIDE DEF ms, w
<1>5. \A t : Met(t, {"shared"}) => Met(t, {"shared"})'
  BY <1>4 DEF Met
<1>6. ChannelOK'
  <2>1. Listeners' \ {s} = Listeners \ {s} /\ (s \in Listeners' <=> on)
    BY <1>1, <1>2 DEF Listeners, Shapes
  <2> QED BY <1>1, <1>3, <2>1 DEF ChannelOK
<1>7. Numbered'
  BY <1>1 DEF NoticeInv, Numbered
<1>8. ASSUME NEW n \in notices PROVE Followed(n)'
  <2>1. Followed(n) /\ n.by \in Sessions
    BY DEF NoticeInv, Numbered
  <2>2. Spared(slot[n.by]) => Spared(slot'[n.by])
    BY <1>1, <1>2, <2>1, PoisonSpares DEF Shapes
  <2> QED BY <1>1, <1>5, <2>1, <2>2 DEF Followed
<1> QED BY <1>1, <1>6, <1>7, <1>8 DEF NoticeInv

\* NOTIFY queues in a block and delivers outside, but it looks for a block of
\* any connection: if only others have one, it is noted.
LEMMA NotifyFollows ==
  ASSUME SlipInv, NoticeInv, NEW s \in Sessions, Notify(s) PROVE NoticeInv'
<1> DEFINE id    == Cardinality(notices) + 1
           queue == \E t \in Sessions : slot[t].open
           due   == IF slot[s].open THEN "open"
                    ELSE IF Listeners = {} THEN "unheard" ELSE "yes"
           new   == [id |-> id, by |-> s, due |-> due]
<1>1. /\ Executes(s, When(queue /\ ~slot[s].open, {<<s, "shared">>}))
      /\ pending' = pending \cup When(queue, {id})
      /\ delivered' = delivered \cup When(~queue /\ listening, {id})
      /\ notices' = notices \cup {new}
      /\ slot' = [slot EXCEPT ![s] = Poison(slot[s])]
      /\ slot[s].others # "clash" /\ UNCHANGED <<listening, want>>
  BY DEF Notify, Rebases, SlipInv, Shapes
<1>2. Shapes /\ IsSlot(slot[s])
  BY Unchanged DEF SlipInv
<1>3. queue /\ ~slot[s].open => Met(s, {"shared"})'
  BY <1>1, Executing DEF When, Met
<1>4. mishaps \subseteq mishaps'
  BY <1>1, Executing
<1>5. \A t : Met(t, {"shared"}) => Met(t, {"shared"})'
  BY <1>4 DEF Met
<1>6. Cardinality(notices) \in Nat /\ IsFiniteSet(notices)
  BY FS_CardinalityType DEF NoticeInv, Numbered
<1>7. /\ new.id = id /\ new.by = s /\ new.due = due /\ id \in Nat
      /\ new = [id |-> new.id, by |-> new.by, due |-> new.due]
      /\ slot[s].open => queue
  BY <1>6
<1>8. /\ \A n \in notices : n.id # id
      /\ id \notin pending /\ id \notin delivered
  BY <1>6 DEF NoticeInv, Numbered
<1> HIDE DEF new, queue
<1>9. IsFiniteSet(notices') /\ Cardinality(notices') = id
  <2>1. new \notin notices
    BY <1>7, <1>8
  <2> QED BY <1>1, <1>6, <2>1, FS_AddElement
<1>10. /\ 1 .. Cardinality(notices) \subseteq 1 .. id /\ id \in 1 .. id
       /\ pending' \subseteq pending \cup {id} /\ delivered' \subseteq delivered \cup {id}
  BY <1>1, <1>6 DEF When
<1> HIDE DEF id
<1>11. Numbered'
  <2>1. \A n \in notices' : /\ n = [id |-> n.id, by |-> n.by, due |-> n.due]
                            /\ n.by \in Sessions /\ n.id \in 1 .. id
    BY <1>1, <1>7, <1>10 DEF NoticeInv, Numbered
  <2>2. \A n, m \in notices' : n.id = m.id => n = m
    BY <1>1, <1>7, <1>8 DEF NoticeInv, Numbered
  <2>3. pending' \subseteq 1 .. id /\ delivered' \subseteq 1 .. id
    BY <1>10 DEF NoticeInv, Numbered
  <2> QED BY <1>9, <2>1, <2>2, <2>3 DEF Numbered
<1>12. ChannelOK'
  BY <1>1, <1>5 DEF NoticeInv, ChannelOK, Listeners
<1>13. ASSUME NEW n \in notices PROVE Followed(n)'
  <2>1. Followed(n) /\ n.by \in Sessions
    BY DEF NoticeInv, Numbered
  <2>2. Spared(slot[n.by]) => Spared(slot'[n.by])
    BY <1>1, <1>2, <2>1, PoisonSpares DEF Shapes
  <2>3. (n.id \in pending' <=> n.id \in pending) /\ (n.id \in delivered' <=> n.id \in delivered)
    BY <1>1, <1>8 DEF When
  <2> QED BY <1>5, <2>1, <2>2, <2>3 DEF Followed
<1>14. PICK new0 : new0 = new
  OBVIOUS
<1>15. Followed(new0)'
  <2>1. SUFFICES ASSUME ~Met(s, {"shared"})' PROVE Followed(new0)'
    BY <1>7, <1>14 DEF Followed
  <2>2. CASE slot[s].open
    <3>1. due = "open" /\ id \in pending' /\ id \notin delivered'
      BY <1>1, <1>7, <1>8, <2>2 DEF When
    <3>2. Spared(slot'[s])
      BY <1>1, <1>2, <2>2, PoisonSpares DEF Shapes
    <3> QED BY <1>7, <1>14, <3>1, <3>2 DEF Followed
  <2>3. CASE ~slot[s].open
    <3>1. ~queue /\ id \notin pending'
      BY <1>1, <1>3, <1>8, <2>1, <2>3 DEF When
    <3>2. Listeners # {} => listening
      BY <1>5, <2>1 DEF NoticeInv, ChannelOK
    <3>3. due \in {"yes", "unheard"} /\ (due = "yes" => id \in delivered')
      BY <1>1, <2>3, <3>1, <3>2 DEF When
    <3> QED BY <1>7, <1>14, <3>1, <3>3 DEF Followed
  <2> QED BY <2>2, <2>3
<1> QED BY <1>1, <1>11, <1>12, <1>13, <1>14, <1>15 DEF NoticeInv

\* A connection is announced.
LEMMA AnnounceFollows ==
  ASSUME SlipInv, NoticeInv, NEW s \in Sessions, Announce(s) PROVE NoticeInv'
<1>1. /\ mishaps \subseteq mishaps'
      /\ UNCHANGED <<pending, delivered, listening, notices, want, slot>>
  BY DEF Announce
<1> QED BY <1>1, QuietFollows

\* Every step keeps the notifications where they belong.
LEMMA NextFollows == ASSUME SlipInv, NoticeInv, [Next]_vars PROVE NoticeInv'
<1>1. CASE UNCHANGED vars
  BY <1>1 DEF vars, NoticeInv, Numbered, ChannelOK, Followed, Listeners, Met
<1>2. CASE Next
  <2>1. PICK s \in Sessions :
          \/ Announce(s) \/ Write(s) \/ Commit(s) \/ Rollback(s) \/ RefuseCommit(s)
          \/ \E on \in BOOLEAN : Listen(s, on)
          \/ Notify(s) \/ Leave(s)
          \/ \/ Show(s) \/ Refuse(s) \/ RebaseFails(s) \/ Fail(s) \/ Select(s)
             \/ \E iso \in Levels, ro \in BOOLEAN : Begin(s, iso, ro)
             \/ \E iso \in Levels : SetLevel(s, iso)
             \/ \E ro \in BOOLEAN : SetMode(s, ro)
             \/ \E v \in Values : SetSession(s, v) \/ SetLocal(s, v)
             \/ \E n \in Saves : Savepoint(s, n) \/ RollbackTo(s, n) \/ Release(s, n)
             \/ \E hold \in BOOLEAN : Declare(s, hold)
             \/ Close(s)
    BY <1>2 DEF Next
  <2> QED BY <2>1, AnnounceFollows, WriteFollows, CommitFollows, RefuseCommitFollows,
             ListenFollows, NotifyFollows, LeaveFollows, StatementFollows
<1> QED BY <1>1, <1>2

\* A notification is delivered if and only if the block that sent it commits
\* and somebody listens, for any number of connections and notifications,
\* unless its sender shared the queue with a block of another connection.
THEOREM NotifiesWithTheirBlock == SessSpec => []NotifiesFollowCommits
<1>1. Init => NoticeInv
  <2>1. ASSUME Init PROVE notices = {} /\ pending = {} /\ delivered = {} /\ Listeners = {}
    BY <2>1 DEF Init, Listeners, NoBlock
  <2> QED BY <2>1, FS_EmptySet DEF NoticeInv, Numbered, ChannelOK
<1>2. SlipInv /\ NoticeInv /\ [Next]_vars => NoticeInv'
  BY NextFollows
<1>3. NoticeInv => NotifiesFollowCommits
  BY DEF NoticeInv, Followed, NotifiesFollowCommits
<1> QED BY <1>1, <1>2, <1>3, Invariant, PTL DEF SessSpec

---------------------------------------------------------------------------
(* Settings: what ties a client's script to its block's undo log.          *)

SettingT == Values \cup {Initially}
MarkT    == [name : Saves, depth : Nat]
EntryT   == [kind : {"local", "save", "past"}, what : Values \cup Saves \cup {Initially}]

\* The marks of a block: distinct names, ordered, and within its undo log.
MarksOK(undo, marks) ==
  /\ undo \in Seq(SettingT) /\ marks \in Seq(MarkT)
  /\ \A i \in 1 .. Len(marks) : marks[i].depth <= Len(undo)
  /\ \A i, j \in 1 .. Len(marks) :
       i < j => marks[i].name # marks[j].name /\ marks[i].depth <= marks[j].depth

\* f enumerates, in order, the positions of the script with this kind of entry.
Lists(f, n, script, kind) ==
  /\ f \in [1 .. n -> 1 .. Len(script)]
  /\ \A k \in 1 .. n : script[f[k]].kind = kind
  /\ \A k, l \in 1 .. n : k < l => f[k] < f[l]
  /\ \A i \in 1 .. Len(script) : script[i].kind = kind => \E k \in 1 .. n : f[k] = i

\* What the k-th SET LOCAL found: the value of the one before, or the SET's.
Found(k, at, script, base) == IF k = 1 THEN base ELSE script[at[k - 1]].what

\* The undo log has an entry per SET LOCAL of the script, at[k], with the value
\* it found; the marks are the savepoints of the script, sv[j], each as deep as
\* there are SET LOCALs before it.
Ties(at, sv, script, undo, marks, base) ==
  /\ Lists(at, Len(undo), script, "local") /\ Lists(sv, Len(marks), script, "save")
  /\ \A j \in 1 .. Len(marks) : script[sv[j]].what = marks[j].name
  /\ \A j \in 1 .. Len(marks), k \in 1 .. Len(undo) :
       k <= marks[j].depth <=> at[k] < sv[j]
  /\ \A k \in 1 .. Len(undo) : undo[k] = Found(k, at, script, base)

\* The script, the block's bookkeeping and the setting agree.
Tied(script, undo, marks, base, setting) ==
  /\ script \in Seq(EntryT)
  /\ \E at, sv : /\ Ties(at, sv, script, undo, marks, base)
                 /\ setting = Found(Len(undo) + 1, at, script, base)

\* A connection without a block.
LEMMA TiedNone == ASSUME NEW base PROVE Tied(<<>>, <<>>, <<>>, base, base)
<1>1. Ties(<<>>, <<>>, <<>>, <<>>, <<>>, base)
  BY DEF Ties, Lists
<1>2. base = Found(Len(<<>>) + 1, <<>>, <<>>, base)
  BY DEF Found
<1> QED BY <1>1, <1>2 DEF Tied

\* The oldest prior value is that of the last SET.
LEMMA TiedOver ==
  ASSUME NEW script, NEW undo \in Seq(SettingT), NEW marks, NEW base, NEW setting,
         Tied(script, undo, marks, base, setting)
  PROVE  base = IF Len(undo) > 0 THEN undo[1] ELSE setting
<1>1. PICK at, sv : /\ Ties(at, sv, script, undo, marks, base)
                    /\ setting = Found(Len(undo) + 1, at, script, base)
  BY DEF Tied
<1>2. Len(undo) \in Nat
  OBVIOUS
<1> QED BY <1>1, <1>2 DEF Ties, Found

\* SET without a SET LOCAL before it.
LEMMA TiedSet ==
  ASSUME NEW script, NEW marks \in Seq(MarkT), NEW base, NEW setting, NEW v,
         Tied(script, <<>>, marks, base, setting)
  PROVE  Tied(script, <<>>, marks, v, v)
<1>1. PICK at, sv : Ties(at, sv, script, <<>>, marks, base)
  BY DEF Tied
<1>2. Ties(at, sv, script, <<>>, marks, v)
  BY <1>1 DEF Ties
<1>3. v = Found(Len(<<>>) + 1, at, script, v)
  BY DEF Found
<1> QED BY <1>2, <1>3 DEF Tied

\* SET LOCAL pushes the value it found.
LEMMA TiedLocal ==
  ASSUME NEW script, NEW undo, NEW marks, NEW base, NEW setting \in SettingT,
         NEW v \in Values,
         MarksOK(undo, marks), Tied(script, undo, marks, base, setting)
  PROVE  Tied(Append(script, LocalOf(v)), Append(undo, setting), marks, base, v)
<1> DEFINE sc == Append(script, LocalOf(v))
           ud == Append(undo, setting)
           N == Len(undo)
           L == Len(script)
<1>1. PICK at, sv : /\ Ties(at, sv, script, undo, marks, base)
                    /\ setting = Found(N + 1, at, script, base)
  BY DEF Tied
<1>2. /\ script \in Seq(EntryT) /\ undo \in Seq(SettingT) /\ marks \in Seq(MarkT)
      /\ LocalOf(v) \in EntryT
  BY DEF Tied, MarksOK, LocalOf, EntryT
<1>3. /\ sc \in Seq(EntryT) /\ Len(sc) = L + 1 /\ L \in Nat
      /\ \A i \in 1 .. L : sc[i] = script[i]
      /\ sc[L + 1] = LocalOf(v)
  BY <1>2
<1>4. /\ Len(ud) = N + 1 /\ N \in Nat
      /\ \A i \in 1 .. N : ud[i] = undo[i]
      /\ ud[N + 1] = setting
  BY <1>2
<1>5. LocalOf(v).kind = "local" /\ LocalOf(v).what = v
  BY DEF LocalOf
<1>6. Len(marks) \in Nat /\ \A j \in 1 .. Len(marks) : marks[j].depth \in Nat /\ marks[j].depth <= N
  <2>1. \A j \in 1 .. Len(marks) : marks[j] \in MarkT /\ marks[j].depth <= N
    BY <1>2 DEF MarksOK
  <2> QED BY <1>2, <2>1 DEF MarkT
<1> DEFINE at2 == [k \in 1 .. (N + 1) |-> IF k = N + 1 THEN L + 1 ELSE at[k]]
<1> HIDE DEF sc, ud
<1>7. /\ at \in [1 .. N -> 1 .. L] /\ sv \in [1 .. Len(marks) -> 1 .. L]
      /\ \A k, l \in 1 .. N : k < l => at[k] < at[l]
      /\ \A k \in 1 .. Len(marks) : script[sv[k]].kind = "save"
      /\ \A k \in 1 .. N : script[at[k]].kind = "local"
  BY <1>1 DEF Ties, Lists
<1> HIDE DEF N, L
<1>8. /\ at2 \in [1 .. (N + 1) -> 1 .. (L + 1)] /\ at2[N + 1] = L + 1
      /\ \A k \in 1 .. N : at2[k] = at[k] /\ at2[k] \in 1 .. L
  BY <1>3, <1>4, <1>7
<1> HIDE DEF at2
<1>9. Lists(at2, N + 1, sc, "local")
  <2>1. ASSUME NEW k \in 1 .. (N + 1) PROVE sc[at2[k]].kind = "local"
    <3>1. k \in 1 .. N \/ k = N + 1
      BY <1>4
    <3> QED BY <1>3, <1>5, <1>7, <1>8, <3>1
  <2>2. ASSUME NEW k \in 1 .. (N + 1), NEW l \in 1 .. (N + 1), k < l PROVE at2[k] < at2[l]
    <3>1. k \in 1 .. N /\ (l \in 1 .. N \/ l = N + 1)
      BY <1>4, <2>2
    <3> QED BY <1>3, <1>7, <1>8, <2>2, <3>1
  <2>3. ASSUME NEW i \in 1 .. (L + 1), sc[i].kind = "local" PROVE \E k \in 1 .. (N + 1) : at2[k] = i
    <3>1. CASE i = L + 1
      BY <1>4, <1>8, <3>1
    <3>2. CASE i # L + 1
      <4>1. i \in 1 .. L /\ script[i].kind = "local"
        BY <1>3, <2>3, <3>2
      <4>2. PICK k \in 1 .. N : at[k] = i
        BY <1>1, <4>1 DEF Ties, Lists, N, L
      <4>3. k \in 1 .. (N + 1) /\ at2[k] = i
        BY <1>4, <1>8, <4>2
      <4> QED BY <4>3
    <3> QED BY <3>1, <3>2
  <2> QED BY <1>3, <1>8, <2>1, <2>2, <2>3 DEF Lists
<1>10. Lists(sv, Len(marks), sc, "save")
  <2>1. \A i \in 1 .. (L + 1) : sc[i].kind = "save" => i \in 1 .. L /\ script[i].kind = "save"
    BY <1>3, <1>5
  <2>2. sv \in [1 .. Len(marks) -> 1 .. (L + 1)]
    BY <1>3, <1>4, <1>7
  <2>3. ASSUME NEW k \in 1 .. Len(marks) PROVE sc[sv[k]].kind = "save"
    <3>1. sv[k] \in 1 .. L /\ script[sv[k]].kind = "save"
      BY <1>7
    <3> QED BY <1>3, <3>1
  <2> QED BY <1>1, <1>3, <2>1, <2>2, <2>3 DEF Ties, Lists, L
<1>11. \A j \in 1 .. Len(marks) : sc[sv[j]].what = marks[j].name
  BY <1>1, <1>3, <1>7 DEF Ties
<1>12. \A j \in 1 .. Len(marks), k \in 1 .. (N + 1) : k <= marks[j].depth <=> at2[k] < sv[j]
  <2> TAKE j \in 1 .. Len(marks), k \in 1 .. (N + 1)
  <2>1. CASE k = N + 1
    <3>1. sv[j] \in 1 .. L /\ marks[j].depth \in Nat /\ marks[j].depth <= N
      BY <1>6, <1>7
    <3> QED BY <1>3, <1>4, <1>8, <2>1, <3>1
  <2>2. CASE k # N + 1
    <3>1. k \in 1 .. N
      BY <1>4, <2>2
    <3> QED BY <1>1, <1>8, <3>1 DEF Ties, N
  <2> QED BY <2>1, <2>2
<1>13. \A k \in 1 .. (N + 1) : ud[k] = Found(k, at2, sc, base)
  <2> TAKE k \in 1 .. (N + 1)
  <2>1. Found(k, at2, sc, base) = Found(k, at, script, base)
    <3>1. k # 1 => k - 1 \in 1 .. N
      BY <1>4
    <3> QED BY <1>3, <1>7, <1>8, <3>1 DEF Found
  <2>2. CASE k = N + 1
    BY <1>1, <1>4, <2>1, <2>2
  <2>3. CASE k # N + 1
    <3>1. k \in 1 .. N
      BY <1>4, <2>3
    <3> QED BY <1>1, <1>4, <2>1, <3>1 DEF Ties, N
  <2> QED BY <2>2, <2>3
<1>14. v = Found(Len(ud) + 1, at2, sc, base)
  BY <1>3, <1>4, <1>5, <1>8 DEF Found
<1>15. Ties(at2, sv, sc, ud, marks, base)
  BY <1>4, <1>9, <1>10, <1>11, <1>12, <1>13 DEF Ties
<1>16. Tied(sc, ud, marks, base, v)
  BY <1>3, <1>14, <1>15 DEF Tied
<1> QED BY <1>16 DEF sc, ud

\* A savepoint of the script is known by its kind and its name.
LEMMA SaveEntry ==
  ASSUME NEW e \in EntryT, NEW n
  PROVE  /\ e = SaveOf(n) <=> e.kind = "save" /\ e.what = n
         /\ Past \in EntryT /\ Past.kind = "past"
         /\ n \in Saves => SaveOf(n) \in EntryT /\ SaveOf(n).kind = "save" /\ SaveOf(n).what = n
BY DEF EntryT, SaveOf, Past

\* What is found after the last SET LOCAL does not depend on savepoints.
LEMMA ForgetFound ==
  ASSUME NEW script, NEW script2, NEW N \in Nat, NEW base, NEW at,
         Lists(at, N, script, "local"),
         \A i \in 1 .. Len(script) :
           script2[i] = script[i] \/ (script[i].kind = "save" /\ script2[i] = Past)
  PROVE  Found(N + 1, at, script2, base) = Found(N + 1, at, script, base)
<1>1. N # 0 => /\ N \in 1 .. N /\ at[N] \in 1 .. Len(script)
               /\ script[at[N]].kind = "local"
  BY DEF Lists
<1>2. N # 0 => script2[at[N]] = script[at[N]]
  BY <1>1
<1>3. (N + 1) - 1 = N /\ (N + 1 = 1 <=> N = 0)
  OBVIOUS
<1> QED BY <1>2, <1>3 DEF Found

\* m2 is what is left of marks: those that e lists.
LeftOf(e, marks, m2) ==
  /\ e \in [1 .. Len(m2) -> 1 .. Len(marks)]
  /\ \A j, k \in 1 .. Len(m2) : j < k => e[j] < e[k]
  /\ \A j \in 1 .. Len(m2) : m2[j] = marks[e[j]]

\* Savepoints are forgotten: of the script those that turn into Past, of the
\* marks all but those e lists, and they are the same.
LEMMA TiedForget ==
  ASSUME NEW script \in Seq(EntryT), NEW script2 \in Seq(EntryT), NEW undo, NEW marks,
         NEW marks2 \in Seq(MarkT), NEW base, NEW setting, NEW at, NEW sv, NEW e,
         MarksOK(undo, marks), Ties(at, sv, script, undo, marks, base),
         setting = Found(Len(undo) + 1, at, script, base),
         LeftOf(e, marks, marks2), Len(script2) = Len(script),
         \A i \in 1 .. Len(script) :
           script2[i] = script[i] \/ (script[i].kind = "save" /\ script2[i] = Past),
         \A j \in 1 .. Len(marks) :
           IF \E k \in 1 .. Len(marks2) : e[k] = j THEN script2[sv[j]] = script[sv[j]]
                                                    ELSE script2[sv[j]] = Past
  PROVE  Tied(script2, undo, marks2, base, setting)
<1> DEFINE L == Len(script)
           N == Len(undo)
           M == Len(marks)
           M2 == Len(marks2)
           sv2 == [j \in 1 .. M2 |-> sv[e[j]]]
<1>0. /\ e \in [1 .. Len(marks2) -> 1 .. Len(marks)]
      /\ \A j, k \in 1 .. Len(marks2) : j < k => e[j] < e[k]
      /\ \A j \in 1 .. Len(marks2) : marks2[j] = marks[e[j]]
  BY DEF LeftOf
<1>1. L \in Nat /\ N \in Nat /\ M \in Nat /\ M2 \in Nat
  BY DEF MarksOK
<1>2. Past.kind = "past"
  BY DEF Past
<1>3. /\ at \in [1 .. N -> 1 .. L] /\ sv \in [1 .. M -> 1 .. L]
      /\ \A k \in 1 .. N : script[at[k]].kind = "local"
      /\ \A k, l \in 1 .. N : k < l => at[k] < at[l]
      /\ \A i \in 1 .. L : script[i].kind = "local" => \E k \in 1 .. N : at[k] = i
      /\ \A k \in 1 .. M : script[sv[k]].kind = "save"
      /\ \A k, l \in 1 .. M : k < l => sv[k] < sv[l]
      /\ \A i \in 1 .. L : script[i].kind = "save" => \E k \in 1 .. M : sv[k] = i
  BY DEF Ties, Lists
<1>4. /\ \A j \in 1 .. M : script[sv[j]].what = marks[j].name
      /\ \A j \in 1 .. M, k \in 1 .. N : k <= marks[j].depth <=> at[k] < sv[j]
      /\ \A k \in 1 .. N : undo[k] = Found(k, at, script, base)
  BY DEF Ties
<1>5. /\ \A i \in 1 .. L : script2[i].kind = "local" => script[i].kind = "local"
      /\ \A i \in 1 .. L : script[i].kind = "local" => script2[i] = script[i]
      /\ \A i \in 1 .. L : script2[i].kind = "save" => script[i].kind = "save" /\ script2[i] # Past
  BY <1>2
<1> HIDE DEF L, N, M, M2
<1>6. sv2 \in [1 .. M2 -> 1 .. L] /\ \A j \in 1 .. M2 : sv2[j] = sv[e[j]] /\ e[j] \in 1 .. M
  BY <1>0, <1>3 DEF M, M2
<1>7. \A j \in 1 .. M2 : script2[sv2[j]] = script[sv[e[j]]]
  BY <1>0, <1>6 DEF M, M2
<1> HIDE DEF sv2
<1>8. Lists(at, N, script2, "local")
  <2>1. \A k \in 1 .. N : script2[at[k]].kind = "local"
    BY <1>3, <1>5
  <2> QED BY <1>3, <1>5, <2>1 DEF Lists, L
<1>9. Lists(sv2, M2, script2, "save")
  <2>1. ASSUME NEW j \in 1 .. M2 PROVE script2[sv2[j]].kind = "save"
    <3>1. e[j] \in 1 .. M /\ script2[sv2[j]] = script[sv[e[j]]]
      BY <1>6, <1>7
    <3>2. script[sv[e[j]]].kind = "save"
      BY <1>3, <3>1
    <3> QED BY <3>1, <3>2
  <2>2. ASSUME NEW j \in 1 .. M2, NEW k \in 1 .. M2, j < k PROVE sv2[j] < sv2[k]
    <3>1. e[j] < e[k]
      BY <1>0, <2>2 DEF M2
    <3> QED BY <1>3, <1>6, <3>1
  <2>3. ASSUME NEW i \in 1 .. L, script2[i].kind = "save" PROVE \E k \in 1 .. M2 : sv2[k] = i
    <3>1. PICK j \in 1 .. M : sv[j] = i
      BY <1>3, <1>5, <2>3
    <3>2. script2[sv[j]] # Past
      BY <1>5, <2>3, <3>1
    <3>3. PICK k \in 1 .. M2 : e[k] = j
      BY <3>2 DEF M, M2
    <3> QED BY <1>6, <3>1, <3>3
  <2> QED BY <1>6, <2>1, <2>2, <2>3 DEF Lists, L
<1>10. ASSUME NEW j \in 1 .. M2 PROVE script2[sv2[j]].what = marks2[j].name
  <2>1. e[j] \in 1 .. M /\ script2[sv2[j]] = script[sv[e[j]]] /\ marks2[j] = marks[e[j]]
    BY <1>0, <1>6, <1>7 DEF M2
  <2>2. script[sv[e[j]]].what = marks[e[j]].name
    BY <1>4, <2>1
  <2> QED BY <2>1, <2>2
<1>11. ASSUME NEW j \in 1 .. M2, NEW k \in 1 .. N
       PROVE  k <= marks2[j].depth <=> at[k] < sv2[j]
  <2>1. e[j] \in 1 .. M /\ sv2[j] = sv[e[j]] /\ marks2[j] = marks[e[j]]
    BY <1>0, <1>6 DEF M2
  <2> QED BY <1>4, <2>1
<1>12. ASSUME NEW k \in 1 .. N PROVE undo[k] = Found(k, at, script2, base)
  <2>1. CASE k = 1
    BY <1>4, <2>1 DEF Found
  <2>2. CASE k # 1
    <3>1. k - 1 \in 1 .. N
      BY <1>1, <2>2
    <3>2. at[k - 1] \in 1 .. L /\ script2[at[k - 1]] = script[at[k - 1]]
      BY <1>3, <1>5, <3>1
    <3> QED BY <1>4, <2>2, <3>2 DEF Found
  <2> QED BY <2>1, <2>2
<1>13. Ties(at, sv2, script2, undo, marks2, base)
  BY <1>8, <1>9, <1>10, <1>11, <1>12 DEF Ties, N, M2
<1>14. Lists(at, N, script, "local")
  BY DEF Ties, N
<1>15. setting = Found(N + 1, at, script2, base)
  BY <1>1, <1>14, ForgetFound DEF N
<1> QED BY <1>13, <1>15 DEF Tied, N

\* The k-th savepoint of the script is where its name is.
LEMMA WhereSaved ==
  ASSUME NEW script \in Seq(EntryT), NEW undo, NEW marks, NEW base, NEW at, NEW sv,
         MarksOK(undo, marks), Ties(at, sv, script, undo, marks, base),
         NEW j \in 1 .. Len(marks)
  PROVE  /\ sv[j] \in 1 .. Len(script)
         /\ \A i \in 1 .. Len(script) : script[i] = SaveOf(marks[j].name) <=> i = sv[j]
         /\ (CHOOSE i \in DOMAIN script : script[i] = SaveOf(marks[j].name)) = sv[j]
<1>1. /\ sv \in [1 .. Len(marks) -> 1 .. Len(script)]
      /\ \A k \in 1 .. Len(marks) :
           script[sv[k]].kind = "save" /\ script[sv[k]].what = marks[k].name
      /\ \A i \in 1 .. Len(script) : script[i].kind = "save" => \E k \in 1 .. Len(marks) : sv[k] = i
  BY DEF Ties, Lists
<1>2. \A i \in 1 .. Len(script) : script[i] \in EntryT
  OBVIOUS
<1>3. \A i \in 1 .. Len(script) :
        script[i] = SaveOf(marks[j].name)
          <=> script[i].kind = "save" /\ script[i].what = marks[j].name
  BY <1>2, SaveEntry
<1>4. \A k \in 1 .. Len(marks) : marks[k].name = marks[j].name => k = j
  <2>1. Len(marks) \in Nat
    BY DEF MarksOK
  <2> TAKE k \in 1 .. Len(marks)
  <2>2. k < j \/ j < k \/ k = j
    BY <2>1
  <2> QED BY <2>2 DEF MarksOK
<1>5. sv[j] \in 1 .. Len(script)
  BY <1>1
<1>6. ASSUME NEW i \in 1 .. Len(script)
      PROVE  script[i] = SaveOf(marks[j].name) <=> i = sv[j]
  <2>1. i = sv[j] => script[i] = SaveOf(marks[j].name)
    BY <1>1, <1>3
  <2>2. ASSUME script[i] = SaveOf(marks[j].name) PROVE i = sv[j]
    <3>1. PICK k \in 1 .. Len(marks) : sv[k] = i
      BY <1>1, <1>3, <2>2
    <3>2. marks[k].name = marks[j].name
      BY <1>1, <1>3, <2>2, <3>1
    <3> QED BY <1>4, <3>1, <3>2
  <2> QED BY <2>1, <2>2
<1>7. DOMAIN script = 1 .. Len(script)
  OBVIOUS
<1> DEFINE P(i) == script[i] = SaveOf(marks[j].name)
<1>8. (CHOOSE i \in DOMAIN script : P(i)) = sv[j]
  <2>1. \A i \in DOMAIN script : P(i) <=> i = sv[j]
    BY <1>6, <1>7
  <2>2. sv[j] \in DOMAIN script
    BY <1>5, <1>7
  <2> HIDE DEF P
  <2> QED BY <2>1, <2>2
<1> QED BY <1>5, <1>6, <1>8

---------------------------------------------------------------------------
(* What is left of the marks when one or several go.                       *)

\* What is left of the marks is still in order.
LEMMA LeftOK ==
  ASSUME NEW undo, NEW marks, MarksOK(undo, marks), NEW m2 \in Seq(MarkT), NEW e,
         LeftOf(e, marks, m2)
  PROVE  MarksOK(undo, m2)
<1>1. \A j \in 1 .. Len(m2) : e[j] \in 1 .. Len(marks) /\ m2[j] = marks[e[j]]
  BY DEF LeftOf
<1>2. \A i \in 1 .. Len(m2) : m2[i].depth <= Len(undo)
  BY <1>1 DEF MarksOK
<1>3. ASSUME NEW i \in 1 .. Len(m2), NEW j \in 1 .. Len(m2), i < j
      PROVE  m2[i].name # m2[j].name /\ m2[i].depth <= m2[j].depth
  <2>1. e[i] < e[j]
    BY <1>3 DEF LeftOf
  <2>2. marks[e[i]].name # marks[e[j]].name /\ marks[e[i]].depth <= marks[e[j]].depth
    BY <1>1, <2>1 DEF MarksOK
  <2> QED BY <1>1, <2>2
<1> QED BY <1>2, <1>3 DEF MarksOK

\* A sequence without the element at p.
LEMMA Cut ==
  ASSUME NEW S, NEW q \in Seq(S), NEW p \in 1 .. Len(q)
  PROVE  LET r == SubSeq(q, 1, p - 1) \o SubSeq(q, p + 1, Len(q))
         IN  /\ r \in Seq(S) /\ Len(r) = Len(q) - 1
             /\ \A j \in 1 .. (Len(q) - 1) : r[j] = q[IF j < p THEN j ELSE j + 1]
<1> DEFINE L == Len(q)
           a == SubSeq(q, 1, p - 1)
           b == SubSeq(q, p + 1, L)
           r == a \o b
<1>1. L \in Nat /\ p \in 1 .. L
  OBVIOUS
<1>2. /\ a \in Seq(S) /\ Len(a) = p - 1 /\ \A j \in 1 .. (p - 1) : a[j] = q[j]
  BY <1>1
<1>3. /\ b \in Seq(S) /\ Len(b) = L - p /\ \A j \in 1 .. (L - p) : b[j] = q[p + j]
  BY <1>1
<1> HIDE DEF a, b
<1>4. /\ r \in Seq(S) /\ Len(r) = L - 1
      /\ \A j \in 1 .. (L - 1) : r[j] = IF j <= p - 1 THEN a[j] ELSE b[j - (p - 1)]
  <2>0. a \in Seq(S) /\ b \in Seq(S)
    BY <1>2, <1>3
  <2>1. r \in Seq(S) /\ Len(r) = Len(a) + Len(b)
    BY ONLY <2>0
  <2>2. /\ \A j \in 1 .. Len(a) : r[j] = a[j]
        /\ \A j \in 1 .. Len(b) : r[Len(a) + j] = b[j]
    BY <1>2, <1>3
  <2>3. Len(a) + Len(b) = L - 1
    BY <1>1, <1>2, <1>3
  <2> HIDE DEF r, L
  <2>4. ASSUME NEW j \in 1 .. (L - 1)
        PROVE  r[j] = IF j <= p - 1 THEN a[j] ELSE b[j - (p - 1)]
    <3>1. CASE j <= p - 1
      BY <1>1, <1>2, <2>2, <3>1
    <3>2. CASE ~(j <= p - 1)
      <4>1. j - (p - 1) \in 1 .. Len(b) /\ Len(a) + (j - (p - 1)) = j
        BY <1>1, <1>2, <1>3, <3>2
      <4>2. r[Len(a) + (j - (p - 1))] = b[j - (p - 1)]
        BY <2>2, <4>1
      <4> QED BY <3>2, <4>1, <4>2
    <3> QED BY <3>1, <3>2
  <2> QED BY <2>1, <2>3, <2>4
<1> HIDE DEF L, r
<1>5. ASSUME NEW j \in 1 .. (L - 1) PROVE r[j] = q[IF j < p THEN j ELSE j + 1]
  <2>1. CASE j < p
    <3>1. j \in 1 .. (p - 1) /\ j <= p - 1
      BY <1>1, <2>1
    <3> QED BY <1>2, <1>4, <2>1, <3>1
  <2>2. CASE ~(j < p)
    <3>1. j - (p - 1) \in 1 .. (L - p) /\ ~(j <= p - 1) /\ p + (j - (p - 1)) = j + 1
      BY <1>1, <2>2
    <3> QED BY <1>3, <1>4, <2>2, <3>1
  <2> QED BY <2>1, <2>2
<1> QED BY <1>4, <1>5 DEF r, a, b, L

\* retain: the marks with other names are left.
LEMMA MarkDropped ==
  ASSUME NEW undo, NEW marks, MarksOK(undo, marks), NEW n
  PROVE  /\ WithoutMark(marks, n) \in Seq(MarkT)
         /\ \E e : /\ LeftOf(e, marks, WithoutMark(marks, n))
                   /\ \A j \in 1 .. Len(marks) :
                        (\E k \in 1 .. Len(WithoutMark(marks, n)) : e[k] = j)
                          <=> marks[j].name # n
<1> DEFINE m2 == WithoutMark(marks, n)
           M  == Len(marks)
           Goal(e) == /\ LeftOf(e, marks, m2)
                      /\ \A j \in 1 .. M : (\E k \in 1 .. Len(m2) : e[k] = j) <=> marks[j].name # n
<1>1. marks \in Seq(MarkT) /\ M \in Nat /\ DOMAIN marks = 1 .. M
  BY DEF MarksOK
<1>2. CASE ~\E i \in 1 .. M : marks[i].name = n
  <2>1. m2 = marks
    BY <1>1, <1>2 DEF WithoutMark
  <2> DEFINE e == [j \in 1 .. M |-> j]
  <2>2. LeftOf(e, marks, marks)
    BY <1>1 DEF LeftOf
  <2>3. \A j \in 1 .. M : \E k \in 1 .. M : e[k] = j
    OBVIOUS
  <2> HIDE DEF m2, M, e
  <2>4. Goal(e)
    BY <1>2, <2>1, <2>2, <2>3 DEF M
  <2> QED BY <1>1, <2>1, <2>4 DEF m2, M
<1>3. CASE \E i \in 1 .. M : marks[i].name = n
  <2> DEFINE p == CHOOSE i \in DOMAIN marks : marks[i].name = n
  <2>1. p \in 1 .. M /\ marks[p].name = n
    BY <1>1, <1>3
  <2>2. m2 = SubSeq(marks, 1, p - 1) \o SubSeq(marks, p + 1, M)
    BY <1>1, <1>3 DEF WithoutMark
  <2> HIDE DEF p, m2
  <2>3. /\ m2 \in Seq(MarkT) /\ Len(m2) = M - 1
        /\ \A j \in 1 .. (M - 1) : m2[j] = marks[IF j < p THEN j ELSE j + 1]
    BY <1>1, <2>1, <2>2, Cut
  <2> DEFINE e == [j \in 1 .. (M - 1) |-> IF j < p THEN j ELSE j + 1]
  <2>4. /\ e \in [1 .. (M - 1) -> 1 .. M]
        /\ \A j, k \in 1 .. (M - 1) : j < k => e[j] < e[k]
        /\ \A j \in 1 .. (M - 1) : m2[j] = marks[e[j]]
    BY <1>1, <2>1, <2>3
  <2>5. \A j \in 1 .. M : (\E k \in 1 .. (M - 1) : e[k] = j) <=> j # p
    <3> TAKE j \in 1 .. M
    <3>1. \A k \in 1 .. (M - 1) : e[k] # p
      BY <1>1, <2>1
    <3>2. j < p => j \in 1 .. (M - 1) /\ e[j] = j
      BY <1>1, <2>1
    <3>3. j > p => j - 1 \in 1 .. (M - 1) /\ e[j - 1] = j
      BY <1>1, <2>1
    <3>4. j < p \/ j > p \/ j = p
      BY <1>1, <2>1
    <3> HIDE DEF e
    <3> QED BY <3>1, <3>2, <3>3, <3>4
  <2>6. \A j \in 1 .. M : marks[j].name # n <=> j # p
    <3> TAKE j \in 1 .. M
    <3>1. j < p \/ j > p \/ j = p
      BY <1>1, <2>1
    <3> QED BY <2>1, <3>1 DEF MarksOK
  <2> HIDE DEF e, M
  <2>7. Goal(e)
    BY <2>3, <2>4, <2>5, <2>6 DEF LeftOf, M
  <2> QED BY <2>3, <2>7 DEF m2, M
<1> QED BY <1>2, <1>3

---------------------------------------------------------------------------
(* SAVEPOINT, ROLLBACK TO and RELEASE on the script and on the log.        *)

\* A savepoint whose name is used again leaves the script and the marks.
LEMMA TiedDrop ==
  ASSUME NEW script, NEW undo, NEW marks, NEW base, NEW setting, NEW n \in Saves,
         MarksOK(undo, marks), Tied(script, undo, marks, base, setting)
  PROVE  Tied(WithoutSave(script, n), undo, WithoutMark(marks, n), base, setting)
<1> DEFINE sc == WithoutSave(script, n)
           m2 == WithoutMark(marks, n)
<1>1. PICK at, sv : /\ Ties(at, sv, script, undo, marks, base)
                    /\ setting = Found(Len(undo) + 1, at, script, base)
  BY DEF Tied
<1>2. script \in Seq(EntryT) /\ Len(script) \in Nat
  BY DEF Tied
<1>3. m2 \in Seq(MarkT)
  BY MarkDropped
<1>4. PICK e : /\ LeftOf(e, marks, m2)
               /\ \A j \in 1 .. Len(marks) :
                    (\E k \in 1 .. Len(m2) : e[k] = j) <=> marks[j].name # n
  BY MarkDropped
<1>5. /\ sc \in [1 .. Len(script) -> EntryT]
      /\ \A i \in 1 .. Len(script) : sc[i] = IF script[i] = SaveOf(n) THEN Past ELSE script[i]
  <2>1. Past \in EntryT
    BY DEF EntryT, Past
  <2> QED BY <1>2, <2>1 DEF WithoutSave
<1> HIDE DEF sc, m2
<1>6. sc \in Seq(EntryT) /\ Len(sc) = Len(script)
  BY <1>2, <1>5
<1>7. ASSUME NEW i \in 1 .. Len(script)
      PROVE  sc[i] = script[i] \/ (script[i].kind = "save" /\ sc[i] = Past)
  BY <1>5 DEF SaveOf
<1>8. ASSUME NEW j \in 1 .. Len(marks)
      PROVE  IF \E k \in 1 .. Len(m2) : e[k] = j THEN sc[sv[j]] = script[sv[j]]
                                                  ELSE sc[sv[j]] = Past
  <2>1. sv[j] \in 1 .. Len(script) /\ script[sv[j]] = SaveOf(marks[j].name)
    BY <1>1, <1>2, WhereSaved
  <2>2. SaveOf(marks[j].name) = SaveOf(n) <=> marks[j].name = n
    BY DEF SaveOf
  <2>3. sc[sv[j]] = IF marks[j].name = n THEN Past ELSE script[sv[j]]
    BY <1>5, <2>1, <2>2
  <2> QED BY <1>4, <2>3
<1> QED BY <1>1, <1>2, <1>3, <1>4, <1>6, <1>7, <1>8, TiedForget DEF sc, m2

\* RELEASE forgets the savepoint and the later ones.
LEMMA TiedRelease ==
  ASSUME NEW script, NEW undo, NEW marks, NEW base, NEW setting, NEW i \in 1 .. Len(marks),
         MarksOK(undo, marks), Tied(script, undo, marks, base, setting)
  PROVE  LET p == CHOOSE k \in DOMAIN script : script[k] = SaveOf(marks[i].name)
         IN  Tied(WithoutSavesFrom(script, p), undo, SubSeq(marks, 1, i - 1), base, setting)
<1> DEFINE p  == CHOOSE k \in DOMAIN script : script[k] = SaveOf(marks[i].name)
           sc == WithoutSavesFrom(script, p)
           m2 == SubSeq(marks, 1, i - 1)
           e  == [j \in 1 .. (i - 1) |-> j]
<1>1. PICK at, sv : /\ Ties(at, sv, script, undo, marks, base)
                    /\ setting = Found(Len(undo) + 1, at, script, base)
  BY DEF Tied
<1>2. script \in Seq(EntryT) /\ Len(script) \in Nat
  BY DEF Tied
<1>3. marks \in Seq(MarkT) /\ Len(marks) \in Nat
  BY DEF MarksOK
<1>4. p = sv[i] /\ p \in 1 .. Len(script)
  BY <1>1, <1>2, WhereSaved
<1> HIDE DEF p
<1>5. m2 \in Seq(MarkT) /\ Len(m2) = i - 1 /\ \A j \in 1 .. (i - 1) : m2[j] = marks[j]
  BY <1>3
<1>6. /\ sc \in [1 .. Len(script) -> EntryT]
      /\ \A k \in 1 .. Len(script) :
           sc[k] = IF k >= p /\ script[k].kind = "save" THEN Past ELSE script[k]
  <2>1. Past \in EntryT
    BY DEF EntryT, Past
  <2> QED BY <1>2, <2>1 DEF WithoutSavesFrom
<1> HIDE DEF sc, m2
<1>7. sc \in Seq(EntryT) /\ Len(sc) = Len(script)
  BY <1>2, <1>6
<1>8. \A k \in 1 .. Len(script) : sc[k] = script[k] \/ (script[k].kind = "save" /\ sc[k] = Past)
  BY <1>6
<1>9. LeftOf(e, marks, m2) /\ \A j \in 1 .. (i - 1) : e[j] = j
  BY <1>3, <1>5 DEF LeftOf
<1> HIDE DEF e
<1>10. ASSUME NEW j \in 1 .. Len(marks)
       PROVE  IF \E k \in 1 .. Len(m2) : e[k] = j THEN sc[sv[j]] = script[sv[j]]
                                                   ELSE sc[sv[j]] = Past
  <2>1. /\ sv[j] \in 1 .. Len(script) /\ script[sv[j]].kind = "save" /\ sv[i] \in 1 .. Len(script)
        /\ j < i => sv[j] < sv[i]
        /\ i < j => sv[i] < sv[j]
    BY <1>1 DEF Ties, Lists
  <2>2. (\E k \in 1 .. Len(m2) : e[k] = j) <=> j < i
    BY <1>3, <1>5, <1>9
  <2>3. (sv[j] >= p) <=> ~(j < i)
    BY <1>2, <1>3, <1>4, <2>1
  <2> QED BY <1>6, <2>1, <2>2, <2>3
<1>11. Tied(sc, undo, m2, base, setting)
  BY <1>1, <1>2, <1>5, <1>7, <1>8, <1>9, <1>10, TiedForget
<1> QED BY <1>11 DEF sc, m2, p

\* SAVEPOINT pushes a mark as deep as the undo log is.
LEMMA TiedPush ==
  ASSUME NEW script, NEW undo, NEW marks, NEW base, NEW setting, NEW n \in Saves,
         MarksOK(undo, marks), Tied(script, undo, marks, base, setting)
  PROVE  Tied(Append(script, SaveOf(n)), undo,
              Append(marks, [name |-> n, depth |-> Len(undo)]), base, setting)
<1> DEFINE new == [name |-> n, depth |-> Len(undo)]
           sc == Append(script, SaveOf(n))
           m2 == Append(marks, new)
           L == Len(script)
           N == Len(undo)
           M == Len(marks)
<1>1. PICK at, sv : /\ Ties(at, sv, script, undo, marks, base)
                    /\ setting = Found(N + 1, at, script, base)
  BY DEF Tied
<1>2. /\ script \in Seq(EntryT) /\ undo \in Seq(SettingT) /\ marks \in Seq(MarkT)
      /\ L \in Nat /\ N \in Nat /\ M \in Nat
  BY DEF Tied, MarksOK
<1>3. SaveOf(n) \in EntryT /\ SaveOf(n).kind = "save" /\ SaveOf(n).what = n
  BY DEF SaveOf, EntryT
<1>4. /\ sc \in Seq(EntryT) /\ Len(sc) = L + 1 /\ sc[L + 1] = SaveOf(n)
      /\ \A i \in 1 .. L : sc[i] = script[i]
  BY <1>2, <1>3
<1>5. new.name = n /\ new.depth = N
  OBVIOUS
<1> HIDE DEF new
<1>6. Len(m2) = M + 1 /\ m2[M + 1] = new /\ \A j \in 1 .. M : m2[j] = marks[j]
  BY <1>2
<1>7. /\ at \in [1 .. N -> 1 .. L] /\ sv \in [1 .. M -> 1 .. L]
      /\ \A k \in 1 .. N : script[at[k]].kind = "local"
      /\ \A k, l \in 1 .. N : k < l => at[k] < at[l]
      /\ \A i \in 1 .. L : script[i].kind = "local" => \E k \in 1 .. N : at[k] = i
      /\ \A k \in 1 .. M : script[sv[k]].kind = "save"
      /\ \A k, l \in 1 .. M : k < l => sv[k] < sv[l]
      /\ \A i \in 1 .. L : script[i].kind = "save" => \E k \in 1 .. M : sv[k] = i
  BY <1>1 DEF Ties, Lists
<1>8. /\ \A j \in 1 .. M : script[sv[j]].what = marks[j].name
      /\ \A j \in 1 .. M, k \in 1 .. N : k <= marks[j].depth <=> at[k] < sv[j]
      /\ \A k \in 1 .. N : undo[k] = Found(k, at, script, base)
  BY <1>1 DEF Ties
<1> DEFINE sv2 == [j \in 1 .. (M + 1) |-> IF j = M + 1 THEN L + 1 ELSE sv[j]]
<1> HIDE DEF sc, m2, L, N, M
<1>9. /\ sv2 \in [1 .. (M + 1) -> 1 .. (L + 1)] /\ sv2[M + 1] = L + 1
      /\ \A j \in 1 .. M : sv2[j] = sv[j] /\ sv2[j] \in 1 .. L
  BY <1>2, <1>7
<1> HIDE DEF sv2
<1>10. Lists(at, N, sc, "local")
  <2>1. at \in [1 .. N -> 1 .. (L + 1)]
    BY <1>2, <1>7
  <2>2. ASSUME NEW k \in 1 .. N PROVE sc[at[k]].kind = "local"
    <3>1. at[k] \in 1 .. L /\ script[at[k]].kind = "local"
      BY <1>7
    <3> QED BY <1>4, <3>1
  <2>3. ASSUME NEW i \in 1 .. (L + 1), sc[i].kind = "local" PROVE \E k \in 1 .. N : at[k] = i
    <3>1. i # L + 1
      BY <1>3, <1>4, <2>3
    <3>2. i \in 1 .. L /\ script[i].kind = "local"
      BY <1>2, <1>4, <2>3, <3>1
    <3> QED BY <1>7, <3>2
  <2> QED BY <1>4, <1>7, <2>1, <2>2, <2>3 DEF Lists
<1>11. Lists(sv2, M + 1, sc, "save")
  <2>1. ASSUME NEW k \in 1 .. (M + 1) PROVE sc[sv2[k]].kind = "save"
    <3>1. k \in 1 .. M \/ k = M + 1
      BY <1>2
    <3> QED BY <1>3, <1>4, <1>7, <1>9, <3>1
  <2>2. ASSUME NEW k \in 1 .. (M + 1), NEW l \in 1 .. (M + 1), k < l PROVE sv2[k] < sv2[l]
    <3>1. k \in 1 .. M /\ (l \in 1 .. M \/ l = M + 1)
      BY <1>2, <2>2
    <3> QED BY <1>2, <1>7, <1>9, <2>2, <3>1
  <2>3. ASSUME NEW i \in 1 .. (L + 1), sc[i].kind = "save"
        PROVE  \E k \in 1 .. (M + 1) : sv2[k] = i
    <3>1. CASE i = L + 1
      BY <1>2, <1>9, <3>1
    <3>2. CASE i # L + 1
      <4>1. i \in 1 .. L /\ script[i].kind = "save"
        BY <1>2, <1>4, <2>3, <3>2
      <4>2. PICK k \in 1 .. M : sv[k] = i
        BY <1>7, <4>1
      <4>3. k \in 1 .. (M + 1) /\ sv2[k] = i
        BY <1>2, <1>9, <4>2
      <4> QED BY <4>3
    <3> QED BY <3>1, <3>2
  <2> QED BY <1>4, <1>9, <2>1, <2>2, <2>3 DEF Lists
<1>12. ASSUME NEW j \in 1 .. (M + 1)
       PROVE  /\ sc[sv2[j]].what = m2[j].name
              /\ \A k \in 1 .. N : k <= m2[j].depth <=> at[k] < sv2[j]
  <2>1. CASE j = M + 1
    <3>1. \A k \in 1 .. N : k <= N /\ at[k] < L + 1
      BY <1>2, <1>7
    <3> QED BY <1>3, <1>4, <1>5, <1>6, <1>9, <2>1, <3>1
  <2>2. CASE j # M + 1
    <3>1. j \in 1 .. M
      BY <1>2, <2>2
    <3>2. sv2[j] = sv[j] /\ sv[j] \in 1 .. L /\ m2[j] = marks[j] /\ sc[sv[j]] = script[sv[j]]
      BY <1>4, <1>6, <1>9, <3>1
    <3> QED BY <1>8, <3>1, <3>2
  <2> QED BY <2>1, <2>2
<1>13. \A k \in 1 .. (N + 1) : Found(k, at, sc, base) = Found(k, at, script, base)
  <2> TAKE k \in 1 .. (N + 1)
  <2>1. k # 1 => k - 1 \in 1 .. N
    BY <1>2
  <2>2. k # 1 => sc[at[k - 1]] = script[at[k - 1]]
    BY <1>4, <1>7, <2>1
  <2> QED BY <2>2 DEF Found
<1>14. /\ \A k \in 1 .. N : undo[k] = Found(k, at, sc, base)
       /\ setting = Found(N + 1, at, sc, base)
  BY <1>1, <1>2, <1>8, <1>13
<1>15. Ties(at, sv2, sc, undo, m2, base)
  BY <1>6, <1>10, <1>11, <1>12, <1>14 DEF Ties, N
<1>16. Tied(sc, undo, m2, base, setting)
  BY <1>4, <1>14, <1>15 DEF Tied, N
<1> QED BY <1>16 DEF sc, m2, new

\* ROLLBACK TO cuts script, undo log and marks at the savepoint and puts back
\* what the first SET LOCAL after it found.
LEMMA TiedBack ==
  ASSUME NEW script, NEW undo, NEW marks, NEW base, NEW setting, NEW i \in 1 .. Len(marks),
         MarksOK(undo, marks), Tied(script, undo, marks, base, setting)
  PROVE  LET p == CHOOSE k \in DOMAIN script : script[k] = SaveOf(marks[i].name)
             d == marks[i].depth
         IN  Tied(SubSeq(script, 1, p), SubSeq(undo, 1, d), SubSeq(marks, 1, i), base,
                  IF Len(undo) > d THEN undo[d + 1] ELSE setting)
<1> DEFINE p  == CHOOSE k \in DOMAIN script : script[k] = SaveOf(marks[i].name)
           d  == marks[i].depth
           sc == SubSeq(script, 1, p)
           ud == SubSeq(undo, 1, d)
           m2 == SubSeq(marks, 1, i)
           L == Len(script)
           N == Len(undo)
           M == Len(marks)
           put == IF N > d THEN undo[d + 1] ELSE setting
<1>1. PICK at, sv : /\ Ties(at, sv, script, undo, marks, base)
                    /\ setting = Found(N + 1, at, script, base)
  BY DEF Tied
<1>2. /\ script \in Seq(EntryT) /\ undo \in Seq(SettingT) /\ marks \in Seq(MarkT)
      /\ L \in Nat /\ N \in Nat /\ M \in Nat /\ i \in 1 .. M
  BY DEF Tied, MarksOK
<1>3. d \in Nat /\ d <= N
  <2>1. marks[i] \in MarkT
    BY <1>2
  <2> QED BY <2>1 DEF MarkT, MarksOK
<1>4. p = sv[i] /\ p \in 1 .. L
  BY <1>1, <1>2, WhereSaved
<1> HIDE DEF p, d
<1>5. sc \in Seq(EntryT) /\ Len(sc) = p /\ \A k \in 1 .. p : sc[k] = script[k]
  BY <1>2, <1>4
<1>6. Len(ud) = d /\ \A k \in 1 .. d : ud[k] = undo[k]
  BY <1>2, <1>3
<1>7. Len(m2) = i /\ \A j \in 1 .. i : m2[j] = marks[j]
  BY <1>2
<1>8. /\ at \in [1 .. N -> 1 .. L] /\ sv \in [1 .. M -> 1 .. L]
      /\ \A k \in 1 .. N : script[at[k]].kind = "local"
      /\ \A k, l \in 1 .. N : k < l => at[k] < at[l]
      /\ \A k \in 1 .. L : script[k].kind = "local" => \E l \in 1 .. N : at[l] = k
      /\ \A k \in 1 .. M : script[sv[k]].kind = "save"
      /\ \A k, l \in 1 .. M : k < l => sv[k] < sv[l]
      /\ \A k \in 1 .. L : script[k].kind = "save" => \E l \in 1 .. M : sv[l] = k
  BY <1>1 DEF Ties, Lists
<1>9. /\ \A j \in 1 .. M : script[sv[j]].what = marks[j].name
      /\ \A j \in 1 .. M, k \in 1 .. N : k <= marks[j].depth <=> at[k] < sv[j]
      /\ \A k \in 1 .. N : undo[k] = Found(k, at, script, base)
  BY <1>1 DEF Ties
<1>10. /\ \A k \in 1 .. N : k <= d <=> at[k] < p
       /\ \A k \in 1 .. d : k \in 1 .. N /\ at[k] < p /\ at[k] \in 1 .. p
  <2>1. \A k \in 1 .. N : k <= d <=> at[k] < p
    BY <1>2, <1>4, <1>9 DEF d
  <2>2. ASSUME NEW k \in 1 .. d PROVE k \in 1 .. N /\ at[k] < p /\ at[k] \in 1 .. p
    <3>1. k \in 1 .. N /\ k <= d
      BY <1>2, <1>3
    <3>2. at[k] \in 1 .. L /\ at[k] < p
      BY <1>8, <2>1, <3>1
    <3> QED BY <1>2, <1>4, <3>1, <3>2
  <2> QED BY <2>1, <2>2
<1>11. \A j \in 1 .. i : j \in 1 .. M /\ sv[j] <= p /\ sv[j] \in 1 .. p
  <2> TAKE j \in 1 .. i
  <2>1. j \in 1 .. M /\ (j < i \/ j = i)
    BY <1>2
  <2>2. sv[j] \in 1 .. L /\ (j < i => sv[j] < sv[i])
    BY <1>2, <1>8, <2>1
  <2> QED BY <1>2, <1>4, <2>1, <2>2
<1> DEFINE at2 == [k \in 1 .. d |-> at[k]]
           sv2 == [j \in 1 .. i |-> sv[j]]
<1> HIDE DEF sc, ud, m2, L, N, M
<1>12. /\ at2 \in [1 .. d -> 1 .. p] /\ \A k \in 1 .. d : at2[k] = at[k]
       /\ sv2 \in [1 .. i -> 1 .. p] /\ \A j \in 1 .. i : sv2[j] = sv[j]
  BY <1>10, <1>11
<1> HIDE DEF at2, sv2
<1>13. Lists(at2, d, sc, "local")
  <2>1. \A k \in 1 .. d : sc[at2[k]].kind = "local"
    BY <1>5, <1>8, <1>10, <1>12
  <2>2. ASSUME NEW k \in 1 .. d, NEW l \in 1 .. d, k < l PROVE at2[k] < at2[l]
    BY <1>8, <1>10, <1>12, <2>2
  <2>3. ASSUME NEW k \in 1 .. p, sc[k].kind = "local" PROVE \E l \in 1 .. d : at2[l] = k
    <3>1. k \in 1 .. L /\ script[k].kind = "local" /\ k <= p
      BY <1>2, <1>4, <1>5, <2>3
    <3>2. PICK l \in 1 .. N : at[l] = k
      BY <1>8, <3>1
    <3>3. k # p
      BY <1>2, <1>4, <1>8, <3>1
    <3>4. l \in 1 .. d
      BY <1>2, <1>3, <1>4, <1>10, <3>1, <3>2, <3>3
    <3> QED BY <1>12, <3>2, <3>4
  <2> QED BY <1>5, <1>12, <2>1, <2>2, <2>3 DEF Lists
<1>14. Lists(sv2, i, sc, "save")
  <2>1. \A k \in 1 .. i : sc[sv2[k]].kind = "save"
    BY <1>5, <1>8, <1>11, <1>12
  <2>2. ASSUME NEW k \in 1 .. i, NEW l \in 1 .. i, k < l PROVE sv2[k] < sv2[l]
    BY <1>8, <1>11, <1>12, <2>2
  <2>3. ASSUME NEW k \in 1 .. p, sc[k].kind = "save" PROVE \E l \in 1 .. i : sv2[l] = k
    <3>1. k \in 1 .. L /\ script[k].kind = "save" /\ k <= p
      BY <1>2, <1>4, <1>5, <2>3
    <3>2. PICK l \in 1 .. M : sv[l] = k
      BY <1>8, <3>1
    <3>3. ~(i < l)
      <4>1. i < l => sv[i] < sv[l]
        BY <1>2, <1>8
      <4> QED BY <1>2, <1>4, <3>1, <3>2, <4>1
    <3>4. l \in 1 .. i
      BY <1>2, <3>3
    <3> QED BY <1>12, <3>2, <3>4
  <2> QED BY <1>5, <1>12, <2>1, <2>2, <2>3 DEF Lists
<1>15. ASSUME NEW j \in 1 .. i
       PROVE  /\ sc[sv2[j]].what = m2[j].name
              /\ \A k \in 1 .. d : k <= m2[j].depth <=> at2[k] < sv2[j]
  <2>1. j \in 1 .. M /\ sv[j] \in 1 .. p /\ sv2[j] = sv[j] /\ m2[j] = marks[j]
    BY <1>7, <1>11, <1>12
  <2>2. sc[sv2[j]] = script[sv[j]]
    BY <1>5, <2>1
  <2> QED BY <1>9, <1>10, <1>12, <2>1, <2>2
<1>16. ASSUME NEW k \in 1 .. (d + 1)
       PROVE  Found(k, at2, sc, base) = Found(k, at, script, base)
  <2>1. k # 1 => k - 1 \in 1 .. d
    BY <1>3
  <2>2. k # 1 => at2[k - 1] = at[k - 1] /\ at[k - 1] \in 1 .. p
    BY <1>10, <1>12, <2>1
  <2>3. k # 1 => sc[at2[k - 1]] = script[at[k - 1]]
    BY <1>5, <2>2
  <2> QED BY <2>3 DEF Found
<1>17. \A k \in 1 .. d : ud[k] = Found(k, at2, sc, base)
  BY <1>3, <1>6, <1>9, <1>10, <1>16
<1>18. put = Found(d + 1, at2, sc, base)
  <2>1. Found(d + 1, at2, sc, base) = Found(d + 1, at, script, base)
    BY <1>3, <1>16
  <2>2. CASE N > d
    <3>1. d + 1 \in 1 .. N
      BY <1>2, <1>3, <2>2
    <3> QED BY <1>9, <2>1, <2>2, <3>1
  <2>3. CASE ~(N > d)
    <3>1. N = d
      BY <1>2, <1>3, <2>3
    <3> QED BY <1>1, <2>1, <2>3, <3>1
  <2> QED BY <2>2, <2>3
<1>19. Ties(at2, sv2, sc, ud, m2, base)
  BY <1>6, <1>7, <1>13, <1>14, <1>15, <1>17 DEF Ties
<1> HIDE DEF put
<1>20. Tied(sc, ud, m2, base, put)
  BY <1>5, <1>6, <1>18, <1>19 DEF Tied
<1> QED BY <1>20 DEF sc, ud, m2, p, d, put, N

---------------------------------------------------------------------------
(* Savepoint marks.                                                        *)

\* No block, no marks.
LEMMA MarksNone == MarksOK(<<>>, <<>>)
BY DEF MarksOK

\* SET LOCAL: the undo log grows.
LEMMA MarksLocal ==
  ASSUME NEW undo, NEW marks, MarksOK(undo, marks), NEW v \in SettingT
  PROVE  MarksOK(Append(undo, v), marks)
<1>1. undo \in Seq(SettingT) /\ marks \in Seq(MarkT)
  BY DEF MarksOK
<1>2. Append(undo, v) \in Seq(SettingT) /\ Len(Append(undo, v)) = Len(undo) + 1 /\ Len(undo) \in Nat
  BY <1>1
<1>3. \A i \in 1 .. Len(marks) : marks[i].depth <= Len(undo) + 1
  <2> TAKE i \in 1 .. Len(marks)
  <2>1. marks[i] \in MarkT /\ marks[i].depth <= Len(undo)
    BY <1>1 DEF MarksOK
  <2>2. marks[i].depth \in Nat
    BY <2>1 DEF MarkT
  <2> QED BY <1>2, <2>1, <2>2
<1> QED BY <1>1, <1>2, <1>3 DEF MarksOK

\* SAVEPOINT: the name is free and the new mark is the deepest.
LEMMA MarksSave ==
  ASSUME NEW undo, NEW marks, MarksOK(undo, marks), NEW n \in Saves
  PROVE  MarksOK(undo, Append(WithoutMark(marks, n), [name |-> n, depth |-> Len(undo)]))
<1> DEFINE new == [name |-> n, depth |-> Len(undo)]
           m  == WithoutMark(marks, n)
           m2 == Append(m, new)
           M  == Len(m)
<1>1. m \in Seq(MarkT)
  BY MarkDropped
<1>2. PICK e : /\ LeftOf(e, marks, m)
               /\ \A j \in 1 .. Len(marks) :
                    (\E k \in 1 .. Len(m) : e[k] = j) <=> marks[j].name # n
  BY MarkDropped
<1> HIDE DEF m
<1>3. MarksOK(undo, m)
  BY <1>1, <1>2, LeftOK
<1>4. \A k \in 1 .. M : m[k].name # n
  <2> TAKE k \in 1 .. M
  <2>1. e[k] \in 1 .. Len(marks) /\ m[k] = marks[e[k]]
    BY <1>2 DEF LeftOf
  <2> QED BY <1>2, <2>1
<1>5. undo \in Seq(SettingT) /\ Len(undo) \in Nat
  BY DEF MarksOK
<1>6. new \in MarkT /\ new.name = n /\ new.depth = Len(undo)
  BY <1>5 DEF MarkT
<1> HIDE DEF new
<1>7. /\ m2 \in Seq(MarkT) /\ Len(m2) = M + 1 /\ m2[M + 1] = new /\ M \in Nat
      /\ \A j \in 1 .. M : m2[j] = m[j]
  BY <1>1, <1>6
<1>8. \A j \in 1 .. M : m[j].depth <= Len(undo)
  BY <1>3 DEF MarksOK
<1>9. \A i, j \in 1 .. M : i < j => m[i].name # m[j].name /\ m[i].depth <= m[j].depth
  BY <1>3 DEF MarksOK
<1> HIDE DEF m2, M
<1>10. ASSUME NEW j \in 1 .. (M + 1) PROVE m2[j].depth <= Len(undo)
  <2>1. j \in 1 .. M \/ j = M + 1
    BY <1>7
  <2> QED BY <1>5, <1>6, <1>7, <1>8, <2>1
<1>11. ASSUME NEW i \in 1 .. (M + 1), NEW j \in 1 .. (M + 1), i < j
       PROVE  m2[i].name # m2[j].name /\ m2[i].depth <= m2[j].depth
  <2>1. i \in 1 .. M /\ (j \in 1 .. M \/ j = M + 1)
    BY <1>7, <1>11
  <2> QED BY <1>4, <1>6, <1>7, <1>8, <1>9, <1>11, <2>1
<1> QED BY <1>5, <1>7, <1>10, <1>11 DEF MarksOK, m2, m, new

\* The first marks of a block, and as much of its undo log as they need.
LEMMA MarksCut ==
  ASSUME NEW undo, NEW marks, MarksOK(undo, marks), NEW i \in 0 .. Len(marks),
         NEW d \in 0 .. Len(undo), \A j \in 1 .. i : marks[j].depth <= d
  PROVE  MarksOK(SubSeq(undo, 1, d), SubSeq(marks, 1, i))
<1> DEFINE ud == SubSeq(undo, 1, d)
           m2 == SubSeq(marks, 1, i)
<1>1. undo \in Seq(SettingT) /\ marks \in Seq(MarkT) /\ Len(undo) \in Nat /\ Len(marks) \in Nat
  BY DEF MarksOK
<1>2. ud \in Seq(SettingT) /\ Len(ud) = d
  BY <1>1
<1>3. m2 \in Seq(MarkT) /\ Len(m2) = i /\ \A j \in 1 .. i : m2[j] = marks[j]
  BY <1>1
<1> HIDE DEF ud, m2
<1>4. ASSUME NEW j \in 1 .. i, NEW k \in 1 .. i, j < k
      PROVE  m2[j].name # m2[k].name /\ m2[j].depth <= m2[k].depth
  <2>1. j \in 1 .. Len(marks) /\ k \in 1 .. Len(marks) /\ m2[j] = marks[j] /\ m2[k] = marks[k]
    BY <1>1, <1>3
  <2> QED BY <1>4, <2>1 DEF MarksOK
<1> QED BY <1>2, <1>3, <1>4 DEF MarksOK, ud, m2

\* ROLLBACK TO.
LEMMA MarksBack ==
  ASSUME NEW undo, NEW marks, MarksOK(undo, marks), NEW i \in 1 .. Len(marks)
  PROVE  LET d == marks[i].depth
         IN  /\ MarksOK(SubSeq(undo, 1, d), SubSeq(marks, 1, i))
             /\ Len(undo) > d => undo[d + 1] \in SettingT
<1>1. undo \in Seq(SettingT) /\ marks \in Seq(MarkT) /\ Len(undo) \in Nat /\ Len(marks) \in Nat
  BY DEF MarksOK
<1>2. marks[i] \in MarkT /\ marks[i].depth <= Len(undo)
  BY <1>1 DEF MarksOK
<1> DEFINE d == marks[i].depth
<1>3. d \in 0 .. Len(undo) /\ i \in 0 .. Len(marks)
  BY <1>1, <1>2 DEF MarkT
<1>4. \A j \in 1 .. i : marks[j].depth <= d
  <2> TAKE j \in 1 .. i
  <2>1. j \in 1 .. Len(marks) /\ (j < i \/ j = i)
    BY <1>1
  <2> QED BY <1>3, <2>1 DEF MarksOK
<1> HIDE DEF d
<1>5. MarksOK(SubSeq(undo, 1, d), SubSeq(marks, 1, i))
  BY <1>3, <1>4, MarksCut
<1>6. Len(undo) > d => undo[d + 1] \in SettingT
  <2>1. Len(undo) > d => d + 1 \in 1 .. Len(undo)
    BY <1>1, <1>3
  <2> QED BY <1>1, <2>1
<1> QED BY <1>5, <1>6 DEF d

\* RELEASE.
LEMMA MarksRelease ==
  ASSUME NEW undo, NEW marks, MarksOK(undo, marks), NEW i \in 1 .. Len(marks)
  PROVE  MarksOK(undo, SubSeq(marks, 1, i - 1))
<1>1. undo \in Seq(SettingT) /\ Len(undo) \in Nat /\ Len(marks) \in Nat
  BY DEF MarksOK
<1>2. i - 1 \in 0 .. Len(marks) /\ Len(undo) \in 0 .. Len(undo)
  BY <1>1
<1>3. \A j \in 1 .. (i - 1) : marks[j].depth <= Len(undo)
  BY <1>1 DEF MarksOK
<1>4. SubSeq(undo, 1, Len(undo)) = undo
  BY <1>1
<1>5. MarksOK(SubSeq(undo, 1, Len(undo)), SubSeq(marks, 1, i - 1))
  BY <1>2, <1>3, MarksCut
<1> QED BY <1>4, <1>5

\* The setting is that of the last SET LOCAL of the script, or that of SET.
LEMMA LastCounts ==
  ASSUME NEW script, NEW undo \in Seq(SettingT), NEW marks, NEW base, NEW setting,
         Tied(script, undo, marks, base, setting)
  PROVE  LET locals == { i \in DOMAIN script : script[i].kind = "local" }
         IN  \/ locals = {} /\ setting = base
             \/ \E i \in locals : /\ \A j \in locals : j <= i
                                  /\ setting = script[i].what
<1> DEFINE N == Len(undo)
           L == Len(script)
           locals == { i \in DOMAIN script : script[i].kind = "local" }
<1>1. PICK at, sv : /\ Ties(at, sv, script, undo, marks, base)
                    /\ setting = Found(N + 1, at, script, base)
  BY DEF Tied
<1>2. DOMAIN script = 1 .. L /\ L \in Nat /\ N \in Nat
  BY DEF Tied
<1>3. /\ at \in [1 .. N -> 1 .. L]
      /\ \A k \in 1 .. N : script[at[k]].kind = "local"
      /\ \A k, l \in 1 .. N : k < l => at[k] < at[l]
      /\ \A i \in 1 .. L : script[i].kind = "local" => \E k \in 1 .. N : at[k] = i
  BY <1>1 DEF Ties, Lists
<1> HIDE DEF N, L
<1>4. \A j \in locals : j \in 1 .. L /\ \E k \in 1 .. N : at[k] = j
  BY <1>2, <1>3
<1>5. CASE N = 0
  <2>1. setting = base
    BY <1>1, <1>5 DEF Found
  <2>2. locals = {}
    BY <1>4, <1>5
  <2> QED BY <2>1, <2>2
<1>6. CASE N # 0
  <2>1. N \in 1 .. N /\ (N + 1) - 1 = N /\ N + 1 # 1
    BY <1>2, <1>6
  <2>2. at[N] \in locals
    BY <1>2, <1>3, <2>1
  <2>3. setting = script[at[N]].what
    BY <1>1, <2>1 DEF Found
  <2>4. ASSUME NEW j \in locals PROVE j <= at[N]
    <3>1. PICK k \in 1 .. N : at[k] = j
      BY <1>4
    <3>2. k < N \/ k = N
      BY <1>2
    <3>3. at[k] \in 1 .. L /\ at[N] \in 1 .. L /\ (k < N => at[k] < at[N])
      BY <1>3, <2>1
    <3> QED BY <1>2, <3>1, <3>2, <3>3
  <2> HIDE DEF locals
  <2>5. \E i \in locals : (\A j \in locals : j <= i) /\ setting = script[i].what
    BY <2>2, <2>3, <2>4
  <2> QED BY <2>5 DEF locals
<1> QED BY <1>5, <1>6

---------------------------------------------------------------------------
(* The invariant of the settings, and what a statement does to it.         *)

BagT == [setting : SettingT, iso : Levels, ro : BOOLEAN,
         cursor : {"none", "open", "hold", "held"}]

\* A block's marks are in order, and without a block there is nothing of one.
LogOK(s) ==
  /\ MarksOK(slot[s].undo, slot[s].marks)
  /\ ~slot[s].open => slot[s] = Closed /\ want[s].script = <<>>

\* What the client asked for is what the block and the session have.
Overlaid(s) ==
  ~Met(s, {"race", "disconnect", "mixed"})
    => Tied(want[s].script, slot[s].undo, slot[s].marks, want[s].base, Bag(s).setting)

SettingInv ==
  /\ pc \in [Sessions -> {"idle", "announced", "gone"}]
  /\ live \in BagT /\ (cur # 0 => parked[cur] = Fresh)
  /\ \A i \in Sessions \cup {0} : parked[i] \in BagT
  /\ \A s \in Sessions : LogOK(s) /\ Overlaid(s)

\* A statement of s, by what it does to s.
LEMMA StatementSettles ==
  ASSUME SlipInv, SettingInv, NEW s \in Sessions, NEW ms, Executes(s, ms),
         parked' = parked, live' \in BagT,
         \A t \in Sessions \ {s} :
           /\ want'[t] = want[t]
           /\ slot'[t].undo = slot[t].undo /\ slot'[t].marks = slot[t].marks
           /\ slot'[t] = slot[t] \/ slot'[t].open,
         MarksOK(slot'[s].undo, slot'[s].marks),
         ~slot'[s].open => slot'[s] = Closed /\ want'[s].script = <<>>,
         cur = s /\ ~Met(s, {"race", "disconnect", "mixed"}) /\ ~Met(s, {"mixed"})'
           => Tied(want'[s].script, slot'[s].undo, slot'[s].marks, want'[s].base, live'.setting)
  PROVE  SettingInv'
<1>1. /\ cur' = cur /\ mishaps \subseteq mishaps'
      /\ cur # s => <<s, "race">> \in mishaps'
                    /\ (cur \in Sessions => <<cur, "race">> \in mishaps')
  BY Executing
<1>2. \A t, K : Met(t, K) => Met(t, K)'
  BY <1>1 DEF Met
<1>3. pc' \in [Sessions -> {"idle", "announced", "gone"}]
  BY DEF SettingInv, Executes
<1>4. (cur' # 0 => parked'[cur'] = Fresh) /\ \A i \in Sessions \cup {0} : parked'[i] \in BagT
  BY <1>1 DEF SettingInv
<1>5. ASSUME NEW t \in Sessions PROVE LogOK(t)'
  <2>1. CASE t = s
    BY <2>1 DEF LogOK
  <2>2. CASE t # s
    <3>1. LogOK(t)
      BY DEF SettingInv
    <3>2. /\ want'[t] = want[t]
          /\ slot'[t].undo = slot[t].undo /\ slot'[t].marks = slot[t].marks
          /\ slot'[t] = slot[t] \/ slot'[t].open
      BY <2>2
    <3> QED BY <3>1, <3>2 DEF LogOK
  <2> QED BY <2>1, <2>2
<1>6. Overlaid(s)'
  <2>1. CASE cur # s
    <3>1. Met(s, {"race", "disconnect", "mixed"})'
      BY <1>1, <2>1 DEF Met
    <3> QED BY <3>1 DEF Overlaid
  <2>2. CASE cur = s
    <3>1. Bag(s)' = live'
      BY <1>1, <2>2 DEF Bag
    <3>2. Met(s, {"mixed"})' => Met(s, {"race", "disconnect", "mixed"})'
      BY DEF Met
    <3> QED BY <1>2, <2>2, <3>1, <3>2 DEF Overlaid
  <2> QED BY <2>1, <2>2
<1>7. ASSUME NEW t \in Sessions, t # s PROVE Overlaid(t)'
  <2>1. Overlaid(t)
    BY DEF SettingInv
  <2>2. want'[t] = want[t] /\ slot'[t].undo = slot[t].undo /\ slot'[t].marks = slot[t].marks
    BY <1>7
  <2>3. CASE cur = t
    <3>1. Met(t, {"race", "disconnect", "mixed"})'
      BY <1>1, <1>7, <2>3 DEF Met
    <3> QED BY <3>1 DEF Overlaid
  <2>4. CASE cur # t
    <3>1. Bag(t)' = Bag(t)
      BY <1>1, <2>4 DEF Bag
    <3> QED BY <1>2, <2>1, <2>2, <3>1 DEF Overlaid
  <2> QED BY <2>3, <2>4
<1> QED BY <1>3, <1>4, <1>5, <1>6, <1>7 DEF SettingInv

\* A statement that writes no block but its own (x).
LEMMA OwnSettles ==
  ASSUME SlipInv, SettingInv, NEW s \in Sessions, NEW ms, Executes(s, ms),
         parked' = parked, live' \in BagT, NEW x, NEW w,
         slot' = [slot EXCEPT ![s] = x], want' = [want EXCEPT ![s] = w],
         MarksOK(x.undo, x.marks), ~x.open => x = Closed /\ w.script = <<>>,
         cur = s /\ ~Met(s, {"race", "disconnect", "mixed"}) /\ ~Met(s, {"mixed"})'
           => Tied(w.script, x.undo, x.marks, w.base, live'.setting)
  PROVE  SettingInv'
<1>1. slot'[s] = x /\ want'[s] = w
  BY DEF SlipInv, Shapes
<1>2. \A t \in Sessions \ {s} : slot'[t] = slot[t] /\ want'[t] = want[t]
  BY DEF SlipInv, Shapes
<1> QED BY <1>1, <1>2, StatementSettles

\* A statement of s that leaves the setting, the script and the marks alone.
LEMMA PlainSettles ==
  ASSUME SlipInv, SettingInv, NEW s \in Sessions, NEW ms, Executes(s, ms),
         parked' = parked, live' \in BagT, live'.setting = live.setting, NEW x, NEW w,
         slot' = [slot EXCEPT ![s] = x], want' = [want EXCEPT ![s] = w],
         x.undo = slot[s].undo, x.marks = slot[s].marks, x = slot[s] \/ x.open,
         w.script = want[s].script, w.base = want[s].base
  PROVE  SettingInv'
<1>1. LogOK(s) /\ Overlaid(s)
  BY DEF SettingInv
<1>2. cur = s => Bag(s) = live
  BY DEF Bag
<1>3. MarksOK(x.undo, x.marks) /\ (~x.open => x = Closed /\ w.script = <<>>)
  BY <1>1 DEF LogOK
<1>4. cur = s /\ ~Met(s, {"race", "disconnect", "mixed"}) /\ ~Met(s, {"mixed"})'
        => Tied(w.script, x.undo, x.marks, w.base, live'.setting)
  BY <1>1, <1>2 DEF Overlaid
<1> QED BY <1>3, <1>4, OwnSettles

\* Bags and what is done to them.
LEMMA BagTypes ==
  ASSUME NEW l \in BagT
  PROVE  /\ \A v \in SettingT : [l EXCEPT !.setting = v] \in BagT
                                /\ [l EXCEPT !.setting = v].setting = v
         /\ \A c \in {"none", "open", "hold", "held"} :
              [l EXCEPT !.cursor = c] \in BagT /\ [l EXCEPT !.cursor = c].setting = l.setting
         /\ \A i \in Levels, r \in BOOLEAN :
              [l EXCEPT !.iso = i, !.ro = r] \in BagT
              /\ [l EXCEPT !.iso = i, !.ro = r].setting = l.setting
         /\ \A i \in Levels : [l EXCEPT !.iso = i] \in BagT
                              /\ [l EXCEPT !.iso = i].setting = l.setting
         /\ \A r \in BOOLEAN : [l EXCEPT !.ro = r] \in BagT
                               /\ [l EXCEPT !.ro = r].setting = l.setting
         /\ Fresh \in BagT /\ Fresh.setting = Initially
         /\ l.setting \in SettingT
BY DEF BagT, Fresh, SettingT, Levels

\* Statements that leave settings and savepoints alone.
LEMMA PlainStatementsSettle ==
  ASSUME SlipInv, SettingInv, NEW s \in Sessions,
         \/ Show(s) \/ Refuse(s) \/ RebaseFails(s) \/ Fail(s) \/ Select(s)
         \/ \E iso \in Levels, ro \in BOOLEAN : Begin(s, iso, ro)
         \/ \E iso \in Levels : SetLevel(s, iso)
         \/ \E ro \in BOOLEAN : SetMode(s, ro)
         \/ \E hold \in BOOLEAN : Declare(s, hold)
         \/ Close(s)
         \/ \E on \in BOOLEAN : Listen(s, on)
         \/ Notify(s)
  PROVE  SettingInv'
<1>1. Shapes /\ IsSlot(slot[s]) /\ IsWant(want[s]) /\ live \in BagT
  BY Unchanged DEF SlipInv, SettingInv
<1>2. /\ slot' = slot => slot' = [slot EXCEPT ![s] = slot[s]]
      /\ want' = want => want' = [want EXCEPT ![s] = want[s]]
  BY <1>1, Unchanged
<1>3. CASE Show(s) \/ Refuse(s)
  <2>1. Executes(s, {}) /\ UNCHANGED <<live, parked, slot, want>>
    BY <1>3 DEF Show, Refuse
  <2> QED BY <1>1, <1>2, <2>1, PlainSettles
<1>4. CASE RebaseFails(s)
  <2> DEFINE w == [want[s] EXCEPT !.failed = TRUE]
  <2>1. /\ Executes(s, {<<s, "rebase">>}) /\ UNCHANGED <<live, parked, slot>>
        /\ want' = [want EXCEPT ![s] = w]
    BY <1>1, <1>4 DEF RebaseFails, Shapes
  <2>2. w.script = want[s].script /\ w.base = want[s].base
    BY <1>1 DEF IsWant, WantFields
  <2> HIDE DEF w
  <2> QED BY <1>1, <1>2, <2>1, <2>2, PlainSettles
<1>5. CASE Fail(s)
  <2> DEFINE w == [want[s] EXCEPT !.failed = TRUE]
             x == [slot[s] EXCEPT !.aborted = TRUE]
  <2>1. /\ Executes(s, {}) /\ UNCHANGED <<live, parked>> /\ slot[s].open
        /\ want' = [want EXCEPT ![s] = w] /\ slot' = [slot EXCEPT ![s] = x]
    BY <1>1, <1>5 DEF Fail, Shapes
  <2>2. w.script = want[s].script /\ w.base = want[s].base
    BY <1>1 DEF IsWant, WantFields
  <2>3. x.undo = slot[s].undo /\ x.marks = slot[s].marks /\ x.open
    BY <1>1, <2>1 DEF IsSlot, SlotFields
  <2> HIDE DEF w, x
  <2> QED BY <1>1, <2>1, <2>2, <2>3, PlainSettles
<1>6. CASE Select(s)
  <2> DEFINE w == [want[s] EXCEPT !.read = TRUE]
             x == [slot[s] EXCEPT !.ran = TRUE, !.read = slot[s].ssi]
  <2>1. /\ Executes(s, {}) /\ UNCHANGED <<live, parked>> /\ slot[s].open
        /\ want' = [want EXCEPT ![s] = w] /\ slot' = [slot EXCEPT ![s] = x]
    BY <1>1, <1>6 DEF Select, Shapes
  <2>2. w.script = want[s].script /\ w.base = want[s].base
    BY <1>1 DEF IsWant, WantFields
  <2>3. x.undo = slot[s].undo /\ x.marks = slot[s].marks /\ x.open
    BY <1>1, <2>1 DEF IsSlot, SlotFields
  <2> HIDE DEF w, x
  <2> QED BY <1>1, <2>1, <2>2, <2>3, PlainSettles
<1>7. ASSUME NEW iso \in Levels, NEW ro \in BOOLEAN, Begin(s, iso, ro) PROVE SettingInv'
  <2> DEFINE w == [want[s] EXCEPT !.ro = ro]
             x == [Closed EXCEPT !.open = TRUE, !.iso = iso, !.ro = ro, !.ssi = (iso = "ser")]
  <2>1. /\ Executes(s, {}) /\ UNCHANGED parked /\ slot[s] = Closed
        /\ want' = [want EXCEPT ![s] = w] /\ slot' = [slot EXCEPT ![s] = x]
        /\ live' = [live EXCEPT !.iso = iso, !.ro = ro]
    BY <1>1, <1>7 DEF Begin, Shapes, SettingInv, LogOK
  <2>2. w.script = want[s].script /\ w.base = want[s].base
    BY <1>1 DEF IsWant, WantFields
  <2>3. x.undo = slot[s].undo /\ x.marks = slot[s].marks /\ x.open
    BY <2>1 DEF Closed
  <2>4. live' \in BagT /\ live'.setting = live.setting
    BY <1>1, <2>1, BagTypes
  <2> HIDE DEF w, x
  <2> QED BY <2>1, <2>2, <2>3, <2>4, PlainSettles
<1>8. ASSUME NEW iso \in Levels, SetLevel(s, iso) PROVE SettingInv'
  <2> DEFINE x == [slot[s] EXCEPT !.iso = iso, !.ro = live.ro]
             ms == When(iso = "ser" /\ ~slot[s].ssi, {<<s, "switched">>})
  <2>1. /\ Executes(s, ms) /\ UNCHANGED <<parked, want>> /\ slot[s].open
        /\ slot' = [slot EXCEPT ![s] = x] /\ live' = [live EXCEPT !.iso = iso]
    BY <1>1, <1>8 DEF SetLevel, Shapes
  <2>2. x.undo = slot[s].undo /\ x.marks = slot[s].marks /\ x.open
    BY <1>1, <2>1 DEF IsSlot, SlotFields
  <2>3. live' \in BagT /\ live'.setting = live.setting
    BY <1>1, <2>1, BagTypes
  <2> HIDE DEF x, ms
  <2> QED BY <1>2, <2>1, <2>2, <2>3, PlainSettles
<1>9. ASSUME NEW ro \in BOOLEAN, SetMode(s, ro) PROVE SettingInv'
  <2> DEFINE w == [want[s] EXCEPT !.ro = ro]
             x == [slot[s] EXCEPT !.iso = live.iso, !.ro = ro]
  <2>1. /\ Executes(s, {}) /\ UNCHANGED parked /\ slot[s].open
        /\ want' = [want EXCEPT ![s] = w] /\ slot' = [slot EXCEPT ![s] = x]
        /\ live' = [live EXCEPT !.ro = ro]
    BY <1>1, <1>9 DEF SetMode, Shapes
  <2>2. w.script = want[s].script /\ w.base = want[s].base
    BY <1>1 DEF IsWant, WantFields
  <2>3. x.undo = slot[s].undo /\ x.marks = slot[s].marks /\ x.open
    BY <1>1, <2>1 DEF IsSlot, SlotFields
  <2>4. live' \in BagT /\ live'.setting = live.setting
    BY <1>1, <2>1, BagTypes
  <2> HIDE DEF w, x
  <2> QED BY <2>1, <2>2, <2>3, <2>4, PlainSettles
<1>10. ASSUME NEW hold \in BOOLEAN, Declare(s, hold) PROVE SettingInv'
  <2> DEFINE x == [slot[s] EXCEPT !.ran = TRUE, !.poisoned = TRUE]
             c == IF hold THEN "hold" ELSE "open"
  <2>1. /\ Executes(s, {}) /\ UNCHANGED <<parked, want>> /\ slot[s].open
        /\ slot' = [slot EXCEPT ![s] = x] /\ live' = [live EXCEPT !.cursor = c]
    BY <1>1, <1>10 DEF Declare, Shapes
  <2>2. x.undo = slot[s].undo /\ x.marks = slot[s].marks /\ x.open
    BY <1>1, <2>1 DEF IsSlot, SlotFields
  <2>3. c \in {"none", "open", "hold", "held"}
    OBVIOUS
  <2> HIDE DEF x, c
  <2>4. live' \in BagT /\ live'.setting = live.setting
    BY <1>1, <2>1, <2>3, BagTypes
  <2> QED BY <1>2, <2>1, <2>2, <2>4, PlainSettles
<1>11. CASE Close(s)
  <2> DEFINE x == IF slot[s].open THEN [slot[s] EXCEPT !.ran = TRUE, !.poisoned = TRUE]
                  ELSE slot[s]
  <2>1. /\ Executes(s, {}) /\ UNCHANGED <<parked, want>>
        /\ slot' = [slot EXCEPT ![s] = x] /\ live' = [live EXCEPT !.cursor = "none"]
    BY <1>1, <1>11 DEF Close, Shapes
  <2>2. x.undo = slot[s].undo /\ x.marks = slot[s].marks /\ (x = slot[s] \/ x.open)
    BY <1>1 DEF IsSlot, SlotFields
  <2> HIDE DEF x
  <2>3. live' \in BagT /\ live'.setting = live.setting
    BY <1>1, <2>1, BagTypes
  <2> QED BY <1>2, <2>1, <2>2, <2>3, PlainSettles
<1>12. Poison(slot[s]).undo = slot[s].undo /\ Poison(slot[s]).marks = slot[s].marks
       /\ (Poison(slot[s]) = slot[s] \/ Poison(slot[s]).open)
  BY <1>1 DEF IsSlot, SlotFields, Poison
<1>13. ASSUME NEW on \in BOOLEAN, Listen(s, on) PROVE SettingInv'
  <2> DEFINE w == [want[s] EXCEPT !.listens = on]
             ms == When(~on /\ Listeners \ {s} # {}, Sessions \X {"shared"})
  <2>1. /\ Executes(s, ms) /\ UNCHANGED <<parked, live>>
        /\ want' = [want EXCEPT ![s] = w] /\ slot' = [slot EXCEPT ![s] = Poison(slot[s])]
    BY <1>1, <1>13 DEF Listen, Shapes
  <2>2. w.script = want[s].script /\ w.base = want[s].base
    BY <1>1 DEF IsWant, WantFields
  <2> HIDE DEF w, ms
  <2> QED BY <1>1, <1>12, <2>1, <2>2, PlainSettles
<1>14. CASE Notify(s)
  <2> DEFINE ms == When((\E t \in Sessions : slot[t].open) /\ ~slot[s].open, {<<s, "shared">>})
  <2>1. /\ Executes(s, ms) /\ UNCHANGED <<parked, live, want>>
        /\ slot' = [slot EXCEPT ![s] = Poison(slot[s])]
    BY <1>1, <1>14 DEF Notify, Shapes
  <2> HIDE DEF ms
  <2> QED BY <1>1, <1>2, <1>12, <2>1, PlainSettles
<1> QED BY <1>3, <1>4, <1>5, <1>6, <1>7, <1>8, <1>9, <1>10, <1>11, <1>13, <1>14

---------------------------------------------------------------------------
(* SET, SET LOCAL and savepoints.                                          *)

\* SET: after a SET LOCAL it is noted as mixed.
LEMMA SetSessionSettles ==
  ASSUME SlipInv, SettingInv, NEW s \in Sessions, NEW v \in Values, SetSession(s, v)
  PROVE  SettingInv'
<1> DEFINE w == [want[s] EXCEPT !.base = v]
           ms == When(slot[s].undo # <<>>, {<<s, "mixed">>})
<1>1. Shapes /\ IsWant(want[s]) /\ live \in BagT /\ LogOK(s) /\ Overlaid(s)
  BY Unchanged DEF SlipInv, SettingInv
<1>2. /\ Executes(s, ms) /\ UNCHANGED <<parked, slot>> /\ want' = [want EXCEPT ![s] = w]
      /\ live' = [live EXCEPT !.setting = v] /\ slot' = [slot EXCEPT ![s] = slot[s]]
  BY <1>1, Unchanged DEF SetSession, Shapes
<1>3. w.script = want[s].script /\ w.base = v
  BY <1>1 DEF IsWant, WantFields
<1>4. live' \in BagT /\ live'.setting = v
  BY <1>1, <1>2, BagTypes DEF SettingT
<1>5. slot[s].undo # <<>> => Met(s, {"mixed"})'
  BY <1>2, Executing DEF Met, When
<1>6. MarksOK(slot[s].undo, slot[s].marks) /\ (~slot[s].open => slot[s] = Closed /\ w.script = <<>>)
  BY <1>1, <1>3 DEF LogOK
<1> HIDE DEF w, ms
<1>7. ASSUME cur = s, ~Met(s, {"race", "disconnect", "mixed"}), ~Met(s, {"mixed"})'
      PROVE  Tied(w.script, slot[s].undo, slot[s].marks, w.base, live'.setting)
  <2>1. /\ Tied(want[s].script, <<>>, slot[s].marks, want[s].base, Bag(s).setting)
        /\ slot[s].undo = <<>>
    BY <1>1, <1>5, <1>7 DEF Overlaid
  <2>2. slot[s].marks \in Seq(MarkT)
    BY <1>6 DEF MarksOK
  <2>3. Tied(want[s].script, <<>>, slot[s].marks, v, v)
    BY <2>1, <2>2, TiedSet
  <2> QED BY <1>3, <1>4, <2>1, <2>3
<1> QED BY <1>2, <1>4, <1>6, <1>7, OwnSettles

\* SET LOCAL.
LEMMA SetLocalSettles ==
  ASSUME SlipInv, SettingInv, NEW s \in Sessions, NEW v \in Values, SetLocal(s, v)
  PROVE  SettingInv'
<1> DEFINE x == [slot[s] EXCEPT !.undo = Append(@, live.setting)]
           w == [want[s] EXCEPT !.script = Append(@, LocalOf(v))]
<1>1. /\ Shapes /\ IsSlot(slot[s]) /\ IsWant(want[s]) /\ live \in BagT /\ LogOK(s) /\ Overlaid(s)
  BY Unchanged DEF SlipInv, SettingInv
<1>2. /\ Executes(s, {}) /\ UNCHANGED parked /\ want' = [want EXCEPT ![s] = w]
      /\ slot' = [slot EXCEPT ![s] = x] /\ live' = [live EXCEPT !.setting = v] /\ slot[s].open
  BY <1>1 DEF SetLocal, Shapes
<1>3. w.script = Append(want[s].script, LocalOf(v)) /\ w.base = want[s].base
  BY <1>1 DEF IsWant, WantFields
<1>4. x.undo = Append(slot[s].undo, live.setting) /\ x.marks = slot[s].marks /\ x.open
  BY <1>1, <1>2 DEF IsSlot, SlotFields
<1> HIDE DEF w, x
<1>5. live' \in BagT /\ live'.setting = v /\ live.setting \in SettingT
  BY <1>1, <1>2, BagTypes DEF SettingT
<1>6. MarksOK(slot[s].undo, slot[s].marks)
  BY <1>1 DEF LogOK
<1>7. MarksOK(x.undo, x.marks)
  BY <1>4, <1>5, <1>6, MarksLocal
<1>8. ASSUME cur = s, ~Met(s, {"race", "disconnect", "mixed"})
      PROVE  Tied(w.script, x.undo, x.marks, w.base, live'.setting)
  <2>1. Tied(want[s].script, slot[s].undo, slot[s].marks, want[s].base, live.setting)
    BY <1>1, <1>8 DEF Overlaid, Bag
  <2> QED BY <1>3, <1>4, <1>5, <1>6, <2>1, TiedLocal
<1> QED BY <1>2, <1>4, <1>5, <1>7, <1>8, OwnSettles

\* SAVEPOINT.
LEMMA SavepointSettles ==
  ASSUME SlipInv, SettingInv, NEW s \in Sessions, NEW n \in Saves, Savepoint(s, n)
  PROVE  SettingInv'
<1> DEFINE new == [name |-> n, depth |-> Len(slot[s].undo)]
           x == [slot[s] EXCEPT !.marks = Append(WithoutMark(@, n), new)]
           w == [want[s] EXCEPT !.script = Append(WithoutSave(@, n), SaveOf(n))]
<1>1. /\ Shapes /\ IsSlot(slot[s]) /\ IsWant(want[s]) /\ live \in BagT /\ LogOK(s) /\ Overlaid(s)
  BY Unchanged DEF SlipInv, SettingInv
<1>2. /\ Executes(s, {}) /\ UNCHANGED <<parked, live>> /\ want' = [want EXCEPT ![s] = w]
      /\ slot' = [slot EXCEPT ![s] = x] /\ slot[s].open
  BY <1>1 DEF Savepoint, Shapes
<1>3. w.script = Append(WithoutSave(want[s].script, n), SaveOf(n)) /\ w.base = want[s].base
  BY <1>1 DEF IsWant, WantFields
<1>4. x.marks = Append(WithoutMark(slot[s].marks, n), new) /\ x.undo = slot[s].undo /\ x.open
  BY <1>1, <1>2 DEF IsSlot, SlotFields
<1> HIDE DEF w, x
<1>5. MarksOK(slot[s].undo, slot[s].marks)
  BY <1>1 DEF LogOK
<1>6. MarksOK(x.undo, x.marks)
  BY <1>4, <1>5, MarksSave
<1>7. ASSUME cur = s, ~Met(s, {"race", "disconnect", "mixed"})
      PROVE  Tied(w.script, x.undo, x.marks, w.base, live'.setting)
  <2> DEFINE sc == WithoutSave(want[s].script, n)
             m  == WithoutMark(slot[s].marks, n)
  <2>1. Tied(want[s].script, slot[s].undo, slot[s].marks, want[s].base, live.setting)
    BY <1>1, <1>7 DEF Overlaid, Bag
  <2>2. Tied(sc, slot[s].undo, m, want[s].base, live.setting)
    BY <1>5, <2>1, TiedDrop
  <2>3. MarksOK(slot[s].undo, m)
    <3>1. m \in Seq(MarkT) /\ \E e : LeftOf(e, slot[s].marks, m)
      BY <1>5, MarkDropped
    <3> HIDE DEF m
    <3> QED BY <1>5, <3>1, LeftOK
  <2> HIDE DEF sc, m
  <2>4. Tied(Append(sc, SaveOf(n)), slot[s].undo, Append(m, new), want[s].base, live.setting)
    BY <2>2, <2>3, TiedPush
  <2>5. live'.setting = live.setting
    BY <1>2
  <2> QED BY <1>3, <1>4, <2>4, <2>5 DEF sc, m
<1> QED BY <1>1, <1>2, <1>4, <1>6, <1>7, OwnSettles

\* ROLLBACK TO.
LEMMA RollbackToSettles ==
  ASSUME SlipInv, SettingInv, NEW s \in Sessions, NEW n, RollbackTo(s, n)
  PROVE  SettingInv'
<1>1. PICK i \in MarkAt(s, n),
           others \in {slot[s].others} \cup When(slot[s].others = "clash", {"moved"}) :
        /\ Executes(s, {})
        /\ slot' = [slot EXCEPT ![s].marks = SubSeq(@, 1, i),
                                ![s].undo = SubSeq(@, 1, slot[s].marks[i].depth),
                                ![s].aborted = FALSE,
                                ![s].others = others]
        /\ live' = Restored(live, s, slot[s].marks[i].depth)
        /\ want' = [want EXCEPT ![s].script = SubSeq(@, 1, ScriptAt(s, n)),
                                ![s].failed = FALSE]
        /\ UNCHANGED parked
  BY DEF RollbackTo
<1> DEFINE d == slot[s].marks[i].depth
           p == CHOOSE k \in DOMAIN want[s].script :
                  want[s].script[k] = SaveOf(slot[s].marks[i].name)
           x == [slot[s] EXCEPT !.marks = SubSeq(@, 1, i), !.undo = SubSeq(@, 1, d),
                                !.aborted = FALSE, !.others = others]
           w == [want[s] EXCEPT !.script = SubSeq(@, 1, p), !.failed = FALSE]
           put == IF Len(slot[s].undo) > d THEN slot[s].undo[d + 1] ELSE live.setting
<1>2. /\ Shapes /\ IsSlot(slot[s]) /\ IsWant(want[s]) /\ live \in BagT /\ LogOK(s) /\ Overlaid(s)
  BY Unchanged DEF SlipInv, SettingInv
<1>3. MarksOK(slot[s].undo, slot[s].marks)
  BY <1>2 DEF LogOK
<1>4. i \in 1 .. Len(slot[s].marks) /\ slot[s].marks[i].name = n
  BY <1>3 DEF MarkAt, MarksOK
<1>5. ScriptAt(s, n) = p
  BY <1>4 DEF ScriptAt
<1>6. slot[s].open
  <2>1. slot[s].marks # <<>>
    BY <1>4
  <2> QED BY <1>2, <2>1 DEF LogOK, Closed
<1>7. slot' = [slot EXCEPT ![s] = x] /\ want' = [want EXCEPT ![s] = w]
  BY <1>1, <1>2, <1>5 DEF Shapes
<1>8. w.script = SubSeq(want[s].script, 1, p) /\ w.base = want[s].base
  BY <1>2 DEF IsWant, WantFields
<1>9. /\ x.marks = SubSeq(slot[s].marks, 1, i) /\ x.undo = SubSeq(slot[s].undo, 1, d)
      /\ x.open
  BY <1>2, <1>6 DEF IsSlot, SlotFields
<1>10. MarksOK(x.undo, x.marks) /\ (Len(slot[s].undo) > d => slot[s].undo[d + 1] \in SettingT)
  BY <1>3, <1>4, <1>9, MarksBack
<1>11. live' = [live EXCEPT !.setting = put]
  BY <1>1, <1>2 DEF Restored, BagT
<1> HIDE DEF w, x
<1>12. put \in SettingT
  BY <1>2, <1>10, BagTypes
<1> HIDE DEF put
<1>13. live' \in BagT /\ live'.setting = put
  BY <1>2, <1>11, <1>12, BagTypes
<1>14. ASSUME cur = s, ~Met(s, {"race", "disconnect", "mixed"})
       PROVE  Tied(w.script, x.undo, x.marks, w.base, live'.setting)
  <2>1. Tied(want[s].script, slot[s].undo, slot[s].marks, want[s].base, live.setting)
    BY <1>2, <1>14 DEF Overlaid, Bag
  <2>2. Tied(SubSeq(want[s].script, 1, p), SubSeq(slot[s].undo, 1, d), SubSeq(slot[s].marks, 1, i),
             want[s].base, put)
    BY <1>3, <1>4, <2>1, TiedBack DEF put
  <2> QED BY <1>8, <1>9, <1>13, <2>2
<1>15. Executes(s, {}) /\ parked' = parked /\ live' \in BagT
  BY <1>1, <1>13
<1>16. /\ MarksOK(x.undo, x.marks)
       /\ ~x.open => x = Closed /\ w.script = <<>>
  BY <1>9, <1>10
<1> HIDE DEF d, p
<1> QED BY <1>7, <1>14, <1>15, <1>16, OwnSettles

\* RELEASE.
LEMMA ReleaseSettles ==
  ASSUME SlipInv, SettingInv, NEW s \in Sessions, NEW n, Release(s, n)
  PROVE  SettingInv'
<1>1. PICK i \in MarkAt(s, n) :
        /\ Executes(s, {})
        /\ slot' = [slot EXCEPT ![s].marks = SubSeq(@, 1, i - 1)]
        /\ want' = [want EXCEPT ![s].script = WithoutSavesFrom(@, ScriptAt(s, n))]
        /\ UNCHANGED <<live, parked>>
  BY DEF Release
<1> DEFINE p == CHOOSE k \in DOMAIN want[s].script :
                  want[s].script[k] = SaveOf(slot[s].marks[i].name)
           x == [slot[s] EXCEPT !.marks = SubSeq(@, 1, i - 1)]
           w == [want[s] EXCEPT !.script = WithoutSavesFrom(@, p)]
<1>2. /\ Shapes /\ IsSlot(slot[s]) /\ IsWant(want[s]) /\ live \in BagT /\ LogOK(s) /\ Overlaid(s)
  BY Unchanged DEF SlipInv, SettingInv
<1>3. MarksOK(slot[s].undo, slot[s].marks)
  BY <1>2 DEF LogOK
<1>4. i \in 1 .. Len(slot[s].marks) /\ slot[s].marks[i].name = n
  BY <1>3 DEF MarkAt, MarksOK
<1>5. ScriptAt(s, n) = p
  BY <1>4 DEF ScriptAt
<1>6. slot[s].open
  <2>1. slot[s].marks # <<>>
    BY <1>4
  <2> QED BY <1>2, <2>1 DEF LogOK, Closed
<1>7. slot' = [slot EXCEPT ![s] = x] /\ want' = [want EXCEPT ![s] = w]
  BY <1>1, <1>2, <1>5 DEF Shapes
<1>8. w.script = WithoutSavesFrom(want[s].script, p) /\ w.base = want[s].base
  BY <1>2 DEF IsWant, WantFields
<1>9. x.marks = SubSeq(slot[s].marks, 1, i - 1) /\ x.undo = slot[s].undo /\ x.open
  BY <1>2, <1>6 DEF IsSlot, SlotFields
<1>10. MarksOK(x.undo, x.marks)
  BY <1>3, <1>4, <1>9, MarksRelease
<1> HIDE DEF w, x, p
<1>11. ASSUME cur = s, ~Met(s, {"race", "disconnect", "mixed"})
       PROVE  Tied(w.script, x.undo, x.marks, w.base, live'.setting)
  <2>1. Tied(want[s].script, slot[s].undo, slot[s].marks, want[s].base, live.setting)
    BY <1>2, <1>11 DEF Overlaid, Bag
  <2>2. Tied(WithoutSavesFrom(want[s].script, p), slot[s].undo, SubSeq(slot[s].marks, 1, i - 1),
             want[s].base, live.setting)
    BY <1>3, <1>4, <2>1, TiedRelease DEF p
  <2> QED BY <1>1, <1>8, <1>9, <2>2
<1>12. Executes(s, {}) /\ live' \in BagT /\ parked' = parked
  BY <1>1, <1>2
<1>13. ~x.open => x = Closed /\ w.script = <<>>
  BY <1>9
<1> QED BY <1>7, <1>10, <1>11, <1>12, <1>13, OwnSettles

---------------------------------------------------------------------------
(* The ways a block ends, and writes.                                      *)

\* A block that ends puts the oldest prior value back, whatever else it does
\* to the session.
LEMMA EndingSettles ==
  ASSUME NEW l \in BagT, NEW s \in Sessions, MarksOK(slot[s].undo, slot[s].marks)
  PROVE  \A r \in {Restored(l, s, 0), Defaults(Restored(l, s, 0)), RolledBack(l, s),
                   CursorsOnCommit(Defaults(Restored(l, s, 0)))} :
           /\ r \in BagT
           /\ r.setting = IF Len(slot[s].undo) > 0 THEN slot[s].undo[1] ELSE l.setting
<1> DEFINE put == IF Len(slot[s].undo) > 0 THEN slot[s].undo[1] ELSE l.setting
           m == Restored(l, s, 0)
           d == Defaults(m)
<1>1. put \in SettingT
  <2>1. slot[s].undo \in Seq(SettingT)
    BY DEF MarksOK
  <2>2. l.setting \in SettingT
    BY BagTypes
  <2> QED BY <2>1, <2>2
<1>2. m = [l EXCEPT !.setting = put]
  BY DEF Restored, BagT
<1> HIDE DEF put, m
<1>3. m \in BagT /\ m.setting = put
  BY <1>1, <1>2, BagTypes
<1>4. d \in BagT /\ d.setting = put
  <2>1. [m EXCEPT !.iso = "rc", !.ro = FALSE] \in BagT
        /\ [m EXCEPT !.iso = "rc", !.ro = FALSE].setting = m.setting
    BY <1>3, BagTypes DEF Levels
  <2> QED BY <1>3, <2>1 DEF Defaults
<1> HIDE DEF d
<1>5. CursorsOnCommit(d) \in BagT /\ CursorsOnCommit(d).setting = put
  BY <1>4 DEF CursorsOnCommit, BagT
<1>6. CursorsOnRollback(d) \in BagT /\ CursorsOnRollback(d).setting = put
  BY <1>4 DEF CursorsOnRollback, BagT
<1> QED BY <1>3, <1>4, <1>5, <1>6 DEF RolledBack, d, m, put

\* A closed block and a client without one agree on the last SET.
LEMMA OverSettles ==
  ASSUME NEW s \in Sessions, LogOK(s), Overlaid(s), NEW l, NEW x, NEW w,
         x = Closed, w = NoBlock(want[s].base, want[s].listens),
         l = IF Len(slot[s].undo) > 0 THEN slot[s].undo[1] ELSE live.setting
  PROVE  /\ MarksOK(x.undo, x.marks) /\ x = Closed /\ w.script = <<>>
         /\ cur = s /\ ~Met(s, {"race", "disconnect", "mixed"})
              => Tied(w.script, x.undo, x.marks, w.base, l)
<1>1. x.undo = <<>> /\ x.marks = <<>> /\ w.script = <<>> /\ w.base = want[s].base
  BY DEF Closed, NoBlock
<1>2. ASSUME cur = s, ~Met(s, {"race", "disconnect", "mixed"})
      PROVE  Tied(w.script, x.undo, x.marks, w.base, l)
  <2>1. Tied(want[s].script, slot[s].undo, slot[s].marks, want[s].base, live.setting)
    BY <1>2 DEF Overlaid, Bag
  <2>2. slot[s].undo \in Seq(SettingT)
    BY DEF LogOK, MarksOK
  <2>3. want[s].base = l
    BY <2>1, <2>2, TiedOver
  <2> QED BY <1>1, <2>3, TiedNone
<1> QED BY <1>1, <1>2, MarksNone

\* ROLLBACK and the refused COMMIT.
LEMMA RollbackSettles ==
  ASSUME SlipInv, SettingInv, NEW s \in Sessions, Rollback(s) \/ RefuseCommit(s)
  PROVE  SettingInv'
<1> DEFINE w == NoBlock(want[s].base, want[s].listens)
           x == Closed
           put == IF Len(slot[s].undo) > 0 THEN slot[s].undo[1] ELSE live.setting
<1>1. PICK ms :
        /\ Executes(s, ms) /\ UNCHANGED parked
        /\ slot' = [slot EXCEPT ![s] = x] /\ want' = [want EXCEPT ![s] = w]
        /\ live' \in {Restored(live, s, 0), Defaults(Restored(live, s, 0)), RolledBack(live, s)}
  BY DEF Rollback, RefuseCommit, Ends
<1>2. live \in BagT /\ LogOK(s) /\ Overlaid(s) /\ MarksOK(slot[s].undo, slot[s].marks)
  BY DEF SettingInv, LogOK
<1>3. live' \in BagT /\ live'.setting = put
  <2>1. \A r \in {Restored(live, s, 0), Defaults(Restored(live, s, 0)), RolledBack(live, s),
                 CursorsOnCommit(Defaults(Restored(live, s, 0)))} :
          r \in BagT /\ r.setting = put
    BY <1>2, EndingSettles
  <2> HIDE DEF put
  <2> QED BY <1>1, <2>1
<1> HIDE DEF put
<1>4. /\ MarksOK(x.undo, x.marks) /\ x = Closed /\ w.script = <<>>
      /\ cur = s /\ ~Met(s, {"race", "disconnect", "mixed"})
           => Tied(w.script, x.undo, x.marks, w.base, put)
  BY <1>2, OverSettles DEF put
<1> HIDE DEF w, x
<1> QED BY <1>1, <1>3, <1>4, OwnSettles

\* What others committed leaves a block's undo log and marks alone.
LEMMA MovedKeepsLog ==
  ASSUME Shapes, NEW s \in Sessions, NEW C, NEW stamps, NEW t \in Sessions
  PROVE  /\ Moved(s, C, stamps)[t].undo = slot[t].undo
         /\ Moved(s, C, stamps)[t].marks = slot[t].marks
         /\ Moved(s, C, stamps)[t] = slot[t] \/ Moved(s, C, stamps)[t].open
         /\ t = s => Moved(s, C, stamps)[t] = slot[t]
<1>1. IsSlot(slot[t])
  BY DEF Shapes
<1>2. CASE t = s \/ ~slot[t].open
  BY <1>2 DEF Moved
<1>3. CASE t # s /\ slot[t].open
  <2> DEFINE o == IF t \in C THEN "clash" ELSE "moved"
             y == [slot[t] EXCEPT !.others = o, !.stamped = slot[t].stamped \/ stamps]
  <2>1. Moved(s, C, stamps)[t] = y
    BY <1>3 DEF Moved
  <2>2. y.undo = slot[t].undo /\ y.marks = slot[t].marks /\ y.open
    BY <1>1, <1>3 DEF IsSlot, SlotFields
  <2> HIDE DEF y
  <2> QED BY <1>3, <2>1, <2>2
<1> QED BY <1>2, <1>3

\* COMMIT.
LEMMA CommitSettles ==
  ASSUME SlipInv, SettingInv, NEW s \in Sessions, Commit(s) PROVE SettingInv'
<1> DEFINE w == NoBlock(want[s].base, want[s].listens)
           put == IF Len(slot[s].undo) > 0 THEN slot[s].undo[1] ELSE live.setting
<1>1. /\ Executes(s, Shared(s)) /\ UNCHANGED parked /\ want' = [want EXCEPT ![s] = w]
      /\ live' = CursorsOnCommit(Defaults(Restored(live, s, 0)))
  BY DEF Commit, Ends
<1>2. PICK C : slot' = [t \in Sessions |-> IF t = s THEN Closed
                                           ELSE IF slot[s].wrote THEN Moved(s, C, TRUE)[t]
                                           ELSE slot[t]]
  BY DEF Commit
<1>3. /\ Shapes /\ live \in BagT /\ LogOK(s) /\ Overlaid(s)
      /\ MarksOK(slot[s].undo, slot[s].marks)
  BY DEF SlipInv, SettingInv, LogOK
<1>4. live' \in BagT /\ live'.setting = put
  BY <1>1, <1>3, EndingSettles
<1> HIDE DEF put
<1>5. slot'[s] = Closed /\ want'[s] = w
  BY <1>1, <1>2, <1>3 DEF Shapes
<1>6. /\ MarksOK(slot'[s].undo, slot'[s].marks) /\ slot'[s] = Closed /\ w.script = <<>>
      /\ cur = s /\ ~Met(s, {"race", "disconnect", "mixed"})
           => Tied(w.script, slot'[s].undo, slot'[s].marks, w.base, put)
  BY <1>3, <1>5, OverSettles DEF put
<1> HIDE DEF w
<1>7. ASSUME NEW t \in Sessions \ {s}
      PROVE  /\ want'[t] = want[t]
             /\ slot'[t].undo = slot[t].undo /\ slot'[t].marks = slot[t].marks
             /\ slot'[t] = slot[t] \/ slot'[t].open
  <2>1. want'[t] = want[t]
    BY <1>1, <1>3 DEF Shapes
  <2>2. CASE slot[s].wrote
    <3>1. slot'[t] = Moved(s, C, TRUE)[t] /\ t \in Sessions
      BY <1>2, <1>7, <2>2
    <3> DEFINE stamps == TRUE
    <3> HIDE DEF stamps
    <3>2. /\ Moved(s, C, stamps)[t].undo = slot[t].undo
          /\ Moved(s, C, stamps)[t].marks = slot[t].marks
          /\ Moved(s, C, stamps)[t] = slot[t] \/ Moved(s, C, stamps)[t].open
      BY <1>3, <3>1, MovedKeepsLog
    <3> QED BY <2>1, <3>1, <3>2 DEF stamps
  <2>3. CASE ~slot[s].wrote
    <3>1. slot'[t] = slot[t]
      BY <1>2, <1>7, <2>3
    <3> QED BY <2>1, <3>1
  <2> QED BY <2>2, <2>3
<1> QED BY <1>1, <1>4, <1>5, <1>6, <1>7, StatementSettles

\* A write, in or outside a block.
LEMMA WriteSettles ==
  ASSUME SlipInv, SettingInv, NEW s \in Sessions, Write(s) PROVE SettingInv'
<1>1. Shapes /\ IsSlot(slot[s]) /\ IsWant(want[s]) /\ live \in BagT
  BY Unchanged DEF SlipInv, SettingInv
<1>2. UNCHANGED <<live, parked>>
  BY DEF Write
<1>3. CASE /\ slot[s].open /\ Executes(s, {})
           /\ slot' = [slot EXCEPT ![s].aborted = TRUE]
           /\ want' = [want EXCEPT ![s].failed = TRUE]
  <2> DEFINE x == [slot[s] EXCEPT !.aborted = TRUE]
             w == [want[s] EXCEPT !.failed = TRUE]
  <2>1. slot' = [slot EXCEPT ![s] = x] /\ want' = [want EXCEPT ![s] = w]
    BY <1>1, <1>3 DEF Shapes
  <2>2. w.script = want[s].script /\ w.base = want[s].base
    BY <1>1 DEF IsWant, WantFields
  <2>3. x.undo = slot[s].undo /\ x.marks = slot[s].marks /\ x.open
    BY <1>1, <1>3 DEF IsSlot, SlotFields
  <2> HIDE DEF w, x
  <2>4. Executes(s, {}) /\ live' \in BagT /\ live'.setting = live.setting /\ parked' = parked
    BY <1>1, <1>2, <1>3
  <2> QED BY <2>1, <2>2, <2>3, <2>4, PlainSettles
<1>4. CASE /\ slot[s].open /\ Executes(s, {}) /\ UNCHANGED want
           /\ slot' = [slot EXCEPT ![s].ran = TRUE, ![s].wrote = TRUE]
  <2> DEFINE x == [slot[s] EXCEPT !.ran = TRUE, !.wrote = TRUE]
  <2>1. slot' = [slot EXCEPT ![s] = x] /\ want' = [want EXCEPT ![s] = want[s]]
    BY <1>1, <1>4, Unchanged DEF Shapes
  <2>2. x.undo = slot[s].undo /\ x.marks = slot[s].marks /\ x.open
    BY <1>1, <1>4 DEF IsSlot, SlotFields
  <2> HIDE DEF x
  <2> QED BY <1>1, <1>2, <1>4, <2>1, <2>2, PlainSettles
<1>5. ASSUME NEW ms, NEW C, NEW stamps, Executes(s, ms), slot' = Moved(s, C, stamps),
             UNCHANGED want
      PROVE  SettingInv'
  <2>1. \A t \in Sessions : /\ slot'[t].undo = slot[t].undo /\ slot'[t].marks = slot[t].marks
                            /\ slot'[t] = slot[t] \/ slot'[t].open
                            /\ t = s => slot'[t] = slot[t]
    BY <1>1, <1>5, MovedKeepsLog
  <2>2. slot'[s] = slot[s] /\ want'[s] = want[s] /\ LogOK(s) /\ Overlaid(s)
    BY <1>5, <2>1 DEF SettingInv
  <2>3. /\ MarksOK(slot'[s].undo, slot'[s].marks)
        /\ ~slot'[s].open => slot'[s] = Closed /\ want'[s].script = <<>>
    BY <2>2 DEF LogOK
  <2>4. cur = s /\ ~Met(s, {"race", "disconnect", "mixed"})
          => Tied(want'[s].script, slot'[s].undo, slot'[s].marks, want'[s].base, live'.setting)
    BY <1>2, <2>2 DEF Overlaid, Bag
  <2> QED BY <1>1, <1>2, <1>5, <2>1, <2>3, <2>4, StatementSettles
<1>6. CASE \E ms, C : Executes(s, ms) /\ slot' = Moved(s, C, FALSE) /\ UNCHANGED want
  <2> DEFINE stamps == FALSE
  <2>1. PICK ms, C : Executes(s, ms) /\ slot' = Moved(s, C, stamps) /\ UNCHANGED want
    BY <1>6
  <2> HIDE DEF stamps
  <2> QED BY <1>5, <2>1
<1> QED BY <1>3, <1>4, <1>6 DEF Write

---------------------------------------------------------------------------
(* The steps that change whose session is live, and the theorems.          *)

\* A connection of which nothing changes.
LEMMA SameSettles ==
  ASSUME SettingInv, NEW t \in Sessions, mishaps \subseteq mishaps',
         slot'[t] = slot[t], want'[t] = want[t], Bag(t)'.setting = Bag(t).setting
  PROVE  LogOK(t)' /\ Overlaid(t)'
<1>1. LogOK(t) /\ Overlaid(t)
  BY DEF SettingInv
<1>2. \A K : Met(t, K) => Met(t, K)'
  BY DEF Met
<1>3. LogOK(t)'
  BY <1>1 DEF LogOK
<1>4. Overlaid(t)'
  BY <1>1, <1>2 DEF Overlaid
<1> QED BY <1>3, <1>4

\* set_current_session: nobody's setting changes.
LEMMA AnnounceSettles ==
  ASSUME SlipInv, SettingInv, NEW s \in Sessions, Announce(s) PROVE SettingInv'
<1>1. Shapes /\ live \in BagT /\ \A i \in Sessions \cup {0} : parked[i] \in BagT
  BY DEF SlipInv, SettingInv
<1>2. /\ cur' = s /\ UNCHANGED <<slot, want>> /\ mishaps \subseteq mishaps'
      /\ pc' \in [Sessions -> {"idle", "announced", "gone"}]
  BY DEF Announce, SettingInv
<1>3. CASE cur = s
  <2>1. UNCHANGED <<live, parked>>
    BY <1>3 DEF Announce
  <2>2. (cur' # 0 => parked'[cur'] = Fresh)
    BY <1>2, <1>3, <2>1 DEF SettingInv
  <2>3. ASSUME NEW t \in Sessions PROVE LogOK(t)' /\ Overlaid(t)'
    <3>1. Bag(t)' = Bag(t)
      BY <1>2, <1>3, <2>1 DEF Bag
    <3> QED BY <1>2, <3>1, SameSettles
  <2> QED BY <1>1, <1>2, <2>1, <2>2, <2>3 DEF SettingInv
<1>4. CASE cur # s
  <2> DEFINE old == [live EXCEPT !.ro = FALSE]
  <2>1. live' = parked[s] /\ parked' = [parked EXCEPT ![cur] = old, ![s] = Fresh]
    BY <1>4 DEF Announce
  <2>2. old \in BagT /\ old.setting = live.setting /\ Fresh \in BagT
    BY <1>1, BagTypes
  <2> HIDE DEF old
  <2>3. /\ \A i \in (Sessions \cup {0}) \ {s, cur} : parked'[i] = parked[i]
        /\ parked'[s] = Fresh /\ parked'[cur] = old
    BY <1>1, <1>4, <2>1 DEF Shapes
  <2>4. live' \in BagT /\ \A i \in Sessions \cup {0} : parked'[i] \in BagT
    BY <1>1, <2>1, <2>2, <2>3
  <2>5. ASSUME NEW t \in Sessions PROVE LogOK(t)' /\ Overlaid(t)'
    <3>1. Bag(t)'.setting = Bag(t).setting
      BY <1>2, <1>4, <2>1, <2>2, <2>3 DEF Bag
    <3> QED BY <1>2, <3>1, SameSettles
  <2> QED BY <1>2, <2>3, <2>4, <2>5 DEF SettingInv
<1> QED BY <1>3, <1>4

\* A disconnect unwinds the block's undo log in the live session, which is
\* noted if it is another connection's.
LEMMA LeaveSettles ==
  ASSUME SlipInv, SettingInv, NEW s \in Sessions, Leave(s) PROVE SettingInv'
<1> DEFINE l == IF slot[s].open THEN RolledBack(live, s) ELSE live
           w == NoBlock(Initially, FALSE)
<1>1. /\ Shapes /\ live \in BagT /\ \A i \in Sessions \cup {0} : parked[i] \in BagT
      /\ MarksOK(slot[s].undo, slot[s].marks)
  BY DEF SlipInv, SettingInv, LogOK
<1>2. /\ slot' = [slot EXCEPT ![s] = Closed] /\ want' = [want EXCEPT ![s] = w]
      /\ parked' = [parked EXCEPT ![s] = Fresh] /\ mishaps \subseteq mishaps'
      /\ pc' \in [Sessions -> {"idle", "announced", "gone"}]
  BY DEF Leave, SettingInv
<1>3. /\ cur = s => cur' = 0 /\ live' = [l EXCEPT !.setting = Initially, !.cursor = "none"]
      /\ cur # s => cur' = cur /\ live' = l
      /\ cur # s /\ slot[s].open /\ cur \in Sessions => <<cur, "disconnect">> \in mishaps'
  BY SessionsAssumption DEF Leave, When
<1>4. l \in BagT /\ (~slot[s].open => l = live)
  <2>1. RolledBack(live, s) \in BagT
    BY <1>1, EndingSettles
  <2> QED BY <1>1, <2>1
<1> HIDE DEF l
<1>5. live' \in BagT /\ cur' # s
  <2>1. [l EXCEPT !.setting = Initially, !.cursor = "none"] \in BagT
    BY <1>4 DEF BagT, SettingT
  <2> QED BY <1>3, <1>4, <2>1, SessionsAssumption
<1>6. /\ parked'[s] = Fresh /\ \A i \in (Sessions \cup {0}) \ {s} : parked'[i] = parked[i]
      /\ slot'[s] = Closed /\ want'[s] = w
      /\ \A t \in Sessions \ {s} : slot'[t] = slot[t] /\ want'[t] = want[t]
  BY <1>1, <1>2, SessionsAssumption DEF Shapes
<1>7. Fresh \in BagT /\ Fresh.setting = Initially
  BY <1>1, BagTypes
<1>8. \A i \in Sessions \cup {0} : parked'[i] \in BagT
  BY <1>1, <1>6, <1>7
<1>9. cur' # 0 => parked'[cur'] = Fresh
  BY <1>1, <1>3, <1>6 DEF SettingInv, Shapes
<1>10. LogOK(s)' /\ Overlaid(s)'
  <2>1. Closed.undo = <<>> /\ Closed.marks = <<>> /\ w.script = <<>> /\ w.base = Initially
    BY DEF Closed, NoBlock
  <2>2. Bag(s)' = Fresh
    BY <1>5, <1>6 DEF Bag
  <2>3. LogOK(s)'
    BY <1>6, <2>1, MarksNone DEF LogOK
  <2>4. Tied(<<>>, <<>>, <<>>, Initially, Initially)
    BY TiedNone
  <2>5. Overlaid(s)'
    BY <1>6, <1>7, <2>1, <2>2, <2>4 DEF Overlaid
  <2> QED BY <2>3, <2>5
<1> HIDE DEF w
<1>11. ASSUME NEW t \in Sessions, t # s PROVE LogOK(t)' /\ Overlaid(t)'
  <2>1. slot'[t] = slot[t] /\ want'[t] = want[t] /\ parked'[t] = parked[t]
    BY <1>6, <1>11
  <2>2. CASE cur # t
    <3>1. cur' # t
      BY <1>3, <2>2, SessionsAssumption
    <3>2. Bag(t)' = Bag(t)
      BY <2>1, <2>2, <3>1 DEF Bag
    <3> QED BY <1>2, <2>1, <3>2, SameSettles
  <2>3. CASE cur = t /\ ~slot[s].open
    <3>1. Bag(t)' = Bag(t)
      BY <1>3, <1>4, <1>11, <2>3 DEF Bag
    <3> QED BY <1>2, <2>1, <3>1, SameSettles
  <2>4. CASE cur = t /\ slot[s].open
    <3>1. Met(t, {"race", "disconnect", "mixed"})'
      BY <1>3, <1>11, <2>4 DEF Met
    <3>2. LogOK(t)
      BY DEF SettingInv
    <3> QED BY <2>1, <3>1, <3>2 DEF LogOK, Overlaid
  <2> QED BY <2>2, <2>3, <2>4
<1> QED BY <1>2, <1>5, <1>8, <1>9, <1>10, <1>11 DEF SettingInv

\* The initial state.
LEMMA InitSettles == ASSUME Init PROVE SettingInv
<1>1. Fresh \in BagT /\ Fresh.setting = Initially
  BY DEF BagT, Fresh, SettingT, Levels
<1>2. /\ pc \in [Sessions -> {"idle", "announced", "gone"}] /\ live = Fresh /\ parked[cur] = Fresh
      /\ \A i \in Sessions \cup {0} : parked[i] = Fresh
      /\ \A t \in Sessions : slot[t] = Closed /\ want[t] = NoBlock(Initially, FALSE)
  BY DEF Init
<1>3. ASSUME NEW t \in Sessions PROVE LogOK(t) /\ Overlaid(t)
  <2>1. /\ slot[t].undo = <<>> /\ slot[t].marks = <<>> /\ slot[t] = Closed
        /\ want[t].script = <<>> /\ want[t].base = Initially
    BY <1>2 DEF Closed, NoBlock
  <2>2. Bag(t).setting = Initially
    BY <1>1, <1>2 DEF Bag
  <2>3. LogOK(t)
    BY <2>1, MarksNone DEF LogOK
  <2>4. Overlaid(t)
    BY <2>1, <2>2, TiedNone DEF Overlaid
  <2> QED BY <2>3, <2>4
<1> QED BY <1>1, <1>2, <1>3 DEF SettingInv

\* Every step keeps the invariant.
LEMMA NextSettles == ASSUME SlipInv, SettingInv, [Next]_vars PROVE SettingInv'
<1>1. CASE UNCHANGED vars
  <2>1. UNCHANGED <<pc, cur, live, parked, slot, want, mishaps>>
    BY <1>1 DEF vars
  <2>2. ASSUME NEW t \in Sessions PROVE LogOK(t)' /\ Overlaid(t)'
    <3>1. Bag(t)' = Bag(t)
      BY <2>1 DEF Bag
    <3> QED BY <2>1, <3>1, SameSettles
  <2> QED BY <2>1, <2>2 DEF SettingInv
<1>2. CASE Next
  <2>1. PICK s \in Sessions :
          \/ Announce(s) \/ Show(s) \/ Refuse(s) \/ RebaseFails(s) \/ Fail(s)
          \/ Select(s) \/ Write(s)
          \/ \E iso \in Levels, ro \in BOOLEAN : Begin(s, iso, ro)
          \/ \E iso \in Levels : SetLevel(s, iso)
          \/ \E ro \in BOOLEAN : SetMode(s, ro)
          \/ Commit(s) \/ Rollback(s) \/ RefuseCommit(s)
          \/ \E v \in Values : SetSession(s, v) \/ SetLocal(s, v)
          \/ \E n \in Saves : Savepoint(s, n) \/ RollbackTo(s, n) \/ Release(s, n)
          \/ \E hold \in BOOLEAN : Declare(s, hold)
          \/ Close(s)
          \/ \E on \in BOOLEAN : Listen(s, on)
          \/ Notify(s)
          \/ Leave(s)
    BY <1>2 DEF Next
  <2>2. CASE Announce(s) \/ Write(s) \/ Commit(s) \/ Rollback(s) \/ RefuseCommit(s) \/ Leave(s)
    BY <2>2, AnnounceSettles, WriteSettles, CommitSettles, RollbackSettles, LeaveSettles
  <2>3. CASE \/ Show(s) \/ Refuse(s) \/ RebaseFails(s) \/ Fail(s) \/ Select(s)
             \/ \E iso \in Levels, ro \in BOOLEAN : Begin(s, iso, ro)
             \/ \E iso \in Levels : SetLevel(s, iso)
             \/ \E ro \in BOOLEAN : SetMode(s, ro)
             \/ \E hold \in BOOLEAN : Declare(s, hold)
             \/ Close(s)
             \/ \E on \in BOOLEAN : Listen(s, on)
             \/ Notify(s)
    BY <2>3, PlainStatementsSettle
  <2>4. CASE \/ \E v \in Values : SetSession(s, v) \/ SetLocal(s, v)
             \/ \E n \in Saves : Savepoint(s, n) \/ RollbackTo(s, n) \/ Release(s, n)
    BY <2>4, SetSessionSettles, SetLocalSettles, SavepointSettles, RollbackToSettles,
       ReleaseSettles
  <2> QED BY <2>1, <2>2, <2>3, <2>4
<1> QED BY <1>1, <1>2

\* The invariant holds.
LEMMA SettingInvariant == SessSpec => [](SlipInv /\ SettingInv)
BY Invariant, InitSettles, NextSettles, PTL DEF SessSpec

\* Types, for every set of connections, values, names and budgets: the marks of
\* savepoint_guc_marks stay ordered and within local_guc_saves, a name is
\* marked once, and set_current_session leaves nothing parked of the
\* connection it makes live.
THEOREM SessTypes == SessSpec => []SessTypeOK
<1>1. ASSUME SlipInv, SettingInv PROVE SessTypeOK
  <2>1. /\ Shapes /\ live \in BagT /\ \A i \in Sessions \cup {0} : parked[i] \in BagT
        /\ pc \in [Sessions -> {"idle", "announced", "gone"}]
        /\ cur # 0 => parked[cur] = Fresh
    BY <1>1 DEF SlipInv, SettingInv
  <2>2. cur \in Sessions \cup {0} /\ DOMAIN parked = Sessions \cup {0}
    BY <2>1 DEF Shapes
  <2>3. \A l \in {live} \cup { parked[i] : i \in DOMAIN parked } : l \in BagT
    BY <2>1, <2>2
  <2>4. BagT = [setting : Values \cup {Initially}, iso : Levels, ro : BOOLEAN,
                cursor : {"none", "open", "hold", "held"}]
    BY DEF BagT, SettingT
  <2>5. ASSUME NEW s \in Sessions
        PROVE  LET m == slot[s].marks
               IN  /\ ~slot[s].open => slot[s] = Closed
                   /\ \A i \in DOMAIN m : m[i].depth <= Len(slot[s].undo)
                   /\ \A i, j \in DOMAIN m :
                        i < j => m[i].name # m[j].name /\ m[i].depth <= m[j].depth
    <3>1. LogOK(s)
      BY <1>1 DEF SettingInv
    <3> QED BY <3>1 DEF LogOK, MarksOK
  <2> HIDE DEF BagT
  <2> QED BY <2>1, <2>2, <2>3, <2>4, <2>5 DEF SessTypeOK
<1> QED BY <1>1, SettingInvariant, PTL

\* SET, SET LOCAL, SAVEPOINT, ROLLBACK TO, RELEASE and every end of a block,
\* for every number of connections and statements: a connection sees its last
\* SET LOCAL that still counts, and else its last SET.
THEOREM SettingsFollow == SessSpec => []SettingsOverlay
<1>1. ASSUME SettingInv PROVE SettingsOverlay
  <2>1. ASSUME NEW s \in Sessions, ~Met(s, {"race", "disconnect", "mixed"})
        PROVE  LET locals == { i \in DOMAIN want[s].script : want[s].script[i].kind = "local" }
               IN  \/ locals = {} /\ Bag(s).setting = want[s].base
                   \/ \E i \in locals : /\ \A j \in locals : j <= i
                                        /\ Bag(s).setting = want[s].script[i].what
    <3>1. LogOK(s) /\ Overlaid(s)
      BY <1>1 DEF SettingInv
    <3>2. slot[s].undo \in Seq(SettingT)
      BY <3>1 DEF LogOK, MarksOK
    <3>3. Tied(want[s].script, slot[s].undo, slot[s].marks, want[s].base, Bag(s).setting)
      BY <2>1, <3>1 DEF Overlaid
    <3> QED BY <3>2, <3>3, LastCounts
  <2> QED BY <2>1 DEF SettingsOverlay
<1> QED BY <1>1, SettingInvariant, PTL
=============================================================================
