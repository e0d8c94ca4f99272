------------------------------ MODULE Sessions ------------------------------
(***************************************************************************)
(* The connections of one server and the session state they take turns in. *)
(* One Engine serves every connection.  The state of the connection that   *)
(* runs is live in the engine, that of the others is parked in a           *)
(* SessionBag, and set_current_session swaps them.  A pgwire statement     *)
(* announces its session under the engine's write guard, drops the guard,  *)
(* and takes it again to execute: two steps here, and other connections    *)
(* may come between.                                                       *)
(*                                                                         *)
(* The settings (SET, SET LOCAL and its undo log), the isolation level and *)
(* the read-only mode of a block, its failed state, its cursors and the    *)
(* notifications it sends are modelled, with every way a block ends.       *)
(*                                                                         *)
(* Abstractions.  One table, one setting, one cursor name and one channel; *)
(* two isolation levels, READ COMMITTED and SERIALIZABLE; all payloads     *)
(* differ.  Rows are left out: whether what others committed gets in the   *)
(* way of a block (Transactions has the rules) is a choice made when they  *)
(* commit.  DEFERRABLE goes the way of READ ONLY.  MySQL connections       *)
(* announce and execute under one guard: their schedules are those in      *)
(* which nobody comes between the two steps.                               *)
(*                                                                         *)
(* Some schedules break what the code's comments promise.  The model has   *)
(* them all and notes in `mishaps` which connection met which, so that a   *)
(* property says what it depends on.                                       *)
(***************************************************************************)
EXTENDS Integers, FiniteSets, Sequences

CONSTANTS Sessions, \* connections
          Values,   \* what the setting can be SET to
          Saves,    \* savepoint names
          Budgets   \* bound: how many statements of each kind clients send

Kinds == {"begin", "mode", "set", "save", "declare", "notify", "listen",
          "query", "fail", "leave"}

ASSUME SessionsAssumption == Budgets \subseteq [Kinds -> Nat] /\ 0 \notin Sessions

VARIABLES pc,        \* where each connection is: idle, announced or gone
          cur,       \* current_session
          live,      \* the session state in the engine
          parked,    \* sessions: a SessionBag per connection
          slot,      \* tx_catalogs and the undo logs, per connection
          pending,   \* tx_pending_notifies
          listening, \* is the channel in listen_channels?
          delivered, \* delivered_notifies, never drained
          left,      \* what is left of the chosen budget
          want,      \* history: what each client asked for
          notices,   \* history: the notifications and what became of them
          mishaps,   \* history: who met a schedule known to go wrong
          slipped    \* history: statements that ran and must not have

vars == <<pc, cur, live, parked, slot, pending, listening, delivered, left,
          want, notices, mishaps, slipped>>

Levels == {"rc", "ser"}

Initially == "default"

When(b, S) == IF b THEN S ELSE {}

\* What of a SessionBag matters here.  ro is current_tx_read_only, which the
\* bag does not carry.
Fresh == [setting |-> Initially, iso |-> "rc", ro |-> FALSE, cursor |-> "none"]

\* TxState with the connection's local_guc_saves (undo) and
\* savepoint_guc_marks.  ssi is TxState.serializable and read its read_tables.
\* others: what concurrent commits did to the block; stamped: did one of them
\* stamp table_last_commit?
Closed == [open |-> FALSE, aborted |-> FALSE, iso |-> "rc", ro |-> FALSE,
           ssi |-> FALSE, read |-> FALSE, ran |-> FALSE, wrote |-> FALSE,
           poisoned |-> FALSE, others |-> "none", stamped |-> FALSE,
           marks |-> <<>>, undo |-> <<>>]

\* What the client knows: its last SET (base), whether it LISTENs, and of its
\* block the mode, whether a statement failed, whether it read, and the SET
\* LOCALs and SAVEPOINTs that still count (script).
NoBlock(base, listens) ==
  [base |-> base, listens |-> listens, ro |-> FALSE, failed |-> FALSE,
   read |-> FALSE, script |-> <<>>]

Bag(s) == IF cur = s THEN live ELSE parked[s]

Spend(kind) == left[kind] > 0 /\ left' = [left EXCEPT ![kind] = @ - 1]

---------------------------------------------------------------------------
(* What every statement does.                                              *)

\* set_current_session: swap the bags.  The read-only mode starts over from
\* the session's default.
Announce(s) ==
  /\ pc[s] = "idle"
  /\ pc' = [pc EXCEPT ![s] = "announced"]
  /\ cur' = s
  /\ IF cur = s
     THEN UNCHANGED <<live, parked, mishaps>>
     ELSE /\ live' = parked[s]
          /\ parked' = [parked EXCEPT ![cur] = [live EXCEPT !.ro = FALSE], ![s] = Fresh]
          /\ mishaps' = mishaps \cup When(want[s].ro, {<<s, "swapped">>})
  /\ UNCHANGED <<slot, pending, listening, delivered, left, want, notices, slipped>>

\* Somebody else's session is live when s executes: both are hit.
Race(s) == When(cur # s, ({s, cur} \ {0}) \X {"race"})

\* A statement of s executes, and meets the mishaps ms.
Executes(s, ms) ==
  /\ pc[s] = "announced"
  /\ pc' = [pc EXCEPT ![s] = "idle"]
  /\ mishaps' = mishaps \cup Race(s) \cup ms
  /\ UNCHANGED cur

\* It succeeds.  It must not have if an earlier statement of its block failed,
\* nor if there is another reason (wrong).
Succeeds(s, wrong) ==
  slipped' = slipped \cup ({s} \X (When(want[s].failed, {"failed"}) \cup wrong))

\* Mutant: a savepoint makes up for the failure.
PassesMutant(s) == ~slot[s].aborted \/ slot[s].marks # <<>>

\* The abort firewall, and maybe_rc_rebase for all but transaction control.
Passes(s) == ~slot[s].aborted

Rebases(s) == Passes(s) /\ slot[s].others # "clash"

\* What a write that others committed does to the open blocks: it may collide
\* with (or no longer collide with) the keys a READ COMMITTED block inserted.
Clashable(t) ==
  slot[t].open /\ slot[t].wrote /\ slot[t].iso = "rc" /\ ~slot[t].poisoned

Moved(s, C, stamps) ==
  [t \in Sessions |->
     IF t = s \/ ~slot[t].open THEN slot[t]
     ELSE [slot[t] EXCEPT !.others = IF t \in C THEN "clash" ELSE "moved",
                          !.stamped = @ \/ stamps]]

Poison(sl) == IF sl.open THEN [sl EXCEPT !.poisoned = TRUE] ELSE sl

---------------------------------------------------------------------------
(* Statements in and outside a block.                                      *)

\* SHOW: changes nothing.
Show(s) ==
  /\ Executes(s, {})
  /\ Rebases(s)
  /\ UNCHANGED <<live, parked, slot, pending, listening, delivered, left, want,
                 notices, slipped>>

\* The firewall refuses everything but ROLLBACK, ROLLBACK TO and COMMIT.
Refuse(s) ==
  /\ Executes(s, {})
  /\ slot[s].aborted
  /\ UNCHANGED <<live, parked, slot, pending, listening, delivered, left, want,
                 notices, slipped>>

\* The rebase fails and `?` returns at once: the block is not marked aborted.
RebaseFails(s) ==
  /\ Executes(s, {<<s, "rebase">>})
  /\ Passes(s) /\ ~Rebases(s)
  /\ want' = [want EXCEPT ![s].failed = TRUE]
  /\ UNCHANGED <<live, parked, slot, pending, listening, delivered, left,
                 notices, slipped>>

\* Any other error inside a block aborts it.
Fail(s) ==
  /\ Spend("fail")
  /\ Executes(s, {})
  /\ slot[s].open /\ Rebases(s)
  /\ slot' = [slot EXCEPT ![s].aborted = TRUE]
  /\ want' = [want EXCEPT ![s].failed = TRUE]
  /\ UNCHANGED <<live, parked, pending, listening, delivered, notices, slipped>>

\* SELECT: record_tx_stmt and record_tx_reads.
Select(s) ==
  /\ Spend("query")
  /\ Executes(s, {})
  /\ slot[s].open /\ Rebases(s)
  /\ slot' = [slot EXCEPT ![s].ran = TRUE, ![s].read = slot[s].ssi]
  /\ want' = [want EXCEPT ![s].read = TRUE]
  /\ Succeeds(s, {})
  /\ UNCHANGED <<live, parked, pending, listening, delivered, notices>>

\* INSERT, UPDATE or DELETE: refused by the mode that is live.
Write(s) ==
  /\ Spend("query")
  /\ Rebases(s)
  /\ UNCHANGED <<live, parked, pending, listening, delivered, notices>>
  /\ \/ /\ slot[s].open /\ live.ro
        /\ Executes(s, {})
        /\ slot' = [slot EXCEPT ![s].aborted = TRUE]
        /\ want' = [want EXCEPT ![s].failed = TRUE]
        /\ UNCHANGED slipped
     \/ /\ slot[s].open /\ ~live.ro
        /\ Executes(s, {})
        /\ slot' = [slot EXCEPT ![s].ran = TRUE, ![s].wrote = TRUE]
        /\ Succeeds(s, When(want[s].ro, {"readonly"}))
        /\ UNCHANGED want
     \/ /\ ~slot[s].open
        /\ Executes(s, { <<t, "unstamped">> : t \in {u \in Sessions : slot[u].ssi} })
        /\ \E C \in SUBSET {t \in Sessions \ {s} : Clashable(t)} :
             slot' = Moved(s, C, FALSE)
        /\ UNCHANGED <<want, slipped>>

---------------------------------------------------------------------------
(* Blocks.                                                                 *)

Begin(s, iso, ro) ==
  /\ Spend("begin")
  /\ Executes(s, {})
  /\ ~slot[s].open
  /\ live' = [live EXCEPT !.iso = iso, !.ro = ro]
  /\ slot' = [slot EXCEPT ![s] = [Closed EXCEPT !.open = TRUE, !.iso = iso, !.ro = ro,
                                                !.ssi = (iso = "ser")]]
  /\ want' = [want EXCEPT ![s].ro = ro]
  /\ UNCHANGED <<parked, pending, listening, delivered, notices, slipped>>

\* apply_set_transaction, ISOLATION LEVEL.  The slot takes the live mode over.
SetLevel(s, iso) ==
  /\ Spend("mode")
  /\ slot[s].open /\ Passes(s)
  /\ ~slot[s].ran /\ slot[s].marks = <<>>
  /\ Executes(s, When(iso = "ser" /\ ~slot[s].ssi, {<<s, "switched">>}))
  /\ live' = [live EXCEPT !.iso = iso]
  /\ slot' = [slot EXCEPT ![s].iso = iso, ![s].ro = live.ro]
  /\ Succeeds(s, {})
  /\ UNCHANGED <<parked, pending, listening, delivered, want, notices>>

\* apply_set_transaction, READ ONLY and READ WRITE: tightening is always
\* allowed, loosening only before the first query and outside savepoints.
SetMode(s, ro) ==
  LET late == slot[s].ran \/ slot[s].marks # <<>>
  IN  /\ Spend("mode")
      /\ Executes(s, {})
      /\ slot[s].open /\ Passes(s)
      /\ ~(late /\ ~ro /\ live.ro)
      /\ live' = [live EXCEPT !.ro = ro]
      /\ slot' = [slot EXCEPT ![s].iso = live.iso, ![s].ro = ro]
      /\ want' = [want EXCEPT ![s].ro = ro]
      /\ Succeeds(s, When(late /\ ~ro /\ want[s].ro, {"readonly"}))
      /\ UNCHANGED <<parked, pending, listening, delivered, notices>>

\* Mutant: the newest prior value wins.
RestoredMutant(l, s, floor) ==
  LET undo == slot[s].undo
  IN  [l EXCEPT !.setting = IF Len(undo) > floor THEN undo[Len(undo)] ELSE @]

\* restore_local_gucs_to: the undo log holds prior values, the oldest above
\* the floor wins.
Restored(l, s, floor) ==
  [l EXCEPT !.setting =
     IF Len(slot[s].undo) > floor THEN slot[s].undo[floor + 1] ELSE @]

Defaults(l) == [l EXCEPT !.iso = "rc", !.ro = FALSE]

\* Mutant: WITH HOLD is enough to survive.
CursorsOnRollbackMutant(l) ==
  [l EXCEPT !.cursor = IF @ \in {"hold", "held"} THEN @ ELSE "none"]

\* cursors_on_commit and cursors_on_rollback.
CursorsOnCommit(l) ==
  [l EXCEPT !.cursor = IF @ \in {"hold", "held"} THEN "held" ELSE "none"]

CursorsOnRollback(l) == [l EXCEPT !.cursor = IF @ = "held" THEN @ ELSE "none"]

\* Mutant: the queue is not cleared.
NotifiesOnRollbackMutant == UNCHANGED <<pending, delivered>>

\* notifies_on_commit and notifies_on_rollback: one queue for all blocks.
NotifiesOnCommit ==
  /\ delivered' = delivered \cup When(listening, pending)
  /\ pending' = {}

NotifiesOnRollback == pending' = {} /\ UNCHANGED delivered

\* The history of a block that ends: what is due of its notifications.
Settle(s, due) ==
  { IF n.by = s /\ n.due = "open" THEN [n EXCEPT !.due = due] ELSE n : n \in notices }

Ends(s, due) ==
  /\ want' = [want EXCEPT ![s] = NoBlock(want[s].base, want[s].listens)]
  /\ notices' = Settle(s, due)

\* The queue holds notifications of other connections.
Shared(s) ==
  { <<n.by, "shared">> : n \in { m \in notices : m.id \in pending /\ m.by # s } }

Listeners == { t \in Sessions : want[t].listens }

\* exec_commit, when nothing stands in its way.
Commit(s) ==
  /\ slot[s].open /\ Rebases(s)
  /\ ~(slot[s].read /\ slot[s].stamped)
  /\ Executes(s, Shared(s))
  /\ \E C \in SUBSET {t \in Sessions \ {s} : Clashable(t)} :
       slot' = [t \in Sessions |-> IF t = s THEN Closed
                                   ELSE IF slot[s].wrote THEN Moved(s, C, TRUE)[t]
                                   ELSE slot[t]]
  /\ live' = CursorsOnCommit(Defaults(Restored(live, s, 0)))
  /\ NotifiesOnCommit
  /\ Ends(s, IF Listeners = {} THEN "unheard" ELSE "yes")
  /\ Succeeds(s, When(slot[s].iso = "ser" /\ want[s].read /\ slot[s].others # "none",
                      {"skew"}))
  /\ UNCHANGED <<parked, listening, left>>

\* exec_rollback: for ROLLBACK, for the COMMIT of an aborted block, and for a
\* COMMIT refused for a deferred constraint or a serializable read.
RolledBack(l, s) == CursorsOnRollback(Defaults(Restored(l, s, 0)))

Rollback(s) ==
  /\ slot[s].open
  /\ Executes(s, Shared(s))
  /\ slot' = [slot EXCEPT ![s] = Closed]
  /\ live' = RolledBack(live, s)
  /\ NotifiesOnRollback
  /\ Ends(s, "lost")
  /\ UNCHANGED <<parked, listening, left, slipped>>

\* The other refusals of exec_commit end the block on their own: a rebase that
\* fails keeps cursors and notifications; a row or foreign-key conflict keeps
\* the isolation level and the mode as well.  (A block with a cursor or a
\* notification is poisoned, which spares it these refusals.)
RefuseCommit(s) ==
  /\ slot[s].open /\ Passes(s) /\ slot[s].wrote
  /\ Executes(s, {<<s, "refused">>})
  /\ slot' = [slot EXCEPT ![s] = Closed]
  /\ \/ slot[s].others = "clash" /\ live' = Defaults(Restored(live, s, 0))
     \/ /\ slot[s].others = "moved" /\ ~slot[s].poisoned
        /\ live' = Restored(live, s, 0)
  /\ Ends(s, "lost")
  /\ UNCHANGED <<parked, pending, listening, delivered, left, slipped>>

---------------------------------------------------------------------------
(* Settings and savepoints.                                                *)

\* SET.
SetSession(s, v) ==
  /\ Spend("set")
  /\ Rebases(s)
  /\ Executes(s, When(slot[s].undo # <<>>, {<<s, "mixed">>}))
  /\ live' = [live EXCEPT !.setting = v]
  /\ want' = [want EXCEPT ![s].base = v]
  /\ Succeeds(s, {})
  /\ UNCHANGED <<parked, slot, pending, listening, delivered, notices>>

\* The client's script has an entry per SET LOCAL and per SAVEPOINT of its
\* block; a savepoint that is gone leaves an entry that counts for nothing.
LocalOf(v) == [kind |-> "local", what |-> v]
SaveOf(n)  == [kind |-> "save", what |-> n]
Past       == [kind |-> "past", what |-> Initially]

\* SET LOCAL; outside a block it changes nothing.
SetLocal(s, v) ==
  /\ Spend("set")
  /\ slot[s].open /\ Rebases(s)
  /\ Executes(s, {})
  /\ slot' = [slot EXCEPT ![s].undo = Append(@, live.setting)]
  /\ live' = [live EXCEPT !.setting = v]
  /\ want' = [want EXCEPT ![s].script = Append(@, LocalOf(v))]
  /\ Succeeds(s, {})
  /\ UNCHANGED <<parked, pending, listening, delivered, notices>>

\* Mutant: a name in use is pushed once more.
SavepointMutant(s, n) ==
  /\ Spend("save")
  /\ slot[s].open /\ Passes(s)
  /\ Executes(s, {})
  /\ slot' = [slot EXCEPT ![s].marks =
                Append(@, [name |-> n, depth |-> Len(slot[s].undo)])]
  /\ want' = [want EXCEPT ![s].script = Append(@, SaveOf(n))]
  /\ Succeeds(s, {})
  /\ UNCHANGED <<live, parked, pending, listening, delivered, notices>>

\* retain: names are distinct, so at most one mark goes.
WithoutMark(marks, n) ==
  IF \E i \in DOMAIN marks : marks[i].name = n
  THEN LET at == CHOOSE i \in DOMAIN marks : marks[i].name = n
       IN  SubSeq(marks, 1, at - 1) \o SubSeq(marks, at + 1, Len(marks))
  ELSE marks

\* The script without the savepoint n, and without those from `at` on.
WithoutSave(script, n) ==
  [i \in DOMAIN script |-> IF script[i] = SaveOf(n) THEN Past ELSE script[i]]

WithoutSavesFrom(script, at) ==
  [i \in DOMAIN script |->
     IF i >= at /\ script[i].kind = "save" THEN Past ELSE script[i]]

\* A name in use is dropped where it was and pushed again.
Savepoint(s, n) ==
  /\ Spend("save")
  /\ slot[s].open /\ Passes(s)
  /\ Executes(s, {})
  /\ slot' = [slot EXCEPT ![s].marks =
                Append(WithoutMark(@, n), [name |-> n, depth |-> Len(slot[s].undo)])]
  /\ want' = [want EXCEPT ![s].script = Append(WithoutSave(@, n), SaveOf(n))]
  /\ Succeeds(s, {})
  /\ UNCHANGED <<live, parked, pending, listening, delivered, notices>>

\* Where savepoint n is in the marks, and in the client's script.
MarkAt(s, n) == { i \in DOMAIN slot[s].marks : slot[s].marks[i].name = n }

ScriptAt(s, n) ==
  CHOOSE i \in DOMAIN want[s].script : want[s].script[i] = SaveOf(n)

\* It stays, and recovers a failed block.  The rows that clashed may be gone.
RollbackTo(s, n) ==
  \E i \in MarkAt(s, n), others \in {slot[s].others} \cup
                                    When(slot[s].others = "clash", {"moved"}) :
    /\ Executes(s, {})
    /\ slot' = [slot EXCEPT ![s].marks = SubSeq(@, 1, i),
                            ![s].undo = SubSeq(@, 1, slot[s].marks[i].depth),
                            ![s].aborted = FALSE,
                            ![s].others = others]
    /\ live' = Restored(live, s, slot[s].marks[i].depth)
    /\ want' = [want EXCEPT ![s].script = SubSeq(@, 1, ScriptAt(s, n)),
                            ![s].failed = FALSE]
    /\ UNCHANGED <<parked, pending, listening, delivered, left, notices, slipped>>

\* RELEASE keeps what was SET LOCAL since.
Release(s, n) ==
  \E i \in MarkAt(s, n) :
    /\ Passes(s)
    /\ Executes(s, {})
    /\ slot' = [slot EXCEPT ![s].marks = SubSeq(@, 1, i - 1)]
    /\ want' = [want EXCEPT ![s].script = WithoutSavesFrom(@, ScriptAt(s, n))]
    /\ Succeeds(s, {})
    /\ UNCHANGED <<live, parked, pending, listening, delivered, left, notices>>

---------------------------------------------------------------------------
(* Cursors and notifications.  These statements poison the rebase.         *)

Declare(s, hold) ==
  /\ Spend("declare")
  /\ Executes(s, {})
  /\ slot[s].open /\ Rebases(s)
  /\ live.cursor = "none"
  /\ live' = [live EXCEPT !.cursor = IF hold THEN "hold" ELSE "open"]
  /\ slot' = [slot EXCEPT ![s].ran = TRUE, ![s].poisoned = TRUE]
  /\ Succeeds(s, {})
  /\ UNCHANGED <<parked, pending, listening, delivered, want, notices>>

Close(s) ==
  /\ Executes(s, {})
  /\ Rebases(s)
  /\ live.cursor # "none"
  /\ live' = [live EXCEPT !.cursor = "none"]
  /\ slot' = [slot EXCEPT ![s] =
                IF @.open THEN [@ EXCEPT !.ran = TRUE, !.poisoned = TRUE] ELSE @]
  /\ Succeeds(s, {})
  /\ UNCHANGED <<parked, pending, listening, delivered, left, want, notices>>

\* listen_channels is the engine's: UNLISTEN takes the channel from everybody.
Listen(s, on) ==
  /\ Spend("listen")
  /\ Rebases(s)
  /\ Executes(s, When(~on /\ Listeners \ {s} # {}, Sessions \X {"shared"}))
  /\ listening' = on
  /\ want' = [want EXCEPT ![s].listens = on]
  /\ slot' = [slot EXCEPT ![s] = Poison(@)]
  /\ Succeeds(s, {})
  /\ UNCHANGED <<live, parked, pending, delivered, notices>>

\* in_transaction() asks for any block of any connection.
Notify(s) ==
  LET id    == Cardinality(notices) + 1
      queue == \E t \in Sessions : slot[t].open
  IN  /\ Spend("notify")
      /\ Rebases(s)
      /\ Executes(s, When(queue /\ ~slot[s].open, {<<s, "shared">>}))
      /\ pending' = pending \cup When(queue, {id})
      /\ delivered' = delivered \cup When(~queue /\ listening, {id})
      /\ notices' = notices \cup
                    {[id |-> id, by |-> s,
                      due |-> IF slot[s].open THEN "open"
                              ELSE IF Listeners = {} THEN "unheard" ELSE "yes"]}
      /\ slot' = [slot EXCEPT ![s] = Poison(@)]
      /\ Succeeds(s, {})
      /\ UNCHANGED <<live, parked, listening, want>>

---------------------------------------------------------------------------
(* The connection goes away: ROLLBACK in its slot, whoever is live, and    *)
(* end_session.                                                            *)

Leave(s) ==
  LET l == IF slot[s].open THEN RolledBack(live, s) ELSE live
  IN  /\ Spend("leave")
      /\ pc[s] = "idle"
      /\ pc' = [pc EXCEPT ![s] = "gone"]
      /\ slot' = [slot EXCEPT ![s] = Closed]
      /\ parked' = [parked EXCEPT ![s] = Fresh]
      /\ IF cur = s
         THEN /\ cur' = 0
              /\ live' = [l EXCEPT !.setting = Initially, !.cursor = "none"]
         ELSE UNCHANGED cur /\ live' = l
      /\ IF slot[s].open
         THEN /\ NotifiesOnRollback
              /\ mishaps' = mishaps \cup Shared(s)
                              \cup When(cur # s, ({cur} \ {0}) \X {"disconnect"})
         ELSE UNCHANGED <<pending, delivered, mishaps>>
      /\ notices' = Settle(s, "lost")
      /\ want' = [want EXCEPT ![s] = NoBlock(Initially, FALSE)]
      /\ UNCHANGED <<listening, slipped>>

---------------------------------------------------------------------------
Init ==
  /\ pc = [s \in Sessions |-> "idle"]
  /\ cur = 0
  /\ live = Fresh
  /\ parked = [s \in Sessions \cup {0} |-> Fresh]
  /\ slot = [s \in Sessions |-> Closed]
  /\ pending = {} /\ delivered = {} /\ listening = FALSE
  /\ left \in Budgets
  /\ want = [s \in Sessions |-> NoBlock(Initially, FALSE)]
  /\ notices = {} /\ mishaps = {} /\ slipped = {}

Next ==
  \E s \in Sessions :
    \/ Announce(s) \/ Show(s) \/ Refuse(s) \/ RebaseFails(s) \/ Fail(s)
    \/ Select(s) \/ Write(s)
    \/ \E iso \in Levels, ro \in BOOLEAN : Begin(s, iso, ro)
    \/ \E iso \in Levels : SetLevel(s, iso)
    \/ \E ro \in BOOLEAN : SetMode(s, ro)
    \/ Commit(s) \/ Rollback(s) \/ RefuseCommit(s)
    \/ \E v \in Values : SetSession(s, v) \/ SetLocal(s, v)
    \/ \E n \in Saves : Savepoint(s, n) \/ RollbackTo(s, n) \/ Release(s, n)
    \/ \E hold \in BOOLEAN : Declare(s, hold)
    \/ Close(s)
    \/ \E on \in BOOLEAN : Listen(s, on)
    \/ Notify(s)
    \/ Leave(s)

SessSpec == Init /\ [][Next]_vars

---------------------------------------------------------------------------
(* Properties.                                                             *)

Met(s, kinds) == \E k \in kinds : <<s, k>> \in mishaps

\* The state of the sessions and blocks is of its type; the connection that is
\* live has nothing parked (session 0, which is nobody's, may: its bag stays
\* when the last connection leaves); savepoint marks are ordered and within
\* the undo log of their block, which only an open block has.
SessTypeOK ==
  /\ pc \in [Sessions -> {"idle", "announced", "gone"}]
  /\ cur \in Sessions \cup {0}
  /\ cur # 0 => parked[cur] = Fresh
  /\ \A l \in {live} \cup { parked[i] : i \in DOMAIN parked } :
       l \in [setting : Values \cup {Initially}, iso : Levels, ro : BOOLEAN,
              cursor : {"none", "open", "hold", "held"}]
  /\ \A s \in Sessions :
       LET m == slot[s].marks
       IN  /\ ~slot[s].open => slot[s] = Closed
           /\ \A i \in DOMAIN m : m[i].depth <= Len(slot[s].undo)
           /\ \A i, j \in DOMAIN m :
                i < j => m[i].name # m[j].name /\ m[i].depth <= m[j].depth

\* What must not run does not run.  No write runs in a READ ONLY block, nor is
\* such a block loosened, unless another session was announced in between,
\* came between the two steps of a statement, or was live at a disconnect
\* ("Applications open read-only transactions as a SAFETY measure").  Nothing
\* runs in a block after one of its statements failed, unless that statement
\* failed in the rebase.  And a SERIALIZABLE block that read what others then
\* wrote does not commit, unless it was switched to SERIALIZABLE after BEGIN
\* or the others wrote in autocommit.
NothingSlips ==
  \A s \in Sessions :
    /\ <<s, "readonly">> \in slipped => Met(s, {"swapped", "race", "disconnect"})
    /\ <<s, "failed">> \in slipped => Met(s, {"rebase"})
    /\ <<s, "skew">> \in slipped => Met(s, {"switched", "unstamped", "race"})

\* A connection sees its last SET LOCAL that was not rolled back, and else its
\* last SET: whatever others set, however they are scheduled, and whichever
\* way blocks and savepoints end.  Not if it met a race or another's
\* disconnect, nor if it used SET after SET LOCAL in one block.
SettingsOverlay ==
  \A s \in Sessions :
    ~Met(s, {"race", "disconnect", "mixed"})
      => LET locals == { i \in DOMAIN want[s].script : want[s].script[i].kind = "local" }
         IN  \/ locals = {} /\ Bag(s).setting = want[s].base
             \/ \E i \in locals : /\ \A j \in locals : j <= i
                                  /\ Bag(s).setting = want[s].script[i].what

\* What belongs to a block ends with it: a connection without a block has the
\* default level and mode and at most held cursors, and one with a block has
\* its level.  A COMMIT that was refused for a conflict leaves them behind.
BlockStateEndsWithBlock ==
  \A s \in Sessions :
    ~Met(s, {"race", "disconnect", "refused"})
      => /\ Bag(s).iso = slot[s].iso
         /\ ~slot[s].open => Bag(s).cursor \in {"none", "held"} /\ ~Bag(s).ro

\* A notification is delivered if and only if the block that sent it commits
\* ("transactional ... dropped at ROLLBACK") and somebody listens, unless it
\* shared the queue with another connection's block.
NotifiesFollowCommits ==
  \A n \in notices :
    ~Met(n.by, {"shared"})
      => /\ n.id \in delivered => n.due \in {"yes", "unheard"}
         /\ n.due = "yes" => n.id \in delivered

\* No write runs in a READ ONLY block.
ReadOnlyHolds == \A s \in Sessions : <<s, "readonly">> \notin slipped

=============================================================================
