------------------------------ MODULE ColdTier ------------------------------
(***************************************************************************)
(* One table over two tiers in spg-server: hot rows in memory, and cold    *)
(* rows in immutable segments that the freezer thread cuts off the hot     *)
(* ones (freezer.rs), COMPACT COLD SEGMENTS merges (commands.rs), and      *)
(* UPDATE and DELETE promote or shadow (spg-storage lib.rs).  On disk are  *)
(* the segment files, the snapshot and the manifest of CHECKPOINT, and the *)
(* log; a crash is followed by the boot that puts them together again.     *)
(*                                                                         *)
(* A key's index entry lists Cold locators, each the id of a segment.  A   *)
(* freeze is not logged: it becomes durable with the next snapshot.        *)
(*                                                                         *)
(* Abstractions.  The table has an integer primary key, whose index is     *)
(* also the freezer's, and one more column.  Statements are autocommit and *)
(* name one key; each runs, is logged and fsynced in one step (the order   *)
(* of these is in ServerWal).  Bytes count as rows; every segment is below *)
(* the compaction target.  Segment ids start at 1, a retired slot holds an *)
(* empty segment, and a CRC stands for the contents it is taken of.  At    *)
(* most one CHECKPOINT and one compaction are under way.  No transaction   *)
(* is open: freezer, compaction and autovacuum do nothing while one is.    *)
(* Statements without WHERE and TRUNCATE, which do not see the cold tier,  *)
(* are left out.                                                           *)
(*                                                                         *)
(* Some schedules show a deleted row again, double a key, or lose frozen   *)
(* rows.  The model has them and notes each one in `mishaps`, so that the  *)
(* properties say which of them is to blame.                               *)
(***************************************************************************)
EXTENDS Naturals, Sequences, FiniteSets, FiniteSetsExt, SequencesExt, Functions

CONSTANTS Keys,        \* primary keys
          Vals,        \* values of the other column
          NoRow,       \* no value
          Batch,       \* SPG_FREEZER_BATCH_ROWS
          Budget,      \* hot_tier_byte_budget, in rows
          MaxStmts,    \* bound: statements
          MaxSegs,     \* bound: segment ids in memory
          MaxCkpts,    \* bound: CHECKPOINTs
          MaxCrashes,  \* bound: crashes
          MaxFaults,   \* bound: failed writes of segments and manifests
          Pursued      \* the mishaps behaviours are followed after

ASSUME ColdTierAssumption ==
  /\ NoRow \notin Vals
  /\ Batch \in Nat \ {0}
  /\ {Budget, MaxStmts, MaxSegs, MaxCkpts, MaxCrashes, MaxFaults} \subseteq Nat

VARIABLES cat,      \* the committed catalog: hot rows, Cold locators, segments
          paths,    \* ServerState.cold_segment_paths, as the ids it has
          files,    \* segment files, by id
          disk,     \* snapshot file and manifest
          wal,      \* the log
          ckpt,     \* the CHECKPOINT under way
          merge,    \* the compaction between its swap and its file
          table,    \* history: what the statements make of the table
          count,    \* how much of each bound is used
          mishaps   \* history: the schedules known to break the promises

vars == <<cat, paths, files, disk, wal, ckpt, merge, table, count, mishaps>>

Mishaps == {"twin", "tombstone", "raced", "crossed", "torn", "window", "persist", "manifest"}

Retired == <<>>

Put(f, k, v) == [x \in DOMAIN f \cup {k} |-> IF x = k THEN v ELSE f[x]]

---------------------------------------------------------------------------
(* Reading.                                                                *)

Live(c, k) == { i \in DOMAIN c.hot : c.hot[i].key = k /\ ~c.hot[i].dead }

\* resolve_cold_locator: the segment is loaded and has the key.
Resolves(c, k, id) == id \in DOMAIN c.segs /\ k \in DOMAIN c.segs[id]

\* What a scan returns for key k: the visible hot rows, and the row behind
\* every Cold locator that resolves (iter_cold_rows_of_table).
Rows(c, k) ==
  { <<"hot", i, c.hot[i].val>> : i \in Live(c, k) }
    \cup { <<"cold", j, c.segs[c.loc[k][j]][k]>>
             : j \in { l \in DOMAIN c.loc[k] : Resolves(c, k, c.loc[k][l]) } }

\* Catalog c shows exactly the table t, one row per key.
Shows(c, t) ==
  \A k \in Keys : IF t[k] = NoRow THEN Rows(c, k) = {}
                  ELSE \E r \in Rows(c, k) : Rows(c, k) = {r} /\ r[3] = t[k]

---------------------------------------------------------------------------
(* Statements.  They return the catalog they leave, in a session and in    *)
(* replay alike.                                                           *)

Row(k, v) == [key |-> k, val |-> v, dead |-> FALSE]

\* mark_rows_deleted: the version stays in its slot until vacuum.
Tombstone(hot, is) == [i \in DOMAIN hot |-> IF i \in is THEN [hot[i] EXCEPT !.dead = TRUE]
                                            ELSE hot[i]]

\* probe_key_conflict passes over dead rows and over Cold locators.
Conflicts(c, k) == Live(c, k) # {}

InsertRow(c, k, v) ==
  IF Conflicts(c, k) THEN c ELSE [c EXCEPT !.hot = Append(@, Row(k, v))]

\* Mutant: the promoted row keeps its Cold locator.
PromoteMutant(c, k) ==
  IF c.loc[k] = <<>> \/ ~Resolves(c, k, Head(c.loc[k])) THEN c
  ELSE [c EXCEPT !.hot = Append(@, Row(k, c.segs[Head(c.loc[k])][k]))]

\* promote_cold_row: the first Cold locator's row becomes a hot one, and all of
\* the key's Cold locators go.  UPDATE ignores its error when there is no row.
Promote(c, k) ==
  IF c.loc[k] = <<>> \/ ~Resolves(c, k, Head(c.loc[k])) THEN c
  ELSE [c EXCEPT !.hot = Append(@, Row(k, c.segs[Head(c.loc[k])][k])),
                 !.loc[k] = <<>>]

\* The old versions are tombstoned and new ones appended.
UpdateRow(c, k, v) ==
  LET p  == Promote(c, k)
      is == Live(p, k)
  IN  [p EXCEPT !.hot = Tombstone(@, is) \o [i \in 1..Cardinality(is) |-> Row(k, v)]]

\* shadow_cold_row, then the hot rows.
DeleteRow(c, k) ==
  [c EXCEPT !.loc[k] = <<>>, !.hot = Tombstone(@, Live(c, k))]

Apply(c, op) ==
  CASE op.kind = "insert" -> InsertRow(c, op.key, op.val)
    [] op.kind = "update" -> UpdateRow(c, op.key, op.val)
    [] op.kind = "delete" -> DeleteRow(c, op.key)

\* The same on the table the client has in mind.
Meant(t, op) ==
  CASE op.kind = "insert" -> [t EXCEPT ![op.key] = IF @ = NoRow THEN op.val ELSE @]
    [] op.kind = "update" -> [t EXCEPT ![op.key] = IF @ = NoRow THEN @ ELSE op.val]
    [] op.kind = "delete" -> [t EXCEPT ![op.key] = NoRow]

---------------------------------------------------------------------------
(* Freeze and compaction of the catalog.                                   *)

FreezeRows(c) == 1..Min({Batch, Len(c.hot)})

\* commit_freeze_slices refuses a batch with two rows of one key.  Dead rows
\* count as rows.
Freezable(c) ==
  /\ Len(c.hot) > Budget
  /\ \A i, j \in FreezeRows(c) : c.hot[i].key = c.hot[j].key => i = j

FrozenKeys(c) == { c.hot[i].key : i \in FreezeRows(c) }

FrozenSegment(c) ==
  [k \in FrozenKeys(c) |-> c.hot[CHOOSE i \in FreezeRows(c) : c.hot[i].key = k].val]

\* commit_freeze_slices: the oldest rows leave the hot tier, their segment gets
\* the next id, and each key one Cold locator more.
FreezeOldest(c) ==
  [hot  |-> SubSeq(c.hot, Max(FreezeRows(c)) + 1, Len(c.hot)),
   segs |-> Append(c.segs, FrozenSegment(c)),
   loc  |-> [k \in Keys |-> IF k \in FrozenKeys(c) THEN Append(c.loc[k], Len(c.segs) + 1)
                            ELSE c.loc[k]]]

\* The segments compaction merges: loaded ones with a Cold locator.
Sources(c) ==
  { id \in UNION { Range(c.loc[k]) : k \in Keys } :
      id \in DOMAIN c.segs /\ c.segs[id] # Retired }

\* Keys with a locator in a source segment, and the first of these locators.
Movable(c) == { k \in Keys : Range(c.loc[k]) \cap Sources(c) # {} }

FirstIn(c, k) == c.loc[k][Min({ j \in DOMAIN c.loc[k] : c.loc[k][j] \in Sources(c) })]

\* Fewer than two candidates are left alone; a lookup that misses is an error.
Mergeable(c) ==
  /\ Cardinality(Sources(c)) >= 2
  /\ \A k \in Movable(c) : Resolves(c, k, FirstIn(c, k))

\* Source locators become one locator of the merged segment.
Relocated(locs, from, id) ==
  LET first == Min({ j \in DOMAIN locs : locs[j] \in from } \cup {Len(locs) + 1})
      to(j) == IF locs[j] \in from THEN <<id>> ELSE <<locs[j]>>
  IN  FlattenSeq([j \in DOMAIN locs |->
                    IF j > first /\ locs[j] \in from THEN <<>> ELSE to(j)])

\* compact_cold_segments: gather, load the merged segment, rewrite the
\* locators, retire the sources.
Merged(c) ==
  LET id == Len(c.segs) + 1
  IN  [c EXCEPT
         !.segs = Append([i \in DOMAIN @ |-> IF i \in Sources(c) THEN Retired ELSE @[i]],
                         [k \in Movable(c) |-> c.segs[FirstIn(c, k)][k]]),
         !.loc  = [k \in Keys |-> Relocated(@[k], Sources(c), id)]]

---------------------------------------------------------------------------
(* Snapshot, manifest and boot.                                            *)

\* Engine::snapshot: rows with their headers and the index entries; segments
\* are not in it.
Image(c) == [hot |-> c.hot, loc |-> c.loc]

\* write_manifest_alongside: the CRC of the snapshot and of every segment file.
Manifest(image) == [crc |-> image, segs |-> [id \in paths |-> files[id]]]

\* Mutant: segments are loaded densely, in the order of the manifest.
LoadedMutant(listed, fs) ==
  LET ids == SetToSortSeq(listed, <) IN [i \in DOMAIN ids |-> fs[ids[i]]]

\* load_segment_bytes_at: every segment at the id it had, empty slots between.
Loaded(listed, fs) ==
  [i \in 1..Max({0} \cup listed) |-> IF i \in listed THEN fs[i] ELSE Retired]

\* The segments load_manifest_and_preload_cold accepts: none when the manifest
\* is not this snapshot's, and none whose file is not the one it names.
Listed ==
  IF disk.man.crc # disk.snap THEN {}
  ELSE { id \in DOMAIN disk.man.segs : files[id] = disk.man.segs[id] }

\* The catalog after boot: the log is replayed from the start, and a statement
\* that fails is set aside.
Booted ==
  FoldLeft(Apply, [hot  |-> disk.snap.hot, loc |-> disk.snap.loc,
                   segs |-> Loaded(Listed, files)], wal)

---------------------------------------------------------------------------

NoCkpt == [at |-> "idle", image |-> <<>>, amid |-> FALSE]

NoMerge == [id |-> 0, from |-> {}, seg |-> Retired, amid |-> FALSE]

NewTable == [hot |-> <<>>, loc |-> [k \in Keys |-> <<>>], segs |-> <<>>]

Used(b) == count' = [count EXCEPT ![b] = @ + 1]

Note(ms) == mishaps' = mishaps \cup ms

When(b, m) == IF b THEN {m} ELSE {}

\* A CREATE TABLE and a CHECKPOINT have just been done.
Init ==
  /\ cat = NewTable
  /\ paths = {}
  /\ files = <<>>
  /\ disk = [snap |-> Image(NewTable), man |-> [crc |-> Image(NewTable), segs |-> <<>>]]
  /\ wal = <<>>
  /\ ckpt = NoCkpt
  /\ merge = NoMerge
  /\ table = [k \in Keys |-> NoRow]
  /\ count = [stmts |-> 0, ckpts |-> 0, crashes |-> 0, faults |-> 0]
  /\ mishaps = {}

\* A statement under the engine guard.  A checkpoint under way will cut its
\* record off the log without having it in the snapshot.
Execute(op, ms) ==
  /\ count.stmts < MaxStmts
  /\ Used("stmts")
  /\ cat' = Apply(cat, op)
  /\ wal' = Append(wal, op)
  /\ table' = Meant(table, op)
  /\ Note(ms \cup When(ckpt.at # "idle", "raced"))
  /\ UNCHANGED <<paths, files, disk, ckpt, merge>>

\* A failing INSERT leaves nothing behind.  One whose key is in the cold tier
\* does not fail.
Insert(k, v) ==
  /\ ~Conflicts(cat, k)
  /\ Execute([kind |-> "insert", key |-> k, val |-> v], When(table[k] # NoRow, "twin"))

Update(k, v) == Execute([kind |-> "update", key |-> k, val |-> v], {})

Delete(k) == Execute([kind |-> "delete", key |-> k, val |-> NoRow], {})

\* VACUUM, or the autovacuum thread: dead rows go, Cold locators stay.  No
\* snapshot is held, so every tombstone is below the horizon.
Vacuum ==
  /\ \E i \in DOMAIN cat.hot : cat.hot[i].dead
  /\ cat' = [cat EXCEPT !.hot = SelectSeq(@, LAMBDA r : ~r.dead)]
  /\ UNCHANGED <<paths, files, disk, wal, ckpt, merge, table, count, mishaps>>

\* Mutant: paths are updated whether or not the file was written.
PersistMutant(id, seg, from) ==
  /\ paths' = (paths \ from) \cup {id}
  /\ \/ files' = Put(files, id, seg) /\ UNCHANGED count
     \/ count.faults < MaxFaults /\ Used("faults") /\ UNCHANGED files

\* A segment is written to its file and entered in paths in place of the
\* segments it replaces; when the write fails, only a line is logged.
Persist(id, seg, from) ==
  \/ /\ files' = Put(files, id, seg)
     /\ paths' = (paths \ from) \cup {id}
     /\ UNCHANGED count
  \/ /\ count.faults < MaxFaults
     /\ Used("faults")
     /\ UNCHANGED <<files, paths>>

\* freezer::tick, all of it under the engine guard.
Freeze ==
  /\ Freezable(cat)
  /\ Len(cat.segs) < MaxSegs
  /\ cat' = FreezeOldest(cat)
  /\ Persist(Len(cat.segs) + 1, FrozenSegment(cat), {})
  /\ Note(When(\E i \in FreezeRows(cat) : cat.hot[i].dead, "tombstone")
            \cup When(count' # count, "persist"))
  /\ UNCHANGED <<disk, wal, ckpt, merge, table>>

\* run_compact_cold_segments_command, under the engine guard.
CompactSwap ==
  /\ merge = NoMerge
  /\ Mergeable(cat)
  /\ Len(cat.segs) < MaxSegs
  /\ cat' = Merged(cat)
  /\ merge' = [id |-> Len(cat.segs) + 1, from |-> Sources(cat),
               seg |-> Last(Merged(cat).segs), amid |-> ckpt.at \in {"captured", "saved"}]
  /\ UNCHANGED <<paths, files, disk, wal, ckpt, table, count, mishaps>>

\* The rest of it, after the guard.  A checkpoint whose snapshot has the sources
\* and that has not written its manifest will list the merged segment instead.
CompactPersist ==
  /\ merge # NoMerge
  /\ Persist(merge.id, merge.seg, merge.from)
  /\ merge' = NoMerge
  /\ Note(When(merge.amid /\ ckpt.at \in {"captured", "saved"}, "crossed")
            \cup When(count' # count, "persist"))
  /\ UNCHANGED <<cat, disk, wal, ckpt, table>>

\* perform_checkpoint, step by step: the image under the engine guard, then
\* without it the snapshot file, the manifest and the truncation of the log.
CkptCapture ==
  /\ ckpt.at = "idle" /\ count.ckpts < MaxCkpts
  /\ Used("ckpts")
  /\ ckpt' = [at |-> "captured", image |-> Image(cat), amid |-> merge # NoMerge]
  /\ UNCHANGED <<cat, paths, files, disk, wal, merge, table, mishaps>>

CkptSnapshot ==
  /\ ckpt.at = "captured"
  /\ disk' = [disk EXCEPT !.snap = ckpt.image]
  /\ ckpt' = [ckpt EXCEPT !.at = "saved"]
  /\ UNCHANGED <<cat, paths, files, wal, merge, table, count, mishaps>>

\* A failed write of the manifest is logged and the checkpoint goes on.
CkptManifest ==
  /\ ckpt.at = "saved"
  /\ ckpt' = [ckpt EXCEPT !.at = "listed"]
  /\ \/ /\ disk' = [disk EXCEPT !.man = Manifest(ckpt.image)]
        /\ Note(When(ckpt.amid /\ merge # NoMerge, "crossed"))
        /\ UNCHANGED count
     \/ /\ count.faults < MaxFaults
        /\ Used("faults")
        /\ Note({"manifest"})
        /\ UNCHANGED disk
  /\ UNCHANGED <<cat, paths, files, wal, merge, table>>

CkptTruncate ==
  /\ ckpt.at = "listed"
  /\ wal' = <<>>
  /\ ckpt' = NoCkpt
  /\ UNCHANGED <<cat, paths, files, disk, merge, table, count, mishaps>>

\* The process dies at any point, and restore_engine and the replay follow.
Crash ==
  /\ count.crashes < MaxCrashes
  /\ Used("crashes")
  /\ cat' = Booted
  /\ paths' = Listed
  /\ ckpt' = NoCkpt
  /\ merge' = NoMerge
  /\ Note(When(ckpt.at = "saved", "torn") \cup When(ckpt.at = "listed", "window"))
  /\ UNCHANGED <<files, disk, wal, table>>

\* A SELECT, a refused INSERT, or a tick of the freezer that finds nothing to do
\* or fails.
Read == UNCHANGED vars

Next ==
  \/ \E k \in Keys, v \in Vals : Insert(k, v) \/ Update(k, v)
  \/ \E k \in Keys : Delete(k)
  \/ Vacuum \/ Freeze
  \/ CompactSwap \/ CompactPersist
  \/ CkptCapture \/ CkptSnapshot \/ CkptManifest \/ CkptTruncate
  \/ Crash \/ Read

ColdSpec == Init /\ [][Next]_vars

\* Behaviours are followed up to the first mishap that is not Pursued.
Pursuing == mishaps \subseteq Pursued

---------------------------------------------------------------------------

\* Every file in paths exists, so that a manifest can take its CRC, and the
\* state has its shape.
ColdTypeOK ==
  /\ cat.hot \in Seq([key : Keys, val : Vals, dead : BOOLEAN])
  /\ \A k \in Keys : cat.loc[k] \in Seq(1..MaxSegs)
  /\ \A i \in DOMAIN cat.segs : DOMAIN cat.segs[i] \subseteq Keys /\ Range(cat.segs[i]) \subseteq Vals
  /\ Len(cat.segs) <= MaxSegs
  /\ paths \subseteq DOMAIN files /\ DOMAIN files \subseteq 1..MaxSegs
  /\ DOMAIN disk.man.segs \subseteq DOMAIN files
  /\ ckpt.at \in {"idle", "captured", "saved", "listed"}
  /\ table \in [Keys -> Vals \cup {NoRow}]
  /\ mishaps \subseteq Mishaps

\* Freezing, compaction, promotion, shadowing and vacuum are invisible, and so
\* is a restart: a scan of both tiers returns the table the statements made,
\* every row once.  INSERT of a frozen key, a freeze of dead rows, and the
\* mishaps of the disk followed by a crash are what it takes to break it.
TiersAreOneTable ==
  mishaps = {} => Shows(cat, table)

\* Whatever was frozen, merged, promoted or checkpointed since: a crash now,
\* outside the writing of a checkpoint, loses and doubles nothing.
RestartRestores ==
  (mishaps = {} /\ ckpt.at \in {"idle", "captured"}) => Shows(Booted, table)

\* "the freezer + promote/shadow flow keeps Cold locators unique per key".
OneColdPayload == \A k \in Keys : Len(cat.loc[k]) <= 1

\* "no orphan Cold locators pointing to segments that aren't reloaded".
NoOrphans == \A k \in Keys : \A id \in Range(cat.loc[k]) : Resolves(cat, k, id)

\* "the residual WAL bytes replay as a (defensive) no-op" once the manifest has
\* landed.
ResidueIsNoOp == (mishaps = {} /\ ckpt.at = "listed") => Shows(Booted, table)
=============================================================================
