----------------------------- MODULE Compactions ----------------------------
(***************************************************************************)
(* Readers, snapshots, memtable flushes, and automatic and manual          *)
(* compactions of one open database (leveldb/db/db_impl.cc over            *)
(* leveldb/db/version_set.cc).  The background thread runs one compaction  *)
(* at a time and gives up the mutex between two keys of the merge, so that *)
(* everything else happens in between; it flushes a full memtable there    *)
(* itself.                                                                 *)
(*                                                                         *)
(* Logs, MANIFEST and recovery are the subject of DBImpl.  A value is the  *)
(* sequence number of the write that stored it.                            *)
(***************************************************************************)
EXTENDS VersionSet, Functions

CONSTANTS
  Readers,        \* threads in Get, and open iterators
  Callers,        \* threads in TEST_CompactRange
  ManualRanges,   \* the <<level, begin, end>> they ask for
  QuietManual,    \* TRUE: no memtable fills up during a manual compaction
  AllowedSeeks,   \* FileMetaData::allowed_seeks of a new file
  Loaded,         \* the entries an earlier run left in one table
  Writes,         \* bound: the <<key, type>> each write of a run may have, in turn
  MaxEvents       \* bound: snapshots taken, reads, read samples, calls of
                  \* TEST_CompactRange and failing file operations, together

ASSUME CompactionsAssumption ==
  /\ MaxEvents \in Nat
  /\ AllowedSeeks \in Nat \ {0}
  /\ QuietManual \in BOOLEAN
  /\ Len(Loaded) + Len(Writes) < MaxSequence
  /\ \A i \in DOMAIN Writes : Writes[i] \subseteq Keys \X {"value", "deletion"}

None   == <<>>
NoRead == [seq |-> 0, mem |-> 0, imm |-> 0, version |-> 0]

VARIABLES
  history,          \* ghost: the entries written; its length is LastSequence
  mems,             \* memtables by number: entries and refs_
  mem, imm,         \* mem_ and imm_ (0: nullptr)
  versions,         \* versions by number: files, file_to_compact, refs_
  current,          \* VersionSet::current_
  compact_pointer,  \* by level: None or <<internal key>>
  allowed_seeks,    \* of the files, by <<level, number>>
  tables,           \* the table files on disk: their entries
  next_file_number,
  snapshots,        \* SnapshotList
  scheduled,        \* background_compaction_scheduled_
  compaction,       \* None or <<the compaction the background thread is in>>
  bg_error,         \* ~bg_error_.ok()
  manual,           \* manual_compaction_: None or <<caller>>
  callers,          \* the ManualCompaction of each caller, and where it is
  readers,          \* what each reader holds a reference to
  crashed,          \* the background thread used a null pointer
  events            \* bounded by MaxEvents

memvars  == <<mems, mem, imm>>
vervars  == <<versions, current, allowed_seeks, tables, next_file_number>>
bgvars   == <<scheduled, compaction, bg_error, manual, crashed, compact_pointer>>
vars     == <<history, memvars, vervars, bgvars, snapshots, callers, readers, events>>

LastSequence == Len(history)
Cur          == versions[current].files
Background   == ~crashed /\ scheduled

FileOf(number, entries) ==
  LET sorted == SortedBy(entries, Less)
      Bound(e) == [key |-> e.key, seq |-> e.seq]
  IN [number |-> number, file_size |-> Len(sorted),
      smallest |-> Bound(sorted[1]), largest |-> Bound(sorted[Len(sorted)])]

\* A database as it was opened: the table of an earlier flush, if there was
\* one, lies in the level that PickLevelForMemTableOutput finds when all are empty.
Init ==
  LET entries == {Loaded[i] : i \in DOMAIN Loaded}
      files   == [l \in Levels |-> IF l = MaxMemCompactLevel /\ Loaded # <<>>
                                   THEN <<FileOf(1, entries)>> ELSE <<>>]
  IN /\ history = Loaded
     /\ mems = [i \in {1} |-> [entries |-> {}, refs |-> 1]]
     /\ mem = 1 /\ imm = 0
     /\ versions = [i \in {1} |-> [files |-> files, file_to_compact |-> None, refs |-> 1]]
     /\ current = 1
     /\ compact_pointer = [l \in Levels |-> None]
     /\ allowed_seeks = [f \in (IF Loaded = <<>> THEN {} ELSE {<<MaxMemCompactLevel, 1>>}) |-> AllowedSeeks]
     /\ tables = [n \in (IF Loaded = <<>> THEN {} ELSE {1}) |-> entries]
     /\ next_file_number = 2
     /\ snapshots = <<>>
     /\ scheduled = FALSE /\ compaction = None /\ bg_error = FALSE /\ manual = None /\ crashed = FALSE
     /\ callers = [c \in Callers |-> [pc |-> "out"]]
     /\ readers = [r \in Readers |-> NoRead]
     /\ events = 0

-----------------------------------------------------------------------------
(* References.  An object goes when its last reference does.               *)

\* Mutant: a reader uses an object it holds no reference to.
RefNothing(objects, i) == objects

Ref(objects, i) == [objects EXCEPT ![i].refs = @ + 1]

Unref(objects, i) ==
  IF objects[i].refs = 1 THEN Restrict(objects, DOMAIN objects \ {i})
  ELSE [objects EXCEPT ![i].refs = @ - 1]

UnrefMems(m, held) ==
  LET m1 == Unref(m, held.mem) IN IF held.imm = 0 THEN m1 ELSE Unref(m1, held.imm)

NeedsCompaction(vs, c) == Finalize(vs[c].files).full \/ vs[c].file_to_compact # None

\* Mutant: the levels a compaction leaves too large are not looked at.
ScheduleForMemTable(already) ==
  scheduled' = (already \/ (~bg_error' /\ (imm' # 0 \/ manual' # None)))

\* MaybeScheduleCompaction, in the state a step leaves behind.
MaybeScheduleCompaction(already) ==
  scheduled' = \/ already
               \/ /\ ~bg_error'
                  /\ imm' # 0 \/ manual' # None \/ NeedsCompaction(versions', current')

\* Mutant: nobody is told.
SignalNobody(cs) == cs

\* background_work_finished_signal_.SignalAll().
SignalAll(cs) == [c \in Callers |-> IF cs[c].pc = "wait" THEN [cs[c] EXCEPT !.pc = "check"] ELSE cs[c]]

-----------------------------------------------------------------------------
(* Writes, snapshots and reads.                                            *)

Write(k, t) ==
  LET e == [key |-> k, seq |-> LastSequence + 1, type |-> t]
  IN /\ ~crashed /\ ~bg_error
     /\ LastSequence - Len(Loaded) < Len(Writes)
     /\ <<k, t>> \in Writes[LastSequence - Len(Loaded) + 1]
     /\ history' = Append(history, e)
     /\ mems' = [mems EXCEPT ![mem].entries = @ \cup {e}]
     /\ UNCHANGED <<mem, imm, vervars, bgvars, snapshots, callers, readers, events>>

\* MakeRoomForWrite finds mem_ full.
SwitchMemTable ==
  /\ ~crashed /\ ~bg_error
  /\ imm = 0 /\ mems[mem].entries # {}
  /\ QuietManual => manual = None
  /\ imm' = mem
  /\ mem' = mem + 1
  /\ mems' = [i \in DOMAIN mems \cup {mem + 1} |->
                IF i = mem + 1 THEN [entries |-> {}, refs |-> 1] ELSE mems[i]]
  /\ UNCHANGED <<history, vervars, compaction, bg_error, manual, crashed, compact_pointer,
                 snapshots, callers, readers, events>>
  /\ MaybeScheduleCompaction(scheduled)

\* A write whose log does not reach the disk.
LogSyncFails ==
  /\ ~crashed /\ ~bg_error /\ events < MaxEvents
  /\ bg_error' = TRUE
  /\ callers' = SignalAll(callers)
  /\ events' = events + 1
  /\ UNCHANGED <<history, memvars, vervars, scheduled, compaction, manual, crashed,
                 compact_pointer, snapshots, readers>>

GetSnapshot ==
  /\ ~crashed
  /\ events < MaxEvents
  /\ events' = events + 1
  /\ snapshots' = Append(snapshots, LastSequence)
  /\ UNCHANGED <<history, memvars, vervars, bgvars, callers, readers>>

ReleaseSnapshot(i) ==
  /\ ~crashed
  /\ snapshots' = RemoveAt(snapshots, i)
  /\ UNCHANGED <<history, memvars, vervars, bgvars, callers, readers, events>>

\* Get and NewIterator take their references in one critical section.
StartRead(r, seq) ==
  /\ ~crashed
  /\ readers[r] = NoRead
  /\ events < MaxEvents
  /\ readers' = [readers EXCEPT ![r] = [seq |-> seq, mem |-> mem, imm |-> imm, version |-> current]]
  /\ mems' = LET m == Ref(mems, mem) IN IF imm = 0 THEN m ELSE Ref(m, imm)
  /\ versions' = Ref(versions, current)
  /\ events' = events + 1
  /\ UNCHANGED <<history, mem, imm, current, allowed_seeks, tables, next_file_number, bgvars,
                 snapshots, callers>>

\* What DBImpl::Get finds with the references it holds.
GetWith(held, k) ==
  LET Mem(i) == IF i \in DOMAIN mems THEN Saved(mems[i].entries, k, held.seq) ELSE IOError
      in_mem == Mem(held.mem)
      in_imm == IF held.imm = 0 THEN kNotFound ELSE Mem(held.imm)
      files  == IF held.version \in DOMAIN versions
                THEN VersionGet(tables, versions[held.version].files, k, held.seq)
                ELSE [result |-> IOError, seek |-> <<>>]
      hit    == IF in_mem # kNotFound THEN in_mem ELSE in_imm
  IN CASE hit = kNotFound -> files
       [] hit = kDeleted  -> [result |-> kNotFound, seek |-> <<>>]
       [] OTHER             -> [result |-> hit, seek |-> <<>>]

\* Version::UpdateStats of version i, charging <<[level, file]>> or nothing.
Charged(i, seek) ==
  LET f    == seek[1]
      left == allowed_seeks[f.level, f.file.number] - 1
      due  == left <= 0 /\ versions[i].file_to_compact = None
  IN IF seek = <<>> THEN [seeks |-> allowed_seeks, versions |-> versions, due |-> FALSE]
     ELSE [seeks    |-> [allowed_seeks EXCEPT ![f.level, f.file.number] = left],
           versions |-> IF due THEN [versions EXCEPT ![i].file_to_compact = seek] ELSE versions,
           due      |-> due]

EndGet(r, k) ==
  LET held    == readers[r]
      charged == Charged(held.version, GetWith(held, k).seek)
  IN /\ ~crashed
     /\ held # NoRead
     /\ readers' = [readers EXCEPT ![r] = NoRead]
     /\ mems' = UnrefMems(mems, held)
     /\ versions' = Unref(charged.versions, held.version)
     /\ allowed_seeks' = charged.seeks
     /\ UNCHANGED <<history, mem, imm, current, tables, next_file_number, compaction, bg_error,
                    manual, crashed, compact_pointer, snapshots, callers, events>>
     /\ IF charged.due THEN MaybeScheduleCompaction(scheduled) ELSE UNCHANGED scheduled

\* CleanupIteratorState.
DeleteIterator(r) ==
  /\ ~crashed
  /\ readers[r] # NoRead
  /\ readers' = [readers EXCEPT ![r] = NoRead]
  /\ mems' = UnrefMems(mems, readers[r])
  /\ versions' = Unref(versions, readers[r].version)
  /\ UNCHANGED <<history, mem, imm, current, allowed_seeks, tables, next_file_number, bgvars,
                 snapshots, callers, events>>

\* An iterator samples the key it is at.
RecordReadSample(k, seq) ==
  LET charged == Charged(current, ReadSample(Cur, k, seq))
  IN /\ ~crashed
     /\ \E r \in Readers : readers[r] # NoRead
     /\ events < MaxEvents
     /\ events' = events + 1
     /\ versions' = charged.versions
     /\ allowed_seeks' = charged.seeks
     /\ UNCHANGED <<history, memvars, current, tables, next_file_number, compaction, bg_error,
                    manual, crashed, compact_pointer, snapshots, callers, readers>>
     /\ IF charged.due THEN MaybeScheduleCompaction(scheduled) ELSE UNCHANGED scheduled

-----------------------------------------------------------------------------
(* What the background thread does under the mutex.                        *)

\* LogAndApply: the next version, current in place of the old one.
LogAndApply(vs, deleted, added) ==
  LET v == SaveTo(vs[current].files, deleted, added)
      w == Unref(vs, current)
  IN [i \in DOMAIN w \cup {current + 1} |->
        IF i = current + 1 THEN [files |-> v, file_to_compact |-> None, refs |-> 1] ELSE w[i]]

\* AddLiveFiles over the list of versions, as <<level, number>>.
LiveFiles(vs) ==
  UNION {UNION {{<<l, vs[i].files[l][j].number>> : j \in DOMAIN vs[i].files[l]} : l \in Levels} :
           i \in DOMAIN vs}

\* Files that are new get their number of seeks.
SeeksOf(vs) ==
  [f \in LiveFiles(vs) |-> IF f \in DOMAIN allowed_seeks THEN allowed_seeks[f] ELSE AllowedSeeks]

\* RemoveObsoleteFiles, which does nothing once there is an error.
RemoveObsolete(ts, vs, pending) ==
  IF bg_error THEN ts
  ELSE Restrict(ts, ({f[2] : f \in LiveFiles(vs)} \cup pending) \cap DOMAIN ts)

WithTable(ts, number, entries) == [n \in DOMAIN ts \cup {number} |-> IF n = number THEN entries ELSE ts[n]]

PendingOutputs ==
  IF compaction = None THEN {}
  ELSE {compaction[1].outputs[i] : i \in DOMAIN compaction[1].outputs}

\* CompactMemTable: imm_ becomes a table of the level that suits it.
CompactMemTable ==
  LET entries == mems[imm].entries
      file    == FileOf(next_file_number, entries)
      level   == PickLevelForMemTableOutput(Cur, file.smallest.key, file.largest.key)
  IN /\ versions' = LogAndApply(versions, {}, {[level |-> level, file |-> file]})
     /\ current' = current + 1
     /\ allowed_seeks' = SeeksOf(versions')
     /\ tables' = RemoveObsolete(WithTable(tables, next_file_number, entries), versions', PendingOutputs)
     /\ next_file_number' = next_file_number + 1
     /\ mems' = Unref(mems, imm)
     /\ imm' = 0
     /\ UNCHANGED <<mem, bg_error, events>>

CompactMemTableFails ==
  /\ events < MaxEvents
  /\ bg_error' = TRUE
  /\ next_file_number' = next_file_number + 1
  /\ events' = events + 1
  /\ UNCHANGED <<memvars, versions, current, allowed_seeks, tables>>

\* The end of BackgroundCall.
FinishBackgroundCall(cs) ==
  /\ callers' = SignalAll(cs)
  /\ MaybeScheduleCompaction(FALSE)

-----------------------------------------------------------------------------
(* BackgroundCompaction.                                                   *)

BackgroundFlush ==
  /\ Background /\ compaction = None /\ ~bg_error
  /\ imm # 0
  /\ CompactMemTable \/ CompactMemTableFails
  /\ UNCHANGED <<history, compaction, manual, crashed, compact_pointer, snapshots, readers>>
  /\ FinishBackgroundCall(callers)

BackgroundAfterError ==
  /\ Background /\ compaction = None /\ bg_error
  /\ UNCHANGED <<history, memvars, vervars, compaction, bg_error, manual, crashed,
                 compact_pointer, snapshots, readers, events>>
  /\ FinishBackgroundCall(callers)

\* The compaction of a background call, None or <<c>>.
Chosen ==
  IF manual # None
  THEN LET m == callers[manual[1]] IN CompactRange(Cur, m.level, m.begin, m.end)
  ELSE PickCompaction(Cur, compact_pointer, versions[current].file_to_compact)

BackgroundNothing ==
  /\ Background /\ compaction = None /\ ~bg_error /\ imm = 0
  /\ Chosen = None
  /\ manual' = None
  /\ UNCHANGED <<history, memvars, vervars, compaction, bg_error, crashed, compact_pointer,
                 snapshots, readers, events>>
  /\ FinishBackgroundCall(IF manual = None THEN callers
                          ELSE [callers EXCEPT ![manual[1]].done = TRUE])

MoveFile(c) ==
  LET f == c.inputs[1][1]
  IN /\ manual = None /\ IsTrivialMove(c)
     /\ compact_pointer' = [compact_pointer EXCEPT ![c.level] = <<c.pointer>>]
     /\ versions' = LogAndApply(versions, {<<c.level, f.number>>}, {[level |-> c.level + 1, file |-> f]})
     /\ current' = current + 1
     /\ allowed_seeks' = SeeksOf(versions')
     /\ UNCHANGED <<history, memvars, tables, next_file_number, compaction, bg_error, manual, crashed,
                    snapshots, readers, events>>
     /\ FinishBackgroundCall(callers)

NumbersOf(files) == {files[i].number : i \in DOMAIN files}

SmallestSnapshot == IF snapshots = <<>> THEN LastSequence ELSE Head(snapshots)

\* DoCompactionWork up to the release of the mutex.
StartCompaction(c) ==
  LET input == UNION {tables[n] : n \in NumbersOf(c.inputs[1] \o c.inputs[2])}
  IN /\ manual # None \/ ~IsTrivialMove(c)
     /\ compact_pointer' = [compact_pointer EXCEPT ![c.level] = <<c.pointer>>]
     /\ versions' = Ref(versions, current)
     /\ compaction' = <<[
          c |-> c, input_version |-> current,
          manual_end |-> IF manual = None THEN None ELSE <<Last(c.inputs[1]).largest.key>>,
          smallest_snapshot |-> SmallestSnapshot,
          todo |-> SortedBy(input, Less),
          outputs |-> <<>>, building |-> FALSE,
          user_key |-> NoKey, last_sequence_for_key |-> MaxSequence,
          level_ptrs |-> [l \in Levels |-> 0],
          grandparent_index |-> 0, seen_key |-> FALSE, overlapped_bytes |-> 0,
          flush_failed |-> FALSE]>>
     /\ UNCHANGED <<history, memvars, current, allowed_seeks, tables, next_file_number, scheduled,
                    bg_error, manual, crashed, snapshots, callers, readers, events>>

BackgroundCompaction ==
  /\ Background /\ compaction = None /\ ~bg_error /\ imm = 0
  /\ \E c \in ToSet(Chosen) : MoveFile(c) \/ StartCompaction(c)

\* "Prioritize immutable compaction work".
FlushDuringCompaction ==
  /\ ~crashed
  /\ compaction # None /\ imm # 0
  /\ compaction[1].todo # <<>> /\ ~compaction[1].flush_failed
  /\ \/ CompactMemTable /\ UNCHANGED compaction
     \/ CompactMemTableFails /\ compaction' = [compaction EXCEPT ![1].flush_failed = TRUE]
  /\ callers' = SignalAll(callers)
  /\ UNCHANGED <<history, scheduled, manual, crashed, compact_pointer, snapshots, readers>>

-----------------------------------------------------------------------------
(* The merge of DoCompactionWork.                                          *)

\* Compaction::ShouldStopBefore.
StopBefore(s, e) ==
  LET gp    == s.c.grandparents
      index == CHOOSE i \in s.grandparent_index .. Len(gp) :
                 /\ i = Len(gp) \/ ~Less(gp[i + 1].largest, e)
                 /\ \A j \in s.grandparent_index .. i - 1 : Less(gp[j + 1].largest, e)
      bytes == s.overlapped_bytes
                 + (IF s.seen_key THEN TotalFileSize(SubSeq(gp, s.grandparent_index + 1, index)) ELSE 0)
      stop  == bytes > MaxGrandParentOverlapBytes
  IN [stop  |-> stop,
      state |-> [s EXCEPT !.grandparent_index = index, !.seen_key = TRUE,
                          !.overlapped_bytes = IF stop THEN 0 ELSE bytes]]

\* Compaction::IsBaseLevelForKey, whose pointers into the levels only advance.
BaseLevelForKey(s, k) ==
  LET files(l) == versions[s.input_version].files[l]
      ptr(l)   == CHOOSE i \in s.level_ptrs[l] .. Len(files(l)) :
                    /\ i = Len(files(l)) \/ k <= files(l)[i + 1].largest.key
                    /\ \A j \in s.level_ptrs[l] .. i - 1 : k > files(l)[j + 1].largest.key
      above    == {l \in Levels : l >= s.c.level + 2}
      holds    == {l \in above : ptr(l) < Len(files(l)) /\ files(l)[ptr(l) + 1].smallest.key <= k}
      visited  == {l \in above : \A h \in holds : l <= h}
  IN [base |-> holds = {},
      ptrs |-> [l \in Levels |-> IF l \in visited THEN ptr(l) ELSE s.level_ptrs[l]]]

\* Mutant: a deletion goes even if an older version lies in a deeper level.
DropAnyDeletion(s, e, base) ==
  \/ s.last_sequence_for_key <= s.smallest_snapshot
  \/ e.type = "deletion" /\ e.seq <= s.smallest_snapshot

\* Mutant: an entry goes if a newer one exists, whatever the snapshots.
DropShadowed(s, e, base) ==
  \/ s.last_sequence_for_key < MaxSequence
  \/ e.type = "deletion" /\ e.seq <= s.smallest_snapshot /\ base

Drop(s, e, base) ==
  \/ s.last_sequence_for_key <= s.smallest_snapshot
  \/ e.type = "deletion" /\ e.seq <= s.smallest_snapshot /\ base

\* One key of the input.  The last output grows while building holds: until
\* ShouldStopBefore ends it, or it is large enough.
CompactKey ==
  LET s        == compaction[1]
      e        == Head(s.todo)
      stop     == StopBefore(s, e)
      last     == IF s.user_key = e.key THEN s.last_sequence_for_key ELSE MaxSequence
      at_key   == [stop.state EXCEPT !.user_key = e.key, !.last_sequence_for_key = last,
                                     !.building = @ /\ ~stop.stop]
      base     == BaseLevelForKey(s, e.key)
      asks     == last > s.smallest_snapshot /\ e.type = "deletion" /\ e.seq <= s.smallest_snapshot
      drop     == Drop(at_key, e, base.base)
      opens    == ~drop /\ ~at_key.building
      outputs  == IF opens THEN Append(s.outputs, next_file_number) ELSE s.outputs
      output   == (IF opens THEN {} ELSE tables[Last(outputs)]) \cup {e}
  IN /\ ~crashed
     /\ compaction # None
     /\ s.todo # <<>>
     /\ imm = 0 \/ s.flush_failed
     /\ compaction' = <<[at_key EXCEPT
          !.todo = Tail(@), !.last_sequence_for_key = e.seq, !.flush_failed = FALSE,
          !.level_ptrs = IF asks THEN base.ptrs ELSE @,
          !.outputs = outputs,
          !.building = IF drop THEN @ ELSE Cardinality(output) < MaxFileSize]>>
     /\ tables' = IF drop THEN tables ELSE WithTable(tables, Last(outputs), output)
     /\ next_file_number' = IF opens THEN next_file_number + 1 ELSE next_file_number
     /\ UNCHANGED <<history, memvars, versions, current, allowed_seeks, scheduled, bg_error,
                    manual, crashed, compact_pointer, snapshots, callers, readers, events>>

-----------------------------------------------------------------------------
(* The end of a compaction.                                                *)

\* The last lines of BackgroundCompaction and BackgroundCall.  A manual
\* compaction goes on behind what it did, unless it failed.
FinishCompaction(s, ok) ==
  LET m == manual[1]
  IN /\ compaction' = None
     /\ UNCHANGED <<history, memvars, next_file_number, compact_pointer, snapshots, readers>>
     /\ IF s.manual_end # None /\ manual = None
        THEN crashed' = TRUE /\ UNCHANGED <<callers, manual, scheduled>>
        ELSE /\ manual' = IF s.manual_end = None THEN manual ELSE None
             /\ FinishBackgroundCall(
                  IF s.manual_end = None THEN callers
                  ELSE IF ~ok THEN [callers EXCEPT ![m].done = TRUE]
                  ELSE [callers EXCEPT ![m].begin = s.manual_end[1]])
             /\ UNCHANGED crashed

InputDeletions(c) ==
  UNION {{<<c.level + i, n>> : n \in NumbersOf(c.inputs[i + 1])} : i \in {0, 1}}

InstallCompactionResults ==
  LET s     == compaction[1]
      added == {[level |-> s.c.level + 1, file |-> FileOf(n, tables[n])] : n \in PendingOutputs}
  IN /\ ~crashed
     /\ compaction # None
     /\ s.todo = <<>>
     /\ versions' = Unref(LogAndApply(versions, InputDeletions(s.c), added), s.input_version)
     /\ current' = current + 1
     /\ allowed_seeks' = SeeksOf(versions')
     /\ tables' = RemoveObsolete(tables, versions', {})
     /\ UNCHANGED <<bg_error, events>>
     /\ FinishCompaction(s, TRUE)

\* A file operation of the compaction fails.
CompactionFails ==
  LET s == compaction[1]
  IN /\ ~crashed
     /\ compaction # None
     /\ events < MaxEvents
     /\ events' = events + 1
     /\ bg_error' = TRUE
     /\ versions' = Unref(versions, s.input_version)
     /\ UNCHANGED <<current, allowed_seeks, tables>>
     /\ FinishCompaction(s, FALSE)

-----------------------------------------------------------------------------
(* TEST_CompactRange, which CompactRange calls level by level.             *)

StartManual(c, range) ==
  /\ ~crashed
  /\ callers[c].pc = "out"
  /\ events < MaxEvents
  /\ events' = events + 1
  /\ callers' = [callers EXCEPT ![c] = [pc |-> "check", level |-> range[1], begin |-> range[2],
                                        end |-> range[3], done |-> FALSE]]
  /\ UNCHANGED <<history, memvars, vervars, bgvars, snapshots, readers>>

WaitForManual(c) ==
  /\ ~crashed
  /\ callers[c].pc = "check"
  /\ ~callers[c].done /\ ~bg_error
  /\ manual' = IF manual = None THEN <<c>> ELSE manual
  /\ callers' = [callers EXCEPT ![c].pc = "wait"]
  /\ UNCHANGED <<history, memvars, vervars, compaction, bg_error, crashed, compact_pointer,
                 snapshots, readers, events>>
  /\ IF manual = None THEN MaybeScheduleCompaction(scheduled) ELSE UNCHANGED scheduled

\* Mutant: the caller leaves its record behind when it gives up.
EndManualKeepsRecord(c) ==
  /\ ~crashed
  /\ callers[c].pc = "check"
  /\ callers[c].done \/ bg_error
  /\ callers' = [callers EXCEPT ![c] = [pc |-> "out"]]
  /\ UNCHANGED <<history, memvars, vervars, bgvars, snapshots, readers, events>>

EndManual(c) ==
  /\ ~crashed
  /\ callers[c].pc = "check"
  /\ callers[c].done \/ bg_error
  /\ manual' = IF manual = <<c>> THEN None ELSE manual
  /\ callers' = [callers EXCEPT ![c] = [pc |-> "out"]]
  /\ UNCHANGED <<history, memvars, vervars, scheduled, compaction, bg_error, crashed,
                 compact_pointer, snapshots, readers, events>>

-----------------------------------------------------------------------------
BackgroundStep ==
  \/ BackgroundFlush \/ BackgroundAfterError \/ BackgroundNothing
  \/ BackgroundCompaction \/ FlushDuringCompaction \/ CompactKey \/ InstallCompactionResults

Visible == {LastSequence} \cup {snapshots[i] : i \in DOMAIN snapshots}

Next ==
  \/ \E k \in Keys, t \in {"value", "deletion"} : Write(k, t)
  \/ SwitchMemTable \/ LogSyncFails
  \/ GetSnapshot
  \/ \E i \in DOMAIN snapshots : ReleaseSnapshot(i)
  \/ \E r \in Readers : \/ \E s \in Visible : StartRead(r, s)
                          \/ \E k \in Keys : EndGet(r, k)
                          \/ DeleteIterator(r)
  \/ \E k \in Keys, s \in Visible : RecordReadSample(k, s)
  \/ BackgroundStep \/ CompactionFails
  \/ \E c \in Callers : \/ \E m \in ManualRanges : StartManual(c, m)
                          \/ WaitForManual(c) \/ EndManual(c)

Spec == Init /\ [][Next]_vars

\* The background thread and the threads it wakes keep running.  This is weak
\* fairness: a step of theirs is enabled exactly when the condition holds.
FairSpec ==
  /\ Spec
  /\ []<>~Background \/ []<><<BackgroundStep>>_vars
  /\ \A c \in Callers : []<>(crashed \/ callers[c].pc # "check")
                          \/ []<><<WaitForManual(c) \/ EndManual(c)>>_vars

-----------------------------------------------------------------------------
(* Properties.                                                             *)

\* The newest entry of a key that a sequence number can see.
Reference(k, seq) ==
  LET seen == {i \in 1 .. seq : history[i].key = k}
      last == CHOOSE i \in seen : \A j \in seen : j <= i
  IN IF seen = {} THEN kNotFound ELSE IF history[last].type = "value" THEN last ELSE kNotFound

\* A Get that starts now, at any snapshot that is held, and every read and
\* iterator that has been going on while memtables were flushed, files
\* compacted and obsolete ones removed, finds for every key the newest
\* version that its sequence number can see (Get, lines 1115-1160, against
\* the drop rule of DoCompactionWork and the references it takes).
ReadsMatchHistory ==
  \A k \in Keys :
    /\ \A s \in Visible :
         GetWith([seq |-> s, mem |-> mem, imm |-> imm, version |-> current], k).result = Reference(k, s)
    /\ \A r \in Readers : readers[r] # NoRead =>
         GetWith(readers[r], k).result = Reference(k, readers[r].seq)

\* "Make sure there is no overlap in levels > 0": the files of such a level
\* follow one another (SaveTo and MaybeAddFile assert it).
LevelsDisjoint ==
  \A l \in Levels \ {0} : \A i \in 1 .. Len(Cur[l]) - 1 :
    Less(Cur[l][i].largest, Cur[l][i + 1].smallest)

\* Where a key may have entries, from the newest place to the oldest.
Layers ==
  LET Entries(f) == tables[f.number]
      level0 == SortedBy({Cur[0][i] : i \in DOMAIN Cur[0]}, LAMBDA a, b : a.number > b.number)
  IN <<mems[mem].entries, IF imm = 0 THEN {} ELSE mems[imm].entries>>
       \o [i \in DOMAIN level0 |-> Entries(level0[i])]
       \o [l \in 1 .. NumLevels - 1 |-> UNION {Entries(Cur[l][i]) : i \in DOMAIN Cur[l]}]

\* "data in lower levels will have larger sequence numbers": a lookup may stop
\* at the first place that has the key, and a compaction may drop a deletion
\* for which no deeper level has data (DoCompactionWork, lines 966-973).
NewerDataAbove ==
  LET layers == Layers
  IN \A i, j \in DOMAIN layers : i < j =>
       \A e \in layers[i], d \in layers[j] : e.key = d.key => e.seq > d.seq

\* The background thread comes to rest once writes and reads stop, and
\* leaves nothing to do behind: no compaction makes another one necessary for
\* ever, and none that became necessary is forgotten (BackgroundCall).
BackgroundSettles ==
  <>[](crashed \/ (~scheduled /\ (bg_error \/ (imm = 0 /\ ~NeedsCompaction(versions, current)))))

\* A call of TEST_CompactRange returns, whoever else compacts, whatever fails.
ManualReturns ==
  \A c \in Callers : callers[c].pc # "out" ~> (crashed \/ callers[c].pc = "out")

\* manual_compaction_ points into the stack of a caller that is still inside
\* TEST_CompactRange, and while a manual compaction runs it is not null, unless
\* there is a background error: RecordBackgroundError lets the caller go before
\* BackgroundCompaction is done with its record.
ManualPointsToCaller ==
  /\ manual # None => callers[manual[1]].pc # "out"
  /\ compaction # None /\ compaction[1].manual_end # None /\ ~bg_error =>
       manual # None /\ ~callers[manual[1]].done
  /\ crashed => bg_error

=============================================================================
