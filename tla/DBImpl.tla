------------------------------- MODULE DBImpl -------------------------------
(***************************************************************************)
(* LevelDB's write path, memtable compaction, file removal, crash and      *)
(* recovery (leveldb/db/db_impl.cc and the part of version_set.cc they     *)
(* rely on).                                                               *)
(*                                                                         *)
(* Every stretch of code between two releases of mutex_ is one action, and *)
(* so is every stretch that runs with mutex_ released.  A write batch is   *)
(* its number, the numbers following the order of the calls of Write, and  *)
(* batch 0 is the null batch of TEST_CompactMemTable.  Each batch holds    *)
(* one entry of its own key, so nothing shadows anything.  Levels above 1  *)
(* behave like level 1 and are not told apart from it.                     *)
(***************************************************************************)
EXTENDS Integers, FiniteSets, FiniteSetsExt, Sequences, SequencesExt

CONSTANTS
  Threads,          \* the threads that call Write
  WriteBufferSize,  \* options_.write_buffer_size, in batches
  L0_CompactionTrigger, L0_SlowdownWritesTrigger, L0_StopWritesTrigger,
  ReuseLogs,        \* the values of options_.reuse_logs that Open is given
  TornWrites,       \* what may leave part of a record in a log: a "fault" of a
                    \* write, a "crash" of the machine
  MaxWrites, MaxFlushes, MaxFaults, MaxCrashes  \* bounds of the model

ASSUME DBAssumption ==
  /\ ReuseLogs \subseteq BOOLEAN /\ TornWrites \subseteq {"fault", "crash"}
  /\ {WriteBufferSize, L0_CompactionTrigger, L0_SlowdownWritesTrigger,
      L0_StopWritesTrigger, MaxWrites, MaxFlushes, MaxFaults, MaxCrashes}
       \subseteq Nat
  /\ 0 < L0_CompactionTrigger
  /\ L0_CompactionTrigger <= L0_SlowdownWritesTrigger
  /\ L0_SlowdownWritesTrigger <= L0_StopWritesTrigger

VARIABLES
  \* The queue of writers, and the locals of the calls in it.
  writers,          \* writers_
  pc,               \* where each thread is
  batch, sync,      \* its Writer's batch and sync
  status,           \* its Writer's status once done, "pending" before
  group,            \* how many of writers_ the front writer commits
  force, allow_delay,  \* the front writer's locals in MakeRoomForWrite
  \* The rest of the process.
  mem, imm, has_imm,   \* mem_, imm_ and whether imm_ is not null
  logfile_number,   \* logfile_number_
  versions,         \* versions_: the current version and its counters
  bg_error,         \* bg_error_ is not OK
  bg,               \* background_compaction_scheduled_ and where that thread is
  edit,             \* the VersionEdit it is writing
  compaction,       \* the compaction it is doing
  pending_outputs,  \* pending_outputs_
  obsolete,         \* the files RemoveObsoleteFiles has decided to delete
  open,             \* "down", "opening" or, with reuse_logs, "reopening", "up",
                    \* or "closing": shutting_down_
  \* The disk.
  log,              \* the log files, by number
  table,            \* the table files, by number
  manifest,         \* the MANIFEST file that CURRENT names
  \* Bounds and ghosts.
  faults, crashes,  \* I/O errors, and crashes or closings, so far
  issued, flushes,  \* batches and flushes so far
  acked,            \* the batches whose Write returned OK
  sync_batches,     \* the batches written with sync
  run,              \* the crashes before each batch was written
  goal,             \* what was in memory when a flush that makes room itself was called
  power_failed      \* has the machine crashed?

queueVars == <<writers, pc, batch, sync, status, group, force, allow_delay>>
memVars == <<mem, imm, has_imm, logfile_number>>
bgVars == <<bg, edit, compaction, pending_outputs, obsolete>>
diskVars == <<log, table, manifest>>
callVars == <<issued, flushes, sync_batches, run, goal>>
ghostVars == <<callVars, acked, power_failed>>
vars == <<queueVars, memVars, versions, bg_error, bgVars, open, diskVars,
          faults, crashes, ghostVars>>

-----------------------------------------------------------------------------
(* Data. *)

Batches == 1 .. MaxWrites

Entry == [batch : Batches, seq : Nat]

\* What a write that failed half way leaves in a log.
Torn == [seq |-> 0, batches |-> <<>>]

\* log::Reader drops everything that follows a record it cannot read, up to
\* the end of the 32KB block; the logs of the model fit in one block.
Readable(recs) ==
  LET torn == {i \in DOMAIN recs : recs[i] = Torn}
  IN  IF torn = {} THEN recs ELSE SubSeq(recs, 1, Min(torn) - 1)

EntriesOfRecord(rec) ==
  {[batch |-> rec.batches[i], seq |-> rec.seq + i - 1] : i \in DOMAIN rec.batches}

EntriesOfLog(f) == UNION {EntriesOfRecord(rec) : rec \in Range(Readable(f.recs))}

EmptyLog == [recs |-> <<>>, synced |-> 0]

EmptyVersion == [level0 |-> {}, level1 |-> {}, log_number |-> 0,
                 next_file |-> 2, last_sequence |-> 0]

\* VersionSet::Builder::Apply, and the counters an edit carries.
Apply(v, e) ==
  [level0 |-> (v.level0 \ e.deleted) \cup e.added0,
   level1 |-> (v.level1 \ e.deleted) \cup e.added1,
   log_number |-> e.log_number,
   next_file |-> e.next_file,
   last_sequence |-> e.last_sequence]

Replay(edits) == FoldLeft(Apply, EmptyVersion, edits)

\* VersionSet::WriteSnapshot
Snapshot(v) ==
  [added0 |-> v.level0, added1 |-> v.level1, deleted |-> {},
   log_number |-> v.log_number, next_file |-> v.next_file,
   last_sequence |-> v.last_sequence]

NoEdit == Snapshot(EmptyVersion)

NoCompaction == [inputs |-> {}, output |-> 0]

Compacting == compaction # NoCompaction

TablesOf(v) == v.level0 \cup v.level1

EntriesOfTables(t, numbers) == UNION {t[n] : n \in numbers \cap DOMAIN t}

\* What a Get can find.
Contents == mem \cup imm \cup EntriesOfTables(table, TablesOf(versions))

BatchesOf(entries) == {e.batch : e \in entries}

Init ==
  /\ writers = <<>> /\ group = 0 /\ force = FALSE /\ allow_delay = FALSE
  /\ pc = [t \in Threads |-> "idle"]
  /\ batch = [t \in Threads |-> 0]
  /\ sync = [t \in Threads |-> FALSE]
  /\ status = [t \in Threads |-> "pending"]
  /\ mem = {} /\ imm = {} /\ has_imm = FALSE /\ logfile_number = 0
  /\ versions = EmptyVersion
  /\ bg_error = FALSE
  /\ bg = "off" /\ edit = NoEdit /\ compaction = NoCompaction
  /\ pending_outputs = {} /\ obsolete = {}
  /\ open = "down"
  /\ log = <<>> /\ table = <<>>
  /\ manifest = [edits |-> <<NoEdit>>, synced |-> 1]     \* NewDB
  /\ faults = 0 /\ crashes = 0
  /\ issued = 0 /\ flushes = 0 /\ acked = {} /\ sync_batches = {}
  /\ run = [b \in Batches |-> 0] /\ goal = [t \in Threads |-> {}]
  /\ power_failed = FALSE

-----------------------------------------------------------------------------
(* Helpers. *)

\* A thread in the loop of MakeRoomForWrite holds mutex_ until it waits, sleeps
\* or starts to commit; every other action that needs mutex_ takes and releases
\* it within one step.
MutexFree == \A t \in Threads : pc[t] # "room"

Fault == faults < MaxFaults /\ faults' = faults + 1

\* background_work_finished_signal_.SignalAll()
SignalAll(p) ==
  [t \in Threads |-> CASE p[t] = "bgwait"    -> "recheck"
                       [] p[t] = "flushwait" -> "flushcheck"
                       [] OTHER              -> p[t]]

NeedsCompaction(v) == Cardinality(v.level0) >= L0_CompactionTrigger

\* Mutant: shutting_down_ is not looked at.
MaybeScheduleCompactionAnyway(state, err, flush, v) ==
  IF state = "off" /\ ~err /\ (flush \/ NeedsCompaction(v))
  THEN "scheduled" ELSE state

MaybeScheduleCompaction(state, err, flush, v) ==
  IF state = "off" /\ open # "closing" /\ ~err /\ (flush \/ NeedsCompaction(v))
  THEN "scheduled" ELSE state

\* Mutant: logs older than the current one, rather than than LogNumber(), go.
FilesToDeleteEagerly(v, pending) ==
  {<<"log", n>> : n \in {m \in DOMAIN log : m < logfile_number}} \cup
  {<<"table", n>> : n \in DOMAIN table \ (TablesOf(v) \cup pending)}

\* RemoveObsoleteFiles up to where it releases mutex_.
FilesToDelete(v, pending) ==
  {<<"log", n>> : n \in {m \in DOMAIN log : m < v.log_number}} \cup
  {<<"table", n>> : n \in DOMAIN table \ (TablesOf(v) \cup pending)}

\* ... and from there on.
Without(files, kind, doomed) ==
  [n \in {m \in DOMAIN files : <<kind, m>> \notin doomed} |-> files[n]]

-----------------------------------------------------------------------------
(* DBImpl::Write. *)

\* w reaches the front of the queue and enters MakeRoomForWrite.
EnterMakeRoom(b) == force' = (b = 0) /\ allow_delay' = (b # 0)

\* &w != writers_.front()
MustWaitForTurn(queue, t) == Head(queue) # t

Enqueue(t, b, s) ==
  /\ open = "up" /\ pc[t] = "idle" /\ MutexFree
  /\ writers' = Append(writers, t)
  /\ batch' = [batch EXCEPT ![t] = b]
  /\ sync' = [sync EXCEPT ![t] = s]
  /\ status' = [status EXCEPT ![t] = "pending"]
  /\ pc' = [pc EXCEPT ![t] = IF MustWaitForTurn(writers', t) THEN "waiting"
                                ELSE "room"]
  /\ IF MustWaitForTurn(writers', t)
     THEN UNCHANGED <<force, allow_delay>> ELSE EnterMakeRoom(b)
  /\ UNCHANGED <<group, memVars, versions, bg_error, bgVars, open, diskVars,
                 faults, crashes, acked, power_failed>>

Write(t, s) ==
  /\ issued < MaxWrites
  /\ issued' = issued + 1
  /\ sync_batches' = IF s THEN sync_batches \cup {issued'} ELSE sync_batches
  /\ run' = [run EXCEPT ![issued'] = crashes]
  /\ Enqueue(t, issued', s)
  /\ UNCHANGED <<flushes, goal>>

\* TEST_CompactMemTable, as CompactRange calls it: first Write(nullptr) ...
TEST_CompactMemTable(t) ==
  /\ flushes < MaxFlushes
  /\ flushes' = flushes + 1
  /\ goal' = [goal EXCEPT ![t] = BatchesOf(mem \cup imm)]
  /\ Enqueue(t, 0, FALSE)
  /\ UNCHANGED <<issued, sync_batches, run>>

\* Where thread t is after Write has returned s to it.
AfterWrite(t, s) == IF batch[t] = 0 /\ s = "ok" THEN "flushcheck" ELSE "idle"

AckedWith(t, s) == IF s = "ok" THEN acked \cup ({batch[t]} \ {0}) ELSE acked

\* A writer wakes up from w.cv.Wait(), having been signalled.
Wake(t) ==
  /\ pc[t] = "awake" /\ MutexFree
  /\ IF status[t] # "pending"
     THEN /\ pc' = [pc EXCEPT ![t] = AfterWrite(t, status[t])]
          /\ acked' = AckedWith(t, status[t])
          /\ batch' = [batch EXCEPT ![t] = 0]
          /\ sync' = [sync EXCEPT ![t] = FALSE]
          /\ status' = [status EXCEPT ![t] = "pending"]
          /\ UNCHANGED <<force, allow_delay>>
     ELSE /\ pc' = [pc EXCEPT ![t] = IF MustWaitForTurn(writers, t) THEN "waiting"
                                        ELSE "room"]
          /\ IF MustWaitForTurn(writers, t)
             THEN UNCHANGED <<force, allow_delay>> ELSE EnterMakeRoom(batch[t])
          /\ UNCHANGED <<acked, batch, sync, status>>
  /\ goal' = IF status[t] # "pending" THEN [goal EXCEPT ![t] = {}] ELSE goal
  /\ UNCHANGED <<writers, group, memVars, versions, bg_error, bgVars, open,
                 diskVars, faults, crashes, issued, flushes, sync_batches, run,
                 power_failed>>

\* Mutant: nobody tells the next writer.
NoNewFront(k) == {}

\* "Notify new head of write queue"
NewFront(k) == {writers[i] : i \in {k + 1} \cap DOMAIN writers}

\* The front writer hands status s to the first k writers, signals them and
\* the next front of the queue, and returns.
CompleteGroup(k, s, p) ==
  LET t == Head(writers)
      ready == {writers[i] : i \in 2 .. k}
  IN  /\ writers' = SubSeq(writers, k + 1, Len(writers))
      /\ status' = [u \in Threads |-> IF u \in ready THEN s ELSE status[u]]
      /\ pc' = [u \in Threads |-> IF u = t THEN AfterWrite(t, s)
                                  ELSE IF u \in ready \cup NewFront(k) THEN "awake"
                                  ELSE p[u]]
      /\ acked' = AckedWith(t, s)
      /\ batch' = [batch EXCEPT ![t] = 0]
      /\ sync' = [sync EXCEPT ![t] = FALSE]
      /\ group' = 0 /\ force' = FALSE /\ allow_delay' = FALSE

-----------------------------------------------------------------------------
(* MakeRoomForWrite, one action per branch of its loop, and the start of   *)
(* the commit that follows it under the same hold of mutex_.               *)

AtFront(t, where) == pc[t] = where /\ Head(writers) = t

NumLevelFiles0 == Cardinality(versions.level0)

MustDelay == allow_delay /\ NumLevelFiles0 >= L0_SlowdownWritesTrigger

HasRoom == ~force /\ Cardinality(mem) <= WriteBufferSize

MustWait == has_imm \/ NumLevelFiles0 >= L0_StopWritesTrigger

YieldError(t) ==
  /\ AtFront(t, "room") /\ bg_error
  /\ CompleteGroup(1, "error", pc)
  /\ UNCHANGED <<memVars, versions, bg_error, bgVars, open, diskVars, faults,
                 crashes, callVars, power_failed>>

Delay(t) ==
  /\ AtFront(t, "room") /\ ~bg_error /\ MustDelay
  /\ allow_delay' = FALSE
  /\ pc' = [pc EXCEPT ![t] = "recheck"]
  /\ UNCHANGED <<writers, batch, sync, status, group, force, memVars, versions,
                 bg_error, bgVars, open, diskVars, faults, crashes, ghostVars>>

\* Mutant: a sync write may ride in a batch that is not synced.
GroupEndsIgnoringSync == {k \in DOMAIN writers :
                            k = Len(writers) \/ batch[writers[k + 1]] # 0}

\* BuildBatchGroup: how many writers the front one may commit, over all sizes
\* of their batches.
GroupEnds ==
  LET leader == sync[Head(writers)]
      Stops(i) == (sync[writers[i]] /\ ~leader) \/ batch[writers[i]] # 0
  IN  {k \in DOMAIN writers :
         /\ \A i \in 2 .. k : sync[writers[i]] => leader
         /\ k = Len(writers) \/ Stops(k + 1)}

StartCommit(t) ==
  /\ AtFront(t, "room") /\ ~bg_error /\ ~MustDelay /\ HasRoom
  /\ \/ /\ batch[t] # 0
        /\ group' \in GroupEnds
        /\ pc' = [pc EXCEPT ![t] = "log"]
        /\ UNCHANGED <<writers, batch, sync, status, force, allow_delay, acked>>
     \/ /\ batch[t] = 0
        /\ CompleteGroup(1, "ok", pc)
  /\ UNCHANGED <<memVars, versions, bg_error, bgVars, open, diskVars, faults,
                 crashes, callVars, power_failed>>

WaitForBackground(t) ==
  /\ AtFront(t, "room") /\ ~bg_error /\ ~MustDelay /\ ~HasRoom /\ MustWait
  /\ pc' = [pc EXCEPT ![t] = "bgwait"]
  /\ UNCHANGED <<writers, batch, sync, status, group, force, allow_delay,
                 memVars, versions, bg_error, bgVars, open, diskVars, faults,
                 crashes, ghostVars>>

SwitchMemTable(t) ==
  /\ AtFront(t, "room") /\ ~bg_error /\ ~MustDelay /\ ~HasRoom /\ ~MustWait
  /\ \/ \* The new log cannot be created: ReuseFileNumber, and Write fails.
        /\ Fault
        /\ CompleteGroup(1, "error", pc)
        /\ UNCHANGED <<memVars, versions, bg_error, bgVars, diskVars>>
     \/ LET n == versions.next_file
        IN  /\ versions' = [versions EXCEPT !.next_file = n + 1]
            /\ log' = (n :> EmptyLog) @@ log
            /\ logfile_number' = n
            /\ imm' = mem /\ has_imm' = TRUE /\ mem' = {}
            /\ force' = FALSE
            /\ \/ UNCHANGED <<faults, bg_error, pc>>
               \/ \* The old log cannot be closed: RecordBackgroundError.
                  Fault /\ bg_error' = TRUE /\ pc' = SignalAll(pc)
            /\ bg' = MaybeScheduleCompaction(bg, bg_error', TRUE, versions')
            /\ UNCHANGED <<writers, batch, sync, status, group, allow_delay,
                           edit, compaction, pending_outputs, obsolete, table,
                           manifest, acked>>
  /\ UNCHANGED <<open, crashes, callVars, power_failed>>

\* Back from the wait or the sleep.
Recheck(t) ==
  /\ AtFront(t, "recheck") /\ MutexFree
  /\ pc' = [pc EXCEPT ![t] = "room"]
  /\ UNCHANGED <<writers, batch, sync, status, group, force, allow_delay,
                 memVars, versions, bg_error, bgVars, open, diskVars, faults,
                 crashes, ghostVars>>

MakeRoomForWrite(t) ==
  \/ YieldError(t) \/ Delay(t) \/ StartCommit(t)
  \/ WaitForBackground(t) \/ SwitchMemTable(t) \/ Recheck(t)

-----------------------------------------------------------------------------
(* The commit: AddRecord, Sync and InsertInto with mutex_ released, then   *)
(* the end of Write.                                                       *)

GroupBatches ==
  SelectSeq([i \in 1 .. group |-> batch[writers[i]]], LAMBDA b : b # 0)

Record == [seq |-> versions.last_sequence + 1, batches |-> GroupBatches]

WithRecord(rec) == [log EXCEPT ![logfile_number].recs = Append(@, rec)]

AddRecord(t) ==
  /\ AtFront(t, "log")
  /\ \/ /\ log' = WithRecord(Record)
        /\ pc' = [pc EXCEPT ![t] = IF sync[t] THEN "sync" ELSE "apply"]
        /\ UNCHANGED faults
     \/ /\ Fault
        /\ log' \in {log} \cup IF "fault" \in TornWrites THEN {WithRecord(Torn)} ELSE {}
        /\ pc' = [pc EXCEPT ![t] = "failed"]
  /\ UNCHANGED <<writers, batch, sync, status, group, force, allow_delay,
                 memVars, versions, bg_error, bgVars, open, table, manifest,
                 crashes, ghostVars>>

\* Mutant: the result of Sync is ignored.
SyncLogUnchecked(t) ==
  /\ AtFront(t, "sync")
  /\ \/ /\ log' = [log EXCEPT ![logfile_number].synced =
                                Len(log[logfile_number].recs)]
        /\ pc' = [pc EXCEPT ![t] = "apply"]
        /\ UNCHANGED faults
     \/ /\ Fault
        /\ pc' = [pc EXCEPT ![t] = "apply"]
        /\ UNCHANGED log
  /\ UNCHANGED <<writers, batch, sync, status, group, force, allow_delay,
                 memVars, versions, bg_error, bgVars, open, table, manifest,
                 crashes, callVars, acked, power_failed>>

SyncLog(t) ==
  /\ AtFront(t, "sync")
  /\ \/ /\ log' = [log EXCEPT ![logfile_number].synced =
                                Len(log[logfile_number].recs)]
        /\ pc' = [pc EXCEPT ![t] = "apply"]
        /\ UNCHANGED faults
     \/ /\ Fault
        /\ pc' = [pc EXCEPT ![t] = "unsynced"]
        /\ UNCHANGED log
  /\ UNCHANGED <<writers, batch, sync, status, group, force, allow_delay,
                 memVars, versions, bg_error, bgVars, open, table, manifest,
                 crashes, callVars, acked, power_failed>>

\* A sync of the log failed: RecordBackgroundError.
FinishUnsynced(t) ==
  /\ AtFront(t, "unsynced")
  /\ bg_error' = TRUE
  /\ CompleteGroup(group, "error", SignalAll(pc))
  /\ UNCHANGED mem

\* SetLastSequence runs whether the batch was logged or not.
FinishWrite(t) ==
  /\ MutexFree
  /\ \/ /\ AtFront(t, "apply")
        /\ mem' = mem \cup EntriesOfRecord(Record)
        /\ CompleteGroup(group, "ok", pc)
        /\ UNCHANGED bg_error
     \/ /\ AtFront(t, "failed")
        /\ CompleteGroup(group, "error", pc)
        /\ UNCHANGED <<mem, bg_error>>
     \/ FinishUnsynced(t)
  /\ versions' = [versions EXCEPT !.last_sequence = @ + Len(GroupBatches)]
  /\ UNCHANGED <<imm, has_imm, logfile_number, bgVars, open, diskVars, faults,
                 crashes, callVars, power_failed>>

\* Mutant: TEST_CompactMemTable does not wait for the background thread.
WaitForNothing(t) ==
  /\ pc[t] = "flushcheck" /\ MutexFree
  /\ pc' = [pc EXCEPT ![t] = "idle"]
  /\ goal' = [goal EXCEPT ![t] = {}]
  /\ UNCHANGED <<writers, batch, sync, status, group, force, allow_delay,
                 memVars, versions, bg_error, bgVars, open, diskVars, faults,
                 crashes, issued, flushes, sync_batches, run, acked, power_failed>>

\* TEST_CompactMemTable waits until imm_ is gone or an error occurred.
WaitForFlush(t) ==
  /\ pc[t] = "flushcheck" /\ MutexFree
  /\ pc' = [pc EXCEPT ![t] = IF has_imm /\ ~bg_error THEN "flushwait" ELSE "idle"]
  /\ goal' = IF pc'[t] = "idle" THEN [goal EXCEPT ![t] = {}] ELSE goal
  /\ UNCHANGED <<writers, batch, sync, status, group, force, allow_delay,
                 memVars, versions, bg_error, bgVars, open, diskVars, faults,
                 crashes, issued, flushes, sync_batches, run, acked, power_failed>>

WriterStep(t) ==
  \/ Wake(t) \/ MakeRoomForWrite(t) \/ AddRecord(t) \/ SyncLog(t)
  \/ FinishWrite(t) \/ WaitForFlush(t)

-----------------------------------------------------------------------------
(* The background thread: BackgroundCall. *)

\* The end of BackgroundCall, or of a memtable compaction inside a compaction.
Continue(err, flush, v) ==
  /\ pc' = SignalAll(pc)
  /\ bg' = IF Compacting THEN "compact"
           ELSE MaybeScheduleCompaction("off", err, flush, v)

\* WriteLevel0Table up to where it releases mutex_.
StartFlush ==
  /\ edit' = [NoEdit EXCEPT !.added0 = {versions.next_file}]
  /\ pending_outputs' = pending_outputs \cup {versions.next_file}
  /\ versions' = [versions EXCEPT !.next_file = @ + 1]
  /\ bg' = "build"
  /\ UNCHANGED <<compaction, obsolete>>

\* The edit of LogAndApply, completed with the counters.
Completed(e, log_number) ==
  [e EXCEPT !.log_number = log_number, !.next_file = versions.next_file,
            !.last_sequence = versions.last_sequence]

BackgroundCall ==
  /\ bg = "scheduled" /\ MutexFree
  /\ \/ /\ bg_error \/ open = "closing"
        /\ Continue(bg_error, has_imm, versions)
        /\ UNCHANGED <<versions, edit, compaction, pending_outputs, obsolete>>
     \/ /\ ~bg_error /\ open # "closing" /\ has_imm
        /\ StartFlush
        /\ UNCHANGED pc
     \/ \* PickCompaction: overlapping files of level 0 and what they overlap
        \* in level 1, over all keys.
        /\ ~bg_error /\ open # "closing" /\ ~has_imm
        /\ \E in0 \in SUBSET versions.level0 \ {{}}, in1 \in SUBSET versions.level1 :
             compaction' = [inputs |-> in0 \cup in1, output |-> 0]
        /\ bg' = "compact"
        /\ UNCHANGED <<versions, edit, pending_outputs, obsolete, pc>>
     \/ \* ... or a trivial move of one file that overlaps nothing.
        /\ ~bg_error /\ open # "closing" /\ ~has_imm
        /\ \E n \in versions.level0 :
             edit' = Completed([NoEdit EXCEPT !.added1 = {n}, !.deleted = {n}],
                               versions.log_number)
        /\ bg' = "move"
        /\ UNCHANGED <<versions, compaction, pending_outputs, obsolete, pc>>
  /\ UNCHANGED <<writers, batch, sync, status, group, force, allow_delay,
                 memVars, bg_error, open, diskVars, faults, crashes, ghostVars>>

Failed ==
  /\ Fault
  /\ bg_error' = TRUE                               \* RecordBackgroundError
  /\ Continue(TRUE, has_imm, versions)

\* BuildTable of imm_, then the rest of WriteLevel0Table and CompactMemTable
\* up to where LogAndApply releases mutex_.
BuildTable ==
  /\ bg = "build" /\ MutexFree
  /\ pending_outputs' = pending_outputs \ edit.added0
  /\ \/ LET added == IF imm = {} THEN {} ELSE edit.added0  \* no empty table
        IN  /\ open # "closing"
            /\ table' = [n \in added |-> imm] @@ table
            /\ \E level \in {0, 1} :                 \* PickLevelForMemTableOutput
                 edit' = Completed(
                   [NoEdit EXCEPT !.added0 = IF level = 0 THEN added ELSE {},
                                  !.added1 = IF level = 1 THEN added ELSE {}],
                   logfile_number)
            /\ bg' = "flush"
            /\ UNCHANGED <<bg_error, pc, faults>>
     \/ /\ Failed
        /\ edit' = NoEdit
        /\ UNCHANGED table
     \/ \* "Deleting DB during memtable compaction"
        /\ open = "closing"
        /\ table' = [n \in IF imm = {} THEN {} ELSE edit.added0 |-> imm] @@ table
        /\ edit' = NoEdit
        /\ bg_error' = TRUE
        /\ Continue(TRUE, has_imm, versions)
        /\ UNCHANGED faults
  /\ UNCHANGED <<writers, batch, sync, status, group, force, allow_delay,
                 memVars, versions, compaction, obsolete, open, log, manifest,
                 crashes, ghostVars>>

\* The rest of LogAndApply: the edit is on disk and the version installed ...
LogAndApply ==
  /\ manifest' = [edits |-> Append(manifest.edits, edit),
                  synced |-> Len(manifest.edits) + 1]
  /\ versions' = [Apply(versions, edit) EXCEPT
                    !.next_file = versions.next_file,
                    !.last_sequence = versions.last_sequence]
  /\ UNCHANGED <<bg_error, faults>>

\* ... or writing or syncing MANIFEST fails, and the edit may be there or not.
LogAndApplyFails ==
  /\ Fault /\ bg_error' = TRUE                      \* RecordBackgroundError
  /\ manifest' \in {manifest, [manifest EXCEPT !.edits = Append(@, edit)]}
  /\ UNCHANGED versions

\* Mutant: files are collected after a background error, too.
RemoveObsoleteFilesAnyway(pending) == obsolete' = FilesToDelete(versions', pending)

\* Nothing is removed after a background error: whether the last edit was
\* committed is not known.
RemoveObsoleteFiles(pending) ==
  obsolete' = IF bg_error' THEN {} ELSE FilesToDelete(versions', pending)

\* Mutant: imm_ is dropped also when its table could not be committed.
DropMemTable == imm' = {} /\ has_imm' = FALSE

\* imm_ and its log stay what they are when its table could not be committed.
KeepMemTable == UNCHANGED <<imm, has_imm>>

\* The end of CompactMemTable.
CommitMemTable ==
  /\ bg = "flush" /\ MutexFree
  /\ \/ /\ LogAndApply
        /\ imm' = {} /\ has_imm' = FALSE
        /\ RemoveObsoleteFiles(pending_outputs)
        /\ bg' = "flush_remove"
        /\ UNCHANGED pc
     \/ /\ LogAndApplyFails
        /\ Continue(TRUE, has_imm, versions)
        /\ KeepMemTable
        /\ UNCHANGED obsolete
  /\ edit' = NoEdit
  /\ UNCHANGED <<writers, batch, sync, status, group, force, allow_delay, mem,
                 logfile_number, compaction, pending_outputs, open, log, table,
                 crashes, ghostVars>>

\* The loop of RemoveObsoleteFiles that runs with mutex_ released.
RemoveFiles ==
  /\ bg \in {"flush_remove", "compact_remove"} /\ MutexFree
  /\ log' = Without(log, "log", obsolete)
  /\ table' = Without(table, "table", obsolete)
  /\ obsolete' = {}
  /\ Continue(bg_error, has_imm, versions)
  /\ UNCHANGED <<writers, batch, sync, status, group, force, allow_delay,
                 memVars, versions, bg_error, edit, compaction,
                 pending_outputs, open, manifest, faults, crashes, ghostVars>>

\* DoCompactionWork compacts a full memtable first whenever it sees one.
CompactMemTableFirst ==
  /\ bg = "compact" /\ has_imm /\ open # "closing" /\ MutexFree
  /\ StartFlush
  /\ UNCHANGED <<queueVars, memVars, bg_error, open, diskVars, faults, crashes,
                 ghostVars>>

OpenCompactionOutputFile ==
  /\ bg = "compact" /\ compaction.output = 0 /\ MutexFree
  /\ compaction' = [compaction EXCEPT !.output = versions.next_file]
  /\ pending_outputs' = pending_outputs \cup {versions.next_file}
  /\ versions' = [versions EXCEPT !.next_file = @ + 1]
  /\ UNCHANGED <<queueVars, memVars, bg_error, bg, edit, obsolete, open,
                 diskVars, faults, crashes, ghostVars>>

\* CleanupCompaction, ReleaseInputs and the first half of RemoveObsoleteFiles.
CleanupCompaction ==
  /\ compaction' = NoCompaction
  /\ pending_outputs' = pending_outputs \ {compaction.output}
  /\ RemoveObsoleteFiles(pending_outputs')
  /\ bg' = "compact_remove"

\* The output is written and synced, and InstallCompactionResults begins.
FinishCompactionOutputFile ==
  /\ bg = "compact" /\ compaction.output # 0 /\ MutexFree
  /\ UNCHANGED versions
  /\ \/ /\ table' = (compaction.output :> EntriesOfTables(table, compaction.inputs))
                      @@ table
        /\ edit' = Completed([NoEdit EXCEPT !.added1 = {compaction.output},
                                            !.deleted = compaction.inputs],
                             versions.log_number)
        /\ bg' = "install"
        /\ UNCHANGED <<bg_error, faults, pc, compaction, pending_outputs, obsolete>>
     \/ \* An error, or "Deleting DB during compaction".
        /\ Fault \/ (open = "closing" /\ UNCHANGED faults)
        /\ bg_error' = TRUE                         \* RecordBackgroundError
        /\ pc' = SignalAll(pc)
        /\ CleanupCompaction
        /\ UNCHANGED <<table, edit>>
  /\ UNCHANGED <<writers, batch, sync, status, group, force, allow_delay,
                 memVars, open, log, manifest, crashes, ghostVars>>

InstallCompactionResults ==
  /\ bg = "install" /\ MutexFree
  /\ \/ LogAndApply /\ UNCHANGED pc
     \/ LogAndApplyFails /\ pc' = SignalAll(pc)
  /\ edit' = NoEdit
  /\ CleanupCompaction
  /\ UNCHANGED <<writers, batch, sync, status, group, force, allow_delay,
                 memVars, open, log, table, crashes, ghostVars>>

\* The end of a trivial move, which removes no file.
MoveFile ==
  /\ bg = "move" /\ MutexFree
  /\ \/ LogAndApply /\ Continue(bg_error, has_imm, versions')
     \/ LogAndApplyFails /\ Continue(TRUE, has_imm, versions)
  /\ edit' = NoEdit
  /\ UNCHANGED <<writers, batch, sync, status, group, force, allow_delay,
                 memVars, compaction, pending_outputs, obsolete, open, log,
                 table, crashes, ghostVars>>

BackgroundStep ==
  \/ BackgroundCall \/ BuildTable \/ CommitMemTable \/ RemoveFiles
  \/ CompactMemTableFirst \/ OpenCompactionOutputFile
  \/ FinishCompactionOutputFile \/ InstallCompactionResults \/ MoveFile

-----------------------------------------------------------------------------
(* Crashes, and closing the database. *)

ProcessStops ==
  /\ writers' = <<>> /\ group' = 0 /\ force' = FALSE /\ allow_delay' = FALSE
  /\ pc' = [t \in Threads |-> "idle"]
  /\ batch' = [t \in Threads |-> 0]
  /\ sync' = [t \in Threads |-> FALSE]
  /\ status' = [t \in Threads |-> "pending"]
  /\ mem' = {} /\ imm' = {} /\ has_imm' = FALSE /\ logfile_number' = 0
  /\ versions' = EmptyVersion
  /\ bg_error' = FALSE
  /\ bg' = "off" /\ edit' = NoEdit /\ compaction' = NoCompaction
  /\ pending_outputs' = {} /\ obsolete' = {}
  /\ open' = "down"
  /\ goal' = [t \in Threads |-> {}]

\* What LogAndApply, interrupted, may have written to MANIFEST.
WrittenEdits ==
  IF bg \in {"flush", "install", "move"} THEN Append(manifest.edits, edit)
  ELSE manifest.edits

\* The process dies; the operating system keeps what was written.
ProcessCrash ==
  /\ crashes < MaxCrashes /\ crashes' = crashes + 1
  /\ open # "down"
  /\ ProcessStops
  /\ manifest' \in {manifest, [manifest EXCEPT !.edits = WrittenEdits]}
  /\ UNCHANGED <<log, table, faults, issued, flushes, sync_batches, run, acked,
                 power_failed>>

\* ~DBImpl, once no thread is inside the database: it stops the scheduling of
\* background work and waits for the work under way.
Close ==
  /\ crashes < MaxCrashes /\ crashes' = crashes + 1
  /\ open = "up" /\ \A t \in Threads : pc[t] = "idle"
  /\ open' = "closing"
  /\ UNCHANGED <<queueVars, memVars, versions, bg_error, bgVars, diskVars,
                 faults, ghostVars>>

Closed ==
  /\ open = "closing" /\ bg = "off"
  /\ ProcessStops
  /\ UNCHANGED <<diskVars, faults, crashes, issued, flushes, sync_batches, run,
                 acked, power_failed>>

\* What may be left of a file of which the first synced records are safe.
Survivors(recs, synced) == {SubSeq(recs, 1, k) : k \in synced .. Len(recs)}

TornSurvivors(recs, synced) ==
  Survivors(recs, synced) \cup
  IF "crash" \in TornWrites
  THEN {Append(SubSeq(recs, 1, k), Torn) : k \in synced .. Len(recs) - 1} ELSE {}

\* The machine dies; of each file the synced part and any prefix of the rest
\* remain.
MachineCrash ==
  /\ crashes < MaxCrashes /\ crashes' = crashes + 1
  /\ ProcessStops
  /\ power_failed' = TRUE
  /\ \E left \in [DOMAIN log ->
                    UNION {TornSurvivors(log[n].recs, log[n].synced) : n \in DOMAIN log}] :
       /\ \A n \in DOMAIN log : left[n] \in TornSurvivors(log[n].recs, log[n].synced)
       /\ log' = [n \in DOMAIN log |-> [recs |-> left[n], synced |-> Len(left[n])]]
  /\ \E edits \in Survivors(WrittenEdits, manifest.synced) :
       manifest' = [edits |-> edits, synced |-> Len(edits)]
  /\ UNCHANGED <<table, faults, issued, flushes, sync_batches, run, acked>>

-----------------------------------------------------------------------------
(* DB::Open: VersionSet::Recover, DBImpl::Recover and what follows.        *)

\* The logs Recover replays, oldest first.
LogsToRecover(v) == SetToSortSeq({n \in DOMAIN log : n >= v.log_number}, <)

\* One record of a log: a memtable that has become too large is saved.
ReplayRecord(m, rec) ==
  LET all == m.mem \cup EntriesOfRecord(rec)
  IN  IF Cardinality(all) > WriteBufferSize
      THEN [mem |-> {}, saved |-> Append(m.saved, all)]
      ELSE [m EXCEPT !.mem = all]

\* The tables saved, from number first on.
SavedTables(first, saved) ==
  [k \in first .. first + Len(saved) - 1 |-> saved[k - first + 1]]

\* Mutant: MarkFileNumberUsed is missing.
NumberNotMarked(next, n) == next

\* VersionSet::MarkFileNumberUsed
MarkFileNumberUsed(next, n) == Max({next, n + 1})

\* RecoverLogFile; r is what has been recovered.  With reuse_logs, the last log
\* becomes the current one again unless part of it had to be saved.
RecoverLogFile(logs, reuse_logs, r, n) ==
  LET m == FoldLeft(ReplayRecord, [mem |-> {}, saved |-> <<>>],
                    Readable(log[n].recs))
      reuse == reuse_logs /\ n = Last(logs) /\ m.saved = <<>>
      saved == IF reuse \/ m.mem = {} THEN m.saved ELSE Append(m.saved, m.mem)
  IN  [tables |-> SavedTables(r.next_file, saved) @@ r.tables,
       next_file |-> MarkFileNumberUsed(r.next_file + Len(saved), n),
       reused |-> reuse,
       mem |-> IF reuse THEN m.mem ELSE {}]

Recovered(v, logs, reuse_logs) ==
  FoldLeft(LAMBDA r, n : RecoverLogFile(logs, reuse_logs, r, n),
           [tables |-> <<>>, next_file |-> v.next_file + 1, reused |-> FALSE,
            mem |-> {}], logs)

\* Mutant: the sequence number of MANIFEST is taken as it is.
RecoveredSequenceStale(v, logs) == v.last_sequence

\* The largest sequence number in MANIFEST and in the logs replayed.
RecoveredSequence(v, logs) ==
  Max({v.last_sequence} \cup
      {e.seq : e \in UNION {EntriesOfLog(log[n]) : n \in Range(logs)}})

\* Up to the new manifest.  With the expected tables missing, Open fails.
OpenRecover(reuse_logs) ==
  LET v == Replay(manifest.edits)
      logs == LogsToRecover(v)
      r == Recovered(v, logs, reuse_logs)
      new == IF r.reused THEN Last(logs) ELSE r.next_file
  IN  /\ open = "down"
      /\ TablesOf(v) \subseteq DOMAIN table
      /\ table' = r.tables @@ table
      /\ log' = IF r.reused THEN log ELSE (new :> EmptyLog) @@ log
      /\ mem' = r.mem
      /\ logfile_number' = new
      /\ versions' = [v EXCEPT
           !.next_file = IF r.reused THEN r.next_file ELSE new + 1,
           !.last_sequence = RecoveredSequence(v, logs)]
      /\ edit' = [NoEdit EXCEPT !.added0 = DOMAIN r.tables, !.log_number = new]
      /\ open' = IF reuse_logs THEN "reopening" ELSE "opening"
      /\ UNCHANGED <<queueVars, imm, has_imm, bg_error, bg, compaction,
                     pending_outputs, obsolete, manifest, faults, crashes,
                     ghostVars>>

\* LogAndApply (into a new MANIFEST, which CURRENT then names, unless the old
\* one is reused), RemoveObsoleteFiles and MaybeScheduleCompaction.
OpenInstall ==
  LET v == Apply(versions, Completed(edit, edit.log_number))
      save_manifest == open = "opening" \/ edit.added0 # {}
  IN  /\ open \in {"opening", "reopening"}
      /\ versions' = IF save_manifest THEN v ELSE versions
      /\ manifest' =
           IF ~save_manifest THEN manifest
           ELSE IF open = "opening" THEN [edits |-> <<Snapshot(v)>>, synced |-> 1]
           ELSE [edits |-> Append(manifest.edits, Completed(edit, edit.log_number)),
                 synced |-> Len(manifest.edits) + 1]
      /\ LET doomed == FilesToDelete(versions', {})
         IN  /\ log' = Without(log, "log", doomed)
             /\ table' = Without(table, "table", doomed)
      /\ bg' = MaybeScheduleCompaction("off", FALSE, FALSE, versions')
      /\ edit' = NoEdit
      /\ open' = "up"
      /\ UNCHANGED <<queueVars, memVars, bg_error, compaction, pending_outputs,
                     obsolete, faults, crashes, ghostVars>>

-----------------------------------------------------------------------------

Next ==
  \/ \E t \in Threads :
       \/ \E s \in BOOLEAN : Write(t, s)
       \/ TEST_CompactMemTable(t)
       \/ WriterStep(t)
  \/ BackgroundStep
  \/ Close
  \/ Closed
  \/ ProcessCrash
  \/ MachineCrash
  \/ \E reuse_logs \in ReuseLogs : OpenRecover(reuse_logs)
  \/ OpenInstall

Spec == Init /\ [][Next]_vars

\* The threads of the process get to run, that of the destructor included.
Fairness ==
  /\ \A t \in Threads : WF_vars(WriterStep(t))
  /\ WF_vars(BackgroundStep)
  /\ WF_vars(Closed)

FairSpec == Spec /\ Fairness

-----------------------------------------------------------------------------
(* Properties. *)

\* A write with sync that returned OK is there, in every later incarnation of
\* the database, whatever crashed in between (WriteOptions::sync).
SyncedWritesSurvive ==
  open = "up" => acked \cap sync_batches \subseteq BatchesOf(Contents)

\* What Open would find on the disk if the process died now.
Recoverable ==
  LET v == Replay(manifest.edits)
  IN  EntriesOfTables(table, TablesOf(v))
        \cup UNION {EntriesOfLog(log[n]) : n \in {n \in DOMAIN log : n >= v.log_number}}

\* As long as the machine itself has not crashed, a write that returned OK is
\* there, sync or not, and would be there if the process died at this moment,
\* through memtable switches, compactions, removals of files, failures of all of
\* these, restarts of the process and restarts that are themselves interrupted.
AckedWritesStay ==
  ~power_failed =>
    /\ open = "up" => acked \subseteq BatchesOf(Contents)
    /\ acked \subseteq BatchesOf(Recoverable)

\* Whatever part of MANIFEST a crash leaves, the tables it names exist, so
\* that Open does not fail with "missing files" (DBImpl::Recover): files are
\* not removed while a version that may have been committed needs them.
RecoveryFindsItsTables ==
  \A edits \in Survivors(WrittenEdits, manifest.synced) :
    TablesOf(Replay(edits)) \subseteq DOMAIN table

\* Sequence numbers follow the order in which the writers were queued, and no
\* two batches share one, also over restarts: an earlier write can never
\* shadow a later one.  What a writer was told is done is visible to readers.
SequenceOrder ==
  open = "up" =>
    /\ \A e, f \in Contents : e.batch < f.batch <=> e.seq < f.seq
    /\ \A e \in Contents : e.batch \in acked => e.seq <= versions.last_sequence

\* Every call of Write and of TEST_CompactMemTable returns: no wakeup is lost
\* and no writer waits for a background thread that will not run.
CallsReturn == \A t \in Threads : pc[t] # "idle" ~> pc[t] = "idle"

\* Deleting the DB object terminates (~DBImpl waits for the background thread).
CloseReturns == open = "closing" ~> open = "down"

\* "Force current memtable contents to be compacted" (db_impl.h): when
\* TEST_CompactMemTable returns without an error and its null write came to the
\* front of the queue, what was in memory when it was called is in table files.
\* (BuildBatchGroup lets another writer's group complete a null write; then
\* nothing is forced, and the call still returns OK.)
FlushedWhenReturnedStep ==
  \A t \in Threads :
    pc[t] = "flushcheck" /\ pc'[t] = "idle" /\ open' = "up" /\ ~bg_error =>
      goal[t] \subseteq BatchesOf(EntriesOfTables(table, TablesOf(versions)))

FlushedWhenReturned == [][FlushedWhenReturnedStep]_vars

\* "A hybrid scheme is also possible where every Nth write is synchronous, and
\* in the event of a crash, the bulk load is restarted just after the last
\* synchronous write finished by the previous run" (doc/index.md): what was
\* written before a synchronous write in the same run is as safe as that write.
\* The code does not live up to it: a switch of the memtable leaves the old
\* log unsynced (MakeRoomForWrite), and syncing the new one does not cover it.
SyncedWriteCoversEarlierOnes ==
  open = "up" =>
    \A s \in acked \cap sync_batches :
      {b \in acked : b < s /\ run[b] = run[s]} \subseteq BatchesOf(Contents)

=============================================================================
