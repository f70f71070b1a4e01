------------------------------ MODULE PosixEnv -----------------------------
(***************************************************************************)
(* File locks and background work of PosixEnv (leveldb/util/env_posix.cc)  *)
(* as a database uses them: it locks the LOCK file of its directory when   *)
(* it is opened, has at most one piece of work scheduled at a time, and    *)
(* its destructor waits for that work before it unlocks                    *)
(* (leveldb/db/db_impl.cc).                                                *)
(*                                                                         *)
(* A process has one environment: one table of locks, one queue and one    *)
(* background thread, shared by its databases.  The system's record locks  *)
(* belong to the process, and closing any descriptor of a file gives up    *)
(* the lock its process has on it.                                         *)
(***************************************************************************)
EXTENDS Integers, Sequences, FiniteSets

CONSTANTS
  Databases,      \* DBImpl objects
  Processes,
  ProcessOf(_),   \* the process of a database
  DirectoriesOf(_), \* the directories it may be opened on
  Nobody,         \* no process
  MaxOpens,       \* bound: calls of LockFile
  MaxWork,        \* bound: calls of Schedule
  MaxLockFaults,  \* bound: failing system calls
  MaxExits        \* bound: exits of processes

ASSUME EnvAssumption ==
  /\ \A d \in Databases : ProcessOf(d) \in Processes
  /\ Nobody \notin Processes
  /\ {MaxOpens, MaxWork, MaxLockFaults, MaxExits} \subseteq Nat

Directories == UNION {DirectoriesOf(d) : d \in Databases}

VARIABLES
  db,             \* where each database is in its calls of the environment
  locks_,         \* locked_files_ of each process
  record_lock,    \* the process that has the system's lock on a LOCK file
  background_work_queue_,
  background,     \* the background thread of each process
  background_compaction_scheduled_,
  dropped,        \* ghost: databases whose system lock was given up under them
  opens, work, lock_faults, exits

pevars == <<db, locks_, record_lock, background_work_queue_, background,
            background_compaction_scheduled_, dropped, opens, work, lock_faults, exits>>

lockvars == <<locks_, record_lock, dropped>>
workvars == <<background_work_queue_, background, background_compaction_scheduled_>>
bounds   == <<opens, work, lock_faults, exits>>

NotOpen == [pc |-> "not open"]

\* The states of the background thread.
NotStarted == [pc |-> "not started"]
Starting   == [pc |-> "starting"]
Waiting    == [pc |-> "waiting"]
Woken      == [pc |-> "woken"]
Running(d) == [pc |-> "running", work |-> d]

InCall(d, pc) == db[d].pc = pc

Goto(d, pc) == db' = [db EXCEPT ![d].pc = pc]

\* The database has got the lock and not begun to give it up.
Locked(d) == db[d].pc \in {"open", "closing"}

Files(p, dir) == {d \in Databases : ProcessOf(d) = p /\ db[d] # NotOpen /\ db[d].dir = dir}

-----------------------------------------------------------------------------
(* LockFile and UnlockFile. *)

\* close() by a thread of process p.
CloseFd(p, dir) ==
  /\ record_lock' = [record_lock EXCEPT ![dir] = IF @ = p THEN Nobody ELSE @]
  /\ dropped' = IF record_lock[dir] # p THEN dropped
                ELSE dropped \cup {d \in Files(p, dir) : Locked(d)}

LockFile(d, dir) ==
  /\ db[d] = NotOpen /\ dir \in DirectoriesOf(d)
  /\ opens < MaxOpens /\ opens' = opens + 1
  /\ db' = [db EXCEPT ![d] = [pc |-> "insert", dir |-> dir]]
  /\ UNCHANGED <<lockvars, workvars, work, lock_faults, exits>>

\* Mutant: a name that is in the table already is locked again.
LockFile_insertUnchecked(d) ==
  /\ InCall(d, "insert")
  /\ Goto(d, "setlk")
  /\ locks_' = [locks_ EXCEPT ![ProcessOf(d)] = @ \cup {db[d].dir}]
  /\ UNCHANGED <<record_lock, dropped, workvars, bounds>>

\* PosixLockTable::Insert.
LockFile_insert(d) ==
  LET p == ProcessOf(d)
  IN  /\ InCall(d, "insert")
      /\ IF db[d].dir \in locks_[p]
         THEN Goto(d, "refused") /\ UNCHANGED locks_
         ELSE Goto(d, "setlk") /\ locks_' = [locks_ EXCEPT ![p] = @ \cup {db[d].dir}]
      /\ UNCHANGED <<record_lock, dropped, workvars, bounds>>

\* "already held by process"
LockFile_refused(d) ==
  /\ InCall(d, "refused")
  /\ CloseFd(ProcessOf(d), db[d].dir)
  /\ db' = [db EXCEPT ![d] = NotOpen]
  /\ UNCHANGED <<locks_, workvars, bounds>>

\* Mutant: the answer of fcntl is not looked at.
LockFile_setlkUnchecked(d) ==
  LET p == ProcessOf(d)
  IN  /\ InCall(d, "setlk")
      /\ Goto(d, "open")
      /\ record_lock' = [record_lock EXCEPT ![db[d].dir] = IF @ = Nobody THEN p ELSE @]
      /\ UNCHANGED <<locks_, dropped, workvars, bounds>>

\* LockOrUnlock(fd, true): F_SETLK does not wait.
LockFile_setlk(d) ==
  LET p == ProcessOf(d)
  IN  /\ InCall(d, "setlk")
      /\ IF record_lock[db[d].dir] \in {Nobody, p}
         THEN Goto(d, "open") /\ record_lock' = [record_lock EXCEPT ![db[d].dir] = p]
         ELSE Goto(d, "failed") /\ UNCHANGED record_lock
      /\ UNCHANGED <<locks_, dropped, workvars, bounds>>

LockFile_failed(d) ==
  /\ InCall(d, "failed")
  /\ CloseFd(ProcessOf(d), db[d].dir)
  /\ Goto(d, "forget")
  /\ UNCHANGED <<locks_, workvars, bounds>>

LockFile_forget(d) ==
  /\ InCall(d, "forget")
  /\ locks_' = [locks_ EXCEPT ![ProcessOf(d)] = @ \ {db[d].dir}]
  /\ db' = [db EXCEPT ![d] = NotOpen]
  /\ UNCHANGED <<record_lock, dropped, workvars, bounds>>

\* ~DBImpl sets shutting_down_ and waits for the work that is scheduled.
Close(d) ==
  /\ InCall(d, "open")
  /\ Goto(d, "closing")
  /\ UNCHANGED <<lockvars, workvars, bounds>>

\* Mutant: the destructor does not wait.
WorkDoneAlways(d) == TRUE

WorkDone(d) == ~background_compaction_scheduled_[d]

\* LockOrUnlock(fd, false).  ~DBImpl does not look at the status: when it is an
\* error the lock stays in the table and its descriptor is never closed.
UnlockFile(d) ==
  /\ InCall(d, "closing") /\ WorkDone(d)
  /\ \/ /\ Goto(d, "remove")
        /\ record_lock' = [record_lock EXCEPT ![db[d].dir] =
                             IF @ = ProcessOf(d) THEN Nobody ELSE @]
        /\ UNCHANGED lock_faults
     \/ /\ lock_faults < MaxLockFaults /\ lock_faults' = lock_faults + 1
        /\ db' = [db EXCEPT ![d] = NotOpen]
        /\ UNCHANGED record_lock
  /\ dropped' = dropped \ {d}
  /\ UNCHANGED <<locks_, workvars, opens, work, exits>>

UnlockFile_remove(d) ==
  /\ InCall(d, "remove")
  /\ locks_' = [locks_ EXCEPT ![ProcessOf(d)] = @ \ {db[d].dir}]
  /\ Goto(d, "close")
  /\ UNCHANGED <<record_lock, dropped, workvars, bounds>>

UnlockFile_close(d) ==
  /\ InCall(d, "close")
  /\ CloseFd(ProcessOf(d), db[d].dir)
  /\ db' = [db EXCEPT ![d] = NotOpen]
  /\ UNCHANGED <<locks_, workvars, bounds>>

-----------------------------------------------------------------------------
(* Schedule and the background thread. *)

\* Mutant: the background thread is never signalled.
AfterSignalNone(p) == background[p]

\* The thread is started by the first call; the queue is looked at before the
\* new item is in it.
AfterSignal(p) ==
  CASE background[p] = NotStarted -> Starting
    [] background[p] = Waiting /\ background_work_queue_[p] = <<>> -> Woken
    [] OTHER -> background[p]

\* PosixEnv::Schedule by MaybeScheduleCompaction, which knows that nothing is
\* scheduled for the database.
Schedule(d) ==
  LET p == ProcessOf(d)
  IN  /\ InCall(d, "open") /\ ~background_compaction_scheduled_[d]
      /\ work < MaxWork /\ work' = work + 1
      /\ background_compaction_scheduled_' =
           [background_compaction_scheduled_ EXCEPT ![d] = TRUE]
      /\ background' = [background EXCEPT ![p] = AfterSignal(p)]
      /\ background_work_queue_' = [background_work_queue_ EXCEPT ![p] = Append(@, d)]
      /\ UNCHANGED <<db, lockvars, opens, lock_faults, exits>>

\* The loop of BackgroundThreadMain up to the call: it takes the first item, or
\* waits.
BackgroundThreadMain(p) ==
  /\ background[p] \in {Starting, Woken}
  /\ IF background_work_queue_[p] = <<>>
     THEN background' = [background EXCEPT ![p] = Waiting] /\ UNCHANGED background_work_queue_
     ELSE /\ background' = [background EXCEPT ![p] = Running(Head(background_work_queue_[p]))]
          /\ background_work_queue_' = [background_work_queue_ EXCEPT ![p] = Tail(@)]
  /\ UNCHANGED <<db, lockvars, background_compaction_scheduled_, bounds>>

SpuriousWakeup(p) ==
  /\ background[p] = Waiting
  /\ background' = [background EXCEPT ![p] = Woken]
  /\ UNCHANGED <<db, lockvars, background_work_queue_,
                 background_compaction_scheduled_, bounds>>

\* DBImpl::BackgroundCall ends: it schedules itself again when there is more to
\* do and the database is not being closed.
BackgroundCall(p) ==
  /\ background[p].pc = "running"
  /\ LET d == background[p].work
     IN  \/ /\ background_compaction_scheduled_' =
                 [background_compaction_scheduled_ EXCEPT ![d] = FALSE]
            /\ UNCHANGED <<background_work_queue_, work>>
         \/ /\ ~InCall(d, "closing") /\ work < MaxWork /\ work' = work + 1
            /\ background_work_queue_' = [background_work_queue_ EXCEPT ![p] = Append(@, d)]
            /\ UNCHANGED background_compaction_scheduled_
  /\ background' = [background EXCEPT ![p] = Woken]
  /\ UNCHANGED <<db, lockvars, opens, lock_faults, exits>>

\* A process ends at any moment; the system closes its files.
Exit(p) ==
  /\ exits < MaxExits /\ exits' = exits + 1
  /\ db' = [d \in Databases |-> IF ProcessOf(d) = p THEN NotOpen ELSE db[d]]
  /\ locks_' = [locks_ EXCEPT ![p] = {}]
  /\ record_lock' = [dir \in Directories |->
                       IF record_lock[dir] = p THEN Nobody ELSE record_lock[dir]]
  /\ background_work_queue_' = [background_work_queue_ EXCEPT ![p] = <<>>]
  /\ background' = [background EXCEPT ![p] = NotStarted]
  /\ background_compaction_scheduled_' =
       [d \in Databases |-> ProcessOf(d) # p /\ background_compaction_scheduled_[d]]
  /\ dropped' = {d \in dropped : ProcessOf(d) # p}
  /\ UNCHANGED <<opens, work, lock_faults>>

-----------------------------------------------------------------------------
PEInit ==
  /\ db = [d \in Databases |-> NotOpen]
  /\ locks_ = [p \in Processes |-> {}]
  /\ record_lock = [dir \in Directories |-> Nobody]
  /\ background_work_queue_ = [p \in Processes |-> <<>>]
  /\ background = [p \in Processes |-> NotStarted]
  /\ background_compaction_scheduled_ = [d \in Databases |-> FALSE]
  /\ dropped = {}
  /\ opens = 0 /\ work = 0 /\ lock_faults = 0 /\ exits = 0

\* The steps a call makes once it has begun, and those of the background thread.
DatabaseStep(d) ==
  \/ LockFile_insert(d)
  \/ LockFile_refused(d)
  \/ LockFile_setlk(d)
  \/ LockFile_failed(d)
  \/ LockFile_forget(d)
  \/ UnlockFile(d)
  \/ UnlockFile_remove(d)
  \/ UnlockFile_close(d)

BackgroundStep(p) == BackgroundThreadMain(p) \/ BackgroundCall(p)

PENext ==
  \/ \E d \in Databases :
       \/ \E dir \in Directories : LockFile(d, dir)
       \/ DatabaseStep(d)
       \/ Close(d)
       \/ Schedule(d)
  \/ \E p \in Processes : BackgroundStep(p) \/ SpuriousWakeup(p) \/ Exit(p)

\* Every call goes on and the background thread is scheduled by the system;
\* nobody has to wake up without being signalled.
CallRuns(d) ==
  db[d] # NotOpen /\ ~InCall(d, "open") /\ (InCall(d, "closing") => WorkDone(d))

BackgroundRuns(p) == background[p] \notin {NotStarted, Waiting}

PEFairness ==
  /\ \A d \in Databases : []<>~CallRuns(d) \/ []<><<DatabaseStep(d)>>_pevars
  /\ \A p \in Processes : []<>~BackgroundRuns(p) \/ []<><<BackgroundStep(p)>>_pevars

PESpec == PEInit /\ [][PENext]_pevars /\ PEFairness

-----------------------------------------------------------------------------
PETypeOK ==
  /\ \A d \in Databases : db[d] # NotOpen => db[d].dir \in DirectoriesOf(d)
  /\ locks_ \in [Processes -> SUBSET Directories]
  /\ record_lock \in [Directories -> Processes \cup {Nobody}]
  /\ background_work_queue_ \in [Processes -> Seq(Databases)]
  /\ dropped \subseteq Databases

\* Within a process, two databases never have the same directory open, however
\* their calls of LockFile and UnlockFile interleave with failing ones; and no
\* call that failed leaves its file in the table
\* (PosixLockTable::Insert and Remove).
OneOpenPerProcess ==
  \A p \in Processes : \A dir \in Directories :
    LET owners == {d \in Files(p, dir) :
                     db[d].pc \in {"setlk", "failed", "forget", "open", "closing", "remove"}}
    IN  /\ Cardinality(owners) <= 1
        /\ (owners # {} => dir \in locks_[p])
        /\ (lock_faults = 0 => (dir \in locks_[p] => owners # {}))

\* Databases of two processes have one directory open at a time only when the
\* system's lock of one was given up by a close() of its own process: that of a
\* LockFile that was refused, or the last one of an UnlockFile whose name had
\* already left the table.
OpenTwiceOnlyWhenDropped ==
  \A d1, d2 \in Databases :
    d1 # d2 /\ Locked(d1) /\ Locked(d2) /\ db[d1].dir = db[d2].dir
      => dropped \cap {d1, d2} # {}

\* The purpose of LockFile (leveldb/include/leveldb/env.h: "Used to prevent
\* concurrent access to the same db by multiple processes"): at most one
\* database has a directory open.
LockExcludesOthers ==
  \A d1, d2 \in Databases :
    d1 # d2 /\ Locked(d1) /\ Locked(d2) => db[d1].dir # db[d2].dir

\* Work that is queued or running belongs to a database that still has its
\* lock, and is there once: the background thread touches no file after
\* UnlockFile, although several databases share it and work schedules itself
\* again (DBImpl::~DBImpl, MaybeScheduleCompaction).
WorkOnlyWhileLocked ==
  \A d \in Databases :
    LET queue   == background_work_queue_[ProcessOf(d)]
        queued  == {k \in DOMAIN queue : queue[k] = d}
        running == background[ProcessOf(d)] = Running(d)
    IN  /\ \A k, l \in queued : k = l /\ ~running
        /\ background_compaction_scheduled_[d] <=> running \/ queued # {}
        /\ background_compaction_scheduled_[d] => Locked(d)

\* A database that is being closed is closed in the end: Schedule signals the
\* background thread only when the queue was empty, which has to be enough, and
\* the work of other databases ahead of it in the queue does not go on for ever.
CloseFinishes ==
  \A d \in Databases : InCall(d, "closing") ~> ~InCall(d, "closing")

=============================================================================
