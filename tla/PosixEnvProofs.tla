--------------------------- MODULE PosixEnvProofs --------------------------
(***************************************************************************)
(* Proofs about PosixEnv's file locks and background queue, for any number *)
(* of processes, databases and directories and any number of opens, exits  *)
(* and failing unlocks.                                                    *)
(***************************************************************************)
EXTENDS PosixEnv, FiniteSetTheorems, TLAPS

Active == {"insert", "refused", "setlk", "failed", "forget", "open", "closing",
           "remove", "close"}

\* A database in a call of the environment, or open.
Entered == [pc : Active, dir : Directories]

DbType == db \in [Databases -> Entered \cup {NotOpen}]

Owner(d) == db[d].pc \in {"setlk", "failed", "forget", "open", "closing", "remove"}

\* The lock table: the database that put a directory there is the only one
\* there for it, and nothing else put it there unless an unlock has failed.
TableInv ==
  /\ locks_ \in [Processes -> SUBSET Directories]
  /\ \A d \in Databases : Owner(d) => db[d].dir \in locks_[ProcessOf(d)]
  /\ \A d, e \in Databases :
       Owner(d) /\ Owner(e) /\ ProcessOf(d) = ProcessOf(e) /\ db[d].dir = db[e].dir => d = e
  /\ lock_faults \in Nat
  /\ lock_faults = 0 =>
       \A p \in Processes : \A dir \in locks_[p] :
         \E d \in Databases : Owner(d) /\ ProcessOf(d) = p /\ db[d].dir = dir

\* The system's locks: a database that has not been deprived of its lock has it.
RecordInv ==
  /\ record_lock \in [Directories -> Processes \cup {Nobody}]
  /\ \A d \in Databases :
       Locked(d) /\ d \notin dropped => record_lock[db[d].dir] = ProcessOf(d)

LockInv == DbType /\ TableInv /\ RecordInv

-----------------------------------------------------------------------------
(* What the steps do to db. *)

\* A database in a call has a directory.
LEMMA InCallEntered ==
  ASSUME DbType, NEW d \in Databases, db[d] # NotOpen
  PROVE  db[d] \in Entered /\ db[d].dir \in Directories
BY DEF DbType, Entered

\* What moving to the next line of a call changes.
LEMMA GotoEffect ==
  ASSUME DbType, NEW d \in Databases, db[d] # NotOpen, NEW pc \in Active, Goto(d, pc)
  PROVE  /\ DbType'
         /\ db'[d].pc = pc /\ db'[d].dir = db[d].dir
         /\ \A e \in Databases \ {d} : db'[e] = db[e]
BY DEF DbType, Entered, Goto

\* What returning from a call changes.
LEMMA LeaveEffect ==
  ASSUME DbType, NEW d \in Databases, db' = [db EXCEPT ![d] = NotOpen]
  PROVE  /\ DbType'
         /\ db'[d] = NotOpen
         /\ \A e \in Databases \ {d} : db'[e] = db[e]
BY DEF DbType

\* A handle that is not open.
LEMMA NotOpenFacts == NotOpen.pc = "not open"
BY DEF NotOpen

-----------------------------------------------------------------------------
(* The locks. *)

\* No database is open at first.
LEMMA LockInit == PEInit => LockInv
<1> SUFFICES ASSUME PEInit PROVE LockInv
  OBVIOUS
<1>1. \A d \in Databases : db[d] = NotOpen /\ ~Owner(d) /\ ~Locked(d)
  BY DEF PEInit, NotOpen, Owner, Locked
<1>2. DbType
  BY DEF PEInit, DbType
<1>3. TableInv
  BY <1>1 DEF PEInit, TableInv
<1>4. RecordInv
  BY <1>1 DEF PEInit, RecordInv
<1> QED
  BY <1>2, <1>3, <1>4 DEF LockInv

\* A step of database d that leaves the table of locks alone, keeps d out of the
\* owners of a directory or among them, and changes no other database.
LEMMA TableKept ==
  ASSUME LockInv, NEW d \in Databases, DbType',
         UNCHANGED <<locks_, lock_faults>>,
         \A e \in Databases \ {d} : db'[e] = db[e],
         Owner(d)' <=> Owner(d),
         Owner(d) => db'[d].dir = db[d].dir
  PROVE  TableInv'
<1>1. \A e \in Databases : Owner(e)' <=> Owner(e)
  BY DEF Owner
<1>2. \A e \in Databases : Owner(e) => db'[e].dir = db[e].dir
  OBVIOUS
<1> QED
  BY <1>1, <1>2 DEF LockInv, TableInv

\* Process ProcessOf(d) takes db[d].dir from its table, and d stops owning it.
LEMMA TableRemove ==
  ASSUME LockInv, NEW d \in Databases, Owner(d), db[d].dir \in Directories,
         locks_' = [locks_ EXCEPT ![ProcessOf(d)] = @ \ {db[d].dir}],
         \A e \in Databases \ {d} : db'[e] = db[e],
         ~Owner(d)', lock_faults' = lock_faults
  PROVE  TableInv'
<1>1. \A e \in Databases \ {d} : (Owner(e)' <=> Owner(e)) /\ db'[e].dir = db[e].dir
  BY DEF Owner
<1>2. locks_' \in [Processes -> SUBSET Directories]
  BY DEF LockInv, TableInv
<1>3. \A e \in Databases : ProcessOf(e) \in Processes
  BY EnvAssumption
<1>4. ASSUME NEW e \in Databases, Owner(e)'
      PROVE  db'[e].dir \in locks_'[ProcessOf(e)]
  <2>1. e # d /\ Owner(e) /\ db'[e].dir = db[e].dir
    BY <1>1, <1>4
  <2>2. db[e].dir \in locks_[ProcessOf(e)]
    BY <2>1 DEF LockInv, TableInv
  <2>3. ProcessOf(e) # ProcessOf(d) \/ db[e].dir # db[d].dir
    BY <2>1 DEF LockInv, TableInv
  <2> QED
    BY <1>3, <2>1, <2>2, <2>3 DEF LockInv, TableInv
<1>5. ASSUME lock_faults' = 0, NEW p \in Processes, NEW dir \in locks_'[p]
      PROVE  \E e \in Databases : Owner(e)' /\ ProcessOf(e) = p /\ db'[e].dir = dir
  <2>1. dir \in locks_[p] /\ ~(p = ProcessOf(d) /\ dir = db[d].dir)
    BY <1>3 DEF LockInv, TableInv
  <2>2. PICK e \in Databases : Owner(e) /\ ProcessOf(e) = p /\ db[e].dir = dir
    BY <1>5, <2>1 DEF LockInv, TableInv
  <2> QED
    BY <1>1, <2>1, <2>2
<1>6. ASSUME NEW e \in Databases, NEW f \in Databases, Owner(e)', Owner(f)',
             ProcessOf(e) = ProcessOf(f), db'[e].dir = db'[f].dir
      PROVE  e = f
  BY <1>1, <1>6 DEF LockInv, TableInv
<1>7. lock_faults' \in Nat
  BY DEF LockInv, TableInv
<1> QED
  BY <1>2, <1>4, <1>5, <1>6, <1>7 DEF TableInv

\* close() deprives of the system's lock whoever of the process had it.
LEMMA RecordClosed ==
  ASSUME LockInv, NEW d \in Databases, NEW dir \in Directories,
         CloseFd(ProcessOf(d), dir), ~Locked(d)',
         \A e \in Databases \ {d} : db'[e] = db[e]
  PROVE  RecordInv'
<1>1. record_lock' \in [Directories -> Processes \cup {Nobody}]
  BY DEF LockInv, RecordInv, CloseFd
<1>2. ASSUME NEW e \in Databases, Locked(e)', e \notin dropped'
      PROVE  record_lock'[db'[e].dir] = ProcessOf(e)
  <2>1. e # d /\ db'[e] = db[e] /\ Locked(e)
    BY <1>2 DEF Locked
  <2>2. db[e] # NotOpen
    BY <2>1, NotOpenFacts DEF Locked
  <2>3. db[e].dir \in Directories
    BY <2>2, InCallEntered DEF LockInv
  <2>4. e \notin dropped
    BY <1>2 DEF CloseFd
  <2>5. record_lock[db[e].dir] = ProcessOf(e)
    BY <2>1, <2>4 DEF LockInv, RecordInv
  <2>6. CASE db[e].dir = dir /\ ProcessOf(e) = ProcessOf(d)
    <3>1. e \in Files(ProcessOf(d), dir)
      BY <2>2, <2>6 DEF Files
    <3> QED
      BY <1>2, <2>1, <2>5, <2>6, <3>1 DEF CloseFd
  <2>7. CASE ~(db[e].dir = dir /\ ProcessOf(e) = ProcessOf(d))
    BY <2>1, <2>3, <2>5, <2>7 DEF CloseFd, LockInv, RecordInv
  <2> QED
    BY <2>6, <2>7
<1> QED
  BY <1>1, <1>2 DEF RecordInv

\* A step of database d that leaves the system's locks alone.
LEMMA RecordKept ==
  ASSUME LockInv, NEW d \in Databases,
         record_lock' = record_lock, dropped \subseteq dropped' \cup {d},
         Locked(d)' => Locked(d) /\ db'[d].dir = db[d].dir /\ dropped' = dropped,
         \A e \in Databases \ {d} : db'[e] = db[e]
  PROVE  RecordInv'
BY DEF LockInv, RecordInv, Locked

\* A database that owns a directory, has one locked or is in a call is not
\* NotOpen.
LEMMA PcEntered ==
  ASSUME DbType, NEW d \in Databases, db[d].pc \in Active
  PROVE  db[d] # NotOpen /\ db[d] \in Entered /\ db[d].dir \in Directories
<1>1. db[d] # NotOpen
  BY NotOpenFacts DEF Active
<1> QED
  BY <1>1, InCallEntered

\* Every step keeps the invariant of the lock.
LEMMA LockNext == LockInv /\ [PENext]_pevars => LockInv'
<1> SUFFICES ASSUME LockInv, [PENext]_pevars PROVE LockInv'
  OBVIOUS
<1> USE DEF LockInv
<1>p. \A d \in Databases : ProcessOf(d) \in Processes /\ ProcessOf(d) # Nobody
  BY EnvAssumption
<1>1. ASSUME NEW d \in Databases, NEW dir \in Directories, LockFile(d, dir) PROVE LockInv'
  <2>1. db'[d].pc = "insert" /\ DbType'
    BY <1>1 DEF LockFile, DbType, Entered, Active
  <2>a. db[d].pc = "not open"
    BY <1>1, NotOpenFacts DEF LockFile
  <2>2. ~Owner(d) /\ ~Owner(d)' /\ ~Locked(d)'
    BY <2>1, <2>a DEF Owner, Locked
  <2>3. \A e \in Databases \ {d} : db'[e] = db[e]
    BY <1>1 DEF LockFile, DbType
  <2>4. TableInv'
    BY <1>1, <2>1, <2>2, <2>3, TableKept DEF LockFile, lockvars
  <2>5. RecordInv'
    BY <1>1, <2>2, <2>3, RecordKept DEF LockFile, lockvars
  <2> QED
    BY <2>1, <2>4, <2>5
<1>2. ASSUME NEW d \in Databases, LockFile_insert(d) PROVE LockInv'
  <2>1. db[d].pc = "insert" /\ db[d] # NotOpen /\ db[d].dir \in Directories
    BY <1>2, PcEntered DEF LockFile_insert, InCall, Active
  <2>2. CASE db[d].dir \in locks_[ProcessOf(d)]
    <3>1. DbType' /\ db'[d].pc = "refused" /\ \A e \in Databases \ {d} : db'[e] = db[e]
      BY <1>2, <2>1, <2>2, GotoEffect DEF LockFile_insert, Active
    <3>2. ~Owner(d) /\ ~Owner(d)' /\ ~Locked(d)'
      BY <2>1, <3>1 DEF Owner, Locked
    <3>3. TableInv'
      BY <1>2, <2>2, <3>1, <3>2, TableKept DEF LockFile_insert, bounds
    <3> QED
      BY <1>2, <2>2, <3>1, <3>2, <3>3, RecordKept DEF LockFile_insert
  <2>3. CASE db[d].dir \notin locks_[ProcessOf(d)]
    <3>1. /\ DbType' /\ db'[d].pc = "setlk" /\ db'[d].dir = db[d].dir
          /\ \A e \in Databases \ {d} : db'[e] = db[e]
      BY <1>2, <2>1, <2>3, GotoEffect DEF LockFile_insert, Active
    <3>2. Owner(d)' /\ ~Locked(d)' /\ \A e \in Databases \ {d} : Owner(e)' <=> Owner(e)
      BY <3>1 DEF Owner, Locked
    <3>3. locks_' = [locks_ EXCEPT ![ProcessOf(d)] = @ \cup {db[d].dir}]
      BY <1>2, <2>3 DEF LockFile_insert
    <3>4. /\ locks_' \in [Processes -> SUBSET Directories]
          /\ \A e \in Databases : Owner(e)' => db'[e].dir \in locks_'[ProcessOf(e)]
      BY <1>p, <2>1, <3>1, <3>2, <3>3 DEF TableInv
    <3>5. ASSUME NEW e \in Databases \ {d}, Owner(e)', ProcessOf(e) = ProcessOf(d)
          PROVE  db'[e].dir # db'[d].dir
      BY <2>3, <3>1, <3>2, <3>5 DEF TableInv
    <3>6. \A e, f \in Databases :
            Owner(e)' /\ Owner(f)' /\ ProcessOf(e) = ProcessOf(f) /\ db'[e].dir = db'[f].dir
              => e = f
      BY <3>1, <3>2, <3>5 DEF TableInv
    <3>7. ASSUME lock_faults' = 0, NEW p \in Processes, NEW dir \in locks_'[p]
          PROVE  \E e \in Databases : Owner(e)' /\ ProcessOf(e) = p /\ db'[e].dir = dir
      <4>1. CASE p = ProcessOf(d) /\ dir = db[d].dir
        BY <3>1, <3>2, <4>1
      <4>2. CASE ~(p = ProcessOf(d) /\ dir = db[d].dir)
        <5>1. dir \in locks_[p]
          BY <1>p, <3>3, <3>7, <4>2 DEF TableInv
        <5>2. PICK e \in Databases : Owner(e) /\ ProcessOf(e) = p /\ db[e].dir = dir
          BY <1>2, <3>7, <5>1 DEF TableInv, LockFile_insert, bounds
        <5>3. e # d
          BY <4>2, <5>2
        <5> QED
          BY <3>1, <3>2, <5>2, <5>3
      <4> QED
        BY <4>1, <4>2
    <3>8. TableInv'
      BY <1>2, <3>4, <3>6, <3>7 DEF TableInv, LockFile_insert, bounds
    <3> QED
      BY <1>2, <3>1, <3>2, <3>8, RecordKept DEF LockFile_insert
  <2> QED
    BY <2>2, <2>3
<1>3. ASSUME NEW d \in Databases, LockFile_refused(d) PROVE LockInv'
  <2>1. db[d].pc = "refused" /\ db[d].dir \in Directories
    BY <1>3, PcEntered DEF LockFile_refused, InCall, Active
  <2>2. DbType' /\ db'[d] = NotOpen /\ \A e \in Databases \ {d} : db'[e] = db[e]
    BY <1>3, LeaveEffect DEF LockFile_refused
  <2>3. ~Owner(d) /\ ~Owner(d)' /\ ~Locked(d)'
    BY <2>1, <2>2, NotOpenFacts DEF Owner, Locked
  <2>4. TableInv'
    BY <1>3, <2>2, <2>3, TableKept DEF LockFile_refused, bounds
  <2> QED
    BY <1>3, <2>1, <2>2, <2>3, <2>4, RecordClosed DEF LockFile_refused
<1>4. ASSUME NEW d \in Databases, LockFile_setlk(d) PROVE LockInv'
  <2>1. db[d].pc = "setlk" /\ db[d] # NotOpen /\ db[d].dir \in Directories
    BY <1>4, PcEntered DEF LockFile_setlk, InCall, Active
  <2>2. CASE record_lock[db[d].dir] \in {Nobody, ProcessOf(d)}
    <3>1. /\ DbType' /\ db'[d].pc = "open" /\ db'[d].dir = db[d].dir
          /\ \A e \in Databases \ {d} : db'[e] = db[e]
      BY <1>4, <2>1, <2>2, GotoEffect DEF LockFile_setlk, Active
    <3>2. TableInv'
      BY <1>4, <2>1, <3>1, TableKept DEF LockFile_setlk, bounds, Owner
    <3>3. record_lock' = [record_lock EXCEPT ![db[d].dir] = ProcessOf(d)] /\ dropped' = dropped
      BY <1>4, <2>2 DEF LockFile_setlk
    <3>4. record_lock' \in [Directories -> Processes \cup {Nobody}]
      BY <1>p, <3>3 DEF RecordInv
    <3>5. ASSUME NEW e \in Databases, Locked(e)', e \notin dropped'
          PROVE  record_lock'[db'[e].dir] = ProcessOf(e)
      <4>1. CASE e = d
        BY <2>1, <3>1, <3>3, <4>1 DEF RecordInv
      <4>2. CASE e # d
        <5>1. db'[e] = db[e] /\ Locked(e) /\ record_lock[db[e].dir] = ProcessOf(e)
          BY <3>1, <3>3, <3>5, <4>2 DEF Locked, RecordInv
        <5>2. db[e].dir \in Directories
          BY <5>1, PcEntered DEF Locked, Active
        <5> QED
          BY <1>p, <2>1, <2>2, <3>3, <5>1, <5>2 DEF RecordInv
      <4> QED
        BY <4>1, <4>2
    <3>6. RecordInv'
      BY <3>4, <3>5 DEF RecordInv
    <3> QED
      BY <3>1, <3>2, <3>6
  <2>3. CASE record_lock[db[d].dir] \notin {Nobody, ProcessOf(d)}
    <3>1. /\ DbType' /\ db'[d].pc = "failed" /\ db'[d].dir = db[d].dir
          /\ \A e \in Databases \ {d} : db'[e] = db[e]
      BY <1>4, <2>1, <2>3, GotoEffect DEF LockFile_setlk, Active
    <3>2. TableInv'
      BY <1>4, <2>1, <3>1, TableKept DEF LockFile_setlk, bounds, Owner
    <3>3. ~Locked(d)'
      BY <3>1 DEF Locked
    <3> QED
      BY <1>4, <2>3, <3>1, <3>2, <3>3, RecordKept DEF LockFile_setlk
  <2> QED
    BY <2>2, <2>3
<1>5. ASSUME NEW d \in Databases, LockFile_failed(d) PROVE LockInv'
  <2>1. db[d].pc = "failed" /\ db[d] # NotOpen /\ db[d].dir \in Directories
    BY <1>5, PcEntered DEF LockFile_failed, InCall, Active
  <2>2. /\ DbType' /\ db'[d].pc = "forget" /\ db'[d].dir = db[d].dir
        /\ \A e \in Databases \ {d} : db'[e] = db[e]
    BY <1>5, <2>1, GotoEffect DEF LockFile_failed, Active
  <2>3. TableInv'
    BY <1>5, <2>1, <2>2, TableKept DEF LockFile_failed, bounds, Owner
  <2>4. ~Locked(d)'
    BY <2>2 DEF Locked
  <2> QED
    BY <1>5, <2>1, <2>2, <2>3, <2>4, RecordClosed DEF LockFile_failed
<1>6. ASSUME NEW d \in Databases, LockFile_forget(d) PROVE LockInv'
  <2>1. db[d].pc = "forget" /\ db[d].dir \in Directories
    BY <1>6, PcEntered DEF LockFile_forget, InCall, Active
  <2>2. DbType' /\ db'[d] = NotOpen /\ \A e \in Databases \ {d} : db'[e] = db[e]
    BY <1>6, LeaveEffect DEF LockFile_forget
  <2>3. Owner(d) /\ ~Owner(d)' /\ ~Locked(d)'
    BY <2>1, <2>2, NotOpenFacts DEF Owner, Locked
  <2>4. TableInv'
    BY <1>6, <2>1, <2>2, <2>3, TableRemove DEF LockFile_forget, bounds
  <2> QED
    BY <1>6, <2>2, <2>3, <2>4, RecordKept DEF LockFile_forget
<1>7. ASSUME NEW d \in Databases, Close(d) PROVE LockInv'
  <2>1. db[d].pc = "open" /\ db[d] # NotOpen
    BY <1>7, PcEntered DEF Close, InCall, Active
  <2>2. /\ DbType' /\ db'[d].pc = "closing" /\ db'[d].dir = db[d].dir
        /\ \A e \in Databases \ {d} : db'[e] = db[e]
    BY <1>7, <2>1, GotoEffect DEF Close, Active
  <2>3. TableInv'
    BY <1>7, <2>1, <2>2, TableKept DEF Close, bounds, lockvars, Owner
  <2>4. RecordInv'
    BY <1>7, <2>1, <2>2, RecordKept DEF Close, lockvars, Locked
  <2> QED
    BY <2>2, <2>3, <2>4
<1>8. ASSUME NEW d \in Databases, UnlockFile(d) PROVE LockInv'
  <2>1. /\ db[d].pc = "closing" /\ db[d] # NotOpen /\ db[d].dir \in Directories
        /\ dropped' = dropped \ {d} /\ locks_' = locks_
    BY <1>8, PcEntered DEF UnlockFile, InCall, Active
  <2>2. CASE /\ Goto(d, "remove")
             /\ record_lock' = [record_lock EXCEPT ![db[d].dir] =
                                  IF @ = ProcessOf(d) THEN Nobody ELSE @]
             /\ UNCHANGED lock_faults
    <3>1. /\ DbType' /\ db'[d].pc = "remove" /\ db'[d].dir = db[d].dir
          /\ \A e \in Databases \ {d} : db'[e] = db[e]
      BY <2>1, <2>2, GotoEffect DEF Active
    <3>2. TableInv'
      BY <2>1, <2>2, <3>1, TableKept DEF Owner
    <3>3. record_lock' \in [Directories -> Processes \cup {Nobody}]
      BY <2>2 DEF RecordInv
    <3>4. ASSUME NEW e \in Databases, Locked(e)', e \notin dropped'
          PROVE  record_lock'[db'[e].dir] = ProcessOf(e)
      <4>1. e # d /\ db'[e] = db[e] /\ Locked(e) /\ e \notin dropped
        BY <2>1, <3>1, <3>4 DEF Locked
      <4>2. record_lock[db[e].dir] = ProcessOf(e)
        BY <4>1 DEF RecordInv
      <4>3. db[e].dir \in Directories
        BY <4>1, PcEntered DEF Locked, Active
      <4>4. Owner(d) /\ Owner(e)
        BY <2>1, <4>1 DEF Owner, Locked
      <4>5. db[e].dir # db[d].dir \/ ProcessOf(e) # ProcessOf(d)
        BY <4>1, <4>4 DEF TableInv
      <4> QED
        BY <2>2, <4>1, <4>2, <4>3, <4>5 DEF RecordInv
    <3>5. RecordInv'
      BY <3>3, <3>4 DEF RecordInv
    <3> QED
      BY <3>1, <3>2, <3>5
  <2>3. CASE /\ lock_faults' = lock_faults + 1
             /\ db' = [db EXCEPT ![d] = NotOpen]
             /\ UNCHANGED record_lock
    <3>1. DbType' /\ db'[d] = NotOpen /\ \A e \in Databases \ {d} : db'[e] = db[e]
      BY <2>3, LeaveEffect
    <3>2. ~Owner(d)' /\ ~Locked(d)'
      BY <3>1, NotOpenFacts DEF Owner, Locked
    <3>3. \A e \in Databases : Owner(e)' => e # d /\ Owner(e) /\ db'[e] = db[e]
      BY <3>1, <3>2 DEF Owner
    <3>4. lock_faults' \in Nat /\ lock_faults' # 0
      BY <2>3 DEF TableInv
    <3>5. TableInv'
      BY <2>1, <3>3, <3>4 DEF TableInv
    <3>6. RecordInv'
      BY <2>1, <2>3, <3>1, <3>2, RecordKept
    <3> QED
      BY <3>1, <3>5, <3>6
  <2> QED
    BY <1>8, <2>2, <2>3 DEF UnlockFile
<1>9. ASSUME NEW d \in Databases, UnlockFile_remove(d) PROVE LockInv'
  <2>1. db[d].pc = "remove" /\ db[d] # NotOpen /\ db[d].dir \in Directories
    BY <1>9, PcEntered DEF UnlockFile_remove, InCall, Active
  <2>2. DbType' /\ db'[d].pc = "close" /\ \A e \in Databases \ {d} : db'[e] = db[e]
    BY <1>9, <2>1, GotoEffect DEF UnlockFile_remove, Active
  <2>3. Owner(d) /\ ~Owner(d)' /\ ~Locked(d)'
    BY <2>1, <2>2 DEF Owner, Locked
  <2>4. TableInv'
    BY <1>9, <2>1, <2>2, <2>3, TableRemove DEF UnlockFile_remove, bounds
  <2> QED
    BY <1>9, <2>2, <2>3, <2>4, RecordKept DEF UnlockFile_remove
<1>10. ASSUME NEW d \in Databases, UnlockFile_close(d) PROVE LockInv'
  <2>1. db[d].pc = "close" /\ db[d].dir \in Directories
    BY <1>10, PcEntered DEF UnlockFile_close, InCall, Active
  <2>2. DbType' /\ db'[d] = NotOpen /\ \A e \in Databases \ {d} : db'[e] = db[e]
    BY <1>10, LeaveEffect DEF UnlockFile_close
  <2>3. ~Owner(d) /\ ~Owner(d)' /\ ~Locked(d)'
    BY <2>1, <2>2, NotOpenFacts DEF Owner, Locked
  <2>4. TableInv'
    BY <1>10, <2>2, <2>3, TableKept DEF UnlockFile_close, bounds
  <2> QED
    BY <1>10, <2>1, <2>2, <2>3, <2>4, RecordClosed DEF UnlockFile_close
<1>11. ASSUME NEW p \in Processes, Exit(p) PROVE LockInv'
  <2>1. /\ DbType'
        /\ \A d \in Databases : db'[d] = IF ProcessOf(d) = p THEN NotOpen ELSE db[d]
    BY <1>11 DEF Exit, DbType
  <2>2. \A d \in Databases : Owner(d)' => ProcessOf(d) # p /\ Owner(d) /\ db'[d] = db[d]
    BY <2>1, NotOpenFacts DEF Owner
  <2>3. \A d \in Databases : Owner(d) /\ ProcessOf(d) # p => Owner(d)' /\ db'[d] = db[d]
    BY <2>1 DEF Owner
  <2>4. \A d \in Databases : Locked(d)' => ProcessOf(d) # p /\ Locked(d) /\ db'[d] = db[d]
    BY <2>1, NotOpenFacts DEF Locked
  <2>5. /\ locks_' \in [Processes -> SUBSET Directories] /\ locks_'[p] = {}
        /\ \A r \in Processes \ {p} : locks_'[r] = locks_[r]
    BY <1>11 DEF Exit, TableInv
  <2>6. lock_faults' = lock_faults
    BY <1>11 DEF Exit
  <2>7. \A d \in Databases : Owner(d)' => db'[d].dir \in locks_'[ProcessOf(d)]
    BY <1>p, <2>2, <2>5 DEF TableInv
  <2>8. lock_faults' = 0 =>
          \A r \in Processes : \A dir \in locks_'[r] :
            \E d \in Databases : Owner(d)' /\ ProcessOf(d) = r /\ db'[d].dir = dir
    BY <2>3, <2>5, <2>6 DEF TableInv
  <2>9. TableInv'
    BY <2>2, <2>5, <2>6, <2>7, <2>8 DEF TableInv
  <2>10. ASSUME NEW d \in Databases, Locked(d)', d \notin dropped'
         PROVE  record_lock'[db'[d].dir] = ProcessOf(d)
    <3>1. ProcessOf(d) # p /\ Locked(d) /\ db'[d] = db[d]
      BY <2>4, <2>10
    <3>2. d \notin dropped
      BY <1>11, <2>10, <3>1 DEF Exit
    <3>3. db[d].dir \in Directories
      BY <3>1, PcEntered DEF Locked, Active
    <3> QED
      BY <1>11, <3>1, <3>2, <3>3 DEF Exit, RecordInv
  <2>11. RecordInv'
    BY <1>11, <2>10 DEF RecordInv, Exit
  <2> QED
    BY <2>1, <2>9, <2>11
<1>12. ASSUME UNCHANGED <<db, locks_, record_lock, dropped, lock_faults>> PROVE LockInv'
  BY <1>12 DEF DbType, TableInv, RecordInv, Owner, Locked
<1>13. CASE UNCHANGED pevars
  BY <1>12, <1>13 DEF pevars
<1>14. ASSUME NEW d \in Databases, Schedule(d) PROVE LockInv'
  BY <1>12, <1>14 DEF Schedule, lockvars
<1>15. ASSUME NEW p \in Processes, BackgroundStep(p) \/ SpuriousWakeup(p) PROVE LockInv'
  BY <1>12, <1>15
  DEF BackgroundStep, BackgroundThreadMain, BackgroundCall, SpuriousWakeup, lockvars, bounds
<1> QED
  BY <1>1, <1>2, <1>3, <1>4, <1>5, <1>6, <1>7, <1>8, <1>9, <1>10, <1>11, <1>13, <1>14, <1>15
  DEF PENext, DatabaseStep

\* So it holds in every state.
LEMMA LockInvariance == PESpec => []LockInv
BY LockInit, LockNext, PTL DEF PESpec

\* PosixLockTable keeps two databases of one process from having a directory
\* open, and nobody's failed call leaves a directory in it.
THEOREM OneOpen == PESpec => []OneOpenPerProcess
<1>1. LockInv => OneOpenPerProcess
  <2> SUFFICES ASSUME LockInv, NEW p \in Processes, NEW dir \in Directories
               PROVE  LET owners == {d \in Files(p, dir) : Owner(d)}
                      IN  /\ Cardinality(owners) <= 1
                          /\ (owners # {} => dir \in locks_[p])
                          /\ (lock_faults = 0 => (dir \in locks_[p] => owners # {}))
    BY DEF OneOpenPerProcess, Owner
  <2> DEFINE owners == {d \in Files(p, dir) : Owner(d)}
  <2>1. \A d \in Databases : Owner(d) => db[d] # NotOpen
    BY NotOpenFacts DEF Owner
  <2>2. owners = {d \in Databases : ProcessOf(d) = p /\ Owner(d) /\ db[d].dir = dir}
    BY <2>1 DEF Files
  <2> HIDE DEF owners
  <2>3. \A d, e \in owners : d = e
    BY <2>2 DEF LockInv, TableInv
  <2>4. Cardinality(owners) <= 1
    <3>1. CASE owners = {}
      BY <3>1, FS_EmptySet
    <3>2. CASE owners # {}
      <4>1. PICK d : d \in owners
        BY <3>2
      <4>2. owners = {d}
        BY <2>3, <4>1
      <4>3. Cardinality(owners) = 1
        BY <4>2, FS_Singleton, Zenon
      <4> QED
        BY <4>3
    <3> QED
      BY <3>1, <3>2
  <2>5. owners # {} => dir \in locks_[p]
    BY <2>2 DEF LockInv, TableInv
  <2>6. lock_faults = 0 => (dir \in locks_[p] => owners # {})
    BY <2>2 DEF LockInv, TableInv
  <2> QED
    BY <2>4, <2>5, <2>6 DEF owners
<1> QED
  BY <1>1, LockInvariance, PTL

\* Two databases have a directory open only when one was deprived of the
\* system's lock by a close() in its own process.
THEOREM OpenTwice == PESpec => []OpenTwiceOnlyWhenDropped
<1>1. LockInv => OpenTwiceOnlyWhenDropped
  <2> SUFFICES ASSUME LockInv, NEW d \in Databases, NEW e \in Databases, d # e,
                      Locked(d), Locked(e), db[d].dir = db[e].dir,
                      d \notin dropped, e \notin dropped
               PROVE  FALSE
    BY DEF OpenTwiceOnlyWhenDropped
  <2>1. ProcessOf(d) = ProcessOf(e)
    BY DEF LockInv, RecordInv
  <2>2. Owner(d) /\ Owner(e)
    BY DEF Locked, Owner
  <2> QED
    BY <2>1, <2>2 DEF LockInv, TableInv
<1> QED
  BY <1>1, LockInvariance, PTL

-----------------------------------------------------------------------------
(* The background work. *)

Work == {Running(d) : d \in Databases}

Queue(p) == background_work_queue_[p]

IsQueued(d) == \E k \in 1 .. Len(Queue(ProcessOf(d))) : Queue(ProcessOf(d))[k] = d

WorkType ==
  /\ background_work_queue_ \in [Processes -> Seq(Databases)]
  /\ background \in [Processes -> {NotStarted, Starting, Waiting, Woken} \cup Work]
  /\ background_compaction_scheduled_ \in [Databases -> BOOLEAN]

\* Item k of the queue of process p: scheduled work of the process, not running
\* and not in the queue a second time.
ItemOK(p, k) ==
  /\ ProcessOf(Queue(p)[k]) = p
  /\ background_compaction_scheduled_[Queue(p)[k]]
  /\ background[p] # Running(Queue(p)[k])
  /\ \A l \in 1 .. Len(Queue(p)) : Queue(p)[k] = Queue(p)[l] => k = l

RunningOK(p, d) ==
  background[p] = Running(d) => ProcessOf(d) = p /\ background_compaction_scheduled_[d]

\* Work that is scheduled is somewhere, and its database has its lock.
ScheduledOK(d) ==
  background_compaction_scheduled_[d] =>
    Locked(d) /\ (background[ProcessOf(d)] = Running(d) \/ IsQueued(d))

WorkInv ==
  /\ DbType
  /\ WorkType
  /\ \A p \in Processes : \A k \in 1 .. Len(Queue(p)) : ItemOK(p, k)
  /\ \A p \in Processes : \A d \in Databases : RunningOK(p, d)
  /\ \A d \in Databases : ScheduledOK(d)

\* What is running is told from every other state of the thread, and which
\* database it is for.
LEMMA RunningFacts ==
  /\ \A d \in Databases : Running(d).pc = "running" /\ Running(d).work = d
  /\ \A d \in Databases : Running(d) \notin {NotStarted, Starting, Waiting, Woken}
  /\ \A d, e \in Databases : Running(d) = Running(e) => d = e
  /\ \A b \in {NotStarted, Starting, Waiting, Woken} : b.pc # "running"
<1>1. \A d \in Databases : Running(d).pc = "running" /\ Running(d).work = d
  BY DEF Running
<1>2. /\ NotStarted.pc = "not started" /\ Starting.pc = "starting"
      /\ Waiting.pc = "waiting" /\ Woken.pc = "woken"
  BY DEF NotStarted, Starting, Waiting, Woken
<1>3. \A d \in Databases : Running(d) \notin {NotStarted, Starting, Waiting, Woken}
  BY <1>1, <1>2
<1>4. \A d, e \in Databases : Running(d) = Running(e) => d = e
  BY <1>1
<1>5. \A b \in {NotStarted, Starting, Waiting, Woken} : b.pc # "running"
  BY <1>2
<1> QED
  BY <1>1, <1>3, <1>4, <1>5

\* There is no work at first.
LEMMA WorkInit == PEInit => WorkInv
<1> SUFFICES ASSUME PEInit PROVE WorkInv
  OBVIOUS
<1>1. DbType
  BY DEF PEInit, DbType
<1>2. WorkType
  BY DEF PEInit, WorkType
<1>3. \A p \in Processes : Len(Queue(p)) = 0 /\ background[p] = NotStarted
  BY DEF PEInit, Queue
<1>4. \A p \in Processes : \A k \in 1 .. Len(Queue(p)) : ItemOK(p, k)
  BY <1>3
<1>5. \A p \in Processes : \A d \in Databases : RunningOK(p, d)
  BY <1>3, RunningFacts DEF RunningOK
<1>6. \A d \in Databases : ScheduledOK(d)
  BY DEF PEInit, ScheduledOK
<1> QED
  BY <1>1, <1>2, <1>4, <1>5, <1>6 DEF WorkInv

\* A step of database d that touches no work keeps its lock if it has work.
LEMMA WorkKept ==
  ASSUME WorkInv, NEW d \in Databases, DbType', UNCHANGED workvars,
         \A e \in Databases \ {d} : db'[e] = db[e],
         background_compaction_scheduled_[d] => Locked(d)'
  PROVE  WorkInv'
<1>1. \A e \in Databases : background_compaction_scheduled_[e] => Locked(e)'
  BY DEF WorkInv, ScheduledOK, Locked
<1> QED
  BY <1>1 DEF WorkInv, WorkType, ItemOK, RunningOK, ScheduledOK, IsQueued, Queue, workvars

\* The steps of LockFile and UnlockFile, and Close.
LEMMA WorkLockStep ==
  ASSUME WorkInv, DbType', NEW d \in Databases,
         DatabaseStep(d) \/ Close(d) \/ \E dir \in Directories : LockFile(d, dir)
  PROVE  WorkInv'
<1>1. UNCHANGED workvars
  BY DEF DatabaseStep, Close, LockFile, LockFile_insert, LockFile_refused, LockFile_setlk,
         LockFile_failed, LockFile_forget, UnlockFile, UnlockFile_remove, UnlockFile_close
<1>2. \A e \in Databases \ {d} : db'[e] = db[e]
  BY DEF WorkInv, DbType, DatabaseStep, Close, LockFile, LockFile_insert, LockFile_refused,
         LockFile_setlk, LockFile_failed, LockFile_forget, UnlockFile, UnlockFile_remove,
         UnlockFile_close, Goto
<1>3. ASSUME background_compaction_scheduled_[d] PROVE Locked(d)'
  <2>1. db[d].pc \in {"open", "closing"}
    BY <1>3 DEF WorkInv, ScheduledOK, Locked
  <2>2. db[d] # NotOpen
    BY <2>1, NotOpenFacts
  <2>3. ~WorkDone(d)
    BY <1>3 DEF WorkDone
  <2>4. Close(d)
    BY <2>1, <2>2, <2>3
    DEF DatabaseStep, LockFile, LockFile_insert, LockFile_refused, LockFile_setlk,
        LockFile_failed, LockFile_forget, UnlockFile, UnlockFile_remove, UnlockFile_close,
        InCall
  <2>5. Goto(d, "closing")
    BY <2>4 DEF Close
  <2>6. db'[d].pc = "closing"
    BY <2>2, <2>5, GotoEffect DEF WorkInv, Active
  <2> QED
    BY <2>6 DEF Locked
<1> QED
  BY <1>1, <1>2, <1>3, WorkKept

\* PosixEnv::Schedule.
LEMMA ScheduleWork ==
  ASSUME WorkInv, NEW d \in Databases, Schedule(d)
  PROVE  WorkInv'
<1> DEFINE p == ProcessOf(d)
<1>1. /\ p \in Processes /\ db' = db /\ db[d].pc = "open"
      /\ background_compaction_scheduled_[d] = FALSE
      /\ background_compaction_scheduled_' =
           [background_compaction_scheduled_ EXCEPT ![d] = TRUE]
      /\ background' = [background EXCEPT ![p] = AfterSignal(p)]
      /\ background_work_queue_' = [background_work_queue_ EXCEPT ![p] = Append(@, d)]
  BY EnvAssumption DEF Schedule, InCall, WorkInv, WorkType
<1>2. DbType' /\ \A e \in Databases : Locked(e)' <=> Locked(e)
  BY <1>1 DEF WorkInv, DbType, Locked
<1>3. /\ AfterSignal(p) \in {NotStarted, Starting, Waiting, Woken} \cup Work
      /\ \A e \in Databases : AfterSignal(p) = Running(e) <=> background[p] = Running(e)
  <2>1. background[p] \in {NotStarted, Starting, Waiting, Woken} \cup Work
    BY <1>1 DEF WorkInv, WorkType
  <2>2. AfterSignal(p) = background[p]
        \/ (background[p] \in {NotStarted, Waiting} /\ AfterSignal(p) \in {Starting, Woken})
    BY DEF AfterSignal
  <2> QED
    BY <2>1, <2>2, RunningFacts
<1>4. WorkType'
  BY <1>1, <1>3 DEF WorkInv, WorkType
<1>5. /\ Len(Queue(p)') = Len(Queue(p)) + 1 /\ Queue(p)'[Len(Queue(p)) + 1] = d
      /\ \A k \in 1 .. Len(Queue(p)) : Queue(p)'[k] = Queue(p)[k]
      /\ \A r \in Processes \ {p} : Queue(r)' = Queue(r)
      /\ Len(Queue(p)) \in Nat
  BY <1>1 DEF WorkInv, WorkType, Queue
<1>6. \A r \in Processes : \A e \in Databases :
        background'[r] = Running(e) <=> background[r] = Running(e)
  BY <1>1, <1>3 DEF WorkInv, WorkType
<1>7. \A e \in Databases : background_compaction_scheduled_'[e]
                             <=> background_compaction_scheduled_[e] \/ e = d
  BY <1>1 DEF WorkInv, WorkType
<1>8. background[p] # Running(d) /\ \A k \in 1 .. Len(Queue(p)) : Queue(p)[k] # d
  BY <1>1 DEF WorkInv, RunningOK, ItemOK
<1>t. \A r \in Processes : \A k \in 1 .. Len(Queue(r)) : Queue(r)[k] \in Databases
  BY DEF WorkInv, WorkType, Queue
<1>9. ASSUME NEW r \in Processes, NEW k \in 1 .. Len(Queue(r)') PROVE ItemOK(r, k)'
  <2>1. CASE r # p
    BY <1>5, <1>6, <1>7, <1>t, <2>1, SMTT(30) DEF WorkInv, ItemOK
  <2>2. CASE r = p /\ k = Len(Queue(p)) + 1
    BY <1>5, <1>6, <1>7, <1>8, <2>2, SMTT(30) DEF ItemOK
  <2>3. CASE r = p /\ k \in 1 .. Len(Queue(p))
    BY <1>5, <1>6, <1>7, <1>8, <1>t, <2>3, SMTT(30) DEF WorkInv, ItemOK
  <2> QED
    BY <1>5, <2>1, <2>2, <2>3
<1>10. \A r \in Processes : \A e \in Databases : RunningOK(r, e)'
  BY <1>6, <1>7 DEF WorkInv, RunningOK
<1>11. ASSUME NEW e \in Databases PROVE ScheduledOK(e)'
  <2>1. CASE e = d
    BY <1>1, <1>2, <1>5, <2>1 DEF ScheduledOK, IsQueued, Locked
  <2>2. CASE e # d
    <3>1. IsQueued(e) => IsQueued(e)'
      BY <1>5, EnvAssumption DEF IsQueued
    <3> QED
      BY <1>2, <1>6, <1>7, <2>2, <3>1, EnvAssumption DEF WorkInv, ScheduledOK
  <2> QED
    BY <2>1, <2>2
<1> QED
  BY <1>2, <1>4, <1>9, <1>10, <1>11 DEF WorkInv

\* PosixEnv::BackgroundThreadMain.
LEMMA ThreadMainWork ==
  ASSUME WorkInv, NEW p \in Processes, BackgroundThreadMain(p)
  PROVE  WorkInv'
<1>1. /\ DbType' /\ (\A e \in Databases : Locked(e)' <=> Locked(e))
      /\ background_compaction_scheduled_' = background_compaction_scheduled_
  BY DEF BackgroundThreadMain, WorkInv, DbType, Locked
<1>2. \A e \in Databases : background[p] # Running(e)
  BY RunningFacts DEF BackgroundThreadMain
<1>t. /\ \A r \in Processes : \A k \in 1 .. Len(Queue(r)) : Queue(r)[k] \in Databases
      /\ \A r \in Processes : Len(Queue(r)) \in Nat
  BY DEF WorkInv, WorkType, Queue
<1>3. CASE Queue(p) = <<>>
  <2>1. /\ background' = [background EXCEPT ![p] = Waiting]
        /\ background_work_queue_' = background_work_queue_
    BY <1>3 DEF BackgroundThreadMain, Queue
  <2>2. \A r \in Processes : \A e \in Databases :
          background'[r] = Running(e) <=> background[r] = Running(e)
    BY <1>2, <2>1, RunningFacts DEF WorkInv, WorkType
  <2>3. WorkType'
    BY <1>1, <2>1 DEF WorkInv, WorkType
  <2>4. \A r \in Processes : Queue(r)' = Queue(r)
    BY <2>1 DEF Queue
  <2>5. \A r \in Processes : \A k \in 1 .. Len(Queue(r)') : ItemOK(r, k)'
    BY <1>1, <1>t, <2>2, <2>4, SMTT(30) DEF WorkInv, ItemOK
  <2>6. \A r \in Processes : \A e \in Databases : RunningOK(r, e)'
    BY <1>1, <2>2 DEF WorkInv, RunningOK
  <2>7. \A e \in Databases : ScheduledOK(e)'
    BY <1>1, <2>2, <2>4, EnvAssumption DEF WorkInv, ScheduledOK, IsQueued
  <2> QED
    BY <1>1, <2>3, <2>5, <2>6, <2>7 DEF WorkInv
<1>4. CASE Queue(p) # <<>>
  <2> DEFINE d == Head(Queue(p))
  <2>1. /\ Queue(p) \in Seq(Databases) /\ Len(Queue(p)) >= 1 /\ d \in Databases
        /\ d = Queue(p)[1]
    BY <1>4 DEF WorkInv, WorkType, Queue
  <2>2. /\ background' = [background EXCEPT ![p] = Running(d)]
        /\ background_work_queue_' = [background_work_queue_ EXCEPT ![p] = Tail(@)]
    BY <1>4 DEF BackgroundThreadMain, Queue
  <2>3. /\ Queue(p)' = Tail(Queue(p))
        /\ \A r \in Processes \ {p} : Queue(r)' = Queue(r)
    BY <2>2 DEF WorkInv, WorkType, Queue
  <2>4. /\ Len(Queue(p)') = Len(Queue(p)) - 1
        /\ \A k \in 1 .. Len(Queue(p)') : Queue(p)'[k] = Queue(p)[k + 1]
    BY <2>1, <2>3
  <2> HIDE DEF d
  <2>5. background'[p] = Running(d) /\ \A r \in Processes \ {p} : background'[r] = background[r]
    BY <2>2 DEF WorkInv, WorkType
  <2>6. WorkType'
    <3>1. Running(d) \in Work
      BY <2>1 DEF Work
    <3>2. Tail(Queue(p)) \in Seq(Databases)
      BY <1>4, <2>1
    <3> QED
      BY <1>1, <2>2, <3>1, <3>2 DEF WorkInv, WorkType, Queue
  <2>7. ProcessOf(d) = p /\ background_compaction_scheduled_[d]
    BY <2>1 DEF WorkInv, ItemOK
  <2>8. ASSUME NEW r \in Processes, NEW k \in 1 .. Len(Queue(r)') PROVE ItemOK(r, k)'
    <3>1. CASE r # p
      BY <1>1, <2>3, <2>5, <3>1, SMTT(30) DEF WorkInv, ItemOK
    <3>2. CASE r = p
      <4>1. k + 1 \in 1 .. Len(Queue(p)) /\ k + 1 # 1 /\ Queue(p)'[k] = Queue(p)[k + 1]
        BY <1>t, <2>4, <3>2
      <4>2. ItemOK(p, k + 1)
        BY <4>1 DEF WorkInv
      <4>3. Queue(p)[k + 1] # d /\ Queue(p)[k + 1] \in Databases
        BY <1>t, <2>1, <4>1, <4>2 DEF ItemOK
      <4>4. background'[p] # Running(Queue(p)'[k])
        BY <2>1, <2>5, <4>1, <4>3, RunningFacts
      <4>5. ASSUME NEW l \in 1 .. Len(Queue(p)'), Queue(p)'[k] = Queue(p)'[l] PROVE k = l
        <5>1. l + 1 \in 1 .. Len(Queue(p)) /\ Queue(p)'[l] = Queue(p)[l + 1]
          BY <1>t, <2>4
        <5>2. k + 1 = l + 1
          BY <4>1, <4>2, <4>5, <5>1 DEF ItemOK
        <5> QED
          BY <3>2, <5>2, <1>t, <2>4
      <4> QED
        BY <1>1, <3>2, <4>1, <4>2, <4>4, <4>5 DEF ItemOK
    <3> QED
      BY <3>1, <3>2
  <2>9. ASSUME NEW r \in Processes, NEW e \in Databases PROVE RunningOK(r, e)'
    BY <1>1, <2>1, <2>5, <2>7, RunningFacts DEF WorkInv, RunningOK
  <2>10. ASSUME NEW e \in Databases PROVE ScheduledOK(e)'
    <3>1. CASE ProcessOf(e) # p
      BY <1>1, <2>3, <2>5, <3>1, EnvAssumption DEF WorkInv, ScheduledOK, IsQueued
    <3>2. CASE e = d
      BY <1>1, <2>5, <2>7, <3>2 DEF WorkInv, ScheduledOK
    <3>3. CASE ProcessOf(e) = p /\ e # d
      <4>1. SUFFICES ASSUME background_compaction_scheduled_[e]
                     PROVE  Locked(e) /\ IsQueued(e)'
        BY <1>1, <4>1 DEF ScheduledOK
      <4>2. Locked(e) /\ IsQueued(e)
        BY <1>2, <3>3, <4>1 DEF WorkInv, ScheduledOK
      <4>3. PICK k \in 1 .. Len(Queue(p)) : Queue(p)[k] = e
        BY <3>3, <4>2 DEF IsQueued
      <4>4. k # 1
        BY <2>1, <3>3, <4>3
      <4>5. k - 1 \in 1 .. Len(Queue(p)') /\ (k - 1) + 1 = k
        BY <1>t, <2>4, <4>3, <4>4
      <4> QED
        BY <2>4, <3>3, <4>2, <4>3, <4>5 DEF IsQueued
    <3> QED
      BY <3>1, <3>2, <3>3
  <2> QED
    BY <1>1, <2>6, <2>8, <2>9, <2>10 DEF WorkInv
<1> QED
  BY <1>3, <1>4

\* DBImpl::BackgroundCall.
LEMMA BackgroundCallWork ==
  ASSUME WorkInv, NEW p \in Processes, BackgroundCall(p)
  PROVE  WorkInv'
<1>1. /\ DbType' /\ (\A e \in Databases : Locked(e)' <=> Locked(e))
      /\ background' = [background EXCEPT ![p] = Woken]
  BY DEF BackgroundCall, WorkInv, DbType, Locked
<1>2. PICK d \in Databases : background[p] = Running(d) /\ background[p].work = d
  <2>1. background[p] \in {NotStarted, Starting, Waiting, Woken} \cup Work
    BY DEF WorkInv, WorkType
  <2>2. background[p].pc = "running"
    BY DEF BackgroundCall
  <2>3. background[p] \in Work
    BY <2>1, <2>2, RunningFacts
  <2> QED
    BY <2>3, RunningFacts DEF Work
<1>3. ProcessOf(d) = p /\ background_compaction_scheduled_[d]
  BY <1>2 DEF WorkInv, RunningOK
<1>4. /\ \A k \in 1 .. Len(Queue(p)) : Queue(p)[k] # d
      /\ \A r \in Processes : \A k \in 1 .. Len(Queue(r)) : Queue(r)[k] \in Databases
      /\ \A r \in Processes : Len(Queue(r)) \in Nat
  <2>1. \A k \in 1 .. Len(Queue(p)) : Queue(p)[k] # d
    BY <1>2 DEF WorkInv, ItemOK
  <2> QED
    BY <2>1 DEF WorkInv, WorkType, Queue
<1>5. /\ \A e \in Databases : background'[p] # Running(e)
      /\ \A r \in Processes \ {p} : background'[r] = background[r]
      /\ background' \in [Processes -> {NotStarted, Starting, Waiting, Woken} \cup Work]
  BY <1>1, RunningFacts DEF WorkInv, WorkType
<1>6. CASE /\ background_compaction_scheduled_' =
                [background_compaction_scheduled_ EXCEPT ![d] = FALSE]
           /\ UNCHANGED background_work_queue_
  <2>1. /\ WorkType' /\ ~background_compaction_scheduled_'[d]
        /\ \A e \in Databases \ {d} : background_compaction_scheduled_'[e]
                                        = background_compaction_scheduled_[e]
        /\ \A r \in Processes : Queue(r)' = Queue(r)
    BY <1>2, <1>5, <1>6 DEF WorkInv, WorkType, Queue
  <2>2. ASSUME NEW r \in Processes, NEW k \in 1 .. Len(Queue(r)') PROVE ItemOK(r, k)'
    <3>1. Queue(r)[k] \in Databases /\ Queue(r)' = Queue(r) /\ ItemOK(r, k)
      BY <1>4, <2>1, <2>2 DEF WorkInv
    <3>2. Queue(r)[k] # d
      BY <1>3, <1>4, <2>1, <3>1 DEF ItemOK
    <3> QED
      BY <1>5, <2>1, <3>1, <3>2 DEF ItemOK
  <2>3. ASSUME NEW r \in Processes, NEW e \in Databases PROVE RunningOK(r, e)'
    BY <1>3, <1>5, <2>1 DEF WorkInv, RunningOK
  <2>4. ASSUME NEW e \in Databases PROVE ScheduledOK(e)'
    <3>1. CASE e = d
      BY <2>1, <3>1 DEF ScheduledOK
    <3>2. CASE e # d
      <4>1. ProcessOf(e) = p => background[ProcessOf(e)] # Running(e)
        BY <1>2, <3>2, RunningFacts
      <4> QED
        BY <1>1, <1>5, <2>1, <3>2, <4>1, EnvAssumption, SMTT(30) DEF WorkInv, ScheduledOK, IsQueued
    <3> QED
      BY <3>1, <3>2
  <2> QED
    BY <1>1, <2>1, <2>2, <2>3, <2>4 DEF WorkInv
<1>7. CASE /\ background_work_queue_' = [background_work_queue_ EXCEPT ![p] = Append(@, d)]
           /\ UNCHANGED background_compaction_scheduled_
  <2>1. WorkType'
    BY <1>2, <1>5, <1>7 DEF WorkInv, WorkType
  <2>2. /\ Len(Queue(p)') = Len(Queue(p)) + 1 /\ Queue(p)'[Len(Queue(p)) + 1] = d
        /\ \A k \in 1 .. Len(Queue(p)) : Queue(p)'[k] = Queue(p)[k]
        /\ \A r \in Processes \ {p} : Queue(r)' = Queue(r)
    BY <1>2, <1>7, SMTT(30) DEF WorkInv, WorkType, Queue
  <2>3. ASSUME NEW r \in Processes, NEW k \in 1 .. Len(Queue(r)') PROVE ItemOK(r, k)'
    <3>1. CASE r # p
      BY <1>5, <1>7, <2>2, <3>1, SMTT(30) DEF WorkInv, ItemOK
    <3>2. CASE r = p /\ k = Len(Queue(p)) + 1
      BY <1>2, <1>3, <1>4, <1>5, <1>7, <2>2, <3>2 DEF ItemOK
    <3>3. CASE r = p /\ k \in 1 .. Len(Queue(p))
      BY <1>4, <1>5, <1>7, <2>2, <3>3, SMTT(30) DEF WorkInv, ItemOK
    <3> QED
      BY <1>4, <2>2, <3>1, <3>2, <3>3
  <2>4. \A r \in Processes : \A e \in Databases : RunningOK(r, e)'
    BY <1>5, <1>7 DEF WorkInv, RunningOK
  <2>5. ASSUME NEW e \in Databases PROVE ScheduledOK(e)'
    <3>1. CASE e = d
      <4>1. IsQueued(d)'
        BY <1>3, <1>4, <2>2 DEF IsQueued
      <4> QED
        BY <1>1, <3>1, <4>1, <1>3 DEF WorkInv, ScheduledOK
    <3>2. CASE e # d
      <4>1. ProcessOf(e) = p => background[ProcessOf(e)] # Running(e)
        BY <1>2, <3>2, RunningFacts
      <4>2. IsQueued(e) => IsQueued(e)'
        BY <1>4, <2>2, EnvAssumption DEF IsQueued
      <4> QED
        BY <1>1, <1>5, <1>7, <4>1, <4>2, EnvAssumption DEF WorkInv, ScheduledOK
    <3> QED
      BY <3>1, <3>2
  <2> QED
    BY <1>1, <2>1, <2>3, <2>4, <2>5 DEF WorkInv
<1> QED
  BY <1>2, <1>6, <1>7 DEF BackgroundCall

\* The wakeup of a thread that waits.
LEMMA WakeupWork ==
  ASSUME WorkInv, NEW p \in Processes, SpuriousWakeup(p)
  PROVE  WorkInv'
<1>1. /\ DbType' /\ (\A e \in Databases : Locked(e)' <=> Locked(e))
      /\ background_compaction_scheduled_' = background_compaction_scheduled_
      /\ \A r \in Processes : Queue(r)' = Queue(r)
  BY DEF SpuriousWakeup, WorkInv, DbType, Locked, Queue
<1>2. WorkType'
  BY DEF SpuriousWakeup, WorkInv, WorkType
<1>3. \A r \in Processes : \A e \in Databases :
        background'[r] = Running(e) <=> background[r] = Running(e)
  BY RunningFacts DEF SpuriousWakeup, WorkInv, WorkType
<1>4. \A r \in Processes : \A k \in 1 .. Len(Queue(r)) : Queue(r)[k] \in Databases
  BY DEF WorkInv, WorkType, Queue
<1>5. \A r \in Processes : \A k \in 1 .. Len(Queue(r)') : ItemOK(r, k)'
  BY <1>1, <1>3, <1>4, SMTT(30) DEF WorkInv, ItemOK
<1>6. \A r \in Processes : \A e \in Databases : RunningOK(r, e)'
  BY <1>1, <1>3 DEF WorkInv, RunningOK
<1>7. \A e \in Databases : ScheduledOK(e)'
  BY <1>1, <1>3, EnvAssumption DEF WorkInv, ScheduledOK, IsQueued
<1> QED
  BY <1>1, <1>2, <1>5, <1>6, <1>7 DEF WorkInv

\* The exit of a process.
LEMMA ExitWork ==
  ASSUME WorkInv, NEW p \in Processes, Exit(p)
  PROVE  WorkInv'
<1>1. /\ DbType'
      /\ \A e \in Databases : ProcessOf(e) # p => (Locked(e)' <=> Locked(e))
  BY DEF Exit, WorkInv, DbType, Locked
<1>2. /\ WorkType' /\ Queue(p)' = <<>> /\ background'[p] = NotStarted
      /\ \A r \in Processes \ {p} : Queue(r)' = Queue(r) /\ background'[r] = background[r]
  BY DEF Exit, WorkInv, WorkType, Queue
<1>3. \A e \in Databases : background_compaction_scheduled_'[e]
                             <=> ProcessOf(e) # p /\ background_compaction_scheduled_[e]
  BY DEF Exit
<1>4. \A r \in Processes : \A k \in 1 .. Len(Queue(r)) : Queue(r)[k] \in Databases
  BY DEF WorkInv, WorkType, Queue
<1>5. ASSUME NEW r \in Processes, NEW k \in 1 .. Len(Queue(r)') PROVE ItemOK(r, k)'
  <2>1. r # p
    BY <1>2, <1>5
  <2> QED
    BY <1>2, <1>3, <1>4, <1>5, <2>1, SMTT(30) DEF WorkInv, ItemOK
<1>6. \A r \in Processes : \A e \in Databases : RunningOK(r, e)'
  BY <1>2, <1>3, RunningFacts, SMTT(30) DEF WorkInv, RunningOK
<1>7. \A e \in Databases : ScheduledOK(e)'
  BY <1>1, <1>2, <1>3, EnvAssumption DEF WorkInv, ScheduledOK, IsQueued
<1> QED
  BY <1>1, <1>2, <1>5, <1>6, <1>7 DEF WorkInv

\* Every step keeps the invariant of the background work.
LEMMA WorkNext == LockInv /\ WorkInv /\ [PENext]_pevars => WorkInv'
<1> SUFFICES ASSUME LockInv, WorkInv, [PENext]_pevars PROVE WorkInv'
  OBVIOUS
<1>1. DbType'
  BY LockNext DEF LockInv
<1>2. CASE UNCHANGED pevars
  BY <1>2
  DEF pevars, WorkInv, DbType, WorkType, ItemOK, RunningOK, ScheduledOK, IsQueued, Queue, Locked
<1>3. CASE \E d \in Databases : \/ DatabaseStep(d) \/ Close(d)
                                \/ \E dir \in Directories : LockFile(d, dir)
  BY <1>1, <1>3, WorkLockStep
<1>4. CASE \E d \in Databases : Schedule(d)
  BY <1>4, ScheduleWork
<1>5. CASE \E p \in Processes : BackgroundStep(p) \/ SpuriousWakeup(p) \/ Exit(p)
  BY <1>5, ThreadMainWork, BackgroundCallWork, WakeupWork, ExitWork DEF BackgroundStep
<1> QED
  BY <1>2, <1>3, <1>4, <1>5 DEF PENext

\* The background thread works only for databases that have their lock, for
\* each at most once at a time, and ~DBImpl's wait sees all of that work.
THEOREM WorkWhileLocked == PESpec => []WorkOnlyWhileLocked
<1>1. WorkInv => WorkOnlyWhileLocked
  <2> SUFFICES ASSUME WorkInv, NEW d \in Databases
               PROVE  LET queue   == Queue(ProcessOf(d))
                          queued  == {k \in DOMAIN queue : queue[k] = d}
                          running == background[ProcessOf(d)] = Running(d)
                      IN  /\ \A k, l \in queued : k = l /\ ~running
                          /\ background_compaction_scheduled_[d] <=> running \/ queued # {}
                          /\ background_compaction_scheduled_[d] => Locked(d)
    BY DEF WorkOnlyWhileLocked, Queue
  <2> DEFINE p == ProcessOf(d)
             queued == {k \in 1 .. Len(Queue(p)) : Queue(p)[k] = d}
  <2>1. p \in Processes /\ DOMAIN Queue(p) = 1 .. Len(Queue(p))
    BY EnvAssumption DEF WorkInv, WorkType, Queue
  <2>2. \A k, l \in queued : k = l /\ background[p] # Running(d)
    BY <2>1 DEF WorkInv, ItemOK
  <2>3. queued # {} => background_compaction_scheduled_[d]
    BY <2>1 DEF WorkInv, ItemOK
  <2>4. background[p] = Running(d) => background_compaction_scheduled_[d]
    BY <2>1 DEF WorkInv, RunningOK
  <2>5. background_compaction_scheduled_[d] =>
          Locked(d) /\ (background[p] = Running(d) \/ queued # {})
    BY DEF WorkInv, ScheduledOK, IsQueued
  <2> QED
    BY <2>1, <2>2, <2>3, <2>4, <2>5
<1> QED
  BY <1>1, WorkInit, WorkNext, LockInvariance, PTL DEF PESpec

=============================================================================
