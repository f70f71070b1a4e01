---------------------------- MODULE RepairProofs ---------------------------
(***************************************************************************)
(* Proofs about RepairDB: whatever the files it finds, however often it    *)
(* dies or a system call fails and it is begun again, it destroys nothing  *)
(* that can be read, and what it returns as repaired is sound.  The steps  *)
(* that scan and copy tables are here, the others in RepairInvProofs.      *)
(***************************************************************************)
EXTENDS RepairInvProofs

-----------------------------------------------------------------------------
(* The tables. *)

\* The repairer when it is done with a table.
AfterTable(r) ==
  /\ r \in Repairers /\ r.pc = "convert" /\ r.logs_ = repairer.logs_ /\ r.saved = {}
  /\ r.scanned = {} /\ r.misread = repairer.misread
  /\ Distinct(r.table_numbers_) /\ Elements(r.table_numbers_) = Pending \ {Current}

LEMMA CurrentIsPending ==
  ASSUME RepairInv, Repairing, repairer.table_numbers_ # <<>>
  PROVE  /\ repairer \in Repairers /\ Current \in Pending /\ Current \in Nat
         /\ Current < repairer.next_file_number_ /\ Current \notin repairer.tables_
         /\ Tail(repairer.table_numbers_) \in Seq(Nat) /\ Distinct(Tail(repairer.table_numbers_))
         /\ Elements(Tail(repairer.table_numbers_)) = Pending \ {Current}
<1>1. repairer \in Repairers /\ repairer.table_numbers_ \in Seq(Nat)
      /\ Distinct(repairer.table_numbers_)
  BY DEF RepairInv, RepairTypes, Repairers, Numbers
<1>2. /\ Current \in Pending /\ Current \in Nat
      /\ Tail(repairer.table_numbers_) \in Seq(Nat) /\ Distinct(Tail(repairer.table_numbers_))
      /\ Elements(Tail(repairer.table_numbers_)) = Pending \ {Current}
  BY <1>1, TailElements DEF Current, Pending
<1>3. Current < repairer.next_file_number_ /\ Current \notin repairer.tables_
  BY <1>2 DEF RepairInv, Numbers
<1> QED
  BY <1>1, <1>2, <1>3

LEMMA TableDropped ==
  ASSUME RepairInv, Repairing, repairer.table_numbers_ # <<>>
  PROVE  /\ AfterTable(Dropped) /\ Dropped.tables_ = repairer.tables_
         /\ Dropped.max_sequence = repairer.max_sequence
         /\ Dropped.next_file_number_ = repairer.next_file_number_
<1> DEFINE rest == Tail(repairer.table_numbers_)
<1>1. repairer \in Repairers /\ rest \in Seq(Nat) /\ Distinct(rest)
      /\ Elements(rest) = Pending \ {Current}
  BY CurrentIsPending
<1> HIDE DEF rest
<1>2. Dropped = [repairer EXCEPT !.pc = "convert", !.table_numbers_ = rest, !.scanned = {},
                                 !.saved = {}]
  BY <1>1 DEF Dropped, Repairers, rest
<1>3. "convert" \in Steps
  BY DEF Steps
<1>4. /\ Dropped \in Repairers /\ Dropped.pc = "convert" /\ Dropped.logs_ = repairer.logs_
      /\ Dropped.saved = {} /\ Dropped.scanned = {} /\ Dropped.misread = repairer.misread
      /\ Dropped.table_numbers_ = rest
      /\ Dropped.tables_ = repairer.tables_ /\ Dropped.max_sequence = repairer.max_sequence
      /\ Dropped.next_file_number_ = repairer.next_file_number_
  BY <1>1, <1>2, <1>3 DEF Repairers
<1> QED
  BY <1>1, <1>4 DEF AfterTable

LEMMA TableListed ==
  ASSUME RepairInv, Repairing, repairer.table_numbers_ # <<>>, NEW e, Entries(e)
  PROVE  LET r == Listed(Current, e)
         IN  /\ AfterTable(r) /\ r.tables_ = repairer.tables_ \cup {Current}
             /\ repairer.max_sequence <= r.max_sequence /\ \A s \in e : s <= r.max_sequence
             /\ r.next_file_number_ = repairer.next_file_number_
<1> DEFINE later == LaterSequence(repairer.max_sequence, e)
           r == Listed(Current, e)
<1>1. /\ AfterTable(Dropped) /\ Dropped.tables_ = repairer.tables_
      /\ Dropped.max_sequence = repairer.max_sequence
      /\ Dropped.next_file_number_ = repairer.next_file_number_
  BY TableDropped
<1>2. Current \in Nat /\ repairer \in Repairers
  BY CurrentIsPending
<1>3. later \in Nat /\ repairer.max_sequence <= later /\ \A s \in e : s <= later
  BY <1>2, LaterSequenceLarger DEF Entries, Repairers
<1> HIDE DEF later
<1>4. r = [Dropped EXCEPT !.tables_ = repairer.tables_ \cup {Current}, !.max_sequence = later]
  BY <1>1 DEF Listed, AfterTable, Repairers, later
<1>5. repairer.tables_ \cup {Current} \in SUBSET Nat
  BY <1>2 DEF Repairers
<1> HIDE DEF r
<1>6. /\ r \in Repairers /\ r.pc = "convert" /\ r.logs_ = repairer.logs_ /\ r.saved = {}
      /\ r.scanned = {} /\ r.misread = repairer.misread
      /\ r.table_numbers_ = Dropped.table_numbers_
      /\ r.tables_ = repairer.tables_ \cup {Current} /\ r.max_sequence = later
      /\ r.next_file_number_ = repairer.next_file_number_
  BY <1>1, <1>3, <1>4, <1>5 DEF AfterTable, Repairers
<1>7. AfterTable(r)
  BY <1>1, <1>6 DEF AfterTable
<1> QED
  BY <1>3, <1>6, <1>7 DEF r

\* The tables that are not being worked on stay as they are.
OthersStay ==
  /\ \A n \in DOMAIN table_files :
       n # Current /\ n \notin CopyInProgress =>
         n \in DOMAIN table_files' /\ table_files'[n] = table_files[n]
  /\ \A n \in DOMAIN table_files' : n = Current \/ n \in DOMAIN table_files

\* The part of the invariant that every end of the work on a table preserves.
LEMMA TableDone ==
  ASSUME RepairInv, Repairing, NoLogs, repairer.table_numbers_ # <<>>,
         AfterTable(repairer'), OthersStay, Directory(table_files'), UNCHANGED log_files,
         repair_faults' \in Nat,
         repairer.next_file_number_ <= repairer'.next_file_number_,
         repairer.max_sequence <= repairer'.max_sequence,
         \/ repairer'.tables_ = repairer.tables_
         \/ /\ repairer'.tables_ = repairer.tables_ \cup {Current}
            /\ Current \in DOMAIN table_files' /\ table_files'[Current].sound
            /\ Current \notin repairer.misread =>
                 \A s \in table_files'[Current].entries : s <= repairer'.max_sequence,
         LogsArchivedOnce', WithoutFailures', AllKept', AllAccounted'
  PROVE  RepairInv'
<1>1. repairer \in Repairers /\ Current \in Pending /\ Current \in Nat
      /\ Current < repairer.next_file_number_ /\ Current \notin repairer.tables_
  BY CurrentIsPending
<1>2. Repairing' /\ ~Copying' /\ Pending' = Pending \ {Current}
  BY DEF AfterTable, Repairing, NoRepairer, Copying, Pending
<1>3. RepairTypes'
  <2>1. Directory(log_files)'
    BY DEF RepairInv, RepairTypes
  <2> QED BY <2>1, NoEntries DEF RepairTypes, AfterTable
<1>4. CopyInProgress \cap (Pending \cup repairer.tables_) = {}
  BY DEF RepairInv, Copies, CopyInProgress
<1>5. Numbers'
  <2> DEFINE next == repairer.next_file_number_
             after == repairer'.next_file_number_
  <2>1. next \in Nat /\ after \in Nat
    BY <1>1 DEF AfterTable, Repairers
  <2>2. \A n \in DOMAIN table_files' \cup DOMAIN log_files' \cup Pending' \cup repairer'.tables_ :
          n \in Nat /\ n < next
    <3>1. \A n \in DOMAIN table_files \cup DOMAIN log_files \cup Pending \cup repairer.tables_ : n < next
      BY DEF RepairInv, Numbers
    <3>2. DOMAIN table_files' \subseteq Nat /\ DOMAIN log_files \subseteq Nat
      BY DEF RepairInv, RepairTypes, Directory
    <3>3. Pending \subseteq Nat /\ repairer'.tables_ \subseteq Nat
      BY <1>1 DEF Pending, Elements, Repairers, AfterTable
    <3> QED BY <1>1, <1>2, <3>1, <3>2, <3>3, Zenon DEF OthersStay
  <2>3. \A n \in DOMAIN table_files' \cup DOMAIN log_files' \cup Pending' \cup repairer'.tables_ :
          n < after
    BY <2>1, <2>2
  <2>4. ASSUME NEW n \in Pending'
        PROVE  n \in DOMAIN table_files'
    <3>1. n \in Pending /\ n # Current /\ n \notin CopyInProgress
      BY <1>2, <1>4, <2>4
    <3>2. n \in DOMAIN table_files
      BY <3>1 DEF RepairInv, Numbers
    <3> QED BY <3>1, <3>2 DEF OthersStay
  <2>5. repairer'.tables_ \cap Pending' = {}
    BY <1>2 DEF RepairInv, Numbers
  <2>6. /\ Distinct(repairer'.logs_) /\ Elements(repairer'.logs_) \subseteq DOMAIN log_files'
        /\ Distinct(repairer'.table_numbers_)
    BY SMTT(30) DEF RepairInv, Numbers, AfterTable
  <2> QED BY <2>3, <2>4, <2>5, <2>6 DEF Numbers
<1>6. Phases' /\ Scanned' /\ Copies' /\ repairer'.misread = repairer.misread
  BY <1>2, SMTT(30) DEF Phases, Scanned, Copies, AfterTable
<1>7. ListedTables'
  <2>1. ASSUME NEW n \in repairer'.tables_, n # Current
        PROVE  /\ n \in DOMAIN table_files' /\ table_files'[n].sound
               /\ n \notin repairer.misread =>
                    \A s \in table_files'[n].entries : s <= repairer'.max_sequence
    <3>1. n \in repairer.tables_ /\ n \notin CopyInProgress
      BY <1>4, <2>1
    <3>2. /\ n \in DOMAIN table_files /\ table_files[n].sound
          /\ n \notin repairer.misread =>
               \A s \in table_files[n].entries : s <= repairer.max_sequence
      BY <3>1 DEF RepairInv, ListedTables
    <3>3. n \in DOMAIN table_files' /\ table_files'[n] = table_files[n]
      BY <2>1, <3>1, <3>2 DEF OthersStay
    <3>4. table_files[n].entries \subseteq Nat /\ repairer.max_sequence \in Nat
          /\ repairer'.max_sequence \in Nat
      BY <1>1, <3>2 DEF RepairInv, RepairTypes, Directory, Entries, Repairers, AfterTable
    <3> QED BY <3>2, <3>3, <3>4
  <2> QED BY <1>1, <1>6, <2>1 DEF ListedTables
<1> QED
  BY <1>3, <1>5, <1>6, <1>7 DEF RepairInv

\* ScanTable: a table is listed, is to be copied, or goes to lost/.
LEMMA ScanTableStep == RepairInv /\ ScanTable => RepairInv'
<1> SUFFICES ASSUME RepairInv, ScanTable PROVE RepairInv'
  OBVIOUS
<1>1. /\ repairer.pc = "convert" /\ NoLogs /\ repairer.table_numbers_ # <<>>
      /\ UNCHANGED <<log_files, manifest>>
  BY ZenonT(30) DEF ScanTable, Scanning, RpAt, NoLogs
<1>2. Repairing /\ repairer \in Repairers
  BY <1>1, RepairIsAt DEF Steps
<1>3. ~Copying /\ CopyInProgress = {}
  BY <1>1 DEF Copying, CopyInProgress
<1>4. Current \in Pending /\ Current \in Nat /\ Current < repairer.next_file_number_
  BY <1>1, <1>2, CurrentIsPending
<1>5. Current \in DOMAIN table_files /\ Entries(table_files[Current].entries)
  BY <1>1, <1>2, <1>4 DEF RepairInv, Numbers, RepairTypes, Directory
<1>6. repair_faults \in Nat /\ Directory(table_files)
  BY DEF RepairInv, RepairTypes
<1>7. repairer.next_file_number_ \in Nat /\ repairer.max_sequence \in Nat
  BY <1>2 DEF Repairers
<1>8. CASE /\ RpFine /\ table_files[Current].sound
           /\ repairer' = Listed(Current, table_files[Current].entries)
           /\ UNCHANGED <<table_files, lost_files, careless, replaced>>
  <2>1. /\ AfterTable(repairer') /\ repairer'.tables_ = repairer.tables_ \cup {Current}
        /\ repairer.max_sequence <= repairer'.max_sequence
        /\ \A s \in table_files[Current].entries : s <= repairer'.max_sequence
        /\ repairer'.next_file_number_ = repairer.next_file_number_
    BY <1>1, <1>2, <1>5, <1>8, TableListed
  <2>2. repair_faults' = repair_faults /\ OthersStay /\ LogsArchivedOnce'
    BY <1>1, <1>8 DEF RpFine, OthersStay, RepairInv, LogsArchivedOnce
  <2>3. Repairing' /\ repairer'.pc = "convert" /\ CopyInProgress' = {}
        /\ Pending' = Pending \ {Current}
    BY <2>1 DEF AfterTable, Repairing, NoRepairer, CopyInProgress, Copying, Pending
  <2>4. WithoutFailures'
    BY <1>1, <1>2, <1>3, <1>8, <2>1, <2>2, <2>3, SMTT(30) DEF RepairInv, WithoutFailures
  <2>5. AllKept'
    BY <1>1, <1>8, <2>2 DEF RepairInv, AllKept, Kept, InFiles, InReplaced
  <2>6. AllAccounted'
    <3>1. Pending' \cup repairer'.tables_ = Pending \cup repairer.tables_
      BY <1>4, <2>1, <2>3
    <3> QED BY <1>1, <1>2, <1>8, <2>2, <3>1
        DEF RepairInv, AllAccounted, Accounted, InFiles, InReplaced
  <2> QED BY <1>1, <1>2, <1>5, <1>6, <1>7, <1>8, <2>1, <2>2, <2>4, <2>5, <2>6, TableDone, SMTT(30)
<1>9. ASSUME NEW seen, Entries(seen), NEW bad \in SUBSET Nat,
             repairer' = [repairer EXCEPT !.pc = "copy", !.scanned = seen, !.misread = @ \cup bad],
             UNCHANGED <<table_files, lost_files, careless, replaced>>,
             repair_faults' = repair_faults \/ repair_faults' = repair_faults + 1,
             repair_faults' = 0 => ~table_files[Current].sound,
             table_files[Current].entries = seen \/ Current \in bad
      PROVE  RepairInv'
  <2> DEFINE k == repairer.next_file_number_
  <2>1. k \in Nat /\ k <= k
    BY <1>7
  <2>0. PICK step \in Steps : step = "copy"
    BY DEF Steps
  <2>2. repairer' = [repairer EXCEPT !.pc = step, !.next_file_number_ = k, !.scanned = seen,
                                     !.misread = @ \cup bad]
    BY <1>2, <1>9, <2>0 DEF Repairers
  <2>3. /\ repairer.pc' = "copy" /\ repairer.logs_' = repairer.logs_
        /\ repairer.table_numbers_' = repairer.table_numbers_
        /\ repairer.scanned' = seen /\ repairer.misread' = repairer.misread \cup bad
    BY <1>2, <1>9 DEF Repairers
  <2>4. ~Copying' /\ Phases'
    BY <1>1, <2>3 DEF Copying, Phases, NoLogs
  <2>5. Scanned'
    BY <1>9, <2>3, <2>4 DEF Scanned, Current
  <2>6. repairer.next_file_number_ <= k
    BY <2>1
  <2>7. repair_faults' = 0 /\ step = "copy" => ~table_files[Current].sound
    BY <1>9
  <2>8. UNCHANGED <<table_files, log_files, lost_files, careless, replaced>>
    BY <1>1, <1>9
  <2>9. /\ Repairing /\ ~Copying /\ Entries(seen)
        /\ repair_faults' = repair_faults \/ repair_faults' = repair_faults + 1
    BY <1>2, <1>3, <1>9
  <2> HIDE DEF k
  <2> QED BY <2>1, <2>2, <2>4, <2>5, <2>6, <2>7, <2>8, <2>9, RepairGoesOnFrom, ZenonT(30)
<1>10. CASE RpFault /\ repairer' = Dropped /\ PutAway
  <2>1. /\ AfterTable(repairer') /\ repairer'.tables_ = repairer.tables_
        /\ repairer'.max_sequence = repairer.max_sequence
        /\ repairer'.next_file_number_ = repairer.next_file_number_
    BY <1>1, <1>2, <1>10, TableDropped
  <2>2. repair_faults' \in Nat /\ repair_faults' # 0
    BY <1>6, <1>10 DEF RpFault
  <2> DEFINE name == <<"table", Current>>
  <2>3. /\ DOMAIN table_files' = DOMAIN table_files \ {Current}
        /\ \A n \in DOMAIN table_files' : table_files'[n] = table_files[n]
        /\ table_files' = Without(table_files, Current) /\ UNCHANGED careless
    BY <1>10 DEF PutAway, Without
  <2>4. /\ DOMAIN lost_files' = DOMAIN lost_files \cup {name}
        /\ \A x \in DOMAIN lost_files : x # name => lost_files'[x] = lost_files[x]
        /\ lost_files'[name] = table_files[Current]
        /\ replaced' = replaced \cup FileAt(lost_files, name)
    BY <1>10 DEF PutAway, ArchiveFile, Archived, With
  <2> HIDE DEF name
  <2>5. OthersStay /\ Directory(table_files')
    BY <1>6, <2>3, DirectoryWithout DEF OthersStay
  <2>6. LogsArchivedOnce'
    <3>1. \A n : <<"log", n>> # name
      BY DEF name
    <3> QED BY <1>1, <2>4, <3>1 DEF RepairInv, LogsArchivedOnce
  <2>7. WithoutFailures'
    BY <2>2 DEF WithoutFailures
  <2>8. Repairing' /\ Pending' = Pending \ {Current}
    BY <2>1 DEF AfterTable, Repairing, NoRepairer, Pending
  <2>9. \A e : InFiles(e, lost_files) => InFiles(e, lost_files') \/ InReplaced(e)'
    BY <2>2, <2>4 DEF InFiles, InReplaced, FileAt
  <2>10. \A e : InReplaced(e) => InReplaced(e)'
    BY <2>2, <2>4 DEF InReplaced
  <2>11. \A e : e \in table_files[Current].entries => InFiles(e, lost_files')
    BY <2>4 DEF InFiles
  <2>12. \A e : InFiles(e, table_files) => InFiles(e, table_files') \/ InFiles(e, lost_files')
    BY <2>3, <2>11 DEF InFiles
  <2>13. AllKept'
    BY <1>1, <2>9, <2>10, <2>12 DEF RepairInv, AllKept, Kept
  <2>14. AllAccounted'
    <3>1. ASSUME NEW e, NEW n \in DOMAIN table_files, n \in Pending \cup repairer.tables_,
                 e \in table_files[n].entries
          PROVE  \/ \E m \in DOMAIN table_files' :
                      m \in Pending' \cup repairer'.tables_ /\ e \in table_files'[m].entries
                 \/ InFiles(e, lost_files')
      BY <2>1, <2>3, <2>8, <2>11, <3>1
    <3> QED BY <1>1, <1>2, <2>3, <2>9, <2>10, <3>1 DEF RepairInv, AllAccounted, Accounted
  <2> QED BY <1>1, <1>2, <1>7, <2>1, <2>2, <2>5, <2>6, <2>7, <2>13, <2>14, TableDone
<1>11. CASE RpFault /\ repairer' = Dropped /\ LeaveInPlace
  <2>1. /\ AfterTable(repairer') /\ repairer'.tables_ = repairer.tables_
        /\ repairer'.max_sequence = repairer.max_sequence
        /\ repairer'.next_file_number_ = repairer.next_file_number_
    BY <1>1, <1>2, <1>11, TableDropped
  <2>2. repair_faults' \in Nat /\ repair_faults' # 0
    BY <1>6, <1>11 DEF RpFault
  <2>3. careless' = careless \cup {table_files[Current]}
        /\ UNCHANGED <<lost_files, table_files, replaced>>
    BY <1>11 DEF LeaveInPlace
  <2>4. OthersStay /\ LogsArchivedOnce' /\ WithoutFailures'
    BY <1>1, <2>2, <2>3 DEF OthersStay, RepairInv, LogsArchivedOnce, WithoutFailures
  <2>5. AllKept'
    BY <1>1, <2>2, <2>3 DEF RepairInv, AllKept, Kept, InFiles, InReplaced
  <2>6. Pending' = Pending \ {Current}
    BY <2>1 DEF AfterTable, Pending
  <2>7. AllAccounted'
    BY <1>1, <1>2, <2>1, <2>2, <2>3, <2>6
    DEF RepairInv, AllAccounted, Accounted, InFiles, InReplaced
  <2> QED BY <1>1, <1>2, <1>6, <1>7, <2>1, <2>2, <2>3, <2>4, <2>5, <2>7, TableDone
<1>12. CASE RpFine /\ ~table_files[Current].sound
            /\ repairer' = [repairer EXCEPT !.pc = "copy", !.scanned = table_files[Current].entries,
                                            !.misread = @ \cup {}]
            /\ UNCHANGED <<table_files, lost_files, careless, replaced>>
  <2>1. {} \in SUBSET Nat /\ repair_faults' = repair_faults
    BY <1>12 DEF RpFine
  <2> QED BY <1>5, <1>9, <1>12, <2>1, Zenon
<1>13. ASSUME RpFault, NEW seen \in SUBSET table_files[Current].entries,
              repairer' = [repairer EXCEPT !.pc = "copy", !.scanned = seen,
                                           !.misread = @ \cup {Current}],
              UNCHANGED <<table_files, lost_files, careless, replaced>>
       PROVE  RepairInv'
  <2>1. {Current} \in SUBSET Nat /\ Current \in {Current} /\ Entries(seen)
    BY <1>4, <1>5, SomeEntries
  <2>2. repair_faults' = repair_faults + 1 /\ repair_faults' # 0
    BY <1>6, <1>13 DEF RpFault
  <2> QED BY <1>9, <1>13, <2>1, <2>2, Zenon
<1> QED
  BY <1>8, <1>10, <1>11, <1>12, <1>13, Zenon DEF ScanTable

\* A copy is begun, under a number that nothing has.
LEMMA CopyBegun ==
  ASSUME RepairInv, repairer.pc = "copy", NEW entries \in SUBSET table_files[Current].entries,
         table_files' = With(table_files, repairer.next_file_number_, Unfinished),
         repairer' = [repairer EXCEPT !.pc = "archive_table", !.saved = entries,
                                      !.next_file_number_ = @ + 1],
         UNCHANGED <<log_files, lost_files, careless, replaced>>,
         repair_faults' = repair_faults \/ repair_faults' = repair_faults + 1
  PROVE  RepairInv'
<1> DEFINE new == repairer.next_file_number_
<1>1. repair_faults \in Nat /\ repair_faults' \in Nat /\ (repair_faults' = 0 => repair_faults = 0)
      /\ (repair_faults # 0 => repair_faults' # 0)
  BY DEF RepairInv, RepairTypes
<1>2. Repairing /\ repairer \in Repairers /\ NoLogs /\ repairer.table_numbers_ # <<>>
      /\ Entries(repairer.scanned)
  <2>1. Repairing /\ repairer \in Repairers /\ Entries(repairer.scanned)
    BY RepairIsAt DEF Steps
  <2> QED BY <2>1 DEF RepairInv, Phases
<1>3. Current \in Pending /\ Current \in Nat /\ Current < new
  BY <1>2, CurrentIsPending
<1>4. Current \in DOMAIN table_files /\ Entries(entries)
  <2>1. Current \in DOMAIN table_files
    BY <1>2, <1>3 DEF RepairInv, Numbers
  <2>2. Entries(table_files[Current].entries)
    BY <2>1 DEF RepairInv, RepairTypes, Directory
  <2> QED BY <2>1, <2>2, SomeEntries
<1>5. /\ new \in Nat
      /\ \A n \in DOMAIN table_files \cup DOMAIN log_files \cup Pending \cup repairer.tables_ :
           n \in Nat /\ n < new
      /\ new \notin DOMAIN table_files \cup Pending \cup repairer.tables_
  <2>1. new \in Nat /\ repairer.table_numbers_ \in Seq(Nat) /\ repairer.tables_ \subseteq Nat
    BY <1>2 DEF Repairers
  <2>2. DOMAIN table_files \subseteq Nat /\ DOMAIN log_files \subseteq Nat
    BY DEF RepairInv, RepairTypes, Directory
  <2>3. Pending \subseteq Nat
    BY <2>1 DEF Pending, Elements
  <2>4. \A n \in DOMAIN table_files \cup DOMAIN log_files \cup Pending \cup repairer.tables_ : n < new
    BY <1>2 DEF RepairInv, Numbers
  <2> QED BY <2>1, <2>2, <2>3, <2>4
<1>6. /\ DOMAIN table_files' = DOMAIN table_files \cup {new}
      /\ \A n \in DOMAIN table_files : table_files'[n] = table_files[n]
      /\ table_files'[new] = Unfinished
  BY <1>5 DEF With
<1> HIDE DEF new
<1>7. /\ repairer' \in Repairers /\ repairer.pc' = "archive_table"
      /\ repairer.logs_' = repairer.logs_
      /\ repairer.table_numbers_' = repairer.table_numbers_
      /\ repairer.tables_' = repairer.tables_ /\ repairer.max_sequence' = repairer.max_sequence
      /\ repairer.scanned' = repairer.scanned /\ repairer.misread' = repairer.misread
      /\ repairer.saved' = entries /\ repairer.next_file_number_' = new + 1
  <2>1. repairer' = [repairer EXCEPT !.pc = "archive_table", !.saved = entries,
                                     !.next_file_number_ = new + 1]
    BY <1>2 DEF Repairers, new
  <2>2. "archive_table" \in Steps /\ new + 1 \in Nat /\ entries \in SUBSET Nat
    BY <1>4, <1>5 DEF Steps, Entries
  <2> QED BY <1>2, <2>1, <2>2, Zenon DEF Repairers
<1>8. /\ Repairing' /\ Copying' /\ CopyNumber' = new /\ CopyInProgress' = {new}
      /\ CopyInProgress = {} /\ Pending' = Pending /\ Current' = Current
  <2>1. CopyNumber' = new + 1 - 1 /\ new + 1 - 1 = new
    BY <1>5, <1>7 DEF CopyNumber
  <2>2. Copying' /\ ~Copying
    BY <1>7 DEF Copying
  <2>3. CopyInProgress' = {new} /\ CopyInProgress = {}
    BY <2>1, <2>2 DEF CopyInProgress
  <2>4. Repairing' /\ Pending' = Pending /\ Current' = Current
    BY <1>7, Zenon DEF Pending, Repairing, NoRepairer, Current
  <2> QED BY <2>1, <2>2, <2>3, <2>4
<1>9. RepairTypes'
  <2>1. Directory(table_files)'
    BY <1>5, DirectoryWith, NoEntries DEF RepairInv, RepairTypes, Unfinished, new
  <2>2. Directory(log_files)'
    BY DEF RepairInv, RepairTypes
  <2> QED BY <1>1, <1>2, <1>4, <1>7, <2>1, <2>2 DEF RepairTypes
<1>10. Numbers'
  <2>1. \A n \in DOMAIN table_files' \cup DOMAIN log_files' \cup Pending' \cup repairer.tables_' :
          n < new + 1
    BY <1>5, <1>6, <1>7, <1>8
  <2>2. \A n \in Pending : n \in DOMAIN table_files
    BY <1>2 DEF RepairInv, Numbers
  <2>3. repairer.tables_ \cap Pending = {} /\ Distinct(repairer.logs_)
        /\ Elements(repairer.logs_) \subseteq DOMAIN log_files /\ Distinct(repairer.table_numbers_)
    BY <1>2 DEF RepairInv, Numbers
  <2> QED BY <1>6, <1>7, <1>8, <2>1, <2>2, <2>3 DEF Numbers
<1>11. Phases'
  BY <1>2, <1>7 DEF Phases, NoLogs
<1>12. ListedTables'
  BY <1>2, <1>6, <1>7 DEF RepairInv, ListedTables
<1>18. Scanned'
  BY <1>2, <1>7, <1>8 DEF RepairInv, Scanned
<1>13. Copies'
  BY <1>4, <1>5, <1>6, <1>7, <1>8 DEF Copies
<1>14. LogsArchivedOnce'
  BY DEF RepairInv, LogsArchivedOnce
<1>15. WithoutFailures'
  <2> SUFFICES ASSUME repair_faults' = 0
               PROVE  /\ \A n \in DOMAIN table_files' :
                           <<"table", n>> \in DOMAIN lost_files => table_files'[n].sound
                      /\ ~table_files'[Current].sound
                      /\ \A m \in Nat : <<"table", m>> \in DOMAIN lost_files =>
                           (\E w \in DOMAIN table_files' \ {new} : m <= w) /\ m < new + 1
    BY <1>7, <1>8 DEF WithoutFailures
  <2>1. WithoutFailures /\ repair_faults = 0
    BY <1>1 DEF RepairInv
  <2>2. \A m \in Nat : <<"table", m>> \in DOMAIN lost_files =>
          (\E w \in DOMAIN table_files : m <= w) /\ m < new
    BY <1>2, <1>8, <2>1 DEF WithoutFailures, new
  <2>3. ASSUME NEW n \in DOMAIN table_files', <<"table", n>> \in DOMAIN lost_files
        PROVE  table_files'[n].sound
    <3>1. n # new
      BY <1>5, <2>2, <2>3
    <3> QED BY <1>6, <2>1, <2>3, <3>1 DEF WithoutFailures
  <2>4. ~table_files'[Current].sound
    BY <1>4, <1>6, <2>1 DEF WithoutFailures
  <2>5. \A m \in Nat : <<"table", m>> \in DOMAIN lost_files =>
          (\E w \in DOMAIN table_files' \ {new} : m <= w) /\ m < new + 1
    BY <1>5, <1>6, <2>2
  <2> QED BY <2>3, <2>4, <2>5
<1>16. AllKept'
  BY <1>1, <1>6 DEF RepairInv, AllKept, Kept, InFiles, InReplaced
<1>17. AllAccounted'
  BY <1>1, <1>2, <1>6, <1>7, <1>8 DEF RepairInv, AllAccounted, Accounted, InFiles, InReplaced
<1> QED
  BY <1>9, <1>10, <1>11, <1>12, <1>13, <1>14, <1>15, <1>16, <1>17,
     <1>18 DEF RepairInv

\* RepairTable: begin the copy, or leave the table where it is.
LEMMA RepairTableStep == RepairInv /\ RepairTable => RepairInv'
<1> SUFFICES ASSUME RepairInv, RepairTable PROVE RepairInv'
  OBVIOUS
<1> DEFINE copy == repairer.next_file_number_
           readable == table_files[Current].entries
           Begin(entries) ==
             /\ table_files' = With(table_files, copy, Unfinished)
             /\ repairer' = [repairer EXCEPT !.pc = "archive_table", !.saved = entries,
                                             !.next_file_number_ = @ + 1]
             /\ UNCHANGED careless
<1>1. repairer.pc = "copy" /\ UNCHANGED <<log_files, lost_files, manifest, replaced>>
  BY Zenon DEF RepairTable, RpAt
<1>2. Repairing /\ repairer \in Repairers
  BY <1>1, RepairIsAt DEF Steps
<1>3. NoLogs /\ repairer.table_numbers_ # <<>> /\ ~Copying /\ CopyInProgress = {}
  BY <1>1, <1>2 DEF RepairInv, Phases, Copying, CopyInProgress
<1>4. repair_faults \in Nat /\ Directory(table_files) /\ copy \in Nat
      /\ repairer.max_sequence \in Nat
  BY <1>2 DEF RepairInv, RepairTypes, Repairers
<1>5. ASSUME NEW entries \in SUBSET readable, Begin(entries), RpFine \/ RpFault
      PROVE  RepairInv'
  BY <1>1, <1>5, CopyBegun, Zenon DEF RpFine, RpFault
<1>6. ASSUME RpFault, repairer' = [Dropped EXCEPT !.next_file_number_ = @ + 1],
             careless' = careless \cup {table_files[Current]}, UNCHANGED table_files
      PROVE  RepairInv'
  <2>1. /\ AfterTable(Dropped) /\ Dropped.tables_ = repairer.tables_
        /\ Dropped.max_sequence = repairer.max_sequence /\ Dropped.next_file_number_ = copy
    BY <1>2, <1>3, TableDropped
  <2>2. repairer' = [Dropped EXCEPT !.next_file_number_ = copy + 1]
    BY <1>6, <2>1 DEF AfterTable, Repairers
  <2>3. /\ repairer' \in Repairers /\ repairer'.pc = "convert" /\ repairer'.saved = {}
        /\ repairer'.logs_ = repairer.logs_
        /\ repairer'.table_numbers_ = Dropped.table_numbers_
        /\ repairer'.tables_ = repairer.tables_
        /\ repairer'.max_sequence = repairer.max_sequence
        /\ repairer'.next_file_number_ = copy + 1
        /\ repairer'.scanned = {} /\ repairer'.misread = repairer.misread
    <3>1. Dropped \in Repairers /\ Dropped.pc = "convert" /\ Dropped.saved = {}
          /\ Dropped.scanned = {} /\ Dropped.misread = repairer.misread
          /\ Dropped.logs_ = repairer.logs_ /\ copy + 1 \in Nat
      BY <1>4, <2>1 DEF AfterTable
    <3> HIDE DEF copy
    <3> QED BY <2>1, <2>2, <3>1 DEF Repairers
  <2>4. AfterTable(repairer')
    BY <2>1, <2>3 DEF AfterTable
  <2>5. repair_faults' \in Nat /\ repair_faults' # 0
    BY <1>4, <1>6 DEF RpFault
  <2>6. OthersStay /\ LogsArchivedOnce' /\ WithoutFailures'
    BY <1>1, <1>6, <2>5 DEF OthersStay, RepairInv, LogsArchivedOnce, WithoutFailures
  <2>7. AllKept'
    BY <1>1, <1>6, <2>5 DEF RepairInv, AllKept, Kept, InFiles, InReplaced
  <2>8. Pending' = Pending \ {Current}
    BY <2>4 DEF AfterTable, Pending
  <2>9. AllAccounted'
    BY <1>1, <1>2, <1>6, <2>3, <2>5, <2>8
    DEF RepairInv, AllAccounted, Accounted, InFiles, InReplaced
  <2>10. copy <= repairer'.next_file_number_ /\ repairer.max_sequence <= repairer'.max_sequence
    BY <1>4, <2>3
  <2> QED
    BY <1>1, <1>2, <1>3, <1>4, <1>6, <2>3, <2>4, <2>5, <2>6, <2>7, <2>9, <2>10, TableDone
<1>7. \/ RpFine /\ Begin(readable)
      \/ RpFault /\ \E some \in SUBSET readable \ {readable} : Begin(some)
      \/ /\ RpFault
         /\ repairer' = [Dropped EXCEPT !.next_file_number_ = @ + 1]
         /\ careless' = careless \cup {table_files[Current]}
         /\ UNCHANGED table_files
  BY Zenon DEF RepairTable
<1> HIDE DEF Begin
<1> QED
  BY <1>5, <1>6, <1>7

\* What is known while a table is copied.
LEMMA WhileCopying ==
  ASSUME RepairInv, Copying
  PROVE  /\ Repairing /\ repairer \in Repairers /\ Entries(repairer.saved)
         /\ Entries(repairer.scanned)
         /\ NoLogs /\ repairer.table_numbers_ # <<>>
         /\ Current \in Pending /\ Current \in Nat /\ Current \notin repairer.tables_
         /\ CopyNumber \in DOMAIN table_files /\ CopyNumber # Current
         /\ CopyNumber \notin Pending \cup repairer.tables_ /\ CopyInProgress = {CopyNumber}
         /\ Current < CopyNumber /\ CopyNumber \in Nat /\ CopyNumber < repairer.next_file_number_
         /\ repairer.next_file_number_ \in Nat /\ repairer.max_sequence \in Nat
         /\ repair_faults \in Nat /\ Directory(table_files)
<1>1. Repairing /\ repairer \in Repairers /\ Entries(repairer.saved) /\ Entries(repairer.scanned)
  BY RepairIsAt DEF Copying, Steps
<1>2. NoLogs /\ repairer.table_numbers_ # <<>>
  BY <1>1 DEF RepairInv, Phases, Copying
<1>3. Current \in Pending /\ Current \in Nat /\ Current \notin repairer.tables_
      /\ Current < repairer.next_file_number_
  BY <1>1, <1>2, CurrentIsPending
<1>4. CopyNumber \in DOMAIN table_files /\ CopyNumber \notin Pending \cup repairer.tables_
  BY <1>1 DEF RepairInv, Copies
<1>5. repairer.next_file_number_ \in Nat /\ repairer.max_sequence \in Nat
  BY <1>1 DEF Repairers
<1>6. Directory(table_files) /\ repair_faults \in Nat /\ CopyNumber \in Nat
  BY <1>4 DEF RepairInv, RepairTypes, Directory
<1>7. CopyNumber = repairer.next_file_number_ - 1 /\ CopyInProgress = {CopyNumber}
  BY DEF CopyNumber, CopyInProgress
<1>8. CopyNumber # Current
  BY <1>3, <1>4
<1>9. Current < CopyNumber /\ CopyNumber < repairer.next_file_number_
  BY <1>3, <1>5, <1>6, <1>7, <1>8
<1> QED
  BY <1>1, <1>2, <1>3, <1>4, <1>5, <1>6, <1>7, <1>8, <1>9

\* The step of a copy that leaves the repairer as it is.
LEMMA CopyGoesOn ==
  ASSUME RepairInv, Copying, NEW p \in {"finish", "rename"},
         repairer' = [repairer EXCEPT !.pc = p]
  PROVE  /\ repairer' \in Repairers /\ repairer.pc' = p /\ repairer.logs_' = repairer.logs_
         /\ repairer.table_numbers_' = repairer.table_numbers_
         /\ repairer.tables_' = repairer.tables_
         /\ repairer.max_sequence' = repairer.max_sequence
         /\ repairer.saved' = repairer.saved /\ repairer.scanned' = repairer.scanned
         /\ repairer.misread' = repairer.misread
         /\ repairer.next_file_number_' = repairer.next_file_number_
         /\ Repairing' /\ Copying' /\ Pending' = Pending /\ Current' = Current
         /\ CopyNumber' = CopyNumber /\ CopyInProgress' = CopyInProgress
         /\ Phases' /\ Scanned'
<1>1. repairer \in Repairers /\ NoLogs /\ repairer.table_numbers_ # <<>>
  BY WhileCopying
<1>2. p \in Steps /\ p # "none"
  BY DEF Steps
<1>3. /\ repairer' \in Repairers /\ repairer.pc' = p /\ repairer.logs_' = repairer.logs_
      /\ repairer.table_numbers_' = repairer.table_numbers_
      /\ repairer.tables_' = repairer.tables_
      /\ repairer.max_sequence' = repairer.max_sequence
      /\ repairer.saved' = repairer.saved /\ repairer.scanned' = repairer.scanned
      /\ repairer.misread' = repairer.misread
      /\ repairer.next_file_number_' = repairer.next_file_number_
  BY <1>1, <1>2 DEF Repairers
<1>4. Repairing' /\ Copying' /\ Pending' = Pending /\ Current' = Current
      /\ CopyNumber' = CopyNumber
  BY <1>2, <1>3 DEF Repairing, NoRepairer, Copying, Pending, Current, CopyNumber
<1>5. CopyInProgress' = CopyInProgress
  BY <1>4 DEF CopyInProgress
<1>6. Phases'
  BY <1>1, <1>3 DEF Phases, NoLogs
<1>7. Scanned'
  <2>1. Repairing /\ Scanned /\ repairer.pc' # "copy"
    BY <1>3, WhileCopying DEF RepairInv
  <2> QED BY <1>3, <1>4, <2>1 DEF Scanned
<1> QED
  BY <1>3, <1>4, <1>5, <1>6, <1>7

\* ArchiveTable, when it succeeds: without failures the source is damaged, and so
\* it is not a copy whose source is already in lost/.
LEMMA SourceArchived ==
  ASSUME RepairInv, repairer.pc = "archive_table", repairer' = [repairer EXCEPT !.pc = "finish"],
         lost_files' = Archived("table", Current, table_files[Current]),
         replaced' = replaced \cup FileAt(lost_files, <<"table", Current>>),
         table_files' = Without(table_files, Current),
         UNCHANGED <<log_files, careless, repair_faults>>
  PROVE  RepairInv'
<1>1. Copying
  BY DEF Copying
<1>2. /\ Repairing /\ repairer \in Repairers /\ Entries(repairer.saved) /\ Entries(repairer.scanned)
      /\ Current \in Pending /\ Current \in Nat /\ Current \notin repairer.tables_
      /\ CopyNumber \in DOMAIN table_files /\ CopyNumber # Current
      /\ CopyNumber \notin Pending \cup repairer.tables_ /\ CopyInProgress = {CopyNumber}
      /\ Current < repairer.next_file_number_
      /\ repair_faults \in Nat /\ Directory(table_files)
  BY <1>1, WhileCopying, CurrentIsPending
<1>3. /\ repairer' \in Repairers /\ repairer.pc' = "finish" /\ repairer.logs_' = repairer.logs_
      /\ repairer.table_numbers_' = repairer.table_numbers_
      /\ repairer.tables_' = repairer.tables_
      /\ repairer.max_sequence' = repairer.max_sequence
      /\ repairer.saved' = repairer.saved /\ repairer.scanned' = repairer.scanned
      /\ repairer.misread' = repairer.misread
      /\ repairer.next_file_number_' = repairer.next_file_number_
      /\ Repairing' /\ Copying' /\ Pending' = Pending /\ Current' = Current
      /\ CopyNumber' = CopyNumber /\ CopyInProgress' = CopyInProgress
      /\ Phases' /\ Scanned'
  BY <1>1, CopyGoesOn
<1>4. \A n \in Pending : n \in DOMAIN table_files
  BY <1>2 DEF RepairInv, Numbers
<1> DEFINE name == <<"table", Current>>
<1>5. /\ DOMAIN table_files' = DOMAIN table_files \ {Current}
      /\ \A n \in DOMAIN table_files' : table_files'[n] = table_files[n]
  BY DEF Without
<1>6. /\ DOMAIN lost_files' = DOMAIN lost_files \cup {name}
      /\ \A x \in DOMAIN lost_files : x # name => lost_files'[x] = lost_files[x]
      /\ lost_files'[name] = table_files[Current]
      /\ replaced' = replaced \cup FileAt(lost_files, name)
  BY DEF Archived, With
<1>7. repair_faults = 0 => name \notin DOMAIN lost_files
  BY <1>2, <1>4 DEF RepairInv, WithoutFailures
<1>8. RepairTypes'
  <2>1. Directory(table_files)' /\ Directory(log_files)'
    BY <1>2, DirectoryWithout DEF RepairInv, RepairTypes
  <2> QED BY <1>2, <1>3, <2>1 DEF RepairTypes
<1>9. Numbers'
  BY <1>2, <1>3, <1>4, <1>5 DEF RepairInv, Numbers
<1>10. ListedTables'
  BY <1>2, <1>3, <1>5 DEF RepairInv, ListedTables
<1>11. Copies'
  <2>1. /\ table_files[CopyNumber] = Unfinished
        /\ \A e \in repairer.saved : e \in table_files[Current].entries
    BY <1>1, <1>2, <1>4 DEF RepairInv, Copies
  <2>2. Current \notin DOMAIN table_files' /\ CopyNumber \in DOMAIN table_files'
        /\ table_files'[CopyNumber] = Unfinished
    BY <1>2, <1>5, <2>1
  <2> QED BY <1>2, <1>3, <1>6, <2>1, <2>2 DEF Copies
<1>12. LogsArchivedOnce'
  <2>1. \A n : <<"log", n>> # name
    OBVIOUS
  <2> QED BY <1>6, <2>1 DEF RepairInv, LogsArchivedOnce
<1>13. WithoutFailures'
  <2> SUFFICES ASSUME repair_faults = 0
               PROVE  /\ \A n \in DOMAIN table_files' :
                           <<"table", n>> \in DOMAIN lost_files' => table_files'[n].sound
                      /\ \A m \in Nat : <<"table", m>> \in DOMAIN lost_files' =>
                           /\ \/ \E w \in DOMAIN table_files' \ CopyInProgress : m <= w
                              \/ m <= Current
                           /\ m < repairer.next_file_number_
    BY <1>3, <1>5 DEF WithoutFailures
  <2>0. \A m : m # Current /\ <<"table", m>> \in DOMAIN lost_files' => <<"table", m>> \in DOMAIN lost_files
    <3>1. \A m : m # Current => <<"table", m>> # name
      OBVIOUS
    <3> HIDE DEF name
    <3> QED BY <1>6, <3>1
  <2>1. WithoutFailures
    BY DEF RepairInv
  <2>2. ASSUME NEW n \in DOMAIN table_files', <<"table", n>> \in DOMAIN lost_files'
        PROVE  table_files'[n].sound
    <3>1. n # Current /\ <<"table", n>> \in DOMAIN lost_files
      BY <2>0, <1>5, <2>2
    <3> QED BY <1>5, <2>1, <2>2, <3>1 DEF WithoutFailures
  <2>3. ASSUME NEW m \in Nat, <<"table", m>> \in DOMAIN lost_files'
        PROVE  /\ \/ \E w \in DOMAIN table_files' \ CopyInProgress : m <= w
                  \/ m <= Current
               /\ m < repairer.next_file_number_
    <3>1. CASE m = Current
      <4>1. m <= Current /\ m < repairer.next_file_number_
        BY <1>2, <3>1
      <4> QED BY <4>1
    <3>2. CASE m # Current
      <4>1. <<"table", m>> \in DOMAIN lost_files
        BY <2>0, <2>3, <3>2
      <4>2. /\ \E w \in DOMAIN table_files \ CopyInProgress : m <= w
            /\ m < repairer.next_file_number_
        BY <1>2, <2>1, <4>1 DEF WithoutFailures
      <4>3. PICK w \in DOMAIN table_files \ CopyInProgress : m <= w
        BY <4>2
      <4> QED BY <1>5, <4>2, <4>3
    <3> QED BY <3>1, <3>2
  <2> QED BY <2>2, <2>3
<1> HIDE DEF name
<1>14. \A e : InFiles(e, lost_files) => InFiles(e, lost_files') \/ InReplaced(e)'
  <2>1. CASE repair_faults = 0
    BY <1>6, <1>7, <2>1 DEF InFiles
  <2>2. CASE repair_faults # 0
    BY <1>6, <2>2 DEF InFiles, InReplaced, FileAt
  <2> QED BY <2>1, <2>2
<1>15. \A e : InReplaced(e) => InReplaced(e)'
  BY <1>6 DEF InReplaced
<1>16. \A e : e \in table_files[Current].entries => InFiles(e, lost_files')
  BY <1>6 DEF InFiles
<1>17. \A e : InFiles(e, table_files) => InFiles(e, table_files') \/ InFiles(e, lost_files')
  BY <1>5, <1>16 DEF InFiles
<1>18. AllKept'
  BY <1>14, <1>15, <1>17 DEF RepairInv, AllKept, Kept
<1>19. AllAccounted'
  <2>1. ASSUME NEW e, NEW n \in DOMAIN table_files, n \in Pending \cup repairer.tables_,
               e \in table_files[n].entries
        PROVE  \/ \E m \in DOMAIN table_files' :
                    m \in Pending' \cup repairer'.tables_ /\ e \in table_files'[m].entries
               \/ InFiles(e, lost_files')
    BY <1>3, <1>5, <1>16, <2>1
  <2> QED BY <1>2, <1>14, <1>15, <2>1 DEF RepairInv, AllAccounted, Accounted
<1> QED
  BY <1>3, <1>8, <1>9, <1>10, <1>11, <1>12, <1>13, <1>18, <1>19 DEF RepairInv

\* ArchiveTable, when it fails: the source stays, and is remembered.
LEMMA SourceStays ==
  ASSUME RepairInv, repairer.pc = "archive_table", repairer' = [repairer EXCEPT !.pc = "finish"],
         careless' = careless \cup {table_files[Current]}, repair_faults' = repair_faults + 1,
         UNCHANGED <<table_files, log_files, lost_files, replaced>>
  PROVE  RepairInv'
<1>1. Copying
  BY DEF Copying
<1>2. Repairing /\ repairer \in Repairers /\ Entries(repairer.saved) /\ Current \in Pending
      /\ Entries(repairer.scanned)
      /\ repair_faults \in Nat
  BY <1>1, WhileCopying
<1>3. /\ repairer' \in Repairers /\ repairer.pc' = "finish" /\ repairer.logs_' = repairer.logs_
      /\ repairer.table_numbers_' = repairer.table_numbers_
      /\ repairer.tables_' = repairer.tables_
      /\ repairer.max_sequence' = repairer.max_sequence
      /\ repairer.saved' = repairer.saved /\ repairer.scanned' = repairer.scanned
      /\ repairer.misread' = repairer.misread
      /\ repairer.next_file_number_' = repairer.next_file_number_
      /\ Repairing' /\ Copying' /\ Pending' = Pending /\ Current' = Current
      /\ CopyNumber' = CopyNumber /\ CopyInProgress' = CopyInProgress
      /\ Phases' /\ Scanned'
  BY <1>1, CopyGoesOn
<1>4. \A n \in Pending : n \in DOMAIN table_files
  BY <1>2 DEF RepairInv, Numbers
<1>5. repair_faults' \in Nat /\ repair_faults' # 0
  BY <1>2
<1>6. RepairTypes'
  <2>1. Directory(table_files)' /\ Directory(log_files)'
    BY DEF RepairInv, RepairTypes
  <2> QED BY <1>2, <1>3, <1>5, <2>1 DEF RepairTypes
<1>7. Numbers' /\ ListedTables'
  BY <1>2, <1>3, <1>4 DEF RepairInv, Numbers, ListedTables
<1>8. Copies'
  BY <1>1, <1>2, <1>3, <1>4 DEF RepairInv, Copies
<1>9. LogsArchivedOnce' /\ WithoutFailures'
  BY <1>5 DEF RepairInv, LogsArchivedOnce, WithoutFailures
<1>10. AllKept'
  BY <1>5 DEF RepairInv, AllKept, Kept, InFiles, InReplaced
<1>11. AllAccounted'
  BY <1>2, <1>3, <1>5 DEF RepairInv, AllAccounted, Accounted, InFiles, InReplaced
<1> QED
  BY <1>3, <1>6, <1>7, <1>8, <1>9, <1>10, <1>11 DEF RepairInv

\* ArchiveTable.
LEMMA ArchiveTableStep == RepairInv /\ ArchiveTable => RepairInv'
<1> SUFFICES ASSUME RepairInv, ArchiveTable PROVE RepairInv'
  OBVIOUS
<1>1. repairer.pc = "archive_table" /\ repairer' = [repairer EXCEPT !.pc = "finish"]
      /\ UNCHANGED log_files
  BY DEF ArchiveTable, RpAt, RpGoto
<1>2. CASE RpFine /\ PutAway
  BY <1>1, <1>2, SourceArchived DEF RpFine, PutAway, ArchiveFile
<1>3. CASE RpFault /\ LeaveInPlace
  BY <1>1, <1>3, SourceStays DEF RpFault, LeaveInPlace
<1> QED
  BY <1>2, <1>3 DEF ArchiveTable

\* The copy is complete; nothing else changes.
LEMMA CopyFinished ==
  ASSUME RepairInv, repairer.pc = "finish", repairer' = [repairer EXCEPT !.pc = "rename"],
         table_files' = With(table_files, CopyNumber, [entries |-> repairer.saved, sound |-> TRUE]),
         UNCHANGED <<log_files, lost_files, careless, replaced, repair_faults>>
  PROVE  RepairInv'
<1>1. Copying
  BY DEF Copying
<1>2. /\ Repairing /\ repairer \in Repairers /\ Entries(repairer.saved) /\ Entries(repairer.scanned)
      /\ Current \in Pending /\ Current \in Nat
      /\ CopyNumber \in DOMAIN table_files /\ CopyNumber # Current /\ CopyNumber \in Nat
      /\ CopyNumber \notin Pending \cup repairer.tables_
      /\ repair_faults \in Nat /\ Directory(table_files)
  BY <1>1, WhileCopying
<1>3. /\ repairer' \in Repairers /\ repairer.pc' = "rename" /\ repairer.logs_' = repairer.logs_
      /\ repairer.table_numbers_' = repairer.table_numbers_
      /\ repairer.tables_' = repairer.tables_
      /\ repairer.max_sequence' = repairer.max_sequence
      /\ repairer.saved' = repairer.saved /\ repairer.scanned' = repairer.scanned
      /\ repairer.misread' = repairer.misread
      /\ repairer.next_file_number_' = repairer.next_file_number_
      /\ Repairing' /\ Copying' /\ Pending' = Pending /\ Current' = Current
      /\ CopyNumber' = CopyNumber /\ CopyInProgress' = CopyInProgress
      /\ Phases' /\ Scanned'
  BY <1>1, CopyGoesOn
<1>4. /\ DOMAIN table_files' = DOMAIN table_files
      /\ \A n \in DOMAIN table_files : n # CopyNumber => table_files'[n] = table_files[n]
      /\ table_files'[CopyNumber] = [entries |-> repairer.saved, sound |-> TRUE]
  BY <1>2 DEF With
<1>5. table_files[CopyNumber] = Unfinished
  BY <1>1, <1>2 DEF RepairInv, Copies
<1>6. RepairTypes'
  <2>1. Directory(table_files)'
    BY <1>2, DirectoryWith
  <2>2. Directory(log_files)'
    BY DEF RepairInv, RepairTypes
  <2> QED BY <1>2, <1>3, <2>1, <2>2 DEF RepairTypes
<1>7. Numbers'
  BY <1>2, <1>3, <1>4, Zenon DEF RepairInv, Numbers
<1>8. ListedTables'
  BY <1>2, <1>3, <1>4, ZenonT(30) DEF RepairInv, ListedTables
<1>9. Copies'
  <2>1. Copies
    BY DEF RepairInv
  <2>2. Current \in DOMAIN table_files' <=> Current \in DOMAIN table_files
    BY <1>4
  <2>3. Current \in DOMAIN table_files => table_files'[Current] = table_files[Current]
    BY <1>2, <1>4
  <2>4. \A e \in repairer.saved :
          IF Current \in DOMAIN table_files' THEN e \in table_files'[Current].entries
          ELSE /\ <<"table", Current>> \in DOMAIN lost_files
               /\ e \in lost_files[<<"table", Current>>].entries
    BY <1>1, <1>2, <2>1, <2>2, <2>3 DEF Copies
  <2>5. Current \in DOMAIN table_files' => table_files'[Current] \in careless
    BY <1>1, <1>2, <2>1, <2>2, <2>3 DEF Copies
  <2> QED BY <1>2, <1>3, <1>4, <2>4, <2>5, Zenon DEF Copies
<1>10. LogsArchivedOnce'
  BY DEF RepairInv, LogsArchivedOnce
<1>11. WithoutFailures'
  <2>1. ASSUME repair_faults = 0, NEW n \in DOMAIN table_files, <<"table", n>> \in DOMAIN lost_files
        PROVE  table_files'[n].sound
    <3>1. CASE n = CopyNumber
      BY <1>4, <3>1
    <3>2. CASE n # CopyNumber
      BY <1>4, <2>1, <3>2, Zenon DEF RepairInv, WithoutFailures
    <3> QED BY <3>1, <3>2
  <2> QED BY <1>2, <1>3, <1>4, <2>1, Zenon DEF RepairInv, WithoutFailures
<1>12. ASSUME NEW e, NEW n \in DOMAIN table_files, e \in table_files[n].entries
       PROVE  n \in DOMAIN table_files' /\ e \in table_files'[n].entries
  <2>1. n # CopyNumber
    BY <1>5, <1>12 DEF Unfinished
  <2> QED BY <1>4, <1>12, <2>1, Zenon
<1>13. AllKept'
  BY <1>4, <1>12, Zenon DEF RepairInv, AllKept, Kept, InFiles, InReplaced
<1>14. AllAccounted'
  BY <1>2, <1>3, <1>4, <1>12, Zenon DEF RepairInv, AllAccounted, Accounted, InFiles, InReplaced
<1> QED
  BY <1>3, <1>6, <1>7, <1>8, <1>9, <1>10, <1>11, <1>13, <1>14 DEF RepairInv

\* A copy that is given up: all of it is in its source, which is in lost/ or was
\* left in its place.  The copy may stay, too.
LEMMA CopyGivenUp ==
  ASSUME RepairInv, repairer.pc \in {"finish", "rename"}, repairer' = Dropped,
         table_files' = table_files \/ table_files' = Without(table_files, CopyNumber),
         repair_faults' = repair_faults + 1,
         UNCHANGED <<log_files, lost_files, careless, replaced>>
  PROVE  RepairInv'
<1>1. Copying
  BY DEF Copying
<1>2. /\ Repairing /\ repairer \in Repairers /\ NoLogs /\ repairer.table_numbers_ # <<>>
      /\ Current \in Pending /\ CopyInProgress = {CopyNumber} /\ CopyNumber # Current
      /\ CopyNumber \notin Pending \cup repairer.tables_
      /\ repairer.next_file_number_ \in Nat /\ repairer.max_sequence \in Nat
      /\ repair_faults \in Nat /\ Directory(table_files)
  BY <1>1, WhileCopying, SMTT(30)
<1>3. /\ AfterTable(repairer') /\ repairer'.tables_ = repairer.tables_
      /\ repairer'.max_sequence = repairer.max_sequence
      /\ repairer'.next_file_number_ = repairer.next_file_number_
  BY <1>2, TableDropped
<1>4. /\ DOMAIN table_files \ {CopyNumber} \subseteq DOMAIN table_files'
      /\ DOMAIN table_files' \subseteq DOMAIN table_files
      /\ \A n \in DOMAIN table_files' : table_files'[n] = table_files[n]
  BY DEF Without
<1>5. repair_faults' \in Nat /\ repair_faults' # 0
  BY <1>2
<1>6. OthersStay /\ Directory(table_files')
  BY <1>2, <1>4, DirectoryWithout DEF OthersStay
<1>7. LogsArchivedOnce' /\ WithoutFailures'
  BY <1>5 DEF RepairInv, LogsArchivedOnce, WithoutFailures
<1>8. \A e \in table_files[CopyNumber].entries :
        InFiles(e, table_files') \/ InFiles(e, lost_files)
  <2>1. \A e \in table_files[CopyNumber].entries : e \in repairer.saved
    BY <1>1, <1>2, SMTT(30) DEF RepairInv, Copies, Unfinished
  <2>2. \A e \in repairer.saved :
          \/ Current \in DOMAIN table_files /\ e \in table_files[Current].entries
          \/ <<"table", Current>> \in DOMAIN lost_files
             /\ e \in lost_files[<<"table", Current>>].entries
    BY <1>1, <1>2 DEF RepairInv, Copies
  <2> QED BY <1>2, <1>4, <2>1, <2>2, SMTT(30) DEF InFiles
<1>9. \A e : InFiles(e, table_files) => InFiles(e, table_files') \/ InFiles(e, lost_files)
  BY <1>4, <1>8 DEF InFiles
<1>10. \A e : InReplaced(e) => InReplaced(e)'
  BY <1>5 DEF InReplaced
<1>11. AllKept'
  BY <1>9, <1>10, SMTT(30) DEF RepairInv, AllKept, Kept
<1>12. AllAccounted'
  <2>1. Pending' = Pending \ {Current}
    BY <1>3 DEF AfterTable, Pending
  <2>2. Current \in DOMAIN table_files => table_files[Current] \in careless
    BY <1>1, <1>2, Zenon DEF RepairInv, Copies
  <2>3. ASSUME NEW e, NEW n \in DOMAIN table_files, n \in Pending \cup repairer.tables_,
               e \in table_files[n].entries
        PROVE  \/ \E m \in DOMAIN table_files' :
                    m \in Pending' \cup repairer'.tables_ /\ e \in table_files'[m].entries
               \/ \E f \in careless : e \in f.entries
    BY <1>2, <1>3, <1>4, <2>1, <2>2, <2>3, SMTT(30)
  <2> QED BY <1>2, <1>10, <2>3 DEF RepairInv, AllAccounted, Accounted
<1>13. repairer.next_file_number_ <= repairer'.next_file_number_
       /\ repairer.max_sequence <= repairer'.max_sequence
  BY <1>2, <1>3, SMTT(30)
<1> QED
  BY <1>2, <1>3, <1>5, <1>6, <1>7, <1>11, <1>12, <1>13, TableDone

\* A copy with nothing in it is abandoned and stays, so that its number is not
\* given out again.
LEMMA CopyAbandoned ==
  ASSUME RepairInv, repairer.pc = "finish", repairer' = Dropped,
         UNCHANGED <<table_files, log_files, lost_files, careless, replaced, repair_faults>>
  PROVE  RepairInv'
<1>1. Copying
  BY DEF Copying
<1>2. /\ Repairing /\ repairer \in Repairers /\ NoLogs /\ repairer.table_numbers_ # <<>>
      /\ Current \in Pending /\ Current \in Nat
      /\ CopyInProgress = {CopyNumber} /\ CopyNumber # Current
      /\ CopyNumber \in DOMAIN table_files /\ CopyNumber \notin Pending \cup repairer.tables_
      /\ Current < CopyNumber /\ CopyNumber \in Nat
      /\ repairer.next_file_number_ \in Nat /\ repairer.max_sequence \in Nat
      /\ repair_faults \in Nat /\ Directory(table_files)
  BY <1>1, WhileCopying
<1>3. /\ AfterTable(repairer') /\ repairer'.tables_ = repairer.tables_
      /\ repairer'.max_sequence = repairer.max_sequence
      /\ repairer'.next_file_number_ = repairer.next_file_number_
  BY <1>2, TableDropped
<1>4. OthersStay /\ LogsArchivedOnce'
  BY SMTT(30) DEF OthersStay, RepairInv, LogsArchivedOnce
<1>5. WithoutFailures'
  <2>1. repairer'.pc = "convert" /\ CopyInProgress' = {} /\ Repairing'
    BY <1>3 DEF AfterTable, CopyInProgress, Copying, Repairing, NoRepairer
  <2>2. ASSUME repair_faults = 0, NEW m \in Nat, <<"table", m>> \in DOMAIN lost_files
        PROVE  (\E w \in DOMAIN table_files : m <= w) /\ m < repairer.next_file_number_
    <3>1. WithoutFailures
      BY DEF RepairInv
    <3>2. m < repairer.next_file_number_
          /\ ((\E w \in DOMAIN table_files : m <= w) \/ m <= Current)
      BY <1>2, <2>2, <3>1 DEF WithoutFailures
    <3>3. m <= Current => m <= CopyNumber
      BY <1>2
    <3> QED BY <1>2, <3>2, <3>3
  <2> QED BY <1>3, <2>1, <2>2 DEF RepairInv, WithoutFailures
<1>6. AllKept'
  BY DEF RepairInv, AllKept, Kept, InFiles, InReplaced
<1>7. AllAccounted'
  <2>1. Pending' = Pending \ {Current}
    BY <1>3, SMTT(30) DEF AfterTable, Pending
  <2>2. Current \in DOMAIN table_files => table_files[Current] \in careless
    BY <1>1, <1>2, SMTT(30) DEF RepairInv, Copies
  <2> QED BY <1>2, <1>3, <2>1, <2>2
      DEF RepairInv, AllAccounted, Accounted, InFiles, InReplaced
<1>8. repairer.next_file_number_ <= repairer'.next_file_number_
      /\ repairer.max_sequence <= repairer'.max_sequence
  BY <1>2, <1>3, SMTT(30)
<1> QED
  BY <1>2, <1>3, <1>4, <1>5, <1>6, <1>7, <1>8, TableDone

\* FinishCopy.
LEMMA FinishCopyStep == RepairInv /\ FinishCopy => RepairInv'
<1> SUFFICES ASSUME RepairInv, FinishCopy PROVE RepairInv'
  OBVIOUS
<1>1. repairer.pc = "finish" /\ UNCHANGED <<log_files, lost_files, careless, replaced>>
  BY ZenonT(30) DEF FinishCopy, RpAt
<1>2. CASE /\ RpFine /\ RpGoto("rename")
           /\ table_files' =
                With(table_files, CopyNumber, [entries |-> repairer.saved, sound |-> TRUE])
  BY <1>1, <1>2, CopyFinished DEF RpFine, RpGoto
<1>3. CASE RpFine /\ repairer' = Dropped /\ UNCHANGED table_files
  BY <1>1, <1>3, CopyAbandoned DEF RpFine
<1>4. CASE GiveUpCopy
  BY <1>1, <1>4, CopyGivenUp, SMTT(30) DEF GiveUpCopy, RpFault
<1> QED
  BY <1>2, <1>3, <1>4 DEF FinishCopy

\* The copy takes the name of the source, which without failures nothing has.
LEMMA CopyRenamed ==
  ASSUME RepairInv, repairer.pc = "rename",
         replaced' = replaced \cup FileAt(table_files, Current),
         table_files' = With(Without(table_files, CopyNumber), Current, table_files[CopyNumber]),
         repairer' = Listed(Current, repairer.scanned),
         UNCHANGED <<log_files, lost_files, careless, repair_faults>>
  PROVE  RepairInv'
<1>1. Copying
  BY SMTT(30) DEF Copying
<1>2. /\ Repairing /\ repairer \in Repairers
      /\ Entries(repairer.saved) /\ Entries(repairer.scanned)
      /\ NoLogs /\ repairer.table_numbers_ # <<>>
      /\ Current \in Pending /\ Current \in Nat
      /\ CopyInProgress = {CopyNumber} /\ CopyNumber # Current
      /\ CopyNumber \in DOMAIN table_files /\ CopyNumber \notin Pending \cup repairer.tables_
      /\ repairer.next_file_number_ \in Nat /\ repairer.max_sequence \in Nat
      /\ repair_faults \in Nat /\ Directory(table_files)
  BY <1>1, WhileCopying
<1>3. /\ AfterTable(repairer') /\ repairer'.tables_ = repairer.tables_ \cup {Current}
      /\ repairer.max_sequence <= repairer'.max_sequence
      /\ \A s \in repairer.scanned : s <= repairer'.max_sequence
      /\ repairer'.next_file_number_ = repairer.next_file_number_
  BY <1>2, TableListed, SMTT(30)
<1>4. table_files[CopyNumber] = [entries |-> repairer.saved, sound |-> TRUE]
  BY <1>1, <1>2, SMTT(30) DEF RepairInv, Copies
<1>5. /\ DOMAIN table_files' = (DOMAIN table_files \ {CopyNumber}) \cup {Current}
      /\ \A n \in DOMAIN table_files :
           n # CopyNumber /\ n # Current => table_files'[n] = table_files[n]
      /\ table_files'[Current] = [entries |-> repairer.saved, sound |-> TRUE]
  BY <1>2, <1>4 DEF With, Without
<1>6. Directory(table_files')
  <2>1. Directory(Without(table_files, CopyNumber))
    BY <1>2, DirectoryWithout, SMTT(30)
  <2>2. Entries(table_files[CopyNumber].entries)
    BY <1>2, <1>4
  <2> QED BY <1>2, <2>1, <2>2, DirectoryWith
<1>7. OthersStay /\ LogsArchivedOnce'
  BY <1>2, <1>5 DEF OthersStay, RepairInv, LogsArchivedOnce
<1>8. repair_faults = 0 => Current \notin DOMAIN table_files
  BY SMTT(30) DEF RepairInv, WithoutFailures
<1>9. WithoutFailures'
  <2>1. repairer'.pc = "convert" /\ CopyInProgress' = {} /\ Repairing'
    BY <1>3 DEF AfterTable, CopyInProgress, Copying, Repairing, NoRepairer
  <2>2. ASSUME repair_faults = 0, NEW m \in Nat, <<"table", m>> \in DOMAIN lost_files
        PROVE  (\E w \in DOMAIN table_files' : m <= w) /\ m < repairer.next_file_number_
    <3>1. WithoutFailures
      BY SMTT(30) DEF RepairInv
    <3>2. m < repairer.next_file_number_
          /\ ((\E w \in DOMAIN table_files \ {CopyNumber} : m <= w) \/ m <= Current)
      BY <1>2, <2>2, <3>1 DEF WithoutFailures
    <3> QED BY <1>5, <3>2
  <2>3. ASSUME repair_faults = 0, NEW n \in DOMAIN table_files', <<"table", n>> \in DOMAIN lost_files
        PROVE  table_files'[n].sound
    <3>1. CASE n = Current
      BY <1>5, <3>1, SMTT(30)
    <3>2. CASE n # Current
      BY <1>5, <2>3, <3>2 DEF RepairInv, WithoutFailures
    <3> QED BY <3>1, <3>2, SMTT(30)
  <2>4. repair_faults' = 0 =>
          \A n \in DOMAIN table_files' :
            <<"table", n>> \in DOMAIN lost_files' => table_files'[n].sound
    BY <2>3
  <2>5. repair_faults' = 0 =>
          \A m \in Nat : <<"table", m>> \in DOMAIN lost_files' =>
            /\ \E w \in DOMAIN table_files' \ CopyInProgress' : m <= w
            /\ m < repairer'.next_file_number_
    BY <1>3, <2>1, <2>2
  <2> QED BY <2>1, <2>4, <2>5, SMTT(30) DEF WithoutFailures
<1>10. ASSUME NEW e, NEW n \in DOMAIN table_files, e \in table_files[n].entries
       PROVE  \/ n # Current /\ n # CopyNumber /\ n \in DOMAIN table_files'
                 /\ e \in table_files'[n].entries
              \/ n = CopyNumber /\ Current \in DOMAIN table_files'
                 /\ e \in table_files'[Current].entries
              \/ n = Current /\ InReplaced(e)'
  <2>1. CASE n = Current
    <3>1. repair_faults' # 0 /\ table_files[Current] \in replaced'
      BY <1>8, <1>10, <2>1, SMTT(30) DEF FileAt
    <3> QED BY <1>10, <2>1, <3>1, SMTT(30) DEF InReplaced
  <2>2. CASE n = CopyNumber
    BY <1>4, <1>5, <1>10, <2>2, SMTT(30)
  <2>3. CASE n # Current /\ n # CopyNumber
    BY <1>5, <1>10, <2>3, SMTT(30)
  <2> QED BY <2>1, <2>2, <2>3, Zenon
<1>11. \A e : InReplaced(e) => InReplaced(e)'
  BY DEF InReplaced
<1>12. \A e : InFiles(e, table_files) => InFiles(e, table_files') \/ InReplaced(e)'
  BY <1>10, Zenon DEF InFiles
<1>13. AllKept'
  BY <1>11, <1>12, SMTT(30) DEF RepairInv, AllKept, Kept
<1>14. AllAccounted'
  <2>1. Pending' = Pending \ {Current}
    <3>1. Elements(repairer'.table_numbers_) = Pending \ {Current}
      BY <1>3, Zenon DEF AfterTable
    <3> QED BY <3>1, Zenon DEF Pending
  <2>2. ASSUME NEW e, NEW n \in DOMAIN table_files, n \in Pending \cup repairer.tables_,
               e \in table_files[n].entries
        PROVE  \/ \E m \in DOMAIN table_files' :
                    m \in Pending' \cup repairer'.tables_ /\ e \in table_files'[m].entries
               \/ InReplaced(e)'
    <3>1. CASE n = Current
      BY <1>2, <1>10, <2>2, <3>1, Zenon
    <3>2. CASE n # Current
      <4>1. n # CopyNumber
        BY <1>2, <2>2, Zenon
      <4>2. n \in Pending' \cup repairer'.tables_
        BY <1>3, <2>1, <2>2, <3>2, Zenon
      <4>3. n \in DOMAIN table_files' /\ e \in table_files'[n].entries
        BY <1>10, <2>2, <3>2, <4>1, Zenon
      <4> QED BY <4>2, <4>3, Zenon
    <3> QED BY <3>1, <3>2, Zenon
  <2>3. \A e : InFiles(e, log_files)' = InFiles(e, log_files)
              /\ InFiles(e, lost_files)' = InFiles(e, lost_files)
    BY DEF InFiles
  <2>4. ASSUME NEW e, Accounted(e)
        PROVE  Accounted(e)'
    <3>1. CASE \E n \in DOMAIN table_files :
                 n \in Pending \cup repairer.tables_ /\ e \in table_files[n].entries
      BY <2>2, <3>1, Zenon DEF Accounted
    <3>2. CASE \/ InFiles(e, log_files) \/ InFiles(e, lost_files) \/ InReplaced(e)
               \/ \E f \in careless : e \in f.entries
      BY <1>11, <2>3, <3>2, Zenon DEF Accounted
    <3> QED BY <2>4, <3>1, <3>2, Zenon DEF Accounted
  <2>5. \A e \in Readable : Accounted(e)
    BY <1>2, Zenon DEF RepairInv, AllAccounted
  <2> QED BY <2>4, <2>5, Zenon DEF AllAccounted
<1>15. /\ repairer.next_file_number_ <= repairer'.next_file_number_
       /\ Current \in DOMAIN table_files' /\ table_files'[Current].sound
       /\ Current \notin repairer.misread =>
            \A s \in table_files'[Current].entries : s <= repairer'.max_sequence
  <2>1. Current \notin repairer.misread => \A s \in repairer.saved : s \in repairer.scanned
    <3>1. Scanned
      BY Zenon DEF RepairInv
    <3> QED BY <1>1, <1>2, <3>1, Zenon DEF Scanned
  <2>2. table_files'[Current].entries = repairer.saved /\ table_files'[Current].sound
    BY <1>5, SMTT(30)
  <2>3. Current \in DOMAIN table_files'
    BY <1>5, Zenon
  <2>4. repairer.next_file_number_ <= repairer'.next_file_number_
    BY <1>2, <1>3, SMTT(30)
  <2>5. Current \notin repairer.misread =>
          \A s \in table_files'[Current].entries : s <= repairer'.max_sequence
    BY <1>3, <2>1, <2>2, Zenon
  <2> QED BY <2>2, <2>3, <2>4, <2>5, Zenon
<1> QED
  BY <1>2, <1>3, <1>6, <1>7, <1>9, <1>13, <1>14, <1>15, TableDone

\* RenameCopy.
LEMMA RenameCopyStep == RepairInv /\ RenameCopy => RepairInv'
<1> SUFFICES ASSUME RepairInv, RenameCopy PROVE RepairInv'
  OBVIOUS
<1>1. repairer.pc = "rename" /\ UNCHANGED <<log_files, lost_files, careless>>
  BY DEF RenameCopy, RpAt
<1>2. CASE /\ RpFine
           /\ replaced' = replaced \cup FileAt(table_files, Current)
           /\ table_files' = With(Without(table_files, CopyNumber), Current, table_files[CopyNumber])
           /\ repairer' = Listed(Current, repairer.scanned)
  BY <1>1, <1>2, CopyRenamed DEF RpFine
<1>3. CASE GiveUpCopy /\ UNCHANGED replaced
  BY <1>1, <1>3, CopyGivenUp DEF GiveUpCopy, RpFault
<1> QED
  BY <1>2, <1>3 DEF RenameCopy

-----------------------------------------------------------------------------
(* The theorems. *)

LEMMA RepairInvariant == RPSpec => []RepairInv
<1>1. RPInit => RepairInv
  BY RepairBegins
<1>2. RepairInv /\ [RPNext]_rpvars => RepairInv'
  <2> SUFFICES ASSUME RepairInv, [RPNext]_rpvars PROVE RepairInv'
    OBVIOUS
  <2>1. CASE UNCHANGED rpvars
    BY <2>1, RepairStutters DEF rpvars
  <2>2. CASE RPNext
    BY <2>2, FindFilesStep, ConvertLogToTableStep, ArchiveLogStep, ScanTableStep,
       RepairTableStep, ArchiveTableStep, FinishCopyStep, RenameCopyStep,
       WriteDescriptorStep, ArchiveManifestsStep, InstallManifestStep, SetCurrentFileStep,
       RepairCrashStep
    DEF RPNext
  <2> QED BY <2>1, <2>2
<1> QED
  BY <1>1, <1>2, PTL DEF RPSpec

\* Whatever the files that RepairDB finds, however often it dies, however often it
\* is begun again and whatever system calls fail, every entry that could be read
\* at the beginning stays in a file of the directory or of lost/, or, after a
\* failure, was in a file that a rename replaced (Repairer::ArchiveFile and
\* RepairTable).
THEOREM RepairNeverDestroys == RPSpec => []RepairDestroysNothing
<1>1. RepairInv => RepairDestroysNothing
  <2> SUFFICES ASSUME RepairInv, NEW e \in Readable
               PROVE  e \in EntriesOf(AllFiles(table_files) \cup AllFiles(log_files)
                                      \cup AllFiles(lost_files) \cup ReplacedAfterFailure)
    BY DEF RepairDestroysNothing
  <2>1. Kept(e)
    BY DEF RepairInv, AllKept
  <2>2. PICK f \in AllFiles(table_files) \cup AllFiles(log_files)
                   \cup AllFiles(lost_files) \cup ReplacedAfterFailure : e \in f.entries
    BY <2>1, SMTT(30) DEF Kept, InFiles, InReplaced, AllFiles, ReplacedAfterFailure
  <2> QED BY <2>2 DEF EntriesOf
<1> QED
  BY <1>1, RepairInvariant, PTL

\* What RepairDB returns as repaired is sound, for any files, failures and deaths
\* before it: the MANIFEST lists tables that exist and can be read, with no later
\* sequence number than its own unless a failing read cut their scan short, no
\* number that it will give out is taken, and what it neither lists nor leaves to
\* be replayed is in lost/ or was given up after an error (Repairer::Run).
THEOREM RepairedIsAlwaysSound == RPSpec => []RepairedDatabaseIsSound
<1>1. RepairInv => RepairedDatabaseIsSound
  <2> SUFFICES ASSUME RepairInv, RpAt("repaired") PROVE RepairedDatabaseIsSound
    BY DEF RepairedDatabaseIsSound
  <2>1. Repairing /\ repairer \in Repairers
    BY RepairIsAt DEF RpAt, Steps
  <2>2. /\ repairer.table_numbers_ = <<>>
        /\ manifest = [current |-> TRUE, listed |-> repairer.tables_,
                       last_sequence |-> repairer.max_sequence,
                       next_file |-> repairer.next_file_number_]
    BY <2>1 DEF RepairInv, Phases, RpAt
  <2>3. Pending = {}
    BY <2>2, NoElements DEF Pending
  <2>4. ASSUME NEW e \in Readable
        PROVE  e \in EntriesOf({table_files[n] : n \in manifest.listed}
                               \cup AllFiles(log_files) \cup AllFiles(lost_files)
                               \cup careless \cup ReplacedAfterFailure)
    <3>1. Accounted(e)
      BY <2>1 DEF RepairInv, AllAccounted
    <3>2. PICK f \in {table_files[n] : n \in manifest.listed}
                     \cup AllFiles(log_files) \cup AllFiles(lost_files)
                     \cup careless \cup ReplacedAfterFailure : e \in f.entries
      BY <2>2, <2>3, <3>1 DEF Accounted, InFiles, InReplaced, AllFiles, ReplacedAfterFailure
    <3> QED BY <3>2 DEF EntriesOf
  <2>5. \A n \in manifest.listed :
          /\ n \in DOMAIN table_files /\ table_files[n].sound
          /\ n \notin repairer.misread =>
               \A s \in table_files[n].entries : s <= manifest.last_sequence
    BY <2>1, <2>2, SMTT(30) DEF RepairInv, ListedTables
  <2>6. \A n \in DOMAIN table_files \cup DOMAIN log_files : n < manifest.next_file
    BY <2>1, <2>2 DEF RepairInv, Numbers
  <2> QED BY <2>2, <2>4, <2>5, <2>6, SMTT(30) DEF RepairedDatabaseIsSound
<1> QED
  BY <1>1, RepairInvariant, PTL

=============================================================================
