------------------------------- MODULE Repair ------------------------------
(***************************************************************************)
(* RepairDB (leveldb/db/repair.cc): logs become tables, every table is     *)
(* scanned, a damaged one is copied as far as it can be read, and a new    *)
(* MANIFEST lists them all.  System calls fail, the process dies between   *)
(* any two of them, and the repair is started again.                       *)
(*                                                                         *)
(* An entry is its sequence number.  A file is the entries that can be     *)
(* read from it and whether reading it ends without an error; an           *)
(* unfinished table is [entries |-> {}, sound |-> FALSE].                  *)
(***************************************************************************)
EXTENDS Integers, Sequences, FiniteSetsExt

CONSTANTS
  InitialTables,     \* the table files at the beginning, by number
  InitialLogs,       \* the log files
  MaxRepairs,        \* bound: calls of RepairDB
  MaxRepairFaults    \* bound: failing system calls

ASSUME RepairAssumption ==
  /\ \A files \in {InitialTables, InitialLogs} :
       /\ DOMAIN files \subseteq Nat /\ IsFiniteSet(DOMAIN files)
       /\ \A n \in DOMAIN files :
            files[n].entries \subseteq Nat /\ IsFiniteSet(files[n].entries)
  /\ DOMAIN InitialTables \cap DOMAIN InitialLogs = {}
  /\ {MaxRepairs, MaxRepairFaults} \subseteq Nat

VARIABLES
  table_files, log_files,  \* the directory
  lost_files,              \* the directory lost/, by type and number
  manifest,                \* the descriptor and whether CURRENT names it
  repairer,                \* the Repairer object and where it is
  careless,                \* ghost: tables that a failure left in their place, unlisted
  replaced,                \* ghost: files that a rename replaced
  repairs, repair_faults

rpvars == <<table_files, log_files, lost_files, manifest, repairer, careless,
            replaced, repairs, repair_faults>>

NoRepairer == [pc |-> "none"]
NoManifest == [current |-> FALSE, listed |-> {}, last_sequence |-> 0, next_file |-> 0]

Unfinished == [entries |-> {}, sound |-> FALSE]

With(files, n, file) == [m \in DOMAIN files \cup {n} |-> IF m = n THEN file ELSE files[m]]
Without(files, n)    == [m \in DOMAIN files \ {n} |-> files[m]]

RpAt(pc)   == repairer.pc = pc
RpGoto(pc) == repairer' = [repairer EXCEPT !.pc = pc]

RpFault == repair_faults < MaxRepairFaults /\ repair_faults' = repair_faults + 1
RpFine  == UNCHANGED repair_faults

\* The file of that name, as a set.
FileAt(files, n) == IF n \in DOMAIN files THEN {files[n]} ELSE {}

-----------------------------------------------------------------------------
\* Mutant: the next number is the largest one found.
NextAfterEqual(numbers) == IF numbers = {} THEN 1 ELSE Max(numbers)

NextAfter(numbers) == IF numbers = {} THEN 1 ELSE Max(numbers) + 1

\* Every order of the elements of a set.
OrdersOf(S) ==
  {s \in [1 .. Cardinality(S) -> S] : \A i, j \in DOMAIN s : s[i] = s[j] => i = j}

\* RepairDB, and FindFiles: files are found in any order; the numbers of
\* descriptors do not count.  The repairer's scanned is what ScanTable saw of the
\* table it is at, and misread (ghost) the tables whose scan a failing read cut short.
FindFiles ==
  /\ repairer = NoRepairer /\ repairs < MaxRepairs /\ repairs' = repairs + 1
  /\ \/ /\ RpFine
        /\ \E logs_ \in OrdersOf(DOMAIN log_files) :
           \E table_numbers_ \in OrdersOf(DOMAIN table_files) :
             repairer' = [pc |-> "convert", logs_ |-> logs_,
                          table_numbers_ |-> table_numbers_, tables_ |-> {},
                          max_sequence |-> 0, scanned |-> {}, misread |-> {}, saved |-> {},
                          next_file_number_ |->
                            NextAfter(DOMAIN log_files \cup DOMAIN table_files)]
     \/ RpFault /\ UNCHANGED repairer
  /\ UNCHANGED <<table_files, log_files, lost_files, manifest, careless, replaced>>

Archived(type, n, file) == With(lost_files, <<type, n>>, file)

\* ArchiveFile: rename to lost/, over a file of that name if there is one.
ArchiveFile(type, n, file) ==
  /\ lost_files' = Archived(type, n, file)
  /\ replaced' = replaced \cup FileAt(lost_files, <<type, n>>)

\* ConvertLogToTable, whose status is only logged: the records that can be read
\* go to a new table, if there are any.  A failure to open the log takes no
\* number, a failing read ends the log, and a failing BuildTable leaves no file
\* unless its removal fails too.
ConvertLogToTable ==
  /\ RpAt("convert") /\ repairer.logs_ # <<>>
  /\ LET new      == repairer.next_file_number_
         readable == log_files[Head(repairer.logs_)].entries
         after    == [repairer EXCEPT !.pc = "archive_log", !.next_file_number_ = @ + 1]
         Build(entries) ==
           /\ entries # {}
           /\ table_files' = With(table_files, new, [entries |-> entries, sound |-> TRUE])
           /\ repairer' = [after EXCEPT !.table_numbers_ = Append(@, new)]
     IN  \/ RpFine /\ Build(readable)
         \/ RpFine /\ readable = {} /\ repairer' = after /\ UNCHANGED table_files
         \/ RpFault /\ \E some \in SUBSET readable : Build(some)
         \/ /\ RpFault /\ repairer' = after
            /\ table_files' \in {table_files, With(table_files, new, Unfinished)}
         \/ RpFault /\ RpGoto("archive_log") /\ UNCHANGED table_files
  /\ UNCHANGED <<log_files, lost_files, manifest, careless, replaced, repairs>>

\* The log goes to lost/, whatever became of its conversion.
ArchiveLog ==
  /\ RpAt("archive_log")
  /\ LET n == Head(repairer.logs_)
     IN  \/ /\ RpFine
            /\ ArchiveFile("log", n, log_files[n])
            /\ log_files' = Without(log_files, n)
         \/ RpFault /\ UNCHANGED <<lost_files, log_files, replaced>>
  /\ repairer' = [repairer EXCEPT !.pc = "convert", !.logs_ = Tail(@)]
  /\ UNCHANGED <<table_files, manifest, careless, repairs>>

-----------------------------------------------------------------------------
\* Mutant: the last table decides the sequence number.
LaterSequenceLast(sequence, entries) == Max({0} \cup entries)

\* The larger of max_sequence and those of a table.
LaterSequence(sequence, entries) == Max({sequence} \cup entries)

\* On to the next table, with or without this one in tables_.
Dropped ==
  [repairer EXCEPT !.pc = "convert", !.table_numbers_ = Tail(@), !.scanned = {}, !.saved = {}]

\* Mutant: a repaired or sound table is not listed.
ListedNot(n, entries) == [Dropped EXCEPT !.max_sequence = LaterSequence(@, entries)]

\* tables_.push_back(t), and the part of t that WriteDescriptor uses.
Listed(n, entries) ==
  [Dropped EXCEPT !.tables_ = @ \cup {n}, !.max_sequence = LaterSequence(@, entries)]

Scanning == RpAt("convert") /\ repairer.logs_ = <<>> /\ repairer.table_numbers_ # <<>>

Current == Head(repairer.table_numbers_)

\* ArchiveFile of a table, and its failure, which is only logged.
PutAway ==
  /\ ArchiveFile("table", Current, table_files[Current])
  /\ table_files' = Without(table_files, Current)
  /\ UNCHANGED careless

LeaveInPlace ==
  /\ careless' = careless \cup {table_files[Current]}
  /\ UNCHANGED <<lost_files, table_files, replaced>>

\* ScanTable: a table that is read to its end without an error is listed, another
\* is repaired, and t keeps what the scan saw of it; one whose size cannot be
\* learnt is to go to lost/.
ScanTable ==
  /\ Scanning
  /\ LET table == table_files[Current]
         Repaired(seen, misread) ==
           /\ repairer' = [repairer EXCEPT !.pc = "copy", !.scanned = seen,
                                           !.misread = @ \cup misread]
           /\ UNCHANGED <<table_files, lost_files, careless, replaced>>
     IN  \/ /\ RpFine /\ table.sound
            /\ repairer' = Listed(Current, table.entries)
            /\ UNCHANGED <<table_files, lost_files, careless, replaced>>
         \/ RpFine /\ ~table.sound /\ Repaired(table.entries, {})
         \/ RpFault /\ \E seen \in SUBSET table.entries : Repaired(seen, {Current})
         \/ RpFault /\ repairer' = Dropped /\ (PutAway \/ LeaveInPlace)
  /\ UNCHANGED <<log_files, manifest, repairs>>

\* RepairTable: begin a copy under a new number and read the source as far as it
\* goes; without the file for the copy, the source stays where it is.
RepairTable ==
  /\ RpAt("copy")
  /\ LET copy     == repairer.next_file_number_
         readable == table_files[Current].entries
         Begin(entries) ==
           /\ table_files' = With(table_files, copy, Unfinished)
           /\ repairer' = [repairer EXCEPT !.pc = "archive_table", !.saved = entries,
                                           !.next_file_number_ = @ + 1]
           /\ UNCHANGED careless
     IN  \/ RpFine /\ Begin(readable)
         \/ RpFault /\ \E some \in SUBSET readable \ {readable} : Begin(some)
         \/ /\ RpFault
            /\ repairer' = [Dropped EXCEPT !.next_file_number_ = @ + 1]
            /\ careless' = careless \cup {table_files[Current]}
            /\ UNCHANGED table_files
  /\ UNCHANGED <<log_files, lost_files, manifest, replaced, repairs>>

CopyNumber == repairer.next_file_number_ - 1

\* The source is put away before the copy is finished.
ArchiveTable ==
  /\ RpAt("archive_table")
  /\ RpGoto("finish")
  /\ \/ RpFine /\ PutAway
     \/ RpFault /\ LeaveInPlace
  /\ UNCHANGED <<log_files, manifest, repairs>>

\* A copy that failed is removed, unless that fails too.
GiveUpCopy ==
  /\ RpFault /\ repairer' = Dropped
  /\ table_files' \in {table_files, Without(table_files, CopyNumber)}

\* Finish and Close the copy, or abandon it, leaving the file, when there is
\* nothing in it.
FinishCopy ==
  /\ RpAt("finish")
  /\ \/ /\ RpFine /\ repairer.saved # {}
        /\ table_files' =
             With(table_files, CopyNumber, [entries |-> repairer.saved, sound |-> TRUE])
        /\ RpGoto("rename")
     \/ /\ RpFine /\ repairer.saved = {}
        /\ repairer' = Dropped
        /\ UNCHANGED table_files
     \/ GiveUpCopy
  /\ UNCHANGED <<log_files, lost_files, manifest, careless, replaced, repairs>>

\* The copy takes the name of the source and is listed with what the scan, not the
\* copying, saw.
RenameCopy ==
  /\ RpAt("rename")
  /\ \/ /\ RpFine
        /\ replaced' = replaced \cup FileAt(table_files, Current)
        /\ table_files' = With(Without(table_files, CopyNumber), Current, table_files[CopyNumber])
        /\ repairer' = Listed(Current, repairer.scanned)
     \/ GiveUpCopy /\ UNCHANGED replaced
  /\ UNCHANGED <<log_files, lost_files, manifest, careless, repairs>>

-----------------------------------------------------------------------------
\* WriteDescriptor up to the new file being complete; an error ends the repair.
WriteDescriptor ==
  /\ RpAt("convert") /\ repairer.logs_ = <<>> /\ repairer.table_numbers_ = <<>>
  /\ \/ RpFine /\ RpGoto("archive_manifests")
     \/ RpFault /\ repairer' = NoRepairer
  /\ UNCHANGED <<table_files, log_files, lost_files, manifest, careless, replaced, repairs>>

\* The old descriptors go to lost/ (CURRENT may still name one), or stay when that
\* fails.
ArchiveManifests ==
  /\ RpAt("archive_manifests")
  /\ \/ RpFine /\ manifest' = NoManifest
     \/ RpFault /\ UNCHANGED manifest
  /\ RpGoto("install")
  /\ UNCHANGED <<table_files, log_files, lost_files, careless, replaced, repairs>>

\* The rename, then SetCurrentFile.
InstallManifest ==
  /\ RpAt("install")
  /\ \/ /\ RpFine
        /\ manifest' = [current |-> FALSE, listed |-> repairer.tables_,
                        last_sequence |-> repairer.max_sequence,
                        next_file |-> repairer.next_file_number_]
        /\ RpGoto("current")
     \/ RpFault /\ repairer' = NoRepairer /\ UNCHANGED manifest
  /\ UNCHANGED <<table_files, log_files, lost_files, careless, replaced, repairs>>

SetCurrentFile ==
  /\ RpAt("current")
  /\ \/ /\ RpFine /\ RpGoto("repaired")
        /\ manifest' = [manifest EXCEPT !.current = TRUE]
     \/ RpFault /\ repairer' = NoRepairer /\ UNCHANGED manifest
  /\ UNCHANGED <<table_files, log_files, lost_files, careless, replaced, repairs>>

\* The process dies, in the middle of building a table perhaps.
RepairCrash ==
  /\ repairer # NoRepairer /\ ~RpAt("repaired")
  /\ repairer' = NoRepairer
  /\ \/ UNCHANGED table_files
     \/ /\ RpAt("convert") /\ repairer.logs_ # <<>>
        /\ table_files' = With(table_files, repairer.next_file_number_, Unfinished)
  /\ UNCHANGED <<log_files, lost_files, manifest, careless, replaced, repairs,
                 repair_faults>>

RPInit ==
  /\ table_files = InitialTables
  /\ log_files = InitialLogs
  /\ lost_files = <<>>
  /\ manifest = NoManifest
  /\ repairer = NoRepairer
  /\ careless = {} /\ replaced = {}
  /\ repairs = 0 /\ repair_faults = 0

RPNext ==
  \/ FindFiles
  \/ ConvertLogToTable
  \/ ArchiveLog
  \/ ScanTable
  \/ RepairTable
  \/ ArchiveTable
  \/ FinishCopy
  \/ RenameCopy
  \/ WriteDescriptor
  \/ ArchiveManifests
  \/ InstallManifest
  \/ SetCurrentFile
  \/ RepairCrash

RPSpec == RPInit /\ [][RPNext]_rpvars

-----------------------------------------------------------------------------
AllFiles(files) == {files[n] : n \in DOMAIN files}

EntriesOf(files) == UNION {f.entries : f \in files}

Readable == EntriesOf(AllFiles(InitialTables) \cup AllFiles(InitialLogs))

ReplacedAfterFailure == IF repair_faults = 0 THEN {} ELSE replaced

\* Whatever fails and wherever the process dies, however often the repair is
\* begun again, every entry that could be read at the beginning is still in a
\* file of the directory or of lost/; only after a failing system call may it have
\* been in a file that a rename replaced (ArchiveFile, RepairTable).
RepairDestroysNothing ==
  Readable \subseteq
    EntriesOf(AllFiles(table_files) \cup AllFiles(log_files) \cup AllFiles(lost_files)
              \cup ReplacedAfterFailure)

\* When a repair returns OK, each of those entries is in a table that the new
\* MANIFEST lists, in a log that the next DB::Open replays, or in lost/; files
\* that are neither listed nor replayed, which DB::Open will remove, hold nothing
\* that is not elsewhere, except after an error left a table in its place or had a
\* file replaced (Repairer::Run, ScanTable).  The MANIFEST lists tables that exist
\* and can be read to the end, and no file of the directory has a number that will
\* be given out again (WriteDescriptor).  No listed table has a later sequence
\* number than the MANIFEST, whether it was sound or a copy of a damaged one; the
\* exception is a copy whose source a failing read kept ScanTable from scanning to
\* its end, for RepairTable lists what that scan saw.
RepairedDatabaseIsSound ==
  RpAt("repaired") =>
    /\ Readable \subseteq EntriesOf({table_files[n] : n \in manifest.listed}
                                    \cup AllFiles(log_files) \cup AllFiles(lost_files)
                                    \cup careless \cup ReplacedAfterFailure)
    /\ manifest.current
    /\ \A n \in manifest.listed :
         /\ n \in DOMAIN table_files /\ table_files[n].sound
         /\ n \notin repairer.misread =>
              \A s \in table_files[n].entries : s <= manifest.last_sequence
    /\ \A n \in DOMAIN table_files \cup DOMAIN log_files : n < manifest.next_file

=============================================================================
