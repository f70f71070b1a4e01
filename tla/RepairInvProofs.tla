-------------------------- MODULE RepairInvProofs -------------------------
(***************************************************************************)
(* The inductive invariant of RepairDB, and that the steps which find the  *)
(* files, convert the logs and write the descriptor preserve it.           *)
(***************************************************************************)
EXTENDS Repair, FiniteSetTheorems, TLAPS

-----------------------------------------------------------------------------
(* Largest numbers. *)

\* A set of naturals that is not empty has a least element.
LEMMA LeastNumber ==
  ASSUME NEW S \in SUBSET Nat, S # {}
  PROVE  \E n \in S : \A m \in S : n <= m
<1> DEFINE R == OpToRel(<, Nat)
<1>1. IsWellFoundedOn(R, Nat)
  BY NatLessThanWellFounded
<1>2. \A x, y \in Nat : x < y => <<x, y>> \in R
  BY DEF OpToRel
<1>3. PICK n \in S : \A m \in S : ~(<<m, n>> \in R)
  <2> HIDE DEF R
  <2> QED BY <1>1, WFMin, Zenon
<1>4. \A m \in S : ~(m < n)
  <2> HIDE DEF R
  <2> QED BY <1>2, <1>3
<1> QED
  BY <1>4

HasLargest(S) == \E x \in S : \A y \in S : y <= x

\* A finite set of naturals that is not empty has a largest element.
LEMMA LargestNumber ==
  ASSUME NEW S \in SUBSET Nat, IsFiniteSet(S), S # {}
  PROVE  HasLargest(S)
<1> DEFINE Bad(T)  == T # {} /\ IsFiniteSet(T) /\ ~HasLargest(T)
           Sizes   == {n \in Nat : \E T \in SUBSET Nat : Bad(T) /\ Cardinality(T) = n}
<1> SUFFICES ASSUME Bad(S)
             PROVE  FALSE
  OBVIOUS
<1>1. Sizes # {}
  BY FS_CardinalityType
<1>2. PICK n \in Sizes : \A m \in Sizes : n <= m
  <2> HIDE DEF Sizes
  <2>1. Sizes \in SUBSET Nat
    BY DEF Sizes
  <2> QED BY <1>1, <2>1, LeastNumber
<1>3. PICK T \in SUBSET Nat : Bad(T) /\ Cardinality(T) = n
  BY <1>2
<1>4. PICK x \in T : TRUE
  BY <1>3, Zenon
<1> DEFINE U == T \ {x}
<1>5. IsFiniteSet(U) /\ Cardinality(U) = n - 1 /\ Cardinality(U) \in Nat
  BY <1>3, <1>4, FS_RemoveElement, FS_CardinalityType
<1>6. ~Bad(U)
  <2>1. Bad(U) => n - 1 \in Sizes
    BY <1>5
  <2> HIDE DEF Sizes
  <2>2. n \in Nat
    BY <1>2 DEF Sizes
  <2> QED BY <2>1, <2>2, <1>2
<1>7. CASE U = {}
  BY <1>3, <1>4, <1>7 DEF HasLargest
<1>8. CASE HasLargest(U)
  <2>1. PICK y \in U : \A z \in U : z <= y
    BY <1>8 DEF HasLargest
  <2>2. CASE x <= y
    BY <1>3, <1>4, <2>1, <2>2 DEF HasLargest
  <2>3. CASE y <= x
    BY <1>3, <1>4, <2>1, <2>3 DEF HasLargest
  <2> QED BY <2>1, <2>2, <2>3, <1>4
<1> QED
  BY <1>5, <1>6, <1>7, <1>8

\* Max is that element.
LEMMA MaxIsLargest ==
  ASSUME NEW S \in SUBSET Nat, IsFiniteSet(S), S # {}
  PROVE  Max(S) \in S /\ \A x \in S : x <= Max(S)
<1>1. PICK x \in S : \A y \in S : x >= y
  BY LargestNumber DEF HasLargest
<1> QED
  BY <1>1, Zenon DEF Max

\* The number after those that FindFiles finds is larger than all of them.
LEMMA NextAfterLarger ==
  ASSUME NEW S \in SUBSET Nat, IsFiniteSet(S)
  PROVE  NextAfter(S) \in Nat /\ \A n \in S : n < NextAfter(S)
<1>1. CASE S = {}
  BY <1>1 DEF NextAfter
<1>2. CASE S # {}
  <2>1. Max(S) \in Nat /\ \A n \in S : n <= Max(S)
    BY <1>2, MaxIsLargest, Zenon
  <2>2. NextAfter(S) = Max(S) + 1
    BY <1>2, Zenon DEF NextAfter
  <2> QED BY <2>1, <2>2
<1> QED
  BY <1>1, <1>2

\* WriteDescriptor's sequence number is no smaller than that of any table.
LEMMA LaterSequenceLarger ==
  ASSUME NEW n \in Nat, NEW S \in SUBSET Nat, IsFiniteSet(S)
  PROVE  /\ LaterSequence(n, S) \in Nat /\ n <= LaterSequence(n, S)
         /\ \A x \in S : x <= LaterSequence(n, S)
<1>1. IsFiniteSet({n} \cup S)
  <2>1. IsFiniteSet(S \cup {n})
    BY FS_AddElement
  <2>2. S \cup {n} = {n} \cup S
    OBVIOUS
  <2> QED BY <2>1, <2>2
<1>2. {n} \cup S \in SUBSET Nat /\ {n} \cup S # {}
  OBVIOUS
<1> QED
  BY <1>1, <1>2, MaxIsLargest DEF LaterSequence

-----------------------------------------------------------------------------
(* The sequences of numbers and the directories. *)

Elements(s) == {s[i] : i \in DOMAIN s}

Distinct(s) == \A i, j \in DOMAIN s : s[i] = s[j] => i = j

\* The rest of a sequence of numbers holds the others.
LEMMA TailElements ==
  ASSUME NEW s \in Seq(Nat), s # <<>>, Distinct(s)
  PROVE  /\ Tail(s) \in Seq(Nat) /\ Distinct(Tail(s))
         /\ Head(s) \in Elements(s) /\ Head(s) \in Nat
         /\ Elements(Tail(s)) = Elements(s) \ {Head(s)}
<1>1. Len(s) \in Nat \ {0} /\ Tail(s) \in Seq(Nat) /\ Len(Tail(s)) = Len(s) - 1
      /\ Head(s) = s[1] /\ DOMAIN s = 1 .. Len(s) /\ DOMAIN Tail(s) = 1 .. Len(s) - 1
      /\ \A i \in 1 .. Len(s) - 1 : Tail(s)[i] = s[i + 1]
  OBVIOUS
<1>2. Distinct(Tail(s))
  BY <1>1, SMTT(30) DEF Distinct
<1>3. ASSUME NEW x \in Elements(s), x # Head(s)
      PROVE  x \in Elements(Tail(s))
  <2>1. PICK i \in 1 .. Len(s) : x = s[i]
    BY <1>1, <1>3 DEF Elements
  <2>2. i - 1 \in DOMAIN Tail(s) /\ Tail(s)[i - 1] = x
    BY <1>1, <1>3, <2>1
  <2> QED BY <2>2, ZenonT(30) DEF Elements
<1>4. ASSUME NEW x \in Elements(Tail(s))
      PROVE  x \in Elements(s) /\ x # Head(s)
  <2>1. PICK i \in 1 .. Len(s) - 1 : x = s[i + 1]
    BY <1>1, <1>4 DEF Elements
  <2>2. i + 1 \in DOMAIN s /\ 1 \in DOMAIN s /\ i + 1 # 1
    BY <1>1, <2>1
  <2> QED BY <1>1, <2>1, <2>2, SMTT(30) DEF Elements, Distinct
<1>5. Head(s) \in Elements(s) /\ Head(s) \in Nat
  BY <1>1 DEF Elements
<1> QED
  BY <1>1, <1>2, <1>3, <1>4, <1>5

\* A new number at the end.
LEMMA AppendElements ==
  ASSUME NEW s \in Seq(Nat), Distinct(s), NEW x \in Nat, x \notin Elements(s)
  PROVE  /\ Append(s, x) \in Seq(Nat) /\ Distinct(Append(s, x))
         /\ Elements(Append(s, x)) = Elements(s) \cup {x}
<1> DEFINE t == Append(s, x)
<1>1. t \in Seq(Nat) /\ Len(s) \in Nat /\ DOMAIN t = 1 .. Len(s) + 1 /\ DOMAIN s = 1 .. Len(s)
      /\ t[Len(s) + 1] = x /\ \A i \in 1 .. Len(s) : t[i] = s[i]
  OBVIOUS
<1> HIDE DEF t
<1>2. \A i \in 1 .. Len(s) : t[i] \in Elements(s)
  BY <1>1, Zenon DEF Elements
<1>3. Distinct(t)
  BY <1>1, <1>2, SMTT(30) DEF Distinct
<1>4. ASSUME NEW y \in Elements(t)
      PROVE  y \in Elements(s) \cup {x}
  <2>1. PICK i \in 1 .. Len(s) + 1 : y = t[i]
    BY <1>1, <1>4 DEF Elements
  <2>2. i \in 1 .. Len(s) \/ i = Len(s) + 1
    BY <1>1
  <2> QED BY <1>1, <1>2, <2>1, <2>2
<1>5. Elements(s) \cup {x} \subseteq Elements(t)
  BY <1>1 DEF Elements
<1> QED
  BY <1>1, <1>3, <1>4, <1>5 DEF t

LEMMA NoElements == Elements(<<>>) = {}
BY DEF Elements

\* FindFiles finds every file once.
LEMMA FoundElements ==
  ASSUME NEW S \in SUBSET Nat, IsFiniteSet(S), NEW s \in OrdersOf(S)
  PROVE  s \in Seq(Nat) /\ Distinct(s) /\ Elements(s) = S
<1> DEFINE n == Cardinality(S)
<1>1. n \in Nat
  BY FS_CardinalityType
<1>2. s \in [1 .. n -> S] /\ \A i, j \in 1 .. n : i # j => s[i] # s[j]
  BY DEF OrdersOf
<1> HIDE DEF n
<1>3. s \in Seq(Nat) /\ Distinct(s)
  <2>1. s \in [1 .. n -> Nat]
    BY <1>2
  <2>2. s \in Seq(Nat)
    BY <1>1, <2>1
  <2>3. DOMAIN s = 1 .. n
    BY <1>2
  <2> QED BY <1>2, <2>2, <2>3 DEF Distinct
<1>4. s \in Injection(1 .. n, S)
  BY <1>2 DEF Injection, IsInjective
<1>5. IsFiniteSet(1 .. n) /\ Cardinality(1 .. n) = n
  BY <1>1, FS_Interval
<1>6. s \in Surjection(1 .. n, S)
  BY <1>4, <1>5, FS_Injection DEF n
<1>7. \A x \in S : \E i \in 1 .. n : s[i] = x
  BY <1>6 DEF Surjection
<1> QED
  BY <1>2, <1>3, <1>7, Zenon DEF Elements

Entries(e) == e \subseteq Nat /\ IsFiniteSet(e)

Directory(files) ==
  /\ DOMAIN files \subseteq Nat /\ IsFiniteSet(DOMAIN files)
  /\ \A n \in DOMAIN files : Entries(files[n].entries)

LEMMA DirectoryWith ==
  ASSUME NEW files, Directory(files), NEW n \in Nat, NEW file, Entries(file.entries)
  PROVE  Directory(With(files, n, file))
<1>1. IsFiniteSet(DOMAIN files \cup {n})
  BY FS_AddElement DEF Directory
<1> DEFINE new == With(files, n, file)
<1>2. DOMAIN new = DOMAIN files \cup {n} /\ new[n] = file
      /\ \A m \in DOMAIN files : m # n => new[m] = files[m]
  BY DEF With
<1> HIDE DEF new
<1>3. ASSUME NEW m \in DOMAIN new
      PROVE  Entries(new[m].entries)
  <2>1. CASE m = n
    BY <1>2, <2>1
  <2>2. CASE m # n
    BY <1>2, <1>3, <2>2 DEF Directory
  <2> QED BY <2>1, <2>2
<1>4. DOMAIN new \subseteq Nat /\ IsFiniteSet(DOMAIN new)
  BY <1>1, <1>2 DEF Directory
<1>5. Directory(new)
  BY <1>3, <1>4 DEF Directory
<1> QED
  BY <1>5 DEF new

LEMMA DirectoryWithout ==
  ASSUME NEW files, Directory(files), NEW n
  PROVE  Directory(Without(files, n))
<1>1. IsFiniteSet(DOMAIN files \ {n})
  BY FS_RemoveElement DEF Directory
<1> DEFINE new == Without(files, n)
<1>2. DOMAIN new = DOMAIN files \ {n} /\ \A m \in DOMAIN files : m # n => new[m] = files[m]
  BY DEF Without
<1> HIDE DEF new
<1>3. \A m \in DOMAIN new : Entries(new[m].entries)
  BY <1>2 DEF Directory
<1>4. DOMAIN new \subseteq Nat /\ IsFiniteSet(DOMAIN new)
  BY <1>1, <1>2 DEF Directory
<1>5. Directory(new)
  BY <1>3, <1>4 DEF Directory
<1> QED
  BY <1>5 DEF new

LEMMA NoEntries == Entries({})
BY FS_EmptySet DEF Entries

LEMMA SomeEntries ==
  ASSUME NEW e, Entries(e), NEW f \in SUBSET e
  PROVE  Entries(f)
BY FS_Subset DEF Entries

-----------------------------------------------------------------------------
(* The inductive invariant. *)

NoLogs == repairer.logs_ = <<>>

Pending == Elements(repairer.table_numbers_)

\* A table is being copied: its file or what was renamed is not listed yet, and
\* the copy is there under the last number that was given out.
Copying == repairer.pc \in {"archive_table", "finish", "rename"}

CopyInProgress == IF Copying THEN {CopyNumber} ELSE {}

Repairing == repairer # NoRepairer

Steps == {"convert", "archive_log", "copy", "archive_table", "finish", "rename",
          "archive_manifests", "install", "current", "repaired"}

Repairers ==
  [pc : Steps, logs_ : Seq(Nat), table_numbers_ : Seq(Nat), tables_ : SUBSET Nat,
   max_sequence : Nat, scanned : SUBSET Nat, misread : SUBSET Nat, saved : SUBSET Nat,
   next_file_number_ : Nat]

RepairTypes ==
  /\ Directory(table_files) /\ Directory(log_files)
  /\ repair_faults \in Nat
  /\ Repairing =>
       /\ repairer \in Repairers
       /\ Entries(repairer.saved) /\ Entries(repairer.scanned)

\* The numbers that a repair goes through, and the one it gives out next.
Numbers ==
  Repairing =>
    /\ \A n \in DOMAIN table_files \cup DOMAIN log_files \cup Pending \cup repairer.tables_ :
         n < repairer.next_file_number_
    /\ Distinct(repairer.logs_) /\ Elements(repairer.logs_) \subseteq DOMAIN log_files
    /\ Distinct(repairer.table_numbers_)
    /\ repairer.tables_ \cap Pending = {}
    /\ \A n \in Pending :
         \/ n \in DOMAIN table_files
         \/ n = Current /\ repairer.pc \in {"finish", "rename"}

\* Where the repair is.
Phases ==
  Repairing =>
    /\ repairer.pc = "archive_log" => ~NoLogs
    /\ repairer.pc \in {"copy", "archive_table", "finish", "rename"} =>
         NoLogs /\ repairer.table_numbers_ # <<>>
    /\ repairer.pc \in {"archive_manifests", "install", "current", "repaired"} =>
         NoLogs /\ repairer.table_numbers_ = <<>>
    /\ repairer.pc \in {"current", "repaired"} =>
         manifest = [current |-> RpAt("repaired"), listed |-> repairer.tables_,
                     last_sequence |-> repairer.max_sequence,
                     next_file |-> repairer.next_file_number_]

\* The tables that will be listed.
ListedTables ==
  Repairing =>
    \A n \in repairer.tables_ :
      /\ n \in DOMAIN table_files /\ table_files[n].sound
      /\ n \notin repairer.misread =>
           \A s \in table_files[n].entries : s <= repairer.max_sequence

\* What the scan of the current table saw: unless a failing read cut it short, all
\* that can be read of the table, and so all that is copied.
Scanned ==
  Repairing /\ Current \notin repairer.misread =>
    /\ repairer.pc = "copy" =>
         \A e \in table_files[Current].entries : e \in repairer.scanned
    /\ Copying => \A e \in repairer.saved : e \in repairer.scanned

\* The copy and its source: the copy holds only what is in the source, and a
\* source that could not be put away is remembered in careless.
Copies ==
  Repairing /\ Copying =>
    /\ CopyNumber \in DOMAIN table_files
    /\ CopyNumber \notin Pending \cup repairer.tables_
    /\ repairer.pc \in {"archive_table", "finish"} => table_files[CopyNumber] = Unfinished
    /\ repairer.pc = "rename" =>
         table_files[CopyNumber] = [entries |-> repairer.saved, sound |-> TRUE]
    /\ \A e \in repairer.saved :
         IF Current \in DOMAIN table_files THEN e \in table_files[Current].entries
         ELSE /\ <<"table", Current>> \in DOMAIN lost_files
              /\ e \in lost_files[<<"table", Current>>].entries
    /\ repairer.pc # "archive_table" /\ Current \in DOMAIN table_files =>
         table_files[Current] \in careless

\* No log of the directory has its name taken in lost/.
LogsArchivedOnce == \A n \in DOMAIN log_files : <<"log", n>> \notin DOMAIN lost_files

\* Without failures: a table whose name is taken in lost/ is a finished copy, the
\* source of a copy is damaged and gets out of the way, and the directory keeps a
\* table with a number as large as any in lost/, so that none is given out twice.
WithoutFailures ==
  repair_faults = 0 =>
    /\ \A n \in DOMAIN table_files :
         <<"table", n>> \in DOMAIN lost_files => table_files[n].sound
    /\ repairer.pc \in {"copy", "archive_table"} => ~table_files[Current].sound
    /\ repairer.pc \in {"finish", "rename"} => Current \notin DOMAIN table_files
    /\ \A m \in Nat : <<"table", m>> \in DOMAIN lost_files =>
         /\ \/ \E w \in DOMAIN table_files \ CopyInProgress : m <= w
            \/ repairer.pc \in {"finish", "rename"} /\ m <= Current
         /\ Repairing => m < repairer.next_file_number_

\* Where an entry is.
InFiles(e, files) == \E n \in DOMAIN files : e \in files[n].entries

InReplaced(e) == repair_faults # 0 /\ \E f \in replaced : e \in f.entries

Kept(e) == InFiles(e, table_files) \/ InFiles(e, log_files) \/ InFiles(e, lost_files) \/ InReplaced(e)

\* In a table that is or may yet be listed, in a log, in lost/, or in a table
\* that an error left in its place.
Accounted(e) ==
  \/ \E n \in DOMAIN table_files :
       n \in Pending \cup repairer.tables_ /\ e \in table_files[n].entries
  \/ InFiles(e, log_files) \/ InFiles(e, lost_files) \/ InReplaced(e)
  \/ \E f \in careless : e \in f.entries

AllKept == \A e \in Readable : Kept(e)

AllAccounted == Repairing => \A e \in Readable : Accounted(e)

RepairInv ==
  /\ RepairTypes /\ Numbers /\ Phases /\ ListedTables /\ Scanned /\ Copies /\ LogsArchivedOnce
  /\ WithoutFailures
  /\ AllKept
  /\ AllAccounted

-----------------------------------------------------------------------------
(* Every step preserves it. *)

\* The first state: nothing is in lost/ and nothing is repaired.
LEMMA RepairBegins == RPInit => RepairInv
<1> SUFFICES ASSUME RPInit PROVE RepairInv
  OBVIOUS
<1>1. ~Repairing /\ repairer.pc = "none" /\ DOMAIN lost_files = {} /\ repair_faults = 0
  BY DEF RPInit, Repairing, NoRepairer
<1>2. RepairTypes
  BY <1>1, RepairAssumption DEF RPInit, RepairTypes, Directory, Entries
<1>3. Numbers /\ Phases /\ ListedTables /\ Scanned /\ Copies
  BY <1>1 DEF Numbers, Phases, ListedTables, Scanned, Copies
<1>4. LogsArchivedOnce /\ WithoutFailures
  BY <1>1 DEF LogsArchivedOnce, WithoutFailures
<1>5. AllKept
  BY DEF RPInit, AllKept, Kept, InFiles, Readable, EntriesOf, AllFiles
<1>6. AllAccounted
  BY <1>1 DEF AllAccounted
<1> QED
  BY <1>2, <1>3, <1>4, <1>5, <1>6 DEF RepairInv

\* A repairer that is somewhere is there.
LEMMA RepairIsAt ==
  ASSUME RepairInv, NEW p \in Steps, repairer.pc = p
  PROVE  Repairing /\ repairer \in Repairers /\ Entries(repairer.saved)
         /\ Entries(repairer.scanned)
<1>1. p # "none"
  BY DEF Steps
<1>2. Repairing
  BY <1>1 DEF Repairing, NoRepairer
<1> QED
  BY <1>2 DEF RepairInv, RepairTypes

\* A step that changes no file and does not end a repair's phase early: only the
\* number of failures grows.
LEMMA RepairStutters ==
  ASSUME RepairInv,
         UNCHANGED <<table_files, log_files, lost_files, manifest, repairer, careless, replaced>>,
         repair_faults' = repair_faults \/ repair_faults' = repair_faults + 1
  PROVE  RepairInv'
<1>1. repair_faults \in Nat /\ repair_faults' \in Nat /\ (repair_faults' = 0 => repair_faults = 0)
      /\ (repair_faults # 0 => repair_faults' # 0)
  BY DEF RepairInv, RepairTypes
<1>2. RepairTypes'
  BY <1>1 DEF RepairInv, RepairTypes, Repairing
<1>3. Numbers' /\ Phases' /\ ListedTables' /\ Scanned' /\ Copies' /\ LogsArchivedOnce'
  BY DEF RepairInv, Numbers, Phases, ListedTables, Scanned, Copies, LogsArchivedOnce,
         Repairing, Pending, Current, NoLogs, RpAt, Copying, CopyNumber
<1>4. WithoutFailures'
  BY <1>1 DEF RepairInv, WithoutFailures, Repairing, Current, CopyInProgress, Copying, CopyNumber
<1>5. AllKept'
  BY <1>1 DEF RepairInv, AllKept, Kept, InFiles, InReplaced
<1>6. AllAccounted'
  BY <1>1 DEF RepairInv, AllAccounted, Accounted, InFiles, InReplaced, Repairing, Pending
<1> QED
  BY <1>2, <1>3, <1>4, <1>5, <1>6 DEF RepairInv

\* A repair that returns an error or dies, in the middle of building a table
\* perhaps: whatever it was copying, a table with a number as large as any in
\* lost/ is still there.
LEMMA RepairEnds ==
  ASSUME RepairInv, Repairing, repairer' = NoRepairer,
         \/ table_files' = table_files
         \/ /\ repairer.pc = "convert"
            /\ table_files' = With(table_files, repairer.next_file_number_, Unfinished),
         UNCHANGED <<log_files, lost_files, careless, replaced>>,
         repair_faults' = repair_faults \/ repair_faults' = repair_faults + 1
  PROVE  RepairInv'
<1>1. ~Repairing' /\ repairer.pc' = "none" /\ CopyInProgress' = {}
  BY DEF Repairing, NoRepairer, CopyInProgress, Copying
<1>2. repair_faults \in Nat /\ repair_faults' \in Nat /\ (repair_faults' = 0 => repair_faults = 0)
      /\ (repair_faults # 0 => repair_faults' # 0)
  BY DEF RepairInv, RepairTypes
<1> DEFINE new == repairer.next_file_number_
<1>3. repairer \in Repairers /\ new \in Nat /\ new \notin DOMAIN table_files
      /\ \A n \in DOMAIN table_files : n \in Nat /\ n < new
  BY DEF RepairInv, RepairTypes, Repairers, Numbers, Directory
<1>4. /\ DOMAIN table_files \subseteq DOMAIN table_files'
      /\ \A n \in DOMAIN table_files : table_files'[n] = table_files[n]
      /\ \A n \in DOMAIN table_files' : n \notin DOMAIN table_files => n = new
  BY <1>3 DEF With
<1> HIDE DEF new
<1>5. RepairTypes'
  <2>1. Directory(table_files)'
    BY <1>3, DirectoryWith, NoEntries DEF RepairInv, RepairTypes, Unfinished, new
  <2>2. Directory(log_files)'
    BY DEF RepairInv, RepairTypes
  <2> QED BY <1>1, <1>2, <2>1, <2>2 DEF RepairTypes
<1>6. Numbers' /\ Phases' /\ ListedTables' /\ Scanned' /\ Copies' /\ AllAccounted'
  BY <1>1 DEF Numbers, Phases, ListedTables, Scanned, Copies, AllAccounted
<1>7. LogsArchivedOnce'
  BY DEF RepairInv, LogsArchivedOnce
<1>8. WithoutFailures'
  <2> SUFFICES ASSUME repair_faults' = 0
               PROVE  /\ \A n \in DOMAIN table_files' :
                           <<"table", n>> \in DOMAIN lost_files' => table_files'[n].sound
                      /\ \A m \in Nat : <<"table", m>> \in DOMAIN lost_files' =>
                           \E w \in DOMAIN table_files' : m <= w
    BY <1>1 DEF WithoutFailures
  <2>1. WithoutFailures /\ repair_faults = 0
    BY <1>2 DEF RepairInv
  <2>2. ASSUME NEW n \in DOMAIN table_files', <<"table", n>> \in DOMAIN lost_files'
        PROVE  table_files'[n].sound
    <3>1. n \in DOMAIN table_files
      <4>1. \A m \in Nat : <<"table", m>> \in DOMAIN lost_files => m < new
        BY <2>1 DEF WithoutFailures, new
      <4>2. <<"table", n>> \in DOMAIN lost_files /\ ~(new < new)
        BY <2>2, <1>3
      <4> QED BY <1>3, <1>4, <4>1, <4>2
    <3> QED BY <1>4, <2>1, <2>2, <3>1 DEF WithoutFailures
  <2>3. ASSUME NEW m \in Nat, <<"table", m>> \in DOMAIN lost_files'
        PROVE  \E w \in DOMAIN table_files' : m <= w
    <3>1. CASE \E w \in DOMAIN table_files \ CopyInProgress : m <= w
      BY <1>4, <3>1
    <3>2. CASE repairer.pc \in {"finish", "rename"} /\ m <= Current
      <4>1. CopyNumber \in DOMAIN table_files /\ Current \in Pending
            /\ repairer.table_numbers_ \in Seq(Nat) /\ Current \in Nat
        BY <3>2, <1>3, TailElements
        DEF RepairInv, Copies, Copying, Numbers, Phases, Pending, Current, Repairers
      <4>2. Current < new /\ CopyNumber = new - 1
        BY <4>1 DEF RepairInv, Numbers, new, CopyNumber
      <4> QED BY <1>3, <1>4, <3>2, <4>1, <4>2
    <3> QED BY <2>1, <2>3, <3>1, <3>2 DEF WithoutFailures
  <2> QED BY <2>2, <2>3
<1>9. AllKept'
  BY <1>2, <1>4 DEF RepairInv, AllKept, Kept, InFiles, InReplaced
<1> QED
  BY <1>5, <1>6, <1>7, <1>8, <1>9 DEF RepairInv


\* From one step to another that changes no file: only Phases, and what is known
\* of the source of a copy and of its scan, depend on the step.
LEMMA RepairGoesOnFrom ==
  ASSUME RepairInv, Repairing, ~Copying, ~Copying', NEW p \in Steps,
         NEW k \in Nat, repairer.next_file_number_ <= k, NEW seen, Entries(seen),
         NEW bad \in SUBSET Nat,
         repairer' = [repairer EXCEPT !.pc = p, !.next_file_number_ = k, !.scanned = seen,
                                      !.misread = @ \cup bad],
         Phases', Scanned',
         repair_faults' = 0 /\ p = "copy" => ~table_files[Current].sound,
         UNCHANGED <<table_files, log_files, lost_files, careless, replaced>>,
         repair_faults' = repair_faults \/ repair_faults' = repair_faults + 1
  PROVE  RepairInv'
<1>1. repair_faults \in Nat /\ repair_faults' \in Nat /\ (repair_faults' = 0 => repair_faults = 0)
      /\ (repair_faults # 0 => repair_faults' # 0)
  BY DEF RepairInv, RepairTypes
<1>2. repairer \in Repairers /\ Entries(repairer.saved)
  BY DEF RepairInv, RepairTypes
<1>3. /\ repairer' \in Repairers /\ repairer.pc' = p
      /\ repairer.logs_' = repairer.logs_ /\ repairer.table_numbers_' = repairer.table_numbers_
      /\ repairer.tables_' = repairer.tables_ /\ repairer.max_sequence' = repairer.max_sequence
      /\ repairer.saved' = repairer.saved /\ repairer.scanned' = seen
      /\ repairer.misread' = repairer.misread \cup bad
      /\ repairer.next_file_number_' = k /\ repairer.next_file_number_ \in Nat
  <2> DEFINE misread == repairer.misread \cup bad
  <2>1. repairer' = [repairer EXCEPT !.pc = p, !.next_file_number_ = k, !.scanned = seen,
                                     !.misread = misread]
    BY <1>2 DEF Repairers
  <2>2. misread \in SUBSET Nat /\ seen \in SUBSET Nat
    BY <1>2 DEF Repairers, Entries
  <2> HIDE DEF misread
  <2>3. /\ repairer' \in Repairers /\ repairer.pc' = p
        /\ repairer.logs_' = repairer.logs_ /\ repairer.table_numbers_' = repairer.table_numbers_
        /\ repairer.tables_' = repairer.tables_ /\ repairer.max_sequence' = repairer.max_sequence
        /\ repairer.saved' = repairer.saved /\ repairer.scanned' = seen
        /\ repairer.misread' = misread
        /\ repairer.next_file_number_' = k /\ repairer.next_file_number_ \in Nat
    BY <1>2, <2>1, <2>2, Zenon DEF Repairers
  <2> QED BY <2>3 DEF misread
<1>4. Pending' = Pending /\ Current' = Current /\ CopyInProgress' = {} /\ CopyInProgress = {}
  BY <1>3 DEF Pending, Current, CopyInProgress
<1>5. p \notin {"finish", "rename", "archive_table"}
      /\ repairer.pc \notin {"finish", "rename", "archive_table"}
  BY <1>3 DEF Copying
<1>6. RepairTypes'
  <2>1. Directory(table_files)' /\ Directory(log_files)'
    BY DEF RepairInv, RepairTypes
  <2> QED BY <1>1, <1>2, <1>3, <2>1 DEF RepairTypes
<1>7. Numbers' /\ ListedTables'
  <2>1. DOMAIN table_files \cup DOMAIN log_files \cup Pending \cup repairer.tables_ \subseteq Nat
    BY <1>2 DEF RepairInv, RepairTypes, Directory, Repairers, Pending, Elements
  <2>2. \A n \in DOMAIN table_files \cup DOMAIN log_files \cup Pending \cup repairer.tables_ : n < k
    BY <1>3, <2>1 DEF RepairInv, Numbers
  <2> QED BY <1>3, <1>4, <1>5, <2>2 DEF RepairInv, Numbers, ListedTables
<1>8. Copies' /\ LogsArchivedOnce'
  BY DEF Copies, RepairInv, LogsArchivedOnce
<1>9. WithoutFailures'
  <2>1. ASSUME repair_faults' = 0, NEW m \in Nat, <<"table", m>> \in DOMAIN lost_files
        PROVE  (\E w \in DOMAIN table_files : m <= w) /\ m < k
    <3>1. WithoutFailures /\ repair_faults = 0
      BY <1>1, <2>1 DEF RepairInv
    <3>2. \E w \in DOMAIN table_files : m <= w
      BY <1>4, <1>5, <2>1, <3>1 DEF WithoutFailures
    <3>3. m < repairer.next_file_number_
      BY <2>1, <3>1 DEF WithoutFailures
    <3> QED BY <1>3, <3>2, <3>3
  <2> QED BY <1>1, <1>3, <1>4, <1>5, <2>1 DEF RepairInv, WithoutFailures
<1>10. AllKept'
  BY <1>1 DEF RepairInv, AllKept, Kept, InFiles, InReplaced
<1>11. AllAccounted'
  BY <1>1, <1>3, <1>4 DEF RepairInv, AllAccounted, Accounted, InFiles, InReplaced
<1> QED
  BY <1>6, <1>7, <1>8, <1>9, <1>10, <1>11 DEF RepairInv

\* The same, with the scan as it is.
LEMMA RepairGoesOnAt ==
  ASSUME RepairInv, Repairing, ~Copying, ~Copying', NEW p \in Steps, p # "copy",
         NEW k \in Nat, repairer.next_file_number_ <= k,
         repairer' = [repairer EXCEPT !.pc = p, !.next_file_number_ = k], Phases',
         UNCHANGED <<table_files, log_files, lost_files, careless, replaced>>,
         repair_faults' = repair_faults \/ repair_faults' = repair_faults + 1
  PROVE  RepairInv'
<1> DEFINE seen == repairer.scanned
<1>1. repairer \in Repairers /\ Entries(seen)
  BY DEF RepairInv, RepairTypes
<1>2. repairer' = [repairer EXCEPT !.pc = p, !.next_file_number_ = k, !.scanned = seen,
                                   !.misread = @ \cup {}]
  BY <1>1, ZenonT(30) DEF Repairers
<1>3. repairer.pc' = p
  BY <1>1 DEF Repairers
<1> HIDE DEF seen
<1>4. Scanned'
  BY <1>3 DEF Scanned
<1>5. {} \in SUBSET Nat /\ (repair_faults' = 0 /\ p = "copy" => ~table_files[Current].sound)
  OBVIOUS
<1> QED
  BY <1>1, <1>2, <1>4, <1>5, RepairGoesOnFrom, Zenon

LEMMA RepairGoesOn ==
  ASSUME RepairInv, Repairing, ~Copying, ~Copying', NEW p \in Steps, p # "copy",
         repairer' = [repairer EXCEPT !.pc = p], Phases',
         UNCHANGED <<table_files, log_files, lost_files, careless, replaced>>,
         repair_faults' = repair_faults \/ repair_faults' = repair_faults + 1
  PROVE  RepairInv'
<1> DEFINE k == repairer.next_file_number_
<1>1. repairer \in Repairers /\ k \in Nat /\ k <= k
  BY DEF RepairInv, RepairTypes, Repairers
<1>2. repairer' = [repairer EXCEPT !.pc = p, !.next_file_number_ = k]
  BY <1>1 DEF Repairers
<1> HIDE DEF k
<1>3. repairer.next_file_number_ <= k
  BY <1>1 DEF k
<1> QED
  BY <1>1, <1>2, <1>3, RepairGoesOnAt, Zenon

\* WriteDescriptor.
LEMMA WriteDescriptorStep == RepairInv /\ WriteDescriptor => RepairInv'
<1> SUFFICES ASSUME RepairInv, WriteDescriptor PROVE RepairInv'
  OBVIOUS
<1>1. Repairing /\ ~Copying /\ repairer \in Repairers
  BY RepairIsAt DEF WriteDescriptor, RpAt, Copying, Steps
<1>2. CASE RpFine /\ RpGoto("archive_manifests")
  <2>1. repairer' = [repairer EXCEPT !.pc = "archive_manifests"] /\ "archive_manifests" \in Steps
    BY <1>2 DEF RpGoto, Steps
  <2>2. ~Copying' /\ Phases'
    BY <1>1, <2>1 DEF Copying, Phases, NoLogs, WriteDescriptor, Repairers
  <2> QED BY <1>1, <1>2, <2>1, <2>2, RepairGoesOn DEF WriteDescriptor, RpFine
<1>3. CASE RpFault /\ repairer' = NoRepairer
  BY <1>1, <1>3, RepairEnds DEF WriteDescriptor, RpFault
<1> QED
  BY <1>2, <1>3 DEF WriteDescriptor

\* The old descriptors are put away.
LEMMA ArchiveManifestsStep == RepairInv /\ ArchiveManifests => RepairInv'
<1> SUFFICES ASSUME RepairInv, ArchiveManifests PROVE RepairInv'
  OBVIOUS
<1>1. Repairing /\ ~Copying /\ repairer \in Repairers
  BY RepairIsAt DEF ArchiveManifests, RpAt, Copying, Steps
<1>2. repairer' = [repairer EXCEPT !.pc = "install"] /\ "install" \in Steps
  BY DEF ArchiveManifests, RpGoto, Steps
<1>3. ~Copying' /\ Phases'
  BY <1>1, <1>2 DEF Copying, Phases, NoLogs, ArchiveManifests, Repairers, RepairInv, RpAt
<1> QED
  BY <1>1, <1>2, <1>3, RepairGoesOn DEF ArchiveManifests, RpFine, RpFault

\* The new descriptor gets its name.
LEMMA InstallManifestStep == RepairInv /\ InstallManifest => RepairInv'
<1> SUFFICES ASSUME RepairInv, InstallManifest PROVE RepairInv'
  OBVIOUS
<1>1. Repairing /\ ~Copying /\ repairer \in Repairers
  BY RepairIsAt DEF InstallManifest, RpAt, Copying, Steps
<1>2. CASE RpFine /\ RpGoto("current")
  <2>1. repairer' = [repairer EXCEPT !.pc = "current"] /\ "current" \in Steps
    BY <1>2 DEF RpGoto, Steps
  <2>2. manifest' = [current |-> FALSE, listed |-> repairer.tables_,
                     last_sequence |-> repairer.max_sequence,
                     next_file |-> repairer.next_file_number_]
    BY <1>1, <1>2, <2>1 DEF InstallManifest, NoRepairer, Repairers
  <2>3. ~Copying' /\ Phases'
    BY <1>1, <2>1, <2>2, Zenon DEF Copying, Phases, NoLogs, InstallManifest, Repairers, RepairInv, RpAt
  <2> QED BY <1>1, <1>2, <2>1, <2>3, RepairGoesOn DEF InstallManifest, RpFine
<1>3. CASE RpFault /\ repairer' = NoRepairer
  BY <1>1, <1>3, RepairEnds DEF InstallManifest, RpFault
<1> QED
  BY <1>2, <1>3 DEF InstallManifest

\* CURRENT names it.
LEMMA SetCurrentFileStep == RepairInv /\ SetCurrentFile => RepairInv'
<1> SUFFICES ASSUME RepairInv, SetCurrentFile PROVE RepairInv'
  OBVIOUS
<1>1. Repairing /\ ~Copying /\ repairer \in Repairers
  BY RepairIsAt DEF SetCurrentFile, RpAt, Copying, Steps
<1>2. CASE RpFine /\ RpGoto("repaired") /\ manifest' = [manifest EXCEPT !.current = TRUE]
  <2>1. repairer' = [repairer EXCEPT !.pc = "repaired"] /\ "repaired" \in Steps
    BY <1>2 DEF RpGoto, Steps
  <2>2. /\ NoLogs /\ repairer.table_numbers_ = <<>>
        /\ manifest = [current |-> FALSE, listed |-> repairer.tables_,
                       last_sequence |-> repairer.max_sequence,
                       next_file |-> repairer.next_file_number_]
    BY <1>1, Zenon DEF SetCurrentFile, RepairInv, Phases, RpAt
  <2>3. manifest' = [current |-> TRUE, listed |-> repairer.tables_,
                     last_sequence |-> repairer.max_sequence,
                     next_file |-> repairer.next_file_number_]
    BY <1>2, <2>2, Zenon
  <2>4. ~Copying' /\ Phases'
    BY <1>1, <2>1, <2>2, <2>3 DEF Copying, Phases, NoLogs, Repairers, RpAt
  <2> QED BY <1>1, <1>2, <2>1, <2>4, RepairGoesOn DEF SetCurrentFile, RpFine
<1>3. CASE RpFault /\ repairer' = NoRepairer
  BY <1>1, <1>3, RepairEnds DEF SetCurrentFile, RpFault
<1> QED
  BY <1>2, <1>3 DEF SetCurrentFile

\* The death of the process.
LEMMA RepairCrashStep == RepairInv /\ RepairCrash => RepairInv'
<1> SUFFICES ASSUME RepairInv, RepairCrash PROVE RepairInv'
  OBVIOUS
<1> QED
  BY RepairEnds DEF RepairCrash, RpAt, Repairing

\* FindFiles: everything in the directory is found, and the next number is larger
\* than any of it; without failures it is also larger than any in lost/.
LEMMA FindFilesStep == RepairInv /\ FindFiles => RepairInv'
<1> SUFFICES ASSUME RepairInv, FindFiles PROVE RepairInv'
  OBVIOUS
<1>1. CASE RpFault /\ UNCHANGED repairer
  BY <1>1, RepairStutters DEF FindFiles, RpFault
<1> DEFINE next == NextAfter(DOMAIN log_files \cup DOMAIN table_files)
<1>2. CASE RpFine /\ ~UNCHANGED repairer
  <2>1. PICK logs_ \in OrdersOf(DOMAIN log_files), table_numbers_ \in OrdersOf(DOMAIN table_files) :
          repairer' = [pc |-> "convert", logs_ |-> logs_, table_numbers_ |-> table_numbers_,
                       tables_ |-> {}, max_sequence |-> 0, scanned |-> {}, misread |-> {},
                       saved |-> {}, next_file_number_ |-> next]
    BY <1>2, Zenon DEF FindFiles
  <2>2. /\ logs_ \in Seq(Nat) /\ Distinct(logs_) /\ Elements(logs_) = DOMAIN log_files
        /\ table_numbers_ \in Seq(Nat) /\ Distinct(table_numbers_)
        /\ Elements(table_numbers_) = DOMAIN table_files
    BY FoundElements DEF RepairInv, RepairTypes, Directory
  <2>3. next \in Nat /\ \A n \in DOMAIN log_files \cup DOMAIN table_files : n < next
    <3>1. IsFiniteSet(DOMAIN log_files \cup DOMAIN table_files)
      BY FS_Union DEF RepairInv, RepairTypes, Directory
    <3>2. DOMAIN log_files \cup DOMAIN table_files \in SUBSET Nat
      BY DEF RepairInv, RepairTypes, Directory
    <3> QED BY <3>1, <3>2, NextAfterLarger
  <2> HIDE DEF next
  <2>4. /\ repairer.pc' = "convert" /\ repairer.logs_' = logs_
        /\ repairer.table_numbers_' = table_numbers_ /\ repairer.tables_' = {}
        /\ repairer.saved' = {} /\ repairer.scanned' = {} /\ repairer.next_file_number_' = next
        /\ repairer' \in Repairers /\ Repairing'
    BY <2>1, <2>2, <2>3 DEF Repairers, Steps, Repairing, NoRepairer
  <2>5. Pending' = DOMAIN table_files /\ ~Copying' /\ CopyInProgress' = {}
        /\ UNCHANGED <<table_files, log_files, lost_files, careless, replaced, repair_faults>>
    BY <1>2, <2>2, <2>4 DEF Pending, Copying, CopyInProgress, FindFiles, RpFine
  <2>6. ~Repairing /\ repairer.pc = "none" /\ CopyInProgress = {}
    BY DEF FindFiles, Repairing, NoRepairer, CopyInProgress, Copying
  <2>7. RepairTypes'
    <3>1. Directory(table_files)' /\ Directory(log_files)' /\ repair_faults' \in Nat
      BY <2>5 DEF RepairInv, RepairTypes
    <3> QED BY <2>4, <3>1, NoEntries DEF RepairTypes
  <2>8. Numbers'
    BY <2>2, <2>3, <2>4, <2>5 DEF Numbers
  <2>9. Phases' /\ ListedTables' /\ Scanned' /\ Copies'
    BY <2>4, <2>5 DEF Phases, ListedTables, Scanned, Copies
  <2>10. LogsArchivedOnce'
    BY <2>5 DEF RepairInv, LogsArchivedOnce
  <2>11. WithoutFailures'
    <3> SUFFICES ASSUME repair_faults' = 0
                 PROVE  /\ \A n \in DOMAIN table_files :
                             <<"table", n>> \in DOMAIN lost_files => table_files[n].sound
                        /\ \A m \in Nat : <<"table", m>> \in DOMAIN lost_files =>
                             (\E w \in DOMAIN table_files : m <= w) /\ m < next
      BY <2>4, <2>5 DEF WithoutFailures
    <3>1. WithoutFailures /\ repair_faults = 0
      BY <2>5 DEF RepairInv
    <3>2. ASSUME NEW m \in Nat, <<"table", m>> \in DOMAIN lost_files
          PROVE  (\E w \in DOMAIN table_files : m <= w) /\ m < next
      <4>1. PICK w \in DOMAIN table_files : m <= w
        BY <2>6, <3>1, <3>2 DEF WithoutFailures
      <4>2. w \in Nat /\ w < next
        BY <2>3 DEF RepairInv, RepairTypes, Directory
      <4> QED BY <2>3, <4>1, <4>2
    <3> QED BY <3>1, <3>2 DEF WithoutFailures
  <2>12. AllKept'
    BY <2>5 DEF RepairInv, AllKept, Kept, InFiles, InReplaced
  <2>13. AllAccounted'
    BY <2>5 DEF RepairInv, AllKept, Kept, AllAccounted, Accounted, InFiles, InReplaced
  <2> QED BY <2>7, <2>8, <2>9, <2>10, <2>11, <2>12, <2>13 DEF RepairInv
<1> QED
  BY <1>1, <1>2, RepairStutters DEF FindFiles, RpFine

\* A log becomes a table, or an unfinished file that could not be removed, with a
\* number that nothing has: nothing is replaced.
LEMMA TableBuilt ==
  ASSUME RepairInv, repairer.pc = "convert", ~NoLogs,
         NEW file, Entries(file.entries), file.sound \/ repair_faults' = repair_faults + 1,
         NEW numbers,
         \/ numbers = repairer.table_numbers_
         \/ numbers = Append(repairer.table_numbers_, repairer.next_file_number_),
         table_files' = With(table_files, repairer.next_file_number_, file),
         repairer' = [repairer EXCEPT !.pc = "archive_log", !.next_file_number_ = @ + 1,
                        !.table_numbers_ = numbers],
         UNCHANGED <<log_files, lost_files, careless, replaced>>,
         repair_faults' = repair_faults \/ repair_faults' = repair_faults + 1
  PROVE  RepairInv'
<1> DEFINE new == repairer.next_file_number_
<1>1. repair_faults \in Nat /\ repair_faults' \in Nat /\ (repair_faults' = 0 => repair_faults = 0)
      /\ (repair_faults # 0 => repair_faults' # 0) /\ (repair_faults' = 0 => file.sound)
  BY DEF RepairInv, RepairTypes
<1>2. Repairing /\ repairer \in Repairers /\ Entries(repairer.saved) /\ Entries(repairer.scanned)
  BY RepairIsAt DEF Steps
<1>3. /\ new \in Nat /\ repairer.table_numbers_ \in Seq(Nat) /\ Distinct(repairer.table_numbers_)
      /\ \A n \in DOMAIN table_files \cup DOMAIN log_files \cup Pending \cup repairer.tables_ :
           n \in Nat /\ n < new
      /\ new \notin DOMAIN table_files \cup Pending \cup repairer.tables_
  <2>1. new \in Nat /\ repairer.table_numbers_ \in Seq(Nat) /\ repairer.tables_ \subseteq Nat
    BY <1>2 DEF Repairers
  <2>2. DOMAIN table_files \subseteq Nat /\ DOMAIN log_files \subseteq Nat
    BY DEF RepairInv, RepairTypes, Directory
  <2>3. Pending \subseteq Nat
    BY <2>1 DEF Pending, Elements
  <2>4. /\ \A n \in DOMAIN table_files \cup DOMAIN log_files \cup Pending \cup repairer.tables_ : n < new
        /\ Distinct(repairer.table_numbers_)
    BY <1>2 DEF RepairInv, Numbers
  <2> QED BY <2>1, <2>2, <2>3, <2>4
<1>4. numbers \in Seq(Nat) /\ Distinct(numbers)
      /\ Pending \subseteq Elements(numbers) /\ Elements(numbers) \subseteq Pending \cup {new}
  <2>1. CASE numbers = repairer.table_numbers_
    BY <1>3, <2>1 DEF Pending
  <2>2. CASE numbers = Append(repairer.table_numbers_, new)
    BY <1>3, <2>2, AppendElements DEF Pending
  <2> QED BY <2>1, <2>2
<1>5. /\ DOMAIN table_files' = DOMAIN table_files \cup {new}
      /\ \A n \in DOMAIN table_files : table_files'[n] = table_files[n]
      /\ table_files'[new] = file
  BY <1>3 DEF With
<1>6. /\ repairer' \in Repairers /\ repairer.pc' = "archive_log"
      /\ repairer.logs_' = repairer.logs_
      /\ repairer.table_numbers_' = numbers
      /\ repairer.tables_' = repairer.tables_ /\ repairer.max_sequence' = repairer.max_sequence
      /\ repairer.saved' = repairer.saved /\ repairer.scanned' = repairer.scanned
      /\ repairer.misread' = repairer.misread /\ repairer.next_file_number_' = new + 1
  <2>1. repairer' = [repairer EXCEPT !.pc = "archive_log", !.next_file_number_ = new + 1,
                                     !.table_numbers_ = numbers]
    BY <1>2 DEF Repairers
  <2>2. numbers \in Seq(Nat) /\ new + 1 \in Nat /\ "archive_log" \in Steps
    BY <1>3, <1>4 DEF Steps
  <2> HIDE DEF new
  <2> QED BY <1>2, <2>1, <2>2, Zenon DEF Repairers
<1>7. /\ Repairing' /\ ~Copying' /\ ~Copying /\ CopyInProgress' = {} /\ CopyInProgress = {}
      /\ Pending \subseteq Pending' /\ Pending' \subseteq Pending \cup {new}
  BY <1>4, <1>6 DEF Copying, CopyInProgress, Pending, Repairing, NoRepairer
<1> HIDE DEF new
<1>8. RepairTypes'
  <2>1. Directory(table_files)'
    BY <1>3, DirectoryWith DEF RepairInv, RepairTypes, new
  <2>2. Directory(log_files)'
    BY DEF RepairInv, RepairTypes
  <2> QED BY <1>1, <1>2, <1>6, <2>1, <2>2 DEF RepairTypes
<1>9. Numbers'
  <2>1. \A n \in DOMAIN table_files' \cup DOMAIN log_files' \cup Pending' \cup repairer.tables_' :
          n < new + 1
    BY <1>3, <1>5, <1>6, <1>7
  <2>2. \A n \in Pending : n \in DOMAIN table_files
    BY <1>2 DEF RepairInv, Numbers
  <2>3. repairer.tables_ \cap Pending = {} /\ Distinct(repairer.logs_)
        /\ Elements(repairer.logs_) \subseteq DOMAIN log_files
    BY <1>2 DEF RepairInv, Numbers
  <2> QED BY <1>3, <1>4, <1>5, <1>6, <1>7, <2>1, <2>2, <2>3, Zenon DEF Numbers
<1>10. Phases' /\ Scanned' /\ Copies'
  BY <1>6, <1>7 DEF Phases, Scanned, Copies, NoLogs
<1>11. ListedTables'
  BY <1>2, <1>3, <1>5, <1>6, Zenon DEF RepairInv, ListedTables
<1>12. LogsArchivedOnce'
  BY DEF RepairInv, LogsArchivedOnce
<1>13. WithoutFailures'
  <2> SUFFICES ASSUME repair_faults' = 0
               PROVE  /\ \A n \in DOMAIN table_files' :
                           <<"table", n>> \in DOMAIN lost_files => table_files'[n].sound
                      /\ \A m \in Nat : <<"table", m>> \in DOMAIN lost_files =>
                           (\E w \in DOMAIN table_files' : m <= w) /\ m < new + 1
    BY <1>6, <1>7 DEF WithoutFailures
  <2>1. WithoutFailures /\ repair_faults = 0
    BY <1>1 DEF RepairInv
  <2>2. ASSUME NEW n \in DOMAIN table_files', <<"table", n>> \in DOMAIN lost_files
        PROVE  table_files'[n].sound
    <3>1. CASE n = new
      BY <1>1, <1>5, <3>1
    <3>2. CASE n # new
      BY <1>5, <2>1, <2>2, <3>2, Zenon DEF WithoutFailures
    <3> QED BY <3>1, <3>2
  <2>3. ASSUME NEW m \in Nat, <<"table", m>> \in DOMAIN lost_files
        PROVE  (\E w \in DOMAIN table_files' : m <= w) /\ m < new + 1
    <3>1. m < new
      BY <1>2, <2>1, <2>3 DEF WithoutFailures, new
    <3> QED BY <1>3, <1>5, <3>1
  <2> QED BY <2>2, <2>3, Zenon
<1>14. AllKept'
  BY <1>1, <1>5, Zenon DEF RepairInv, AllKept, Kept, InFiles, InReplaced
<1>15. AllAccounted'
  BY <1>1, <1>2, <1>5, <1>6, <1>7 DEF RepairInv, AllAccounted, Accounted, InFiles, InReplaced
<1> QED
  BY <1>8, <1>9, <1>10, <1>11, <1>12, <1>13, <1>14, <1>15 DEF RepairInv

\* ConvertLogToTable, whatever becomes of it.
LEMMA ConvertLogToTableStep == RepairInv /\ ConvertLogToTable => RepairInv'
<1> SUFFICES ASSUME RepairInv, ConvertLogToTable PROVE RepairInv'
  OBVIOUS
<1> DEFINE new == repairer.next_file_number_
           readable == log_files[Head(repairer.logs_)].entries
           after == [repairer EXCEPT !.pc = "archive_log", !.next_file_number_ = @ + 1]
           Build(entries) ==
             /\ entries # {}
             /\ table_files' = With(table_files, new, [entries |-> entries, sound |-> TRUE])
             /\ repairer' = [after EXCEPT !.table_numbers_ = Append(@, new)]
<1>1. /\ repairer.pc = "convert" /\ ~NoLogs /\ Repairing /\ repairer \in Repairers /\ ~Copying
      /\ UNCHANGED <<log_files, lost_files, manifest, careless, replaced>>
  BY RepairIsAt DEF ConvertLogToTable, RpAt, NoLogs, Steps, Copying
<1>2. Entries(readable)
  <2>1. repairer.logs_ \in Seq(Nat) /\ repairer.logs_ # <<>> /\ Distinct(repairer.logs_)
        /\ Elements(repairer.logs_) \subseteq DOMAIN log_files
    BY <1>1 DEF RepairInv, Numbers, NoLogs, Repairers
  <2>2. Head(repairer.logs_) \in DOMAIN log_files
    BY <2>1, TailElements
  <2> QED BY <2>2 DEF RepairInv, RepairTypes, Directory
<1> HIDE DEF readable
<1>3. ASSUME NEW entries \in SUBSET readable, Build(entries),
             repair_faults' = repair_faults \/ repair_faults' = repair_faults + 1
      PROVE  RepairInv'
  <2> DEFINE file == [entries |-> entries, sound |-> TRUE]
             numbers == Append(repairer.table_numbers_, repairer.next_file_number_)
  <2>1. repairer' = [repairer EXCEPT !.pc = "archive_log", !.next_file_number_ = @ + 1,
                                     !.table_numbers_ = numbers]
    BY <1>1, <1>3 DEF Repairers
  <2>2. Entries(file.entries) /\ file.sound
    BY <1>2, SomeEntries
  <2>3. table_files' = With(table_files, repairer.next_file_number_, file)
    BY <1>3
  <2>4. numbers = Append(repairer.table_numbers_, repairer.next_file_number_)
    OBVIOUS
  <2> HIDE DEF file, numbers
  <2> QED BY <1>1, <1>3, <2>1, <2>2, <2>3, <2>4, TableBuilt, ZenonT(30)
<1>7. ASSUME repairer' = after, table_files' = With(table_files, new, Unfinished), RpFault
      PROVE  RepairInv'
  <2> DEFINE numbers == repairer.table_numbers_
  <2>1. repairer' = [repairer EXCEPT !.pc = "archive_log", !.next_file_number_ = @ + 1,
                                     !.table_numbers_ = numbers]
    BY <1>1, <1>7 DEF Repairers
  <2>2. Entries(Unfinished.entries)
    BY NoEntries DEF Unfinished
  <2>3. numbers = repairer.table_numbers_ /\ repair_faults' = repair_faults + 1
    BY <1>7 DEF RpFault
  <2> HIDE DEF numbers
  <2> QED BY <1>1, <1>7, <2>1, <2>2, <2>3, TableBuilt, ZenonT(30)
<1>4. ASSUME repairer' = after, UNCHANGED table_files,
             repair_faults' = repair_faults \/ repair_faults' = repair_faults + 1
      PROVE  RepairInv'
  <2>1. new + 1 \in Nat /\ new <= new + 1 /\ "archive_log" \in Steps
        /\ repairer' = [repairer EXCEPT !.pc = "archive_log", !.next_file_number_ = new + 1]
    <3>1. new \in Nat
      BY <1>1 DEF Repairers
    <3>2. new + 1 \in Nat /\ new <= new + 1
      BY <3>1
    <3>3. "archive_log" \in Steps
      BY DEF Steps
    <3>4. repairer' = [repairer EXCEPT !.pc = "archive_log", !.next_file_number_ = new + 1]
      BY <1>1, <1>4 DEF Repairers
    <3> QED BY <3>2, <3>3, <3>4
  <2>2. ~Copying' /\ Phases'
    BY <1>1, <2>1 DEF Copying, Phases, NoLogs, Repairers
  <2> QED BY <1>1, <1>4, <2>1, <2>2, RepairGoesOnAt, Zenon
<1>5. ASSUME RpGoto("archive_log"), UNCHANGED table_files, RpFault
      PROVE  RepairInv'
  <2>1. repairer' = [repairer EXCEPT !.pc = "archive_log"] /\ "archive_log" \in Steps
    BY <1>5 DEF RpGoto, Steps
  <2>2. ~Copying' /\ Phases'
    BY <1>1, <2>1 DEF Copying, Phases, NoLogs, Repairers
  <2> QED BY <1>1, <1>5, <2>1, <2>2, RepairGoesOn DEF RpFault
<1>6. \/ RpFine /\ Build(readable)
      \/ RpFine /\ repairer' = after /\ UNCHANGED table_files
      \/ RpFault /\ \E some \in SUBSET readable : Build(some)
      \/ RpFault /\ repairer' = after /\ UNCHANGED table_files
      \/ RpFault /\ repairer' = after /\ table_files' = With(table_files, new, Unfinished)
      \/ RpFault /\ RpGoto("archive_log") /\ UNCHANGED table_files
  BY DEF ConvertLogToTable, readable
<1> HIDE DEF Build, after
<1> QED
  BY <1>3, <1>4, <1>5, <1>6, <1>7 DEF RpFine, RpFault

\* ArchiveLog: the name in lost/ is free.
LEMMA ArchiveLogStep == RepairInv /\ ArchiveLog => RepairInv'
<1> SUFFICES ASSUME RepairInv, ArchiveLog PROVE RepairInv'
  OBVIOUS
<1> DEFINE n == Head(repairer.logs_)
           rest == Tail(repairer.logs_)
<1>1. /\ repairer.pc = "archive_log" /\ Repairing /\ repairer \in Repairers /\ ~Copying
      /\ Entries(repairer.saved) /\ Entries(repairer.scanned)
      /\ UNCHANGED <<table_files, manifest, careless>>
      /\ repairer' = [repairer EXCEPT !.pc = "convert", !.logs_ = rest]
  <2>1. repairer.pc = "archive_log" /\ "archive_log" \in Steps
    BY DEF ArchiveLog, RpAt, Steps
  <2>2. Repairing /\ repairer \in Repairers /\ Entries(repairer.saved) /\ Entries(repairer.scanned)
    BY <2>1, RepairIsAt
  <2>3. repairer' = [repairer EXCEPT !.pc = "convert", !.logs_ = rest]
    BY <2>2 DEF ArchiveLog, Repairers
  <2>4. ~Copying /\ UNCHANGED <<table_files, manifest, careless>>
    BY <2>1 DEF ArchiveLog, Copying
  <2> QED BY <2>1, <2>2, <2>3, <2>4
<1>2. repair_faults \in Nat /\ repair_faults' \in Nat /\ (repair_faults' = 0 => repair_faults = 0)
      /\ (repair_faults # 0 => repair_faults' # 0)
  <2>1. RpFine \/ RpFault
    BY DEF ArchiveLog
  <2> QED BY <2>1 DEF RepairInv, RepairTypes, RpFine, RpFault
<1>3. rest \in Seq(Nat) /\ Distinct(rest) /\ n \in DOMAIN log_files
      /\ Elements(rest) \subseteq DOMAIN log_files \ {n}
  <2>1. repairer.logs_ \in Seq(Nat) /\ repairer.logs_ # <<>> /\ Distinct(repairer.logs_)
        /\ Elements(repairer.logs_) \subseteq DOMAIN log_files
    BY <1>1 DEF RepairInv, Numbers, Phases, NoLogs, Repairers
  <2> QED BY <2>1, TailElements
<1> HIDE DEF n, rest
<1>4. <<"log", n>> \notin DOMAIN lost_files
  BY <1>3 DEF RepairInv, LogsArchivedOnce
<1>5. /\ DOMAIN log_files' \subseteq DOMAIN log_files /\ DOMAIN log_files \ {n} \subseteq DOMAIN log_files'
      /\ \A m \in DOMAIN log_files' : log_files'[m] = log_files[m]
      /\ DOMAIN lost_files \subseteq DOMAIN lost_files'
      /\ \A x \in DOMAIN lost_files : lost_files'[x] = lost_files[x]
      /\ DOMAIN lost_files' \subseteq DOMAIN lost_files \cup {<<"log", n>>}
      /\ n \in DOMAIN log_files' => <<"log", n>> \notin DOMAIN lost_files'
      /\ n \notin DOMAIN log_files' =>
           <<"log", n>> \in DOMAIN lost_files' /\ lost_files'[<<"log", n>>] = log_files[n]
      /\ replaced \subseteq replaced'
  <2>1. CASE lost_files' = With(lost_files, <<"log", n>>, log_files[n])
             /\ log_files' = Without(log_files, n) /\ replaced \subseteq replaced'
    BY <1>3, <1>4, <2>1 DEF With, Without
  <2>2. CASE UNCHANGED <<lost_files, log_files, replaced>>
    BY <1>3, <1>4, <2>2
  <2> QED BY <2>1, <2>2 DEF ArchiveLog, ArchiveFile, Archived, n
<1>6. /\ repairer' \in Repairers /\ repairer.pc' = "convert" /\ repairer.logs_' = rest
      /\ repairer.table_numbers_' = repairer.table_numbers_
      /\ repairer.tables_' = repairer.tables_ /\ repairer.max_sequence' = repairer.max_sequence
      /\ repairer.saved' = repairer.saved /\ repairer.scanned' = repairer.scanned
      /\ repairer.misread' = repairer.misread
      /\ repairer.next_file_number_' = repairer.next_file_number_
  BY <1>1, <1>3, Zenon DEF Repairers, Steps
<1>7. Repairing' /\ ~Copying' /\ CopyInProgress' = {} /\ CopyInProgress = {}
      /\ Pending' = Pending /\ Current' = Current
  BY <1>1, <1>6 DEF Copying, CopyInProgress, Pending, Repairing, NoRepairer, Current
<1>8. RepairTypes'
  <2>1. Directory(log_files)'
    <3>1. IsFiniteSet(DOMAIN log_files')
      BY <1>5, FS_Subset DEF RepairInv, RepairTypes, Directory
    <3> QED BY <1>5, <3>1 DEF RepairInv, RepairTypes, Directory
  <2>2. Directory(table_files)'
    BY <1>1 DEF RepairInv, RepairTypes
  <2> QED BY <1>1, <1>2, <1>6, <2>1, <2>2 DEF RepairTypes
<1>9. Numbers'
  <2>1. \A i \in Pending : i \in DOMAIN table_files
    BY <1>1 DEF RepairInv, Numbers
  <2> QED BY <1>1, <1>3, <1>5, <1>6, <1>7, <2>1 DEF RepairInv, Numbers
<1>10. Phases' /\ Scanned' /\ Copies'
  BY <1>6, <1>7 DEF Phases, Scanned, Copies
<1>11. ListedTables'
  BY <1>1, <1>6 DEF RepairInv, ListedTables
<1>12. LogsArchivedOnce'
  BY <1>5 DEF RepairInv, LogsArchivedOnce
<1>13. WithoutFailures'
  <2>1. \A m \in Nat : <<"table", m>> \in DOMAIN lost_files' => <<"table", m>> \in DOMAIN lost_files
    BY <1>5
  <2>2. \A m \in DOMAIN table_files : m \in Nat
    BY DEF RepairInv, RepairTypes, Directory
  <2> QED BY <1>1, <1>2, <1>6, <1>7, <2>1, <2>2 DEF RepairInv, WithoutFailures
<1>14. ASSUME NEW e
       PROVE  InFiles(e, log_files) => InFiles(e, log_files') \/ InFiles(e, lost_files')
  <2>1. ASSUME NEW m \in DOMAIN log_files, e \in log_files[m].entries
        PROVE  InFiles(e, log_files') \/ InFiles(e, lost_files')
    BY <1>5, <2>1 DEF InFiles
  <2> QED BY <2>1 DEF InFiles
<1>15. \A e : InFiles(e, lost_files) => InFiles(e, lost_files')
  BY <1>5 DEF InFiles
<1>16. \A e : InReplaced(e) => InReplaced(e)'
  BY <1>2, <1>5 DEF InReplaced
<1>17. AllKept'
  BY <1>1, <1>14, <1>15, <1>16 DEF RepairInv, AllKept, Kept
<1>18. AllAccounted'
  BY <1>1, <1>6, <1>7, <1>14, <1>15, <1>16 DEF RepairInv, AllAccounted, Accounted
<1> QED
  BY <1>8, <1>9, <1>10, <1>11, <1>12, <1>13, <1>17, <1>18 DEF RepairInv

=============================================================================
