----------------------------- MODULE VersionSet -----------------------------
(***************************************************************************)
(* The files of a version by level, what a lookup reads of them, and which *)
(* of them a compaction takes (leveldb/db/version_set.cc).                 *)
(*                                                                         *)
(* An internal key is a user key and a sequence number.  A file is         *)
(* FileMetaData: its number, its size and its smallest and largest         *)
(* internal key.  A version is a sequence of files per level.  Sizes are   *)
(* counted in entries.                                                     *)
(***************************************************************************)
EXTENDS Integers, Sequences, FiniteSets, SequencesExt

CONSTANTS
  Keys,                    \* user keys: positive numbers
  NumLevels,               \* config::kNumLevels
  MaxMemCompactLevel,      \* config::kMaxMemCompactLevel
  L0_CompactionTrigger,    \* config::kL0_CompactionTrigger
  MaxBytesForLevel,        \* by level >= 1
  MaxFileSize,             \* options.max_file_size
  GrandParentOverlapFiles, \* MaxGrandParentOverlapBytes, in files (10)
  ExpandedCompactionFiles, \* ExpandedCompactionByteSizeLimit, in files (25)
  MaxSequence              \* kMaxSequenceNumber: larger than any that is used

ASSUME VersionSetAssumption ==
  /\ Keys \subseteq Nat \ {0}
  /\ {NumLevels, L0_CompactionTrigger, MaxFileSize, MaxSequence} \subseteq Nat \ {0}
  /\ {MaxMemCompactLevel, GrandParentOverlapFiles, ExpandedCompactionFiles} \subseteq Nat
  /\ MaxMemCompactLevel < NumLevels
  /\ MaxBytesForLevel \in [1 .. NumLevels - 1 -> Nat \ {0}]

Levels == 0 .. NumLevels - 1
NoKey  == 0      \* a null pointer to a key

MaxGrandParentOverlapBytes      == GrandParentOverlapFiles * MaxFileSize
ExpandedCompactionByteSizeLimit == ExpandedCompactionFiles * MaxFileSize

\* Internal keys: user keys in order, versions of one key from the newest down.
Less(a, b) == a.key < b.key \/ (a.key = b.key /\ a.seq > b.seq)
Leq(a, b)  == ~Less(b, a)

\* The elements of a set in the order Before, which is total on them.
SortedBy(S, Before(_, _)) ==
  [i \in 1 .. Cardinality(S) |-> CHOOSE x \in S : Cardinality({y \in S : Before(y, x)}) = i - 1]

\* The first internal key that a user key can have.
SeekKey(k) == [key |-> k, seq |-> MaxSequence]

TotalFileSize(files) == FoldLeft(LAMBDA sum, f : sum + f.file_size, 0, files)

-----------------------------------------------------------------------------
(* Which files a key or a range of keys falls into.                        *)

\* The index, from 0, of the first file whose largest key is not below key.
FindFile(files, key) ==
  LET search[left, right \in 0 .. Len(files)] ==
        IF left >= right THEN right
        ELSE LET mid == (left + right) \div 2
             IN IF Less(files[mid + 1].largest, key)
                THEN search[mid + 1, right]
                ELSE search[left, mid]
  IN search[0, Len(files)]

AfterFile(k, f)  == k # NoKey /\ k > f.largest.key
BeforeFile(k, f) == k # NoKey /\ k < f.smallest.key

SomeFileOverlapsRange(disjoint_sorted_files, files, smallest, largest) ==
  IF ~disjoint_sorted_files
  THEN \E i \in DOMAIN files : ~AfterFile(smallest, files[i]) /\ ~BeforeFile(largest, files[i])
  ELSE LET index == IF smallest = NoKey THEN 0 ELSE FindFile(files, SeekKey(smallest))
       IN index < Len(files) /\ ~BeforeFile(largest, files[index + 1])

OverlapInLevel(v, level, smallest, largest) ==
  SomeFileOverlapsRange(level > 0, v[level], smallest, largest)

\* The files of a level that overlap [begin, end].  A file of level 0 that
\* sticks out of the range widens it, and the search starts over.
RECURSIVE GetOverlappingInputs(_, _, _, _)
GetOverlappingInputs(v, level, begin, end) ==
  LET inputs == SelectSeq(v[level], LAMBDA f : ~AfterFile(begin, f) /\ ~BeforeFile(end, f))
      Widens(f) == begin # NoKey /\ f.smallest.key < begin
      out    == SelectSeq(inputs, LAMBDA f : level = 0 /\ (Widens(f) \/ (end # NoKey /\ f.largest.key > end)))
  IN IF out = <<>> THEN inputs
     ELSE IF Widens(out[1]) THEN GetOverlappingInputs(v, level, out[1].smallest.key, end)
     ELSE GetOverlappingInputs(v, level, begin, out[1].largest.key)

\* Mutant: the level below is looked at, not the one the file would join.
PickLevelBelow(v, smallest, largest) ==
  LET Stops(level) == level = MaxMemCompactLevel \/ OverlapInLevel(v, level, smallest, largest)
  IN CHOOSE l \in 0 .. MaxMemCompactLevel : Stops(l) /\ \A m \in 0 .. l - 1 : ~Stops(m)

\* Where a memtable of the keys smallest .. largest goes.
PickLevelForMemTableOutput(v, smallest, largest) ==
  LET Stops(level) ==
        \/ level = MaxMemCompactLevel
        \/ OverlapInLevel(v, level + 1, smallest, largest)
        \/ /\ level + 2 < NumLevels
           /\ TotalFileSize(GetOverlappingInputs(v, level + 2, smallest, largest))
                > MaxGrandParentOverlapBytes
  IN IF OverlapInLevel(v, 0, smallest, largest) THEN 0
     ELSE CHOOSE l \in 0 .. MaxMemCompactLevel :
            Stops(l) /\ \A m \in 0 .. l - 1 : ~Stops(m)

-----------------------------------------------------------------------------
(* Lookups.  tables gives the entries of the table files that exist.       *)

\* A result is the sequence number of the value, or one of these.
kNotFound == 0
kDeleted  == -1
IOError   == -2

\* The files a lookup of a key visits, in order, as <<level, file>>.
ForEachOverlapping(v, key, seq) ==
  LET level0 == SortedBy(
                  {f \in {v[0][i] : i \in DOMAIN v[0]} :
                     f.smallest.key <= key /\ key <= f.largest.key},
                  LAMBDA a, b : a.number > b.number)
      At(level) ==
        LET index == FindFile(v[level], [key |-> key, seq |-> seq])
        IN IF index < Len(v[level]) /\ v[level][index + 1].smallest.key <= key
           THEN <<[level |-> level, file |-> v[level][index + 1]]>>
           ELSE <<>>
  IN [i \in DOMAIN level0 |-> [level |-> 0, file |-> level0[i]]]
       \o FlattenSeq([level \in 1 .. NumLevels - 1 |-> At(level)])

\* What one sorted set of entries says of a key, table file or memtable: the
\* first entry at or after the key with the sequence number counts, if it is of
\* that key; it is the newest of those that are visible.
Saved(entries, key, seq) ==
  LET visible == {e \in entries : e.key = key /\ e.seq <= seq}
      first   == CHOOSE e \in visible : \A d \in visible : Leq(e, d)
  IN IF visible = {} THEN kNotFound
     ELSE IF first.type = "value" THEN first.seq ELSE kDeleted

\* Version::Get over the files it visits: the result, and the file to charge for
\* a second seek.
GetFrom(tables, visits, key, seq) ==
  LET Read(i) == IF visits[i].file.number \in DOMAIN tables
                 THEN Saved(tables[visits[i].file.number], key, seq)
                 ELSE IOError
      decided == {i \in DOMAIN visits : Read(i) # kNotFound}
      last    == IF decided = {} THEN Len(visits)
                 ELSE CHOOSE i \in decided : \A j \in decided : i <= j
  IN [result |-> IF decided = {} \/ Read(last) = kDeleted THEN kNotFound ELSE Read(last),
      seek   |-> IF last >= 2 THEN <<visits[1]>> ELSE <<>>]

VersionGet(tables, v, key, seq) == GetFrom(tables, ForEachOverlapping(v, key, seq), key, seq)

\* Version::RecordReadSample: the file to charge for a key that needs a merge.
ReadSample(v, key, seq) ==
  LET visits == ForEachOverlapping(v, key, seq)
  IN IF Len(visits) >= 2 THEN <<visits[1]>> ELSE <<>>

-----------------------------------------------------------------------------
(* VersionSet::Builder, Finalize and the files of a compaction.            *)

BySmallestKey(a, b) ==
  Less(a.smallest, b.smallest) \/ (a.smallest = b.smallest /\ a.number < b.number)

\* The files of v without the deleted ones, and the added ones in their place.
SaveTo(v, deleted, added) ==
  [level \in Levels |->
     SortedBy(
       {f \in {v[level][i] : i \in DOMAIN v[level]} : <<level, f.number>> \notin deleted}
         \cup {a.file : a \in {b \in added : b.level = level}},
       BySmallestKey)]

\* The level with the best score, a fraction, and the first of equal ones.
Finalize(v) ==
  LET Score(level) == IF level = 0
                      THEN [num |-> Len(v[0]), den |-> L0_CompactionTrigger]
                      ELSE [num |-> TotalFileSize(v[level]), den |-> MaxBytesForLevel[level]]
      Above(a, b)  == Score(a).num * Score(b).den > Score(b).num * Score(a).den
      best         == CHOOSE l \in 0 .. NumLevels - 2 :
                        \A m \in 0 .. NumLevels - 2 :
                           ~Above(m, l) /\ (m < l => Above(l, m))
  IN [level |-> best, full |-> Score(best).num >= Score(best).den]

SmallestOf(files) ==
  FoldLeft(LAMBDA k, f : IF Less(f.smallest, k) THEN f.smallest ELSE k, files[1].smallest, files)
LargestOf(files) ==
  FoldLeft(LAMBDA k, f : IF Less(k, f.largest) THEN f.largest ELSE k, files[1].largest, files)

\* The first file that goes on with the user key another file ends with.
FindSmallestBoundaryFile(level_files, largest_key) ==
  LET boundary == {f \in {level_files[i] : i \in DOMAIN level_files} :
                     /\ Less(largest_key, f.smallest)
                     /\ f.smallest.key = largest_key.key}
  IN {f \in boundary : \A g \in boundary : Leq(f.smallest, g.smallest)}

\* Mutant: files that go on with the last user key stay behind.
AddNoBoundaryInputs(level_files, compaction_files) == compaction_files

RECURSIVE AddBoundaryInputs(_, _)
AddBoundaryInputs(level_files, compaction_files) ==
  IF compaction_files = <<>> THEN <<>>
  ELSE LET found == FindSmallestBoundaryFile(level_files, LargestOf(compaction_files))
       IN IF found = {} THEN compaction_files
          ELSE AddBoundaryInputs(level_files, Append(compaction_files, CHOOSE f \in found : TRUE))

\* GetRange, GetOverlappingInputs: the files of a level in the range of others.
InRangeOf(v, level, files) ==
  GetOverlappingInputs(v, level, SmallestOf(files).key, LargestOf(files).key)

\* The inputs of a level that the range of other inputs asks for.
InputsFor(v, level, files) == AddBoundaryInputs(v[level], InRangeOf(v, level, files))

\* More inputs of level, when that takes no more inputs of level + 1.
Expanded(v, level, inputs0, inputs1) ==
  LET expanded0 == InputsFor(v, level, inputs0 \o inputs1)
      expanded1 == InputsFor(v, level + 1, expanded0)
  IN IF /\ inputs1 # <<>>
        /\ Len(expanded0) > Len(inputs0)
        /\ TotalFileSize(inputs1) + TotalFileSize(expanded0) < ExpandedCompactionByteSizeLimit
        /\ Len(expanded1) = Len(inputs1)
     THEN <<expanded0, expanded1>> ELSE <<inputs0, inputs1>>

\* A compaction of its inputs, with the overlapping files of level + 2 and the
\* next compaction pointer.
CompactionOf(v, level, inputs) ==
  [level        |-> level,
   inputs       |-> inputs,
   grandparents |-> IF level + 2 < NumLevels
                    THEN InRangeOf(v, level + 2, inputs[1] \o inputs[2]) ELSE <<>>,
   pointer      |-> LargestOf(inputs[1])]

SetupOtherInputs(v, level, picked) ==
  LET inputs0 == AddBoundaryInputs(v[level], picked)
  IN CompactionOf(v, level, Expanded(v, level, inputs0, InputsFor(v, level + 1, inputs0)))

NoCompaction == <<>>

\* The first file after the compaction pointer of a level, going round.
FirstAfter(files, pointer) ==
  LET after == SelectSeq(files, LAMBDA f : pointer = <<>> \/ Less(pointer[1], f.largest))
  IN IF after = <<>> THEN files[1] ELSE after[1]

StartingWith(v, level, file) ==
  SetupOtherInputs(v, level, IF level > 0 THEN <<file>>
                             ELSE GetOverlappingInputs(v, 0, file.smallest.key, file.largest.key))

\* PickCompaction: the best level by size, or else the file that cost too many seeks.
PickCompaction(v, pointer, file_to_compact) ==
  LET best == Finalize(v)
  IN IF best.full
     THEN <<StartingWith(v, best.level, FirstAfter(v[best.level], pointer[best.level]))>>
     ELSE IF file_to_compact = <<>> THEN NoCompaction
     ELSE <<StartingWith(v, file_to_compact[1].level, file_to_compact[1].file)>>

\* CompactRange: above level 0 no more than one output file's worth at once.
CompactRange(v, level, begin, end) ==
  LET inputs  == GetOverlappingInputs(v, level, begin, end)
      Full(n) == TotalFileSize(SubSeq(inputs, 1, n)) >= MaxFileSize
      cut     == {n \in DOMAIN inputs : Full(n)}
      picked  == IF level = 0 \/ cut = {} THEN inputs
                 ELSE SubSeq(inputs, 1, CHOOSE n \in cut : \A m \in cut : n <= m)
  IN IF inputs = <<>> THEN NoCompaction ELSE <<SetupOtherInputs(v, level, picked)>>

IsTrivialMove(c) ==
  /\ Len(c.inputs[1]) = 1
  /\ c.inputs[2] = <<>>
  /\ TotalFileSize(c.grandparents) <= MaxGrandParentOverlapBytes

=============================================================================
