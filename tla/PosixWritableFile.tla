------------------------- MODULE PosixWritableFile -------------------------
(***************************************************************************)
(* A file written through PosixWritableFile (leveldb/util/env_posix.cc),   *)
(* in particular a MANIFEST, whose records name files created before them. *)
(*                                                                         *)
(* The bytes are numbered in the order in which Append is given them;      *)
(* byte b of a MANIFEST may name every file created before b was appended. *)
(* What was written and not synced may or may not survive a crash.  What   *)
(* is in the file can be read back at any moment (RandomAccessFile).       *)
(***************************************************************************)
EXTENDS RandomAccessFile

CONSTANTS
  BufferSize,       \* kWritableFileBufferSize
  AppendSizes,      \* bytes given to a call of Append
  Manifest,         \* the values is_manifest_ may have
  MaxAppends,       \* bound: calls of Append
  MaxCreated,       \* bound: files created beside it
  MaxWriteFaults,   \* bound: write and sync calls that fail
  MaxFileCrashes    \* bound: crashes of the machine

ASSUME WritableFileAssumption ==
  /\ BufferSize \in Nat \ {0} /\ AppendSizes \subseteq Nat \ {0} /\ Manifest \subseteq BOOLEAN
  /\ {MaxAppends, MaxCreated, MaxWriteFaults, MaxFileCrashes} \subseteq Nat

VARIABLES
  is_manifest_,
  fd_,              \* the file is open
  buf_,             \* buf_[0, pos_ - 1]
  contents,         \* the bytes the system has been given
  on_disk,          \* how many of them are certain to survive
  created,          \* files created in the directory
  entries_on_disk,  \* how many of their directory entries are certain to survive
  names,            \* for each byte appended, how many files existed then
  lost,             \* ghost: a write failed, or the machine crashed, since the file was made
  sync_ok,          \* ghost: bytes appended when Sync last returned OK and none was lost
  write_faults, file_crashes

wfvars == <<is_manifest_, fd_, buf_, contents, on_disk, created, entries_on_disk,
            names, lost, sync_ok, write_faults, file_crashes>>

rest == <<is_manifest_, created, names, file_crashes>>

Appends == Len(names)

-----------------------------------------------------------------------------
\* What WriteUnbuffered(data) can do: write it all, interrupted or in pieces, or
\* fail with any part of it written.
Written(data) == {[ok |-> TRUE, n |-> Len(data)]}
                 \cup (IF data = <<>> \/ write_faults = MaxWriteFaults THEN {}
                       ELSE {[ok |-> FALSE, n |-> n] : n \in 0 .. Len(data) - 1})

Failed(w) ==
  /\ write_faults' = IF w.ok THEN write_faults ELSE write_faults + 1
  /\ lost' = (lost \/ ~w.ok)

Part(data, w) == SubSeq(data, 1, w.n)

\* Mutant: the rest of the data is put behind what the buffer held.
AfterFlushKeepsBuffer(b, w) == b

\* FlushBuffer empties the buffer whether or not it could be written.
AfterFlush(b, w) == <<>>

\* The next n bytes.
Data(n) == [i \in 1 .. n |-> Appends + i]

\* The buffer is filled; if that is not enough it is flushed, and what is left
\* goes to the buffer or, when it is as long as the buffer, to the file.
WFAppend(n) ==
  LET copy_size == IF n <= BufferSize - Len(buf_) THEN n ELSE BufferSize - Len(buf_)
      full      == buf_ \o SubSeq(Data(n), 1, copy_size)
      left      == SubSeq(Data(n), copy_size + 1, n)
  IN  /\ fd_ /\ Appends + n <= MaxAppends
      /\ names' = names \o [i \in 1 .. n |-> created]
      /\ IF left = <<>>
         THEN buf_' = full /\ UNCHANGED <<contents, lost, write_faults>>
         ELSE \E w \in Written(full) :
                LET c == contents \o Part(full, w)
                IN  IF ~w.ok \/ Len(left) < BufferSize
                    THEN /\ contents' = c /\ Failed(w)
                         /\ buf_' = IF w.ok THEN AfterFlush(full, w) \o left
                                    ELSE AfterFlush(full, w)
                    ELSE \E w2 \in Written(left) :
                           /\ contents' = c \o Part(left, w2) /\ Failed(w2)
                           /\ buf_' = AfterFlush(full, w)
      /\ UNCHANGED <<is_manifest_, fd_, on_disk, created, entries_on_disk, sync_ok,
                     file_crashes>>

WFFlush ==
  /\ fd_ /\ buf_ # <<>>
  /\ \E w \in Written(buf_) :
       /\ contents' = contents \o Part(buf_, w)
       /\ buf_' = AfterFlush(buf_, w) /\ Failed(w)
  /\ UNCHANGED <<rest, fd_, on_disk, entries_on_disk, sync_ok>>

\* SyncFd, of the directory and of the file: after a failure nothing is known.
SyncOutcomes == IF write_faults = MaxWriteFaults THEN {TRUE} ELSE BOOLEAN

\* Mutant: the directory is not synced.
SyncDirNever == entries_on_disk

SyncDirIfManifest == IF is_manifest_ THEN created ELSE entries_on_disk

\* Mutant: the bytes still in the buffer are not given to the system first.
WrittenBySyncNone == {[ok |-> TRUE, n |-> 0]}

\* What FlushBuffer, called by Sync, can do with the buffer.
WrittenBySync == Written(buf_)

\* Sync gives up at the first of its three parts that fails.
WFSync ==
  /\ fd_
  /\ \/ /\ is_manifest_ /\ write_faults < MaxWriteFaults
        /\ write_faults' = write_faults + 1
        /\ UNCHANGED <<buf_, contents, on_disk, entries_on_disk, lost, sync_ok>>
     \/ /\ entries_on_disk' = SyncDirIfManifest
        /\ \E w \in WrittenBySync : \E synced \in SyncOutcomes :
             /\ contents' = contents \o Part(buf_, w)
             /\ buf_' = AfterFlush(buf_, w)
             /\ IF w.ok /\ synced
                THEN /\ on_disk' = Len(contents')
                     /\ sync_ok' = IF lost THEN sync_ok ELSE Appends
                     /\ UNCHANGED <<lost, write_faults>>
                ELSE /\ write_faults' = write_faults + 1
                     /\ lost' = (lost \/ ~w.ok)
                     /\ UNCHANGED <<on_disk, sync_ok>>
  /\ UNCHANGED <<rest, fd_>>

\* Close, also by the destructor, which ignores its status.
WFClose ==
  /\ fd_ /\ fd_' = FALSE
  /\ \E w \in Written(buf_) :
       /\ contents' = contents \o Part(buf_, w)
       /\ buf_' = AfterFlush(buf_, w) /\ Failed(w)
  /\ UNCHANGED <<rest, on_disk, entries_on_disk, sync_ok>>

\* NewAppendableFile; the position of a file opened with O_APPEND is its end.
NewAppendableFile ==
  /\ ~fd_ /\ fd_' = TRUE
  /\ UNCHANGED <<rest, buf_, contents, on_disk, entries_on_disk, lost, sync_ok,
                 write_faults>>

\* A new table or log appears in the directory.
CreateFile ==
  /\ created < MaxCreated /\ created' = created + 1
  /\ UNCHANGED <<is_manifest_, fd_, buf_, contents, on_disk, entries_on_disk, names,
                 lost, sync_ok, write_faults, file_crashes>>

\* The machine crashes: some of the bytes not yet synced, and some of the new
\* entries of the directory, are gone.
MachineCrash ==
  /\ file_crashes < MaxFileCrashes /\ file_crashes' = file_crashes + 1
  /\ \E n \in on_disk .. Len(contents) : \E k \in entries_on_disk .. created :
       /\ contents' = SubSeq(contents, 1, n) /\ on_disk' = n
       /\ created' = k /\ entries_on_disk' = k
  /\ fd_' = FALSE /\ buf_' = <<>> /\ lost' = TRUE
  /\ UNCHANGED <<is_manifest_, names, sync_ok, write_faults>>

WFInit ==
  /\ is_manifest_ \in Manifest
  /\ fd_ = TRUE
  /\ buf_ = <<>> /\ contents = <<>> /\ on_disk = 0
  /\ created = 0 /\ entries_on_disk = 0
  /\ names = <<>>
  /\ lost = FALSE
  /\ sync_ok = 0
  /\ write_faults = 0 /\ file_crashes = 0

WFNext ==
  \/ \E n \in AppendSizes : WFAppend(n)
  \/ WFFlush
  \/ WFSync
  \/ WFClose
  \/ NewAppendableFile
  \/ CreateFile
  \/ MachineCrash

WFSpec == WFInit /\ [][WFNext]_wfvars

-----------------------------------------------------------------------------
WFTypeOK ==
  /\ is_manifest_ \in BOOLEAN /\ fd_ \in BOOLEAN /\ lost \in BOOLEAN
  /\ buf_ \in Seq(1 .. MaxAppends) /\ Len(buf_) <= BufferSize
  /\ contents \in Seq(1 .. MaxAppends)
  /\ on_disk \in 0 .. Len(contents)
  /\ entries_on_disk \in 0 .. created

Ascending(s) == \A i \in 1 .. Len(s) - 1 : s[i] < s[i + 1]

\* The file and the buffer behind it hold the appended bytes once each and in
\* order, even after failed writes and crashes, and all of them as long as no
\* write failed: neither the cut of an Append at the buffer's end nor the direct
\* write of a long rest loses, doubles or reorders a byte
\* (PosixWritableFile::Append, FlushBuffer).
ContentsFollowAppends ==
  /\ Ascending(contents \o buf_)
  /\ ~lost => contents \o buf_ = [i \in 1 .. Appends |-> i]

\* What was appended before a Sync that returned OK is in the file for good, if
\* no write had failed by then: later failures and crashes do not take it away.
\* If the file is a MANIFEST, so are the directory entries of the files these
\* bytes may name ("Ensure new files referred to by the manifest are in the
\* filesystem", PosixWritableFile::Sync).
SyncedBytesStay ==
  \A b \in 1 .. sync_ok :
    /\ b <= on_disk /\ contents[b] = b
    /\ is_manifest_ => names[b] <= entries_on_disk

\* What a Read of n bytes at offset has to give ReadBlock: nothing but the
\* bytes of that place is accepted, and they are whenever they are all there.
Right(file, offset, n, r) ==
  Accepted(r, n) => offset + n <= Len(file) /\ r.data = SubSeq(file, offset + 1, offset + n)

Served(file, offset, n, r) ==
  offset + n <= Len(file) =>
    Accepted(r, n) /\ r.data = SubSeq(file, offset + 1, offset + n)

BlockReadsRight(file, offset, n) ==
  /\ \A r \in {PreadRead(file, offset, n), MmapRead(file, offset, n)} :
       Right(file, offset, n, r) /\ Served(file, offset, n, r)
  /\ Served(file, offset, n, DirectRead(file, offset, n))

\* Whatever is in the file, a reader gets that and nothing else: a block that
\* ReadBlock accepts is the bytes of its place in the file, with or without
\* mmap, and with direct I/O as long as the block is inside the file; reading
\* in order, in pieces of any size, gives the whole file once
\* (PosixDirectIORandomAccessFile::Read, NewAlignedData).
ReadsReturnTheFile ==
  \A n \in 1 .. Len(contents) + 1 :
    /\ ReadAll(contents, n) = contents
    /\ \A offset \in 0 .. Len(contents) : BlockReadsRight(contents, offset, n)

=============================================================================
