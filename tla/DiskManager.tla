---------------------------- MODULE DiskManager ----------------------------
(***************************************************************************)
(* src/storage/disk_manager.cpp: one database file of fixed-size pages.    *)
(* ReadPage and WritePage are the only accesses; nothing else of a page is *)
(* looked at, so an image is a value of the constant set that the modules  *)
(* above choose.  The file itself belongs to the operating system: writing *)
(* past its end leaves zero-filled pages behind, which is what ZeroPage is.*)
(***************************************************************************)
EXTENDS Integers

CONSTANTS
  LastPage,              \* bound: page ids are 0..LastPage
  FIRST_USABLE_PAGE_ID,  \* pages below it belong to the system tables
  ZeroPage               \* what a page of the file that nobody wrote holds

ASSUME DiskAssumption ==
  /\ LastPage \in Nat
  /\ FIRST_USABLE_PAGE_ID \in 0 .. LastPage

PageId == 0 .. LastPage
INVALID_PAGE_ID == -1

VARIABLES
  disk,          \* image of every page; ZeroPage where the file has none
  file_pages,    \* length of the file, in pages
  next_page_id,  \* next id AllocatePage hands out
  failbit        \* db_io_ is in a failed state

diskVars == <<disk, file_pages, next_page_id, failbit>>

Larger(a, b) == IF a >= b THEN a ELSE b

\* The file was just created by CREATE DATABASE and is empty.
DiskInit ==
  /\ disk = [p \in PageId |-> ZeroPage]
  /\ file_pages = 0
  /\ next_page_id = FIRST_USABLE_PAGE_ID
  /\ failbit = FALSE

\* Mutation: the file's length is not looked at.
OpenFileAsNew ==
  /\ next_page_id' = FIRST_USABLE_PAGE_ID
  /\ failbit' = FALSE
  /\ UNCHANGED <<disk, file_pages>>

\* The constructor derives the allocation frontier from the file's length.
OpenFile ==
  /\ next_page_id' = Larger(file_pages, FIRST_USABLE_PAGE_ID)
  /\ failbit' = FALSE
  /\ UNCHANGED <<disk, file_pages>>

InRange(p) == p < next_page_id \/ p < FIRST_USABLE_PAGE_ID

\* The effects below are those of an optional write followed by an optional
\* read, as the buffer pool issues them: w is the page written first, or
\* INVALID_PAGE_ID when there is nothing to write.

\* Mutation: a write leaves the file one page too long.
FilePagesPadded(w) == Larger(file_pages, w + 2)

FilePagesAfter(w) == Larger(file_pages, w + 1)

\* The stream is cleared before every write and left good after one.
FailbitAfter(w) == failbit /\ w = INVALID_PAGE_ID

DiskAfter(w, img) == [p \in PageId |-> IF p = w THEN img ELSE disk[p]]

\* Mutation: the last page of the file counts as a short read.
ReadableButLast(p, w) ==
  /\ InRange(p)
  /\ ~FailbitAfter(w)
  /\ p + 1 < FilePagesAfter(w)

\* A read succeeds if the id is allocated, the stream is good and the file is
\* long enough.
Readable(p, w) ==
  /\ InRange(p)
  /\ ~FailbitAfter(w)
  /\ p < FilePagesAfter(w)

\* A read outside the allocated range throws before it touches the stream; a
\* short read leaves the stream failed, and no read clears it.
FailbitAfterRead(p, w) == FailbitAfter(w) \/ (InRange(p) /\ ~Readable(p, w))

WritePage(p, img) ==
  /\ InRange(p)
  /\ disk' = DiskAfter(p, img)
  /\ file_pages' = FilePagesAfter(p)
  /\ failbit' = FALSE

\* A write the operating system refuses: it throws, and badbit stays set.
WriteError ==
  /\ failbit' = TRUE
  /\ UNCHANGED <<disk, file_pages>>
=============================================================================
