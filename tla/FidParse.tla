------------------------------ MODULE FidParse ------------------------------
(***************************************************************************)
(* From the data of a directory to its entries (core/src/lib.rs):          *)
(* detect_fid_tag_size and parse_fids, with the read of each child's       *)
(* length.  Two cursors walk the same buffer, one after the other: the     *)
(* first only looks for the first descriptor and decides how long its tag  *)
(* is, the second steps from descriptor to descriptor by lengths that the  *)
(* buffer itself holds.                                                    *)
(*                                                                         *)
(* Offsets and lengths are the code's.  What is abstracted: the buffer is  *)
(* a function from the offsets where a File Identifier Descriptor's tag    *)
(* number stands to the fields found there, under either reading of the    *)
(* tag; a u16 has HalfBase values and a u32 is two of them, low half       *)
(* first, so that the two readings of a block number overlap as they do in *)
(* the buffer; a name is the span of bytes that is decoded.                *)
(***************************************************************************)
EXTENDS Naturals, Sequences, FiniteSetsExt

CONSTANTS
    HalfBase,       \* number of u16 values, the plausibility bound 0x10000
    DiscBlocks,     \* blocks of the largest disc, "up to ~128 GB"
    Directories     \* the directories that may be parsed

Tags == {16, 18}                   \* the tag sizes told apart
MaxU32 == HalfBase * HalfBase - 1

(* What the buffer holds at a FID's tag: the CRC length, and for each tag size
   the characteristics, L_FI and L_IU read behind such a tag; half is the u16
   at +22, +24 and +26, of which +22 and +24 make the ICB's block number behind
   16 bytes, +24 and +26 behind 18. *)
Fid == [crc : Nat,
        chars : [Tags -> SUBSET {"parent", "directory"}],
        idLen : [Tags -> Nat], iuLen : [Tags -> Nat],
        half : [{22, 24, 26} -> 0 .. HalfBase - 1]]

(* layout: the tag size its writer used (16 also for bytes nobody wrote as a
   directory: see WellFormed); part: partition_start; sizes: the information
   length of each File Entry that can be read. *)
IsDirectory(d) ==
    /\ d.len \in Nat /\ d.layout \in Tags /\ d.part \in 0 .. MaxU32
    /\ DOMAIN d.fid \subseteq 0 .. d.len - 1
    /\ \A p \in DOMAIN d.fid : d.fid[p] \in Fid
    /\ DOMAIN d.sizes \subseteq 0 .. MaxU32 /\ \A l \in DOMAIN d.sizes : d.sizes[l] \in Nat

ASSUME NumbersAssumption == HalfBase \in Nat \ {0} /\ DiscBlocks \in Nat
ASSUME DirectoriesAssumption == \A d \in Directories : IsDirectory(d)

VARIABLES
    dir,        \* the directory's data; constant through a behaviour
    pc,         \* "detect", "parse", "done"
    off,        \* the running function's cursor
    tagSize,    \* what detect_fid_tag_size returned
    entries     \* the entries so far; "at", where each was found, is history

vars == <<dir, pc, off, tagSize, entries>>

Init ==
    /\ dir \in Directories
    /\ pc = "detect" /\ off = 0 /\ tagSize = 16 /\ entries = << >>

-----------------------------------------------------------------------------
(* detect_fid_tag_size *)

\* le_u32 of the ICB's logical block number behind a tag of t bytes.
Lbn(f, t) == f.half[t + 6] + HalfBase * f.half[t + 8]

\* Mutant: the longer tag is tried first.
DetectedLongFirst(f) ==
    IF Lbn(f, 18) < HalfBase THEN 18 ELSE 16

\* Two plausible block numbers are decided for 16 bytes, and so are none.
Detected(f) ==
    IF Lbn(f, 16) >= HalfBase /\ Lbn(f, 18) < HalfBase THEN 18 ELSE 16

AtFid == off \in DOMAIN dir.fid

DetectSkip ==
    /\ pc = "detect" /\ off + 28 <= dir.len /\ ~AtFid
    /\ off' = off + 4
    /\ UNCHANGED <<dir, pc, tagSize, entries>>

StartParse(t) == pc' = "parse" /\ off' = 0 /\ tagSize' = t

DetectFirst ==
    /\ pc = "detect" /\ off + 28 <= dir.len /\ AtFid
    /\ StartParse(Detected(dir.fid[off]))
    /\ UNCHANGED <<dir, entries>>

DetectNone ==
    /\ pc = "detect" /\ off + 28 > dir.len
    /\ StartParse(16)
    /\ UNCHANGED <<dir, entries>>

-----------------------------------------------------------------------------
(* parse_fids *)

MinFid(t) == t + 20

AtLeast(n, m) == IF n < m THEN m ELSE n
AtMost(n, m) == IF n < m THEN n ELSE m

RoundUp4(n) == ((n + 3) \div 4) * 4

\* Mutant: the recorded length is not rounded up.
AdvanceExact(f, t) == AtLeast(16 + f.crc, MinFid(t))

\* fid_advance: never less than the header, whatever the CRC length says.
Advance(f, t) == AtLeast(RoundUp4(16 + f.crc), MinFid(t))

Room == off + MinFid(tagSize) <= dir.len
Here == dir.fid[off]

SkipOther ==
    /\ pc = "parse" /\ Room /\ ~AtFid
    /\ off' = off + 4
    /\ UNCHANGED <<dir, pc, tagSize, entries>>

\* Mutant: only the header has to fit.
OverrunsHeader(f) == off + MinFid(tagSize) > dir.len

Overruns(f) == off + Advance(f, tagSize) > dir.len

\* A descriptor that runs over the end ends the directory.
StopAtOverrun ==
    /\ pc = "parse" /\ Room /\ AtFid /\ Overruns(Here)
    /\ pc' = "done"
    /\ UNCHANGED <<dir, off, tagSize, entries>>

Whole == pc = "parse" /\ Room /\ AtFid /\ ~Overruns(Here)

\* Mutant: a skipped descriptor's length is taken for a place.
PastSkippedFromStart(f) == Advance(f, tagSize)

PastSkipped(f) == off + Advance(f, tagSize)

\* Mutant: the sum wraps instead of leaving the entry out.
AddressWrapped(f) == (dir.part + Lbn(f, tagSize)) % (MaxU32 + 1)

\* partition_start.checked_add(icb_lbn), when it stays in a u32.
Address(f) == dir.part + Lbn(f, tagSize)

IsParent(f, t) == "parent" \in f.chars[t]

(* A parent entry, and an address outside u32, still advance the cursor. *)
SkipEntry ==
    /\ Whole
    /\ IsParent(Here, tagSize) \/ Address(Here) > MaxU32
    /\ off' = PastSkipped(Here)
    /\ UNCHANGED <<dir, pc, tagSize, entries>>

\* id_start and id_end; an empty name is the span <<0, 0>>.
NameSpan(p, f, t) ==
    LET start == p + t + 20 + f.iuLen[t]
        end == AtMost(start + f.idLen[t], dir.len)
    IN  IF end > start THEN <<start, end>> ELSE <<0, 0>>

\* read_fe_info_len(..).unwrap_or(0)
SizeAt(l) == IF l \in DOMAIN dir.sizes THEN dir.sizes[l] ELSE 0

EntryAt(p, f, t) ==
    [at |-> p, name |-> NameSpan(p, f, t), is_dir |-> "directory" \in f.chars[t],
     size |-> SizeAt(Address(f)), fe_lba |-> Address(f)]

TakeEntry ==
    /\ Whole
    /\ ~IsParent(Here, tagSize) /\ Address(Here) <= MaxU32
    /\ entries' = Append(entries, EntryAt(off, Here, tagSize))
    /\ off' = off + Advance(Here, tagSize)
    /\ UNCHANGED <<dir, pc, tagSize>>

ParseEnds ==
    /\ pc = "parse" /\ ~Room
    /\ pc' = "done"
    /\ UNCHANGED <<dir, off, tagSize, entries>>

Next ==
    \/ DetectSkip \/ DetectFirst \/ DetectNone
    \/ SkipOther \/ StopAtOverrun \/ SkipEntry \/ TakeEntry \/ ParseEnds

(* A running function keeps running. *)
Spec == Init /\ [][Next]_vars /\ WF_vars(Next)

-----------------------------------------------------------------------------
(* Properties. *)

\* Type invariant of the two cursors and the entries.
TypeOK ==
    /\ IsDirectory(dir)
    /\ pc \in {"detect", "parse", "done"}
    /\ off \in 0 .. dir.len /\ tagSize \in Tags
    /\ \A n \in DOMAIN entries :
          /\ entries[n].at \in DOMAIN dir.fid /\ entries[n].is_dir \in BOOLEAN
          /\ entries[n].fe_lba \in 0 .. MaxU32 /\ entries[n].size \in Nat

(* A directory as its writer means it: aligned descriptors one after the other,
   each as long as it has to be for its header and its name behind a tag of the
   writer's size, all inside the buffer.  There may be padding between them. *)
WellFormed(d) ==
    LET t == d.layout
        End(p) == p + RoundUp4(16 + d.fid[p].crc)
    IN  \A p \in DOMAIN d.fid :
           /\ p % 4 = 0 /\ End(p) <= d.len
           /\ 16 + d.fid[p].crc >= MinFid(t) + d.fid[p].iuLen[t] + d.fid[p].idLen[t]
           /\ \A q \in DOMAIN d.fid : q > p => q >= End(p)

FirstLbn(d) == Lbn(d.fid[Min(DOMAIN d.fid)], d.layout)

(* Directories the heuristic can tell: the first descriptor's block lies in the
   partition's first 65536, and behind the longer tag is not block 0. *)
Tellable(d) ==
    DOMAIN d.fid # {} => FirstLbn(d) < HalfBase /\ (d.layout = 18 => FirstLbn(d) > 0)

\* What a descriptor at p of the writer's layout says.
WrittenAt(d, p) ==
    LET t == d.layout
        f == d.fid[p]
        name == p + t + 20 + f.iuLen[t]
        l == d.part + Lbn(f, t)
    IN  [at |-> p, is_dir |-> "directory" \in f.chars[t], fe_lba |-> l,
         name |-> IF f.idLen[t] = 0 THEN <<0, 0>> ELSE <<name, name + f.idLen[t]>>,
         size |-> IF l \in DOMAIN d.sizes THEN d.sizes[l] ELSE 0]

Child(d, p) ==
    /\ p \in DOMAIN d.fid /\ ~IsParent(d.fid[p], d.layout)
    /\ d.part + Lbn(d.fid[p], d.layout) <= MaxU32

\* A well-formed directory is listed as it was written, in either layout: every
\* child once and in order, no parent, with its whole name and nothing else for
\* a name, its own address and length.  Only addresses outside u32 are left out.
DirectoryListed ==
    pc = "done" /\ WellFormed(dir) /\ Tellable(dir) =>
        /\ \A p \in DOMAIN dir.fid :
              Child(dir, p) => \E n \in DOMAIN entries : entries[n] = WrittenAt(dir, p)
        /\ \A n \in DOMAIN entries :
              Child(dir, entries[n].at) /\ entries[n] = WrittenAt(dir, entries[n].at)
        /\ \A m, n \in DOMAIN entries : m < n => entries[m].at < entries[n].at

\* Descriptors on the 4-byte grid, none of which records less than its header.
OnGrid == \A p \in DOMAIN dir.fid : p % 4 = 0 /\ 16 + dir.fid[p].crc >= MinFid(tagSize)

\* The descriptor at p is neither a parent's nor without an address, and ends in
\* the buffer; none before it covers it or runs over the end.
EndOf(p) == p + Advance(dir.fid[p], tagSize)
Listable(p) ==
    ~IsParent(dir.fid[p], tagSize) /\ dir.part + Lbn(dir.fid[p], tagSize) <= MaxU32
Free(p) ==
    /\ EndOf(p) <= dir.len
    /\ \A q \in DOMAIN dir.fid : q < p => EndOf(q) <= p /\ EndOf(q) <= dir.len

\* In any buffer, damaged or not: a descriptor is listed unless it is a parent's
\* or has no address, lies inside another one, or comes after one that runs over
\* the end.  Stated for descriptors on the grid: see the README for what a
\* shorter one does.
SkipsNothing ==
    pc = "done" /\ OnGrid =>
        \A p \in DOMAIN dir.fid :
            Listable(p) /\ Free(p) => \E n \in DOMAIN entries : entries[n].at = p

\* In any buffer: no two entries come from overlapping descriptors, none from
\* bytes that hold no descriptor, none has a wrapped address, and a name is
\* bytes of the buffer behind the descriptor's header.
EntriesAreDescriptors ==
    \A n \in DOMAIN entries :
        LET e == entries[n]
            f == dir.fid[e.at]
        IN  /\ ~IsParent(f, tagSize)
            /\ e.fe_lba = dir.part + Lbn(f, tagSize)
            /\ e.name = <<0, 0>> \/ (/\ e.at + MinFid(tagSize) <= e.name[1]
                                     /\ e.name[1] < e.name[2] /\ e.name[2] <= dir.len)
            /\ n > 1 => e.at >= entries[n - 1].at + Advance(dir.fid[entries[n - 1].at], tagSize)

\* How many steps both passes can still take, at most: one for every four bytes
\* before them, and one to end with.
StepsLeft ==
    LET ahead == (dir.len - off) \div 4
    IN  CASE pc = "detect" -> ahead + 1 + dir.len \div 4 + 1
          [] pc = "parse" -> ahead + 1
          [] pc = "done" -> 0

\* No recorded length makes a pass stand still, go back or start over: a
\* directory is through after one step for every two of its bytes and two more
\* (fid_advance's lower bound, the two cursors' steps).
StepsBounded == [][StepsLeft' \in 0 .. StepsLeft - 1]_vars

\* lib.rs 514-516: "use whichever gives a plausible value (< 65536, fitting
\* discs up to ~128 GB)": the tag size a directory of such a disc was written
\* with is the one detected.
TagSizeDetected ==
    pc # "detect" /\ WellFormed(dir) /\ DOMAIN dir.fid # {} /\ FirstLbn(dir) \in 1 .. DiscBlocks - 1
        => tagSize = dir.layout

=============================================================================
