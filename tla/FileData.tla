------------------------------- MODULE FileData -------------------------------
(***************************************************************************)
(* What udf-core makes of a File Entry's allocation descriptors            *)
(* (core/src/lib.rs): the bytes of the file (read_fe_data) and the slack   *)
(* of its final block (fe_slack_nonzero), each one call of its own.        *)
(*                                                                         *)
(* One action per read of the medium.  A byte of the medium is its         *)
(* position, so that a sequence of positions tells which bytes were        *)
(* delivered and in which order.  The field offsets that differ between    *)
(* File Entry and Extended File Entry, and between short and long          *)
(* descriptors, are left out: a File Entry holds its parsed fields.        *)
(***************************************************************************)
EXTENDS Naturals, Sequences, FiniteSetsExt

CONSTANTS
    BlockSize,
    PartStart,   \* partition_start
    FeLba,       \* where the File Entry is
    Media        \* the media a call may read

(* type: bits 30-31 of the extent length, 0 for a recorded extent. *)
Extent == [type : 0 .. 3, len : Nat, lbn : Nat]

(* tag: whether the block is a File Entry.  alloc: ICB flags, bits 0-2.
   fits: the descriptor area ends inside the block; area: its length. *)
FileEntry == [tag : {"fe", "other"}, alloc : {"short", "long", "inline", "reserved"},
              infoLen : Nat, fits : BOOLEAN, area : Nat, ads : Seq(Extent)]

ASSUME SizesAssumption == BlockSize \in Nat \ {0} /\ PartStart \in Nat /\ FeLba \in Nat
IsMedium(m) == m.size \in Nat /\ m.bad \subseteq Nat /\ m.fe \in FileEntry
ASSUME MediaAssumption == \A m \in Media : IsMedium(m)

VARIABLES
    medium,    \* what the reader reads; constant through a behaviour
    op,        \* the function called: "data" or "slack"
    pc,        \* its next read, or "done"
    ad,        \* index of the allocation descriptor being looked at
    s,         \* block of that extent to be read next
    data,      \* the bytes collected so far
    last,      \* position of the last block of the last recorded extent
    out        \* the value returned

vars == <<medium, op, pc, ad, s, data, last, out>>

fe == medium.fe

None == [some |-> FALSE]
Some(v) == [some |-> TRUE, value |-> v]

(* seek_read: any error, also the end of the image, is None. *)
Readable(pos) ==
    pos + BlockSize <= medium.size /\ \A u \in medium.bad : u < pos \/ u >= pos + BlockSize

Return(v) == pc' = "done" /\ out' = v

Init ==
    /\ medium \in Media /\ op \in {"data", "slack"}
    /\ pc = "entry" /\ ad = 1 /\ s = 0 /\ data = << >>
    /\ last = None /\ out = None

-----------------------------------------------------------------------------
(* Both functions begin with the File Entry. *)

FeReadable == Readable(FeLba * BlockSize) /\ fe.tag = "fe"

Recorded(e) == e.type = 0 /\ e.len > 0

Start(e) == (PartStart + e.lbn) * BlockSize

\* Mutant: one block more when the extent ends on a block boundary.
BlocksPlus(len) == len \div BlockSize + 1

\* div_ceil.
Blocks(len) == (len + BlockSize - 1) \div BlockSize

(* read_fe_data, up to its match on the allocation type. *)
ReadEntry ==
    /\ op = "data" /\ pc = "entry"
    /\ \/ /\ ~FeReadable \/ ~fe.fits \/ fe.alloc = "reserved"
          /\ Return(None) /\ UNCHANGED data
       \/ /\ FeReadable /\ fe.fits /\ fe.alloc = "inline"
          /\ data' = [n \in 1 .. Min({fe.infoLen, fe.area}) |-> <<"area", n>>]
          /\ Return(Some(data'))
       \/ /\ FeReadable /\ fe.fits /\ fe.alloc \in {"short", "long"}
          /\ pc' = "extent" /\ UNCHANGED <<data, out>>
    /\ UNCHANGED <<medium, op, ad, s, last>>

-----------------------------------------------------------------------------
(* read_extents_short, read_extents_long *)

\* Mutant: another extent is passed over with one that is not recorded.
PastSkippedTwice(n) == n + 2

PastSkipped(n) == n + 1

(* The loop's test, then a descriptor that is not recorded or empty. *)
SkipExtent ==
    /\ pc = "extent" /\ ad <= Len(fe.ads) /\ Len(data) < fe.infoLen
    /\ ~Recorded(fe.ads[ad])
    /\ ad' = PastSkipped(ad)
    /\ UNCHANGED <<medium, op, pc, s, data, last, out>>

BeginExtent ==
    /\ pc = "extent" /\ ad <= Len(fe.ads) /\ Len(data) < fe.infoLen
    /\ Recorded(fe.ads[ad])
    /\ pc' = "block" /\ s' = 0
    /\ UNCHANGED <<medium, op, ad, data, last, out>>

\* Mutant: what was collected before does not count.
RemainingAll == fe.infoLen

\* total_len.saturating_sub(data.len())
Remaining == IF fe.infoLen > Len(data) THEN fe.infoLen - Len(data) ELSE 0

\* Mutant: the last block of an extent is taken whole.
TakeWhole(e) == Min({BlockSize, Remaining})

\* The bytes wanted of block s of extent e.
Take(e) == Min({e.len - s * BlockSize, BlockSize, Remaining})

(* One iteration of read_extent: every block of the extent is read, also when
   nothing of it is wanted any more. *)
ReadBlock ==
    /\ pc = "block"
    /\ LET e == fe.ads[ad]
           pos == Start(e) + s * BlockSize
       IN  \/ ~Readable(pos) /\ Return(None) /\ UNCHANGED <<ad, s, data>>
           \/ /\ Readable(pos)
              /\ data' = data \o [n \in 1 .. Take(e) |-> pos + n - 1]
              /\ s' = s + 1
              /\ IF s' < Blocks(e.len) THEN UNCHANGED <<pc, ad>>
                                       ELSE pc' = "extent" /\ ad' = ad + 1
              /\ UNCHANGED out
    /\ UNCHANGED <<medium, op, last>>

\* data.truncate(total_len)
Truncated == SubSeq(data, 1, Min({Len(data), fe.infoLen}))

ExtentsEnd ==
    /\ pc = "extent" /\ (ad > Len(fe.ads) \/ Len(data) >= fe.infoLen)
    /\ Return(Some(Truncated))
    /\ UNCHANGED <<medium, op, ad, s, data, last>>

-----------------------------------------------------------------------------
(* fe_slack_nonzero *)

SlackLen == (BlockSize - (fe.infoLen % BlockSize)) % BlockSize

(* read_fe_info_len and the early returns on it. *)
SlackEntry ==
    /\ op = "slack" /\ pc = "entry"
    /\ IF ~FeReadable \/ fe.infoLen = 0 \/ SlackLen = 0
       THEN Return(None)
       ELSE pc' = "last" /\ UNCHANGED out
    /\ UNCHANGED <<medium, op, ad, s, data, last>>

\* Mutant: the block after the extent's last.
LastBlockAfter(e) == Start(e) + Blocks(e.len) * BlockSize

LastBlock(e) == Start(e) + (Blocks(e.len) - 1) * BlockSize

(* fe_last_block_pos: the last recorded extent of all, wherever the file ends. *)
FindLastBlock ==
    /\ pc = "last"
    /\ LET recorded == {j \in DOMAIN fe.ads : Recorded(fe.ads[j])}
       IN  IF ~fe.fits \/ fe.alloc \notin {"short", "long"} \/ recorded = {}
           THEN Return(None) /\ UNCHANGED last
           ELSE last' = Some(LastBlock(fe.ads[Max(recorded)])) /\ pc' = "slack" /\ UNCHANGED out
    /\ UNCHANGED <<medium, op, ad, s, data>>

(* The block is read, its bytes from the end of the file on are counted. *)
ReadSlack ==
    /\ pc = "slack"
    /\ IF Readable(last.value)
       THEN Return(Some((last.value + (fe.infoLen % BlockSize)) .. (last.value + BlockSize - 1)))
       ELSE Return(None)
    /\ UNCHANGED <<medium, op, ad, s, data, last>>

Next ==
    \/ ReadEntry
    \/ SkipExtent
    \/ BeginExtent
    \/ ReadBlock
    \/ ExtentsEnd
    \/ SlackEntry
    \/ FindLastBlock
    \/ ReadSlack

(* Sequential calls: they keep running until they return. *)
Spec == Init /\ [][Next]_vars /\ WF_vars(Next)

-----------------------------------------------------------------------------
(* A file's bytes by its descriptors alone. *)

Extents == fe.alloc \in {"short", "long"} /\ fe.fits /\ FeReadable

\* What each extent gives the file, and what read_fe_data takes of it.
AllBytes == [j \in DOMAIN fe.ads |-> fe.ads[j].len]
RecordedBytes == [j \in DOMAIN fe.ads |-> IF Recorded(fe.ads[j]) THEN fe.ads[j].len ELSE 0]

\* Bytes before the j-th extent when each gives what bytes says.
Before(bytes, j) ==
    LET Sum[n \in 0 .. Len(fe.ads)] == IF n = 0 THEN 0 ELSE Sum[n - 1] + bytes[n]
    IN  Sum[j - 1]

\* Offset n (from 0) is one of the j-th extent's.
IsAt(bytes, n, j) == Before(bytes, j) <= n /\ n < Before(bytes, j) + bytes[j]

\* A hole: an extent that is not recorded, before the end of the file.
Sparse ==
    \E j \in DOMAIN fe.ads :
        ~Recorded(fe.ads[j]) /\ fe.ads[j].len > 0 /\ Before(AllBytes, j) < fe.infoLen

Total == Before(AllBytes, Len(fe.ads) + 1)

\* A file whose extents are as ECMA-167 wants them: whole blocks but the last,
\* none empty, and as many bytes as the information length says.
WellFormed ==
    /\ Extents /\ Total >= fe.infoLen
    /\ \A j \in DOMAIN fe.ads :
          fe.ads[j].len > 0 /\ (j < Len(fe.ads) => (fe.ads[j].len % BlockSize) = 0)

\* One without holes that ends in its last extent, in the last block of it.
Regular ==
    /\ WellFormed /\ ~Sparse /\ Blocks(Total) = Blocks(fe.infoLen)
    /\ fe.ads # << >> => Before(AllBytes, Len(fe.ads)) < fe.infoLen

-----------------------------------------------------------------------------
(* Properties. *)

\* Type invariant of the two calls.
TypeOK ==
    /\ IsMedium(medium) /\ op \in {"data", "slack"}
    /\ pc \in {"entry", "extent", "block", "last", "slack", "done"}
    /\ ad \in 1 .. Len(fe.ads) + 1 /\ s \in Nat
    /\ pc = "block" => ad <= Len(fe.ads) /\ s < Blocks(fe.ads[ad].len)
    /\ Len(data) \in Nat
    /\ pc = "slack" => last.some /\ last.value \in Nat

\* read_fe_data delivers the recorded bytes of the file, in order, none twice
\* and none left out, up to the information length, however the extents are
\* cut: this is where a partial block in the middle would shift what follows.
\* For a file without holes they are the file's bytes at their offsets.
DataIsContents ==
    op = "data" /\ Extents /\ out.some =>
      /\ \A n \in 1 .. Len(out.value) :
            \E j \in DOMAIN fe.ads :
               /\ IsAt(RecordedBytes, n - 1, j)
               /\ out.value[n] = Start(fe.ads[j]) + (n - 1 - Before(RecordedBytes, j))
               /\ ~Sparse => IsAt(AllBytes, n - 1, j)
      /\ Len(out.value) = Min({fe.infoLen, Before(RecordedBytes, Len(fe.ads) + 1)})

\* The buffer never grows beyond the information length, whatever lengths the
\* extents claim (read_extent's `remaining`).
BufferBounded == Len(data) <= fe.infoLen

\* A file is refused only for a reason: its File Entry makes no sense or a
\* block of an extent it begins before its end cannot be read.
NoneIsJustified ==
    op = "data" /\ pc = "done" /\ ~out.some =>
      \/ ~FeReadable \/ ~fe.fits \/ fe.alloc = "reserved"
      \/ \E j \in DOMAIN fe.ads :
            /\ Recorded(fe.ads[j]) /\ Before(RecordedBytes, j) < fe.infoLen
            /\ \E b \in 0 .. fe.ads[j].len :
                  b * BlockSize < fe.ads[j].len /\ ~Readable(Start(fe.ads[j]) + b * BlockSize)

\* The slack of a regular file is exactly what its final block has beyond its
\* last byte: none of it is the file's, and it begins where the file ends.
SlackFollowsFile ==
    op = "slack" /\ out.some /\ Regular =>
      \E j \in DOMAIN fe.ads :
         LET end == Start(fe.ads[j]) + (fe.infoLen - 1 - Before(AllBytes, j))
         IN  IsAt(AllBytes, fe.infoLen - 1, j) /\ out.value = end + 1 .. end + SlackLen

\* lib.rs 1016: "walked through the FE's allocation descriptors so the slack
\* inspected is the true final block": what is searched for slack are never
\* bytes of the file.
SlackIsNotContent ==
    op = "slack" /\ out.some /\ WellFormed =>
      \A n \in 0 .. fe.infoLen - 1, j \in DOMAIN fe.ads :
         IsAt(AllBytes, n, j) /\ Recorded(fe.ads[j]) =>
            Start(fe.ads[j]) + (n - Before(AllBytes, j)) \notin out.value

=============================================================================
