------------------------------ MODULE Bootstrap ------------------------------
(***************************************************************************)
(* The bootstrap chain of udf-core (core/src/lib.rs): detect the block     *)
(* size from the Anchor Volume Descriptor Pointer, re-read the anchor,     *)
(* scan the Volume Descriptor Sequence, resolve the file set's partition   *)
(* and read the File Set Descriptor (parse_udf_state_checked).             *)
(*                                                                         *)
(* One action per read of the medium, so that every early return between   *)
(* two reads is a step.  What is abstracted:                               *)
(*   - the medium is a number of units, the set of units whose reading     *)
(*     fails with an I/O error other than EOF, and the descriptors at      *)
(*     their unit positions; a unit is a divisor of every block size, and  *)
(*     a descriptor carries only the fields the chain uses;                *)
(*   - a Logical Volume Descriptor carries its maps already parsed;        *)
(*   - the anchor's sector number (256) and the largest u32 are constants. *)
(* Positions are u64 in the code and never overflow: plain naturals here.  *)
(***************************************************************************)
EXTENDS Integers, Sequences, FiniteSetsExt

CONSTANTS
    Candidates,  \* BLOCK_SIZE_CANDIDATES in probing order, in units
    AnchorLba,   \* logical sector of the anchor (256)
    TagLen,      \* units read by an anchor probe (the 16-byte tag)
    MaxU32,      \* largest u32 (2^32 - 1)
    Media        \* the media a run starts from

PartitionKind == {"Physical", "Virtual", "Sparable", "Metadata", "Unknown"}

U32 == 0 .. MaxU32

NoLvd == [none |-> TRUE]    \* fsd_lbn = None

\* PartitionMap: a Type 1 (Physical) map, and no other, carries a partition number.
PartitionMap ==
    [kind : {"Physical"}, num : U32] \cup [kind : PartitionKind \ {"Physical"}]

\* What a sector may hold, as far as the chain looks.
Descriptor ==
    [tag : {"AVDP"}, location : U32, vdsLoc : U32, vdsLen : U32]
      \cup [tag : {"PD"}, num : U32, start : U32]
      \cup [tag : {"LVD"}, lbn : U32, ref : U32, maps : Seq(PartitionMap)]
      \cup [tag : {"FSD"}, root : U32]
      \cup [tag : {"TERM", "ZERO", "OTHER"}]

Blank == [tag |-> "ZERO"]

ASSUME CandidatesAssumption ==
    /\ Candidates \in Seq(Nat \ {0}) /\ Len(Candidates) > 0
    /\ \A k \in 1 .. Len(Candidates) : TagLen <= Candidates[k]
ASSUME NumbersAssumption == AnchorLba \in Nat /\ TagLen \in Nat \ {0} /\ MaxU32 \in Nat
IsMedium(m) ==
    /\ m.size \in Nat
    /\ m.bad \subseteq Nat
    /\ \A pos \in DOMAIN m.desc : m.desc[pos] \in Descriptor
ASSUME MediaAssumption == \A m \in Media : IsMedium(m)

VARIABLES
    medium,      \* what the reader reads; constant through a behaviour
    pc,          \* the function of the chain that is about to run
    k,           \* candidate block size being probed
    anyReadOk,   \* some probe read its 16 bytes
    blockSize,   \* detected block size (0 until then)
    vds,         \* location and byte length recorded by the anchor
    i,           \* index of the scan over the VDS
    pdStart,     \* partition number -> starting LBA
    lvd,         \* last Logical Volume Descriptor met, NoLvd before one
    info,        \* VdsInfo
    out,         \* the value returned
    failed       \* history: the outcomes of the reads that did not succeed

vars == <<medium, pc, k, anyReadOk, blockSize, vds, i, pdStart, lvd, info, out, failed>>

-----------------------------------------------------------------------------
(* The medium. *)

DescAt(m, pos) == IF pos \in DOMAIN m.desc THEN m.desc[pos] ELSE Blank

(* seek_read_checked: seeking never fails, read_exact hits a bad unit or the
   end of the image, whichever comes first. *)
ReadResult(m, pos, n) ==
    IF \E u \in m.bad : pos <= u /\ u < pos + n /\ u < m.size THEN "fault"
    ELSE IF pos + n > m.size THEN "eof" ELSE "ok"

BlockPos(lba) == lba * blockSize
BlockRead(lba) == ReadResult(medium, BlockPos(lba), blockSize)
Block(lba) == DescAt(medium, BlockPos(lba))

\* Mutant: a partial last block is not scanned.
SectorsFloor(len, size) == len \div size

\* Length of the VDS in whole blocks (div_ceil).
Sectors(len, size) == (len + size - 1) \div size

Return(value) == pc' = "done" /\ out' = value

Err == [res |-> "Err"]
NotUdf == [res |-> "None"]
Panic == [res |-> "Panic"]

\* A read that fails is an early return of the io::Error (`?`).
Fails(result) ==
    /\ result # "ok"
    /\ failed' = failed \cup {[at |-> pc, why |-> result]}
    /\ Return(Err)

-----------------------------------------------------------------------------
Init ==
    /\ medium \in Media
    /\ pc = "probe" /\ k = 1 /\ anyReadOk = FALSE
    /\ blockSize = 0 /\ vds = [loc |-> 0, len |-> 0]
    /\ i = 0 /\ pdStart = << >> /\ lvd = NoLvd
    /\ info = [none |-> TRUE]
    /\ out = [res |-> "Pending"] /\ failed = {}

\* Mutant: any descriptor is taken for the anchor.
IsAnchorLoose(d) == d.tag # "ZERO"

IsAnchor(d) == d.tag = "AVDP" /\ d.location = AnchorLba

(* detect_block_size: one probe of the 16-byte tag per candidate. *)
ProbeCandidate ==
    /\ pc = "probe" /\ k <= Len(Candidates)
    /\ LET pos == AnchorLba * Candidates[k]
           result == ReadResult(medium, pos, TagLen)
       IN  \/ /\ result = "ok" /\ IsAnchor(DescAt(medium, pos))
              /\ blockSize' = Candidates[k] /\ anyReadOk' = TRUE /\ pc' = "avdp"
              /\ UNCHANGED <<k, out, failed>>
           \/ /\ result = "ok" /\ ~IsAnchor(DescAt(medium, pos))
              /\ anyReadOk' = TRUE /\ k' = k + 1
              /\ UNCHANGED <<blockSize, pc, out, failed>>
           \/ /\ result = "eof" /\ k' = k + 1
              /\ failed' = failed \cup {[at |-> pc, why |-> result]}
              /\ UNCHANGED <<blockSize, anyReadOk, pc, out>>
           \/ /\ result = "fault" /\ Fails(result)
              /\ UNCHANGED <<blockSize, anyReadOk, k>>
    /\ UNCHANGED <<medium, vds, i, pdStart, lvd, info>>

\* Mutant: a truncated image is "not UDF".
NoAnchorFoundLoose == NotUdf

(* The EOF is returned only when no probe could be read. *)
NoAnchorFound == IF anyReadOk THEN NotUdf ELSE Err

\* Mutant: probing starts again as long as nothing could be read.
ProbesExhaustedRetry ==
    /\ pc = "probe" /\ k > Len(Candidates)
    /\ IF anyReadOk THEN Return(NotUdf) /\ UNCHANGED k
                    ELSE k' = 1 /\ UNCHANGED <<pc, out>>
    /\ UNCHANGED <<medium, anyReadOk, blockSize, vds, i, pdStart, lvd, info, failed>>

(* The end of detect_block_size's loop. *)
ProbesExhausted ==
    /\ pc = "probe" /\ k > Len(Candidates)
    /\ Return(NoAnchorFound)
    /\ UNCHANGED <<medium, k, anyReadOk, blockSize, vds, i, pdStart, lvd, info, failed>>

(* read_avdp_checked: the whole anchor block this time. *)
ReadAvdp ==
    /\ pc = "avdp"
    /\ LET avdp == Block(AnchorLba)
       IN  \/ Fails(BlockRead(AnchorLba)) /\ UNCHANGED vds
           \/ /\ BlockRead(AnchorLba) = "ok"
              /\ IF avdp.tag = "AVDP"
                 THEN /\ vds' = [loc |-> avdp.vdsLoc, len |-> avdp.vdsLen]
                      /\ pc' = "scan" /\ UNCHANGED out
                 ELSE Return(NotUdf) /\ UNCHANGED vds
              /\ UNCHANGED failed
    /\ UNCHANGED <<medium, k, anyReadOk, blockSize, i, pdStart, lvd, info>>

\* Mutant: the first Partition Descriptor of a number prevails.
WithPdFirst(starts, d) ==
    [n \in DOMAIN starts \cup {d.num} |-> IF n \in DOMAIN starts THEN starts[n] ELSE d.start]

\* pd_start.insert: a later Partition Descriptor of a number replaces an earlier.
WithPd(starts, d) ==
    [n \in DOMAIN starts \cup {d.num} |-> IF n = d.num THEN d.start ELSE starts[n]]

(* One iteration of read_vds_checked's loop; a later descriptor of a kind
   replaces an earlier one.  A terminating or zero tag breaks. *)
ScanVds ==
    /\ pc = "scan" /\ i < Sectors(vds.len, blockSize)
    /\ LET d == Block(vds.loc + i)
       IN  \/ Fails(BlockRead(vds.loc + i)) /\ UNCHANGED <<i, pdStart, lvd>>
           \/ /\ BlockRead(vds.loc + i) = "ok"
              /\ IF d.tag \in {"TERM", "ZERO"} THEN pc' = "resolve" /\ UNCHANGED i
                                               ELSE i' = i + 1 /\ UNCHANGED pc
              /\ pdStart' = IF d.tag = "PD" THEN WithPd(pdStart, d) ELSE pdStart
              /\ lvd' = IF d.tag = "LVD" THEN d ELSE lvd
              /\ UNCHANGED <<out, failed>>
    /\ UNCHANGED <<medium, k, anyReadOk, blockSize, vds, info>>

ScanEnds ==
    /\ pc = "scan" /\ i >= Sectors(vds.len, blockSize)
    /\ pc' = "resolve"
    /\ UNCHANGED <<medium, k, anyReadOk, blockSize, vds, i, pdStart, lvd, info, out, failed>>

\* The map the file set's partition reference selects (maps.get(ref)).
HasMap(l) == l.ref < Len(l.maps)
RefMap(l) == l.maps[l.ref + 1]

\* The Partition Descriptor the referenced map names was met by the scan.
Named(l, starts) ==
    HasMap(l) /\ RefMap(l).kind = "Physical" /\ RefMap(l).num \in DOMAIN starts

\* partition_start: the named partition's start, else the smallest of all.
StartOf(l, starts) ==
    IF Named(l, starts) THEN starts[RefMap(l).num]
    ELSE Min({starts[n] : n \in DOMAIN starts})

KindOf(l) == IF HasMap(l) THEN RefMap(l).kind ELSE "Unknown"

\* Mutant: the sum is used unchecked.
OverflowsNever(a, b) == FALSE

\* `a.checked_add(b)` is None.
Overflows(a, b) == a + b > MaxU32

(* The second half of read_vds_checked, after its loop. *)
Resolve ==
    /\ pc = "resolve"
    /\ IF \/ lvd = NoLvd
          \/ DOMAIN pdStart = {}
          \/ Overflows(StartOf(lvd, pdStart), lvd.lbn)
       THEN Return(NotUdf) /\ UNCHANGED info
       ELSE /\ info' = [partition_start |-> StartOf(lvd, pdStart),
                        fsd_lba         |-> StartOf(lvd, pdStart) + lvd.lbn,
                        partition_kind  |-> KindOf(lvd),
                        map_count       |-> Len(lvd.maps)]
            /\ pc' = "fsd" /\ UNCHANGED out
    /\ UNCHANGED <<medium, k, anyReadOk, blockSize, vds, i, pdStart, lvd, failed>>

\* The UdfState that parse_udf_state_checked assembles.
State(root) ==
    [res             |-> "State",
     partition_start |-> info.partition_start,
     root_fe_lba     |-> root,
     partition_kind  |-> info.partition_kind,
     map_count       |-> info.map_count,
     block_size      |-> blockSize,
     fsd_lba         |-> info.fsd_lba,
     vds_loc         |-> vds.loc,
     vds_len_sectors |-> Sectors(vds.len, blockSize)]

(* read_fsd_checked.  Its `partition_start + lbn` is an unchecked u32 addition:
   when it leaves the range, a build with overflow checks panics and a release
   build wraps. *)
ReadFsd ==
    /\ pc = "fsd"
    /\ LET fsd == Block(info.fsd_lba)
           root == info.partition_start + fsd.root
       IN  \/ Fails(BlockRead(info.fsd_lba))
           \/ /\ BlockRead(info.fsd_lba) = "ok"
              /\ \/ fsd.tag # "FSD" /\ Return(NotUdf)
                 \/ fsd.tag = "FSD" /\ Return(State(root % (MaxU32 + 1)))
                 \/ fsd.tag = "FSD" /\ root > MaxU32 /\ Return(Panic)
              /\ UNCHANGED failed
    /\ UNCHANGED <<medium, k, anyReadOk, blockSize, vds, i, pdStart, lvd, info>>

Next ==
    \/ ProbeCandidate
    \/ ProbesExhausted
    \/ ReadAvdp
    \/ ScanVds
    \/ ScanEnds
    \/ Resolve
    \/ ReadFsd

(* The chain is one sequential call: it keeps running until it returns. *)
Spec == Init /\ [][Next]_vars /\ WF_vars(Next)

-----------------------------------------------------------------------------
(* Properties. *)

Answers == {Err, NotUdf, Panic} \cup
    [res : {"State"}, partition_start : U32, root_fe_lba : U32,
     partition_kind : PartitionKind, map_count : Nat, block_size : Nat \ {0},
     fsd_lba : U32, vds_loc : U32, vds_len_sectors : Nat]

\* Type invariant of the chain: what each local of the Rust functions may hold
\* at each point of parse_udf_state_checked.
TypeOK ==
    /\ IsMedium(medium)
    /\ pc \in {"probe", "avdp", "scan", "resolve", "fsd", "done"}
    /\ k \in 1 .. Len(Candidates) + 1
    /\ anyReadOk \in BOOLEAN
    /\ blockSize \in Nat
    /\ pc \notin {"probe", "done"} => blockSize \in Nat \ {0}
    /\ vds \in [loc : U32, len : U32]
    /\ i \in Nat
    /\ DOMAIN pdStart \subseteq U32 /\ \A n \in DOMAIN pdStart : pdStart[n] \in U32
    /\ lvd = NoLvd \/ (lvd \in Descriptor /\ lvd.tag = "LVD")
    /\ pc = "fsd" => info \in [partition_start : U32, fsd_lba : U32,
                              partition_kind : PartitionKind, map_count : Nat]
    /\ IF pc = "done" THEN out \in Answers ELSE out = [res |-> "Pending"]

\* Err is returned exactly when a read that the answer depends on failed: an
\* I/O fault anywhere, an EOF after the anchor was found, or an EOF at every
\* probe.  Neither a State nor "not UDF" ever hides such a failure, and no
\* readable image is reported as an I/O error (parse_udf_state_checked, ADR 5).
HonestAnswer ==
    pc = "done" =>
      (out = Err <=> \/ \E f \in failed : f.why = "fault" \/ f.at # "probe"
                     \/ \A j \in 1 .. Len(Candidates) :
                          ReadResult(medium, AnchorLba * Candidates[j], TagLen) = "eof")

\* The part of the VDS that counts: the blocks before the first terminator or
\* zero tag, within the length the anchor recorded.
Window ==
    {j \in 0 .. vds.len :
        /\ j * blockSize < vds.len
        /\ \A h \in 0 .. j : Block(vds.loc + h).tag \notin {"TERM", "ZERO"}}

\* Block j of the window is the last Logical Volume Descriptor there, or the
\* last Partition Descriptor of partition n.
IsLastLvd(j) ==
    /\ j \in Window /\ Block(vds.loc + j).tag = "LVD"
    /\ \A h \in Window : h > j => Block(vds.loc + h).tag # "LVD"
IsPd(j, n) == Block(vds.loc + j).tag = "PD" /\ Block(vds.loc + j).num = n
IsLastPd(j, n) ==
    /\ j \in Window /\ IsPd(j, n)
    /\ \A h \in Window : h > j => ~IsPd(h, n)

\* s is where the partition that l refers to starts, by the descriptors on the
\* medium alone: the prevailing Partition Descriptor its map names, or, when it
\* names none, the lowest start of all prevailing Partition Descriptors.
IsStartFor(l, s) ==
    IF HasMap(l) /\ RefMap(l).kind = "Physical" /\ \E j \in Window : IsPd(j, RefMap(l).num)
    THEN \E j \in Window : IsLastPd(j, RefMap(l).num) /\ s = Block(vds.loc + j).start
    ELSE /\ \E j \in Window, n \in U32 : IsLastPd(j, n) /\ s = Block(vds.loc + j).start
         /\ \A j \in Window, n \in U32 : IsLastPd(j, n) => s <= Block(vds.loc + j).start

\* A returned UdfState describes the medium: the anchor is there, and every
\* address follows from the descriptors that prevail in the VDS, whatever
\* order, number and duplicates they come in (read_vds_checked's loop and
\* resolution, read_fsd_checked).  The file set address never wraps.
StateDescribesMedium ==
    out.res = "State" =>
      /\ IsAnchor(Block(AnchorLba)) /\ out.block_size = blockSize
      /\ out.vds_loc = Block(AnchorLba).vdsLoc
      /\ \E j \in Window :
            /\ IsLastLvd(j)
            /\ LET l == Block(vds.loc + j)
               IN  /\ IsStartFor(l, out.partition_start)
                   /\ out.fsd_lba = out.partition_start + l.lbn
                   /\ out.partition_kind = KindOf(l) /\ out.map_count = Len(l.maps)
      /\ Block(out.fsd_lba).tag = "FSD"

\* "Not UDF" is never said of a medium whose chain is there to be followed:
\* some link of it is missing or points outside the address space.
NoFalseNegative ==
    out = NotUdf =>
      \/ \A j \in 1 .. Len(Candidates) :
            LET pos == AnchorLba * Candidates[j]
            IN  ReadResult(medium, pos, TagLen) = "ok" => ~IsAnchor(DescAt(medium, pos))
      \/ \A j \in Window : Block(vds.loc + j).tag # "LVD"
      \/ \A j \in Window : Block(vds.loc + j).tag # "PD"
      \/ \E j \in Window, s \in U32 :
            /\ IsLastLvd(j) /\ IsStartFor(Block(vds.loc + j), s)
            /\ LET fsd == s + Block(vds.loc + j).lbn
               IN  fsd > MaxU32 \/ Block(fsd).tag # "FSD"

\* The early return after read_avdp_checked is unreachable, as its comment
\* says: the anchor the probe accepted is the anchor that is read again.
AvdpRecheckUnreachable == pc = "avdp" => Block(AnchorLba).tag = "AVDP"

\* Whatever the medium holds, the call returns: the scan is bounded by the
\* recorded length even when no terminator is met.
Returns == <>(pc = "done")

\* lib.rs 468: "A wrapped LBA would point at a real but wrong block": the root
\* File Entry's address is a sum of two fields like the File Set's.
RootAddressNeverWraps ==
    out.res = "State" => out.root_fe_lba = out.partition_start + Block(out.fsd_lba).root

\* lib.rs 456: the start of another partition stands in only for a Type 2 map,
\* "and report the kind so callers know reads may be incomplete".
FallbackIsReported ==
    out.res = "State" /\ ~Named(lvd, pdStart) => out.partition_kind # "Physical"

=============================================================================
