------------------------ MODULE BootstrapAuditProofs ------------------------
(* Proofs about the analyzer's second walk over the bootstrap chain, for all
   block sizes, every width of the addresses and every set of media. *)
EXTENDS BootstrapAudit, BootstrapProofs

-----------------------------------------------------------------------------
(* What the reader has read when it answers.  The invariant of Bootstrap says
   what it made of the blocks; the analyzer also relies on their having been
   readable, and on where the scan stopped. *)

Ends == {"TERM", "ZERO"}

Past(stages) == pc \in stages \/ out.res = "State"

StoppedAt(n) ==
    /\ n <= Sectors(vds.len, blockSize)
    /\ n < Sectors(vds.len, blockSize) => BlockRead(vds.loc + n) = "ok" /\ TagAt(n) \in Ends

HasRead ==
    /\ Past({"scan", "resolve", "fsd"}) =>
          /\ BlockRead(AnchorLba) = "ok" /\ blockSize # 0
          /\ \A h \in 0 .. i - 1 : BlockRead(vds.loc + h) = "ok"
    /\ Past({"resolve", "fsd"}) => StoppedAt(i) /\ Window = 0 .. i - 1
    /\ out.res = "State" =>
          /\ out.vds_loc = vds.loc /\ out.vds_len_sectors = Sectors(vds.len, blockSize)
          /\ BlockRead(out.fsd_lba) = "ok"

LEMMA ReadsConstant ==
    ASSUME UNCHANGED <<medium, blockSize, vds>>
    PROVE  /\ \A lba : BlockRead(lba)' = BlockRead(lba)
           /\ \A h : TagAt(h)' = TagAt(h)
           /\ Window' = Window
<1>1. \A lba : BlockRead(lba)' = BlockRead(lba)
  BY DEF BlockRead, BlockPos, ReadResult
<1> QED  BY <1>1, ViewConstant

LEMMA StoppedConstant ==
    ASSUME UNCHANGED <<medium, blockSize, vds>>, NEW n
    PROVE  StoppedAt(n)' = StoppedAt(n)
BY ReadsConstant DEF StoppedAt

LEMMA HasReadStep == IInv /\ HasRead /\ [Next]_vars => HasRead'
<1> SUFFICES ASSUME IInv, HasRead, [Next]_vars PROVE HasRead'
  OBVIOUS
<1>0. TypeOK /\ Anchored /\ Scanning
  BY DEF IInv
<1>1. CASE ProbeCandidate
  <2>1. out'.res # "State" /\ pc' \in {"probe", "avdp", "done"}
    BY <1>0, <1>1 DEF ProbeCandidate, Fails, Return, Err, TypeOK
  <2> QED  BY <2>1 DEF HasRead, Past
<1>2. CASE ProbesExhausted
  <2>1. out'.res # "State" /\ pc' = "done"
    BY <1>0, <1>2 DEF ProbesExhausted, NoAnchorFound, Return, Err, NotUdf, TypeOK
  <2> QED  BY <2>1 DEF HasRead, Past
<1>3. CASE ReadAvdp
  <2>1. out'.res # "State" /\ pc' \in {"scan", "done"}
    BY <1>0, <1>3 DEF ReadAvdp, Fails, Return, Err, NotUdf, TypeOK
  <2>2. CASE pc' = "scan"
    <3>1. BlockRead(AnchorLba) = "ok" /\ i' = i /\ i = 0 /\ UNCHANGED <<medium, blockSize>>
      BY <1>0, <1>3, <2>2 DEF ReadAvdp, Fails, Return, Anchored
    <3>2. BlockRead(AnchorLba)' = "ok"
      BY <3>1 DEF BlockRead, BlockPos, ReadResult
    <3>3. blockSize # 0
      BY <1>0, <1>3 DEF ReadAvdp, TypeOK
    <3> QED  BY <2>1, <2>2, <3>1, <3>2, <3>3 DEF HasRead, Past
  <2> QED  BY <2>1, <2>2 DEF HasRead, Past
<1>4. CASE ScanVds
  <2>1. UNCHANGED <<medium, blockSize, vds>>
    BY <1>4 DEF ScanVds
  <2>2. CASE pc' = "done"
    BY <1>0, <1>4, <2>2 DEF ScanVds, Fails, Return, Err, TypeOK, HasRead, Past
  <2>3. CASE pc' # "done"
    <3>1. out'.res # "State" /\ BlockRead(vds.loc + i) = "ok" /\ i \in Nat /\ i < Sectors(vds.len, blockSize)
      BY <1>0, <1>4, <2>3 DEF ScanVds, Fails, Return, TypeOK
    <3>2. BlockRead(AnchorLba) = "ok" /\ blockSize # 0 /\ \A h \in 0 .. i - 1 : BlockRead(vds.loc + h) = "ok"
      BY <1>4 DEF ScanVds, HasRead, Past
    <3>3. CASE TagAt(i) \in Ends
      <4>1. pc' = "resolve" /\ i' = i
        BY <1>4, <2>3, <3>1, <3>3 DEF ScanVds, Fails, Return, TagAt, Ends
      <4>2. \A h \in 0 .. i - 1 : TagAt(h) \notin {"TERM", "ZERO"}
        BY <1>0, <1>4 DEF ScanVds, Scanning, Collected
      <4>. Sectors(vds.len, blockSize) \in Nat
        BY <1>0, <3>2, SectorsCover, Numbers DEF TypeOK
      <4>3. Window = 0 .. i - 1
        BY <1>0, <3>1, <3>2, <3>3, <4>2, WindowIs DEF Ends
      <4>4. StoppedAt(i)
        BY <3>1, <3>3 DEF StoppedAt
      <4>5. StoppedAt(i)'
        BY <2>1, <4>1, <4>4, StoppedConstant
      <4> QED  BY <2>1, <3>1, <3>2, <4>1, <4>3, <4>5, ReadsConstant DEF HasRead, Past
    <3>4. CASE TagAt(i) \notin Ends
      <4>1. pc' = "scan" /\ i' = i + 1
        BY <1>4, <2>3, <3>1, <3>4 DEF ScanVds, Fails, Return, TagAt, Ends
      <4>2. \A h \in 0 .. i' - 1 : BlockRead(vds.loc + h) = "ok"
        BY <3>1, <3>2, <4>1
      <4> QED  BY <2>1, <3>1, <3>2, <4>1, <4>2, ReadsConstant DEF HasRead, Past
    <3> QED  BY <3>3, <3>4
  <2> QED  BY <2>2, <2>3
<1>5. CASE ScanEnds
  <2>1. UNCHANGED <<medium, blockSize, vds, i, out>> /\ pc' = "resolve" /\ pc = "scan" /\ i \in Nat
        /\ out.res # "State"
    BY <1>0, <1>5 DEF ScanEnds, TypeOK
  <2>2. /\ BlockRead(AnchorLba) = "ok" /\ blockSize # 0
        /\ \A h \in 0 .. i - 1 : BlockRead(vds.loc + h) = "ok"
    BY <2>1 DEF HasRead, Past
  <2>3. Sectors(vds.len, blockSize) \in Nat
    BY <1>0, <2>2, SectorsCover, Numbers DEF TypeOK
  <2>4. i = Sectors(vds.len, blockSize)
    BY <1>0, <1>5, <2>1, <2>3 DEF ScanEnds, Scanning
  <2>5. \A h \in 0 .. i - 1 : TagAt(h) \notin {"TERM", "ZERO"}
    BY <1>0, <2>1 DEF Scanning, Collected
  <2>6. Window = 0 .. i - 1
    BY <1>0, <2>1, <2>2, <2>4, <2>5, WindowIs
  <2>7. StoppedAt(i)
    BY <2>1, <2>4 DEF StoppedAt
  <2>8. StoppedAt(i)'
    BY <2>1, <2>7, StoppedConstant
  <2> QED  BY <2>1, <2>2, <2>6, <2>8, ReadsConstant DEF HasRead, Past
<1>6. CASE Resolve
  <2>1. UNCHANGED <<medium, blockSize, vds, i>> /\ out'.res # "State" /\ pc' \in {"fsd", "done"}
        /\ pc = "resolve"
    BY <1>0, <1>6 DEF Resolve, Return, NotUdf, TypeOK
  <2>2. StoppedAt(i)' = StoppedAt(i)
    BY <2>1, StoppedConstant
  <2> QED  BY <2>1, <2>2, ReadsConstant DEF HasRead, Past
<1>7. CASE ReadFsd
  <2>1. UNCHANGED <<medium, blockSize, vds, i, info>> /\ pc' = "done" /\ pc = "fsd"
    BY <1>7 DEF ReadFsd, Fails, Return
  <2>2. CASE out'.res = "State"
    <3>1. /\ BlockRead(info.fsd_lba) = "ok" /\ out'.fsd_lba = info.fsd_lba
          /\ out'.vds_loc = vds.loc /\ out'.vds_len_sectors = Sectors(vds.len, blockSize)
      BY <1>7, <2>2 DEF ReadFsd, Fails, Return, Err, NotUdf, Panic, State
    <3>2. StoppedAt(i)' = StoppedAt(i)
      BY <2>1, StoppedConstant
    <3>3. \A lba : BlockRead(lba)' = BlockRead(lba)
      BY <2>1, ReadsConstant
    <3>4. BlockRead(out.fsd_lba)' = "ok"
      BY <3>1, <3>3
    <3> QED  BY <2>1, <3>1, <3>2, <3>3, <3>4, ReadsConstant DEF HasRead, Past
  <2>3. CASE out'.res # "State"
    BY <2>1, <2>3 DEF HasRead, Past
  <2> QED  BY <2>2, <2>3
<1>8. CASE UNCHANGED vars
  <2>1. UNCHANGED <<medium, blockSize, vds, i, info, out, pc>>
    BY <1>8 DEF vars
  <2>2. StoppedAt(i)' = StoppedAt(i)
    BY <2>1, StoppedConstant
  <2>3. BlockRead(out.fsd_lba)' = BlockRead(out.fsd_lba)
    BY <2>1, ReadsConstant
  <2> QED  BY <2>1, <2>2, <2>3, ReadsConstant DEF HasRead, Past
<1> QED  BY <1>1, <1>2, <1>3, <1>4, <1>5, <1>6, <1>7, <1>8 DEF Next

-----------------------------------------------------------------------------
(* The analyzer's own walk. *)

Lba(h) == SaturatingAdd(out.vds_loc, h)
Covered(lba) == lba \in audited /\ {lba} \X Flaws(lba) \subseteq findings

(* What the walk over the VDS has met before its block n. *)
OpenUntil(n) == \A h \in 0 .. n - 1 : Block(Lba(h)).tag \notin Ends

(* Follows: the analyzer goes on from a State only, and has nothing to show
   before it has one. *)
Follows ==
    /\ apc # "parse" => pc = "done"
    /\ apc \in {"avdp", "vds", "fsd", "time", "walk"} => out.res = "State"
    /\ apc \in {"parse", "avdp", "err", "nothing"} => j = 0 /\ audited = {} /\ findings = {}

(* Audits: what has been validated so far, in the order it is. *)
Audits ==
    /\ apc \in {"vds", "fsd", "time", "walk"} =>
          /\ Covered(AnchorLba) /\ j <= out.vds_len_sectors
          /\ \A h \in 0 .. j - 1 : Covered(Lba(h)) /\ OpenUntil(h)
          /\ audited \subseteq {AnchorLba, out.fsd_lba} \cup {Lba(h) : h \in 0 .. j - 1}
    /\ apc = "vds" => OpenUntil(j)
    /\ apc \in {"fsd", "time", "walk"} =>
          j = out.vds_len_sectors \/ (j > 0 /\ Block(Lba(j - 1)).tag \in Ends)
    /\ apc \in {"time", "walk"} => Covered(out.fsd_lba)

AInv == ATypeOK /\ Follows /\ Audits /\ AuditNeverFails


LEMMA Saturates ==
    ASSUME NEW a \in Nat, NEW b \in Nat
    PROVE  SaturatingAdd(a, b) = IF a + b <= MaxU32 THEN a + b ELSE MaxU32
BY MinOfTwo, Numbers DEF SaturatingAdd

\* What a State that was returned consists of.
LEMMA StateType ==
    ASSUME IInv, HasRead, out.res = "State"
    PROVE  /\ pc = "done" /\ out.vds_loc \in U32 /\ out.vds_len_sectors \in Nat /\ out.fsd_lba \in U32
           /\ AnchorLba \in U32 /\ i \in Nat /\ blockSize \in Nat
           /\ out.vds_loc = vds.loc /\ out.vds_len_sectors = Sectors(vds.len, blockSize)
<1>1. pc = "done" /\ i \in Nat /\ blockSize \in Nat
  BY DEF IInv, TypeOK
<1>2. out \in Answers
  BY <1>1 DEF IInv, TypeOK
<1>3. out.vds_loc \in U32 /\ out.vds_len_sectors \in Nat /\ out.fsd_lba \in U32
  BY <1>2 DEF Answers, Err, NotUdf, Panic
<1>4. IsAnchor(Block(AnchorLba))
  BY DEF IInv, Promise, StateDescribesMedium
<1>5. Block(AnchorLba) \in Descriptor
  BY DescType DEF Block, IInv, TypeOK
<1>6. AnchorLba \in U32
  BY <1>4, <1>5, DescFields DEF IsAnchor
<1> QED  BY <1>1, <1>3, <1>6 DEF HasRead

(* The second walk visits nothing the first one did not: as long as it met no
   end, its block n is a block of the first one's window or the block that
   ended that one.  Where the sum saturates it is the last block of the address
   space, which the first walk went through. *)
LEMMA SameBlocks ==
    ASSUME IInv, HasRead, out.res = "State",
           NEW n \in Nat, n < out.vds_len_sectors, OpenUntil(n)
    PROVE  \E g \in 0 .. n :
             /\ Lba(n) = vds.loc + g
             /\ g < i \/ (g = i /\ i < Sectors(vds.len, blockSize))
<1> DEFINE q == MaxU32 - vds.loc
           g == IF n <= q THEN n ELSE q
<1>1. /\ vds.loc \in U32 /\ i \in Nat
      /\ out.vds_loc = vds.loc /\ out.vds_len_sectors = Sectors(vds.len, blockSize)
      /\ Sectors(vds.len, blockSize) \in Nat
  BY StateType
<1>2. q \in Nat /\ vds.loc \in Nat /\ vds.loc + q = MaxU32
  BY <1>1, Numbers DEF U32
<1>3. \A h \in Nat : Lba(h) = IF h <= q THEN vds.loc + h ELSE MaxU32
  BY <1>1, <1>2, Saturates, Numbers DEF Lba
<1>4. g \in 0 .. n /\ Lba(n) = vds.loc + g
  BY <1>2, <1>3
<1>5. ASSUME i < g PROVE FALSE
  <2>1. i < Sectors(vds.len, blockSize) /\ i \in 0 .. n - 1 /\ i <= q
    BY <1>1, <1>2, <1>5
  <2>2. TagAt(i) \in Ends
    BY <2>1 DEF HasRead, Past, StoppedAt
  <2>3. Block(Lba(i)).tag \notin Ends
    BY <2>1 DEF OpenUntil
  <2> QED  BY <1>1, <1>3, <2>1, <2>2, <2>3 DEF TagAt
<1>6. g < i \/ (g = i /\ i < Sectors(vds.len, blockSize))
  BY <1>1, <1>4, <1>5
<1> QED  BY <1>4, <1>6

\* Block by block, the second walk can read what the first one read.
LEMMA ReadableAgain ==
    ASSUME IInv, HasRead, out.res = "State",
           NEW n \in Nat, n < out.vds_len_sectors, OpenUntil(n)
    PROVE  BlockRead(Lba(n)) = "ok" /\ Lba(n) \in U32
<1>1. PICK g \in 0 .. n : /\ Lba(n) = vds.loc + g
                          /\ g < i \/ (g = i /\ i < Sectors(vds.len, blockSize))
  BY SameBlocks
<1>2. i \in Nat /\ out.vds_loc \in Nat /\ out.vds_loc <= MaxU32
  BY StateType DEF U32
<1>3. BlockRead(Lba(n)) = "ok"
  <2>1. CASE g < i
    BY <1>1, <1>2, <2>1 DEF HasRead, Past
  <2>2. CASE g = i /\ i < Sectors(vds.len, blockSize)
    BY <1>1, <2>2 DEF HasRead, Past, StoppedAt
  <2> QED  BY <1>1, <2>1, <2>2
<1>4. Lba(n) \in U32
  BY <1>2, Saturates, Numbers DEF Lba, U32
<1> QED  BY <1>3, <1>4

LEMMA FlawsType ==
    ASSUME TypeOK, medium \in Media, NEW lba
    PROVE  Flaws(lba) \subseteq {"checksum", "crc"}
BY FlawsAssumption DEF Flaws


(* What validating a readable block does. *)
LEMMA Validates ==
    ASSUME UNCHANGED vars, NEW lba, NEW next, AuditTagAt(lba, next), BlockRead(lba) = "ok"
    PROVE  /\ apc' = next /\ audited' = audited \cup {lba}
           /\ findings' = findings \cup {<<lba, f>> : f \in Flaws(lba)}
           /\ Covered(lba)' /\ \A x : Covered(x) => Covered(x)'
<1>1. /\ apc' = next /\ audited' = audited \cup {lba}
      /\ findings' = findings \cup {<<lba, f>> : f \in Flaws(lba)}
  BY DEF AuditTagAt
<1>2. \A x : Flaws(x)' = Flaws(x)
  BY DEF vars, Flaws, BlockPos
<1>3. {lba} \X Flaws(lba) \subseteq findings'
  BY <1>1
<1>4. Covered(lba)'
  BY <1>1, <1>2, <1>3 DEF Covered
<1>5. \A x : Covered(x) => Covered(x)'
  BY <1>1, <1>2 DEF Covered
<1> QED  BY <1>1, <1>4, <1>5

\* The addresses and the contents the walk is about stay what they are.
LEMMA SameView ==
    ASSUME UNCHANGED vars
    PROVE  /\ \A h : Lba(h)' = Lba(h)
           /\ \A h : Block(Lba(h))' = Block(Lba(h))
           /\ \A n : OpenUntil(n)' = OpenUntil(n)
           /\ \A x : Flaws(x)' = Flaws(x)
<1>1. \A h : Lba(h)' = Lba(h)
  BY DEF vars, Lba
<1>2. \A h : Block(Lba(h))' = Block(Lba(h))
  BY <1>1 DEF vars, Block, BlockPos
<1>3. \A n : OpenUntil(n)' = OpenUntil(n)
  BY <1>2 DEF OpenUntil
<1>4. \A x : Flaws(x)' = Flaws(x)
  BY DEF vars, Flaws, BlockPos
<1> QED  BY <1>1, <1>2, <1>3, <1>4

AllInv == IInv /\ HasRead /\ medium \in Media /\ AInv

LEMMA AInvInit == AInit => AInv
BY Numbers DEF AInit, AInv, ATypeOK, Follows, Audits, AuditNeverFails

(* While the reader still runs, the analyzer has done nothing. *)
LEMMA AInvReader == AllInv /\ Next /\ UNCHANGED avars => AInv'
<1> SUFFICES ASSUME AllInv, Next, UNCHANGED avars PROVE AInv'
  OBVIOUS
<1>1. pc # "done"
  BY DEF Next, ProbeCandidate, ProbesExhausted, ReadAvdp, ScanVds, ScanEnds, Resolve, ReadFsd
<1>2. apc = "parse"
  BY <1>1 DEF AllInv, AInv, Follows
<1> QED  BY <1>2 DEF AllInv, AInv, ATypeOK, Follows, Audits, AuditNeverFails, avars

LEMMA AInvParse == AllInv /\ ParseReturns => AInv'
<1> SUFFICES ASSUME AllInv, ParseReturns PROVE AInv'
  OBVIOUS
<1>1. out \in Answers /\ pc = "done" /\ UNCHANGED <<pc, out, j, audited, findings>>
  BY DEF AllInv, IInv, TypeOK, ParseReturns, vars
<1>2. /\ apc' \in {"avdp", "err", "nothing"}
      /\ apc' = "avdp" => out.res = "State"
      /\ apc' = "err" => out.res = "Err"
  BY DEF ParseReturns
<1>3. out.res = "Err" => out = Err
  BY <1>1 DEF Answers, Err, NotUdf, Panic
<1>4. j = 0 /\ audited = {} /\ findings = {}
  BY DEF AllInv, AInv, Follows, ParseReturns
<1> QED  BY <1>1, <1>2, <1>3, <1>4 DEF AInv, ATypeOK, Follows, Audits, AuditNeverFails


LEMMA ATypeStep ==
    ASSUME AllInv, UNCHANGED vars, NEW lba \in U32, NEW next,
           AuditTagAt(lba, next), BlockRead(lba) = "ok"
    PROVE  audited' \subseteq U32 /\ findings' \subseteq U32 \X {"checksum", "crc"}
<1>1. Flaws(lba) \subseteq {"checksum", "crc"}
  BY FlawsType DEF AllInv, IInv
<1> QED  BY <1>1, Validates DEF AllInv, AInv, ATypeOK

LEMMA AInvAvdp == AllInv /\ AuditAvdp => AInv'
<1> SUFFICES ASSUME AllInv, AuditAvdp PROVE AInv'
  OBVIOUS
<1>1. /\ apc = "avdp" /\ UNCHANGED vars /\ j' = j /\ AuditTagAt(AnchorLba, "vds")
      /\ out.res = "State" /\ j = 0 /\ audited = {} /\ out' = out /\ pc' = pc
  BY DEF AllInv, AInv, Follows, AuditAvdp, vars
<1>2. BlockRead(AnchorLba) = "ok" /\ AnchorLba \in U32 /\ out.vds_len_sectors \in Nat /\ pc = "done"
  BY <1>1, StateType DEF AllInv, HasRead, Past
<1>3. apc' = "vds" /\ audited' = {AnchorLba} /\ Covered(AnchorLba)'
  BY <1>1, <1>2, Validates
<1>4. ATypeOK'
  BY <1>1, <1>2, <1>3, ATypeStep DEF ATypeOK
<1>5. Audits'
  BY <1>1, <1>2, <1>3 DEF Audits, OpenUntil
<1> QED  BY <1>1, <1>2, <1>3, <1>4, <1>5 DEF AInv, Follows, AuditNeverFails

LEMMA AInvVds == AllInv /\ AuditVds => AInv'
<1> SUFFICES ASSUME AllInv, AuditVds PROVE AInv'
  OBVIOUS
<1>1. /\ apc = "vds" /\ UNCHANGED vars /\ j \in Nat /\ j < out.vds_len_sectors /\ j' = j + 1
      /\ AuditTagAt(Lba(j), IF Block(Lba(j)).tag \in Ends THEN "fsd" ELSE "vds")
      /\ out.res = "State" /\ out' = out /\ pc' = pc
      /\ OpenUntil(j)
  BY DEF AllInv, AInv, ATypeOK, Follows, Audits, AuditVds, InVds, NextIndex, EndsSequence, Lba, Ends, vars
<1>2. out.vds_len_sectors \in Nat /\ pc = "done" /\ BlockRead(Lba(j)) = "ok" /\ Lba(j) \in U32
  BY <1>1, StateType, ReadableAgain DEF AllInv
<1> PICK lba : lba = Lba(j)
  OBVIOUS
<1> PICK next : next = IF Block(Lba(j)).tag \in Ends THEN "fsd" ELSE "vds"
  OBVIOUS
<1>3. /\ apc' = next /\ audited' = audited \cup {lba}
      /\ Covered(lba)' /\ \A x : Covered(x) => Covered(x)'
  BY <1>1, <1>2, Validates
<1>4. audited' \subseteq U32 /\ findings' \subseteq U32 \X {"checksum", "crc"}
  BY <1>1, <1>2, ATypeStep
<1>5. /\ \A h : Lba(h)' = Lba(h)
      /\ \A h : Block(Lba(h))' = Block(Lba(h))
      /\ \A n : OpenUntil(n)' = OpenUntil(n)
  BY <1>1, SameView
<1>6. /\ Covered(AnchorLba)
      /\ \A h \in 0 .. j - 1 : Covered(Lba(h)) /\ OpenUntil(h)
      /\ audited \subseteq {AnchorLba, out.fsd_lba} \cup {Lba(h) : h \in 0 .. j - 1}
  BY <1>1 DEF AllInv, AInv, Audits
<1>7. \A h \in 0 .. j : Covered(Lba(h))' /\ OpenUntil(h)'
  <2> TAKE h \in 0 .. j
  <2> PICK x : x = Lba(h)
    OBVIOUS
  <2>1. Covered(x)' /\ OpenUntil(h)
    BY <1>1, <1>3, <1>6
  <2>2. Lba(h)' = x
    BY <1>5
  <2> QED  BY <1>5, <2>1, <2>2 DEF Covered
<1>8. audited' \subseteq {AnchorLba, out.fsd_lba} \cup {Lba(h) : h \in 0 .. j}
  BY <1>1, <1>3, <1>6
<1>9. next = "vds" => OpenUntil(j + 1)
  BY <1>1 DEF OpenUntil
<1>10. Audits'
  <2>1. next \in {"fsd", "vds"} /\ (next = "fsd" => Block(Lba(j)).tag \in Ends)
    OBVIOUS
  <2>2. j' - 1 = j /\ j' <= out'.vds_len_sectors /\ j' > 0
    BY <1>1, <1>2
  <2>3. audited' \subseteq {AnchorLba, out'.fsd_lba} \cup {Lba(h)' : h \in 0 .. j' - 1}
    BY <1>1, <1>5, <1>8, <2>2
  <2> PICK n : n = j'
    OBVIOUS
  <2>4. next = "vds" => OpenUntil(j)'
    <3>1. OpenUntil(n)' = OpenUntil(n) /\ n = j + 1
      BY <1>1, <1>5
    <3> QED  BY <1>9, <3>1 DEF OpenUntil
  <2>5. Block(Lba(j - 1))' = Block(Lba(j))
    <3>1. Block(Lba(n - 1))' = Block(Lba(n - 1)) /\ n - 1 = j
      BY <1>1, <1>5
    <3>2. Block(Lba(j - 1))' = Block(Lba(n - 1))'
      BY DEF Block, Lba, BlockPos
    <3> QED  BY <3>1, <3>2
  <2>6. Covered(AnchorLba)' /\ \A h \in 0 .. j' - 1 : Covered(Lba(h))' /\ OpenUntil(h)'
    BY <1>3, <1>6, <1>7, <2>2
  <2> QED  BY <1>3, <2>1, <2>2, <2>3, <2>4, <2>5, <2>6 DEF Audits
<1>11. ATypeOK'
  BY <1>1, <1>3, <1>4 DEF ATypeOK
<1> QED  BY <1>1, <1>2, <1>3, <1>10, <1>11 DEF AInv, Follows, AuditNeverFails

\* Nothing is validated by the steps that only move on.
LEMMA Keeps ==
    ASSUME UNCHANGED vars, UNCHANGED <<audited, findings>>
    PROVE  \A x : Covered(x)' = Covered(x)
BY SameView DEF Covered

LEMMA AInvVdsEnds == AllInv /\ VdsEnds => AInv'
<1> SUFFICES ASSUME AllInv, VdsEnds PROVE AInv'
  OBVIOUS
<1>1. /\ apc = "vds" /\ apc' = "fsd" /\ UNCHANGED vars /\ UNCHANGED <<j, audited, findings>>
      /\ out.res = "State" /\ out' = out /\ pc' = pc /\ j \in Nat /\ j >= out.vds_len_sectors
  BY StateType DEF AllInv, AInv, Follows, VdsEnds, InVds, vars, ATypeOK
<1>2. out.vds_len_sectors \in Nat /\ pc = "done" /\ j = out.vds_len_sectors
  BY <1>1, StateType DEF AllInv, AInv, Audits
<1>3. /\ Covered(AnchorLba)
      /\ \A h \in 0 .. j - 1 : Covered(Lba(h)) /\ OpenUntil(h)
      /\ audited \subseteq {AnchorLba, out.fsd_lba} \cup {Lba(h) : h \in 0 .. j - 1}
  BY <1>1 DEF AllInv, AInv, Audits
<1>4. Covered(AnchorLba)' /\ \A h \in 0 .. j' - 1 : Covered(Lba(h))' /\ OpenUntil(h)'
  <2>1. \A h : Lba(h)' = Lba(h) /\ OpenUntil(h)' = OpenUntil(h) /\ Flaws(Lba(h))' = Flaws(Lba(h))
    BY <1>1, SameView
  <2>2. \A h : Covered(Lba(h))' = Covered(Lba(h))
    BY <1>1, <2>1 DEF Covered
  <2> QED  BY <1>1, <1>3, <2>1, <2>2, Keeps
<1>5. audited' \subseteq {AnchorLba, out'.fsd_lba} \cup {Lba(h)' : h \in 0 .. j' - 1}
  BY <1>1, <1>3, SameView
<1>6. Audits'
  BY <1>1, <1>2, <1>4, <1>5 DEF Audits
<1> QED  BY <1>1, <1>2, <1>6 DEF AllInv, AInv, ATypeOK, Follows, AuditNeverFails


LEMMA AInvFsd == AllInv /\ AuditFsd => AInv'
<1> SUFFICES ASSUME AllInv, AuditFsd PROVE AInv'
  OBVIOUS
<1>1. /\ apc = "fsd" /\ UNCHANGED vars /\ j' = j /\ AuditTagAt(out.fsd_lba, "time")
      /\ out.res = "State" /\ out' = out /\ pc' = pc /\ j \in Nat
  BY DEF AllInv, AInv, Follows, AuditFsd, vars, ATypeOK
<1>2. BlockRead(out.fsd_lba) = "ok" /\ out.fsd_lba \in U32 /\ pc = "done"
  BY <1>1, StateType DEF AllInv, HasRead
<1> PICK lba : lba = out.fsd_lba
  OBVIOUS
<1>3. /\ apc' = "time" /\ audited' = audited \cup {lba}
      /\ Covered(lba)' /\ \A x : Covered(x) => Covered(x)'
  BY <1>1, <1>2, Validates
<1>4. ATypeOK'
  BY <1>1, <1>2, <1>3, ATypeStep DEF ATypeOK
<1>5. /\ Covered(AnchorLba) /\ j <= out.vds_len_sectors
      /\ \A h \in 0 .. j - 1 : Covered(Lba(h)) /\ OpenUntil(h)
      /\ audited \subseteq {AnchorLba, out.fsd_lba} \cup {Lba(h) : h \in 0 .. j - 1}
      /\ j = out.vds_len_sectors \/ (j > 0 /\ Block(Lba(j - 1)).tag \in Ends)
  BY <1>1 DEF AllInv, AInv, Audits
<1>6. \A h \in 0 .. j' - 1 : Covered(Lba(h))' /\ OpenUntil(h)'
  <2> TAKE h \in 0 .. j' - 1
  <2> PICK x : x = Lba(h)
    OBVIOUS
  <2>1. Covered(x)' /\ OpenUntil(h)
    BY <1>1, <1>3, <1>5
  <2>2. Lba(h)' = x /\ OpenUntil(h)' = OpenUntil(h)
    BY <1>1, SameView
  <2> QED  BY <2>1, <2>2 DEF Covered
<1>7. audited' \subseteq {AnchorLba, out'.fsd_lba} \cup {Lba(h)' : h \in 0 .. j' - 1}
  BY <1>1, <1>3, <1>5, SameView
<1>8. j = out.vds_len_sectors \/ (j > 0 /\ Block(Lba(j - 1))'.tag \in Ends)
  <2> PICK n : n = j - 1
    OBVIOUS
  <2>1. Block(Lba(n))' = Block(Lba(n))
    BY <1>1, SameView
  <2>2. Block(Lba(j - 1))' = Block(Lba(n))'
    BY <1>1 DEF Block, Lba, BlockPos
  <2> QED  BY <1>5, <2>1, <2>2
<1>9. Covered(out.fsd_lba)'
  BY <1>1, <1>3 DEF Covered
<1>10. Audits'
  BY <1>1, <1>3, <1>5, <1>6, <1>7, <1>8, <1>9 DEF Audits
<1> QED  BY <1>1, <1>2, <1>3, <1>4, <1>10 DEF AInv, Follows, AuditNeverFails

LEMMA AInvTime == AllInv /\ ReadVolumeTime => AInv'
<1> SUFFICES ASSUME AllInv, ReadVolumeTime PROVE AInv'
  OBVIOUS
<1>1. /\ apc = "time" /\ UNCHANGED vars /\ UNCHANGED <<j, audited, findings>>
      /\ out.res = "State" /\ out' = out /\ pc' = pc /\ j \in Nat /\ pc = "done"
  BY DEF AllInv, AInv, Follows, ReadVolumeTime, vars, ATypeOK
<1>2. apc' = "walk"
  BY <1>1 DEF ReadVolumeTime, AllInv, HasRead
<1>3. Audits'
  <2>1. UNCHANGED <<vars, j, audited, findings>>
    BY <1>1
  <2>2. /\ Covered(AnchorLba) /\ j <= out.vds_len_sectors
        /\ \A h \in 0 .. j - 1 : Covered(Lba(h)) /\ OpenUntil(h)
        /\ audited \subseteq {AnchorLba, out.fsd_lba} \cup {Lba(h) : h \in 0 .. j - 1}
        /\ j = out.vds_len_sectors \/ (j > 0 /\ Block(Lba(j - 1)).tag \in Ends)
        /\ Covered(out.fsd_lba)
    BY <1>1 DEF AllInv, AInv, Audits
  <2> QED  BY <1>2, <2>1, <2>2 DEF Audits, Covered, OpenUntil, Lba, Block, BlockPos, Flaws, vars
<1> QED  BY <1>1, <1>2, <1>3 DEF AllInv, AInv, ATypeOK, Follows, AuditNeverFails

LEMMA AInvStutter == AllInv /\ UNCHANGED allvars => AInv'
<1> SUFFICES ASSUME AllInv, UNCHANGED allvars PROVE AInv'
  OBVIOUS
<1>1. Audits' = Audits
  BY DEF Audits, Covered, OpenUntil, Lba, Block, BlockPos, Flaws, vars, avars, allvars
<1> QED  BY <1>1 DEF AllInv, AInv, ATypeOK, Follows, AuditNeverFails, vars, avars, allvars

LEMMA AInvStep == AllInv /\ [ANext]_allvars => AInv'
BY AInvReader, AInvParse, AInvAvdp, AInvVds, AInvVdsEnds, AInvFsd, AInvTime, AInvStutter DEF ANext


\* The analyzer takes only the reader's steps and its own, so what the reader
\* keeps on its own it keeps under the analyzer.
LEMMA AllInvStep == AllInv /\ [ANext]_allvars => AllInv'
<1> SUFFICES ASSUME AllInv, [ANext]_allvars PROVE AllInv'
  OBVIOUS
<1>1. [Next]_vars
  BY DEF ANext, allvars, ParseReturns, AuditAvdp, AuditVds, VdsEnds, AuditFsd, ReadVolumeTime
<1>2. IInv' /\ HasRead'
  BY <1>1, InvStep, HasReadStep DEF AllInv
<1>3. medium' = medium
  BY <1>1, MediumConstant DEF vars
<1> QED  BY <1>2, <1>3, AInvStep DEF AllInv

LEMMA AllInvInit == AInit => AllInv
<1> SUFFICES ASSUME AInit PROVE AllInv
  OBVIOUS
<1>1. HasRead
  BY DEF AInit, Init, HasRead, Past
<1> QED  BY <1>1, InvInit, AInvInit DEF AInit, Init, AllInv

LEMMA AuditInductive == ASpec => []AllInv
<1> QED  BY AllInvInit, AllInvStep, PTL DEF ASpec

-----------------------------------------------------------------------------
(* What the invariant gives. *)

\* The analyzer's state keeps its types: whatever it validates is an address
\* of 32 bits, the sum that saturates included.
THEOREM AuditTypeCorrect == ASpec => []ATypeOK
<1>1. AllInv => ATypeOK
  BY DEF AllInv, AInv
<1> QED  BY <1>1, AuditInductive, PTL

\* Over a stable medium the second walk never fails: analyze returns an error
\* before the tree only when the reader did.
THEOREM AuditNeverFailsAlways == ASpec => []AuditNeverFails
<1>1. AllInv => AuditNeverFails
  BY DEF AllInv, AInv
<1> QED  BY <1>1, AuditInductive, PTL

LEMMA CoversAll == AllInv => AuditCoversBootstrap
<1> SUFFICES ASSUME AllInv, apc = "walk", out.vds_loc + out.vds_len_sectors - 1 <= MaxU32,
                    NEW lba \in {AnchorLba, out.fsd_lba} \cup Scanned
             PROVE  Covered(lba)
  BY DEF AuditCoversBootstrap, Covered
<1>1. out.res = "State" /\ j \in Nat
  BY DEF AllInv, AInv, Follows, ATypeOK
<1>2. /\ i \in Nat /\ vds.loc \in Nat /\ out.vds_len_sectors \in Nat
      /\ out.vds_loc = vds.loc /\ out.vds_len_sectors = Sectors(vds.len, blockSize)
  BY <1>1, StateType, Numbers DEF AllInv
<1>3. /\ Covered(AnchorLba) /\ Covered(out.fsd_lba) /\ j <= out.vds_len_sectors
      /\ \A h \in 0 .. j - 1 : Covered(Lba(h))
      /\ j = out.vds_len_sectors \/ (j > 0 /\ Block(Lba(j - 1)).tag \in Ends)
  BY DEF AllInv, AInv, Audits
<1>4. CASE lba \in {AnchorLba, out.fsd_lba}
  BY <1>3, <1>4
<1>5. CASE lba \in Scanned
  <2>1. PICK h \in Window : lba = vds.loc + h
    BY <1>5 DEF Scanned
  <2>2. Window = 0 .. i - 1 /\ i <= out.vds_len_sectors
    BY <1>1, <1>2 DEF AllInv, HasRead, Past, StoppedAt
  <2>3. \A g \in Nat : g < out.vds_len_sectors => Lba(g) = vds.loc + g
    BY <1>2, Saturates, Numbers DEF Lba
  <2>4. h < j
    <3> SUFFICES ASSUME ~(h < j) PROVE FALSE
      OBVIOUS
    <3>1. j > 0 /\ Block(Lba(j - 1)).tag \in Ends /\ j - 1 \in Nat /\ j - 1 < out.vds_len_sectors
      BY <1>1, <1>2, <1>3, <2>1, <2>2
    <3>2. Block(vds.loc + (j - 1)).tag \in Ends
      BY <2>3, <3>1
    <3>3. \A g \in 0 .. h : Block(vds.loc + g).tag \notin {"TERM", "ZERO"}
      BY <2>1 DEF Window
    <3>4. h \in Nat /\ j - 1 \in 0 .. h
      BY <1>1, <1>2, <2>1, <2>2, <3>1
    <3> QED  BY <3>2, <3>3, <3>4 DEF Ends
  <2>5. h \in 0 .. j - 1 /\ h \in Nat /\ h < out.vds_len_sectors
    BY <1>1, <1>2, <2>1, <2>2, <2>4
  <2> QED  BY <1>3, <2>1, <2>3, <2>5
<1> QED  BY <1>4, <1>5

\* When the analyzer reaches the tree, the anchor, every VDS block the reader
\* took something from and the File Set Descriptor have been validated, and
\* every flaw of their tags is among the findings.
THEOREM AuditCovers == ASpec => []AuditCoversBootstrap
<1> QED  BY CoversAll, AuditInductive, PTL

\* Where the reader met a terminator or a zero tag, the block that ended the
\* sequence is the one its scan stopped at.
LEMMA StopIsTerminator ==
    ASSUME IInv, HasRead, out.res = "State", i < Sectors(vds.len, blockSize)
    PROVE  i \in 0 .. vds.len /\ Terminates(i)
<1>1. i \in Nat /\ vds.len \in Nat /\ blockSize \in Nat \ {0}
  BY Numbers DEF IInv, TypeOK, HasRead, Past
<1>2. i * blockSize < vds.len
  BY <1>1, SectorsCover
<1>3. i <= i * blockSize
  BY <1>1
<1>4. TagAt(i) \in Ends /\ Window = 0 .. i - 1
  BY DEF HasRead, Past, StoppedAt
<1>5. i \in 0 .. vds.len
  BY <1>1, <1>2, <1>3
<1> QED  BY <1>2, <1>4, <1>5 DEF Terminates, TagAt, Ends

LEMMA StaysIn == AllInv => AuditStaysInBootstrap
<1> SUFFICES ASSUME AllInv, out.res = "State",
                    NEW lba \in audited \ ({AnchorLba, out.fsd_lba} \cup Scanned)
             PROVE  \E n \in 0 .. vds.len : lba = vds.loc + n /\ Terminates(n)
  BY DEF AuditStaysInBootstrap
<1>1. /\ out.vds_len_sectors \in Nat /\ j \in Nat
      /\ Window = 0 .. i - 1 /\ i \in Nat
  BY StateType DEF AllInv, AInv, ATypeOK, HasRead, Past
<1>2. apc \in {"vds", "fsd", "time", "walk"}
  BY DEF AllInv, AInv, ATypeOK, Follows
<1>3. /\ j <= out.vds_len_sectors
      /\ \A h \in 0 .. j - 1 : OpenUntil(h)
      /\ audited \subseteq {AnchorLba, out.fsd_lba} \cup {Lba(h) : h \in 0 .. j - 1}
  BY <1>2 DEF AllInv, AInv, Audits
<1>4. PICK h \in 0 .. j - 1 : lba = Lba(h)
  BY <1>3
<1>5. h \in Nat /\ h < out.vds_len_sectors /\ OpenUntil(h)
  BY <1>1, <1>3
<1>6. PICK g \in 0 .. h : /\ lba = vds.loc + g
                          /\ g < i \/ (g = i /\ i < Sectors(vds.len, blockSize))
  BY <1>4, <1>5, SameBlocks DEF AllInv
<1>7. ~(g < i)
  BY <1>1, <1>6 DEF Scanned
<1> QED  BY <1>6, <1>7, StopIsTerminator DEF AllInv

\* Whatever the analyzer validates is the anchor, the File Set Descriptor, a
\* VDS block the reader used, or the block with the terminator or the zero tag
\* that ended the sequence, also where its addresses saturate.
THEOREM AuditStaysIn == ASpec => []AuditStaysInBootstrap
<1> QED  BY StaysIn, AuditInductive, PTL

=============================================================================
