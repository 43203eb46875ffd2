--------------------------- MODULE BootstrapProofs ---------------------------
(* Proofs about the bootstrap chain, for all block sizes, every width of the
   addresses and every set of media. *)
EXTENDS Bootstrap, NumberLemmas, TLAPS

-----------------------------------------------------------------------------
(* Arithmetic. *)

LEMMA SectorsCover ==
    ASSUME NEW len \in Nat, NEW size \in Nat \ {0}, NEW j \in Nat
    PROVE  /\ Sectors(len, size) \in Nat
           /\ j * size < len <=> j < Sectors(len, size)
BY CeilingDivision DEF Sectors

-----------------------------------------------------------------------------
(* Type correctness. *)

LEMMA Numbers == AnchorLba \in Nat /\ TagLen \in Nat /\ MaxU32 \in Nat /\ U32 \subseteq Nat
BY NumbersAssumption DEF U32

LEMMA WrapsInside ==
    ASSUME NEW n \in Nat, NEW m \in Nat
    PROVE  n % (m + 1) \in 0 .. m
OBVIOUS

LEMMA DescType ==
    ASSUME NEW m, IsMedium(m), NEW pos
    PROVE  DescAt(m, pos) \in Descriptor
<1>1. Blank \in Descriptor
  BY DEF Blank, Descriptor
<1> QED  BY <1>1 DEF IsMedium, DescAt

LEMMA DescFields ==
    ASSUME NEW d \in Descriptor
    PROVE  /\ d.tag = "AVDP" => d.vdsLoc \in U32 /\ d.vdsLen \in U32 /\ d.location \in U32
           /\ d.tag = "PD" => d.num \in U32 /\ d.start \in U32
           /\ d.tag = "LVD" => d.lbn \in U32 /\ d.ref \in U32 /\ d.maps \in Seq(PartitionMap)
           /\ d.tag = "FSD" => d.root \in U32
BY DEF Descriptor

LEMMA ResultType ==
    ASSUME NEW m, NEW pos, NEW n
    PROVE  ReadResult(m, pos, n) \in {"ok", "eof", "fault"}
BY DEF ReadResult

Starts(f) == DOMAIN f \subseteq U32 /\ \A n \in DOMAIN f : f[n] \in U32

LEMMA LowestStart ==
    ASSUME NEW f, Starts(f), DOMAIN f # {}
    PROVE  LET S == {f[n] : n \in DOMAIN f}
           IN  /\ Min(S) \in S /\ Min(S) \in U32
               /\ \A n \in DOMAIN f : Min(S) <= f[n]
<1> DEFINE S == {f[n] : n \in DOMAIN f}
<1>1. S \in SUBSET Nat /\ S \subseteq U32 /\ S # {}
  BY Numbers DEF Starts
<1>2. \A n \in DOMAIN f : f[n] \in S
  OBVIOUS
<1> HIDE DEF S
<1>3. Min(S) \in S /\ \A y \in S : Min(S) <= y
  BY <1>1, MinOf
<1>4. Min(S) \in U32 /\ \A n \in DOMAIN f : Min(S) <= f[n]
  BY <1>1, <1>2, <1>3
<1> QED  BY <1>3, <1>4 DEF S

LEMMA StartType ==
    ASSUME NEW f, Starts(f), DOMAIN f # {}, NEW l
    PROVE  StartOf(l, f) \in U32
BY LowestStart DEF StartOf, Named, Starts

LEMMA KindType ==
    ASSUME NEW l \in Descriptor, l.tag = "LVD"
    PROVE  KindOf(l) \in PartitionKind /\ Len(l.maps) \in Nat
<1>1. l.ref \in Nat /\ l.maps \in Seq(PartitionMap)
  BY DescFields, Numbers
<1>2. HasMap(l) => RefMap(l) \in PartitionMap
  BY <1>1 DEF HasMap, RefMap
<1>3. \A p \in PartitionMap : p.kind \in PartitionKind
  BY DEF PartitionMap, PartitionKind
<1> QED  BY <1>1, <1>2, <1>3 DEF KindOf, PartitionKind

LEMMA WithPdType ==
    ASSUME NEW f, Starts(f), NEW d \in Descriptor, d.tag = "PD"
    PROVE  /\ Starts(WithPd(f, d))
           /\ DOMAIN WithPd(f, d) = DOMAIN f \cup {d.num}
           /\ \A n \in DOMAIN WithPd(f, d) :
                 WithPd(f, d)[n] = IF n = d.num THEN d.start ELSE f[n]
BY DescFields DEF WithPd, Starts

LEMMA TypeInit == Init => TypeOK
<1> SUFFICES ASSUME Init PROVE TypeOK
  OBVIOUS
<1>1. IsMedium(medium)
  BY MediaAssumption DEF Init
<1>2. 1 \in 1 .. Len(Candidates) + 1
  BY CandidatesAssumption
<1>3. 0 \in U32
  BY Numbers DEF U32
<1>4. DOMAIN pdStart = {}
  BY DEF Init
<1> QED  BY <1>1, <1>2, <1>3, <1>4 DEF Init, TypeOK, NoLvd

LEMMA CandidateType ==
    ASSUME NEW j \in 1 .. Len(Candidates)
    PROVE  Candidates[j] \in Nat \ {0} /\ Len(Candidates) \in Nat
BY CandidatesAssumption

LEMMA TypeStep == TypeOK /\ [Next]_vars => TypeOK'
<1> SUFFICES ASSUME TypeOK, [Next]_vars PROVE TypeOK'
  OBVIOUS
<1> USE DEF TypeOK
<1>0. Err \in Answers /\ NotUdf \in Answers /\ Panic \in Answers /\ Len(Candidates) \in Nat
  BY CandidatesAssumption DEF Answers
<1>1. CASE ProbeCandidate
  <2>1. k \in 1 .. Len(Candidates) /\ Candidates[k] \in Nat \ {0}
    BY <1>0, <1>1, CandidateType DEF ProbeCandidate
  <2>2. k + 1 \in 1 .. Len(Candidates) + 1
    BY <1>0, <2>1
  <2>3. /\ pc' \in {"probe", "avdp", "done"} /\ k' \in {k, k + 1}
        /\ anyReadOk' \in BOOLEAN
        /\ IF pc' = "probe" THEN out' = out ELSE blockSize' \in Nat \ {0} \/ pc' = "done"
        /\ pc' = "avdp" => out' = out
        /\ blockSize' \in Nat
        /\ pc' = "done" => out' \in Answers
    BY <1>0, <1>1, <2>1 DEF ProbeCandidate, Fails, Return
  <2> QED  BY <1>1, <2>1, <2>2, <2>3 DEF ProbeCandidate
<1>2. CASE ProbesExhausted
  BY <1>0, <1>2 DEF ProbesExhausted, Return, NoAnchorFound
<1>3. CASE ReadAvdp
  <2>1. Block(AnchorLba) \in Descriptor
    BY DescType DEF Block
  <2>2. Block(AnchorLba).tag = "AVDP" =>
          Block(AnchorLba).vdsLoc \in U32 /\ Block(AnchorLba).vdsLen \in U32
    BY <2>1, DescFields
  <2> QED  BY <1>0, <1>3, <2>2 DEF ReadAvdp, Fails, Return
<1>4. CASE ScanVds
  <2> DEFINE d == Block(vds.loc + i)
  <2>1. d \in Descriptor
    BY DescType DEF Block
  <2> HIDE DEF d
  <2>2. Starts(pdStart)
    BY DEF Starts
  <2>3. d.tag = "PD" => Starts(WithPd(pdStart, d))
    BY <2>1, <2>2, WithPdType
  <2>4. CASE Fails(BlockRead(vds.loc + i)) /\ UNCHANGED <<i, pdStart, lvd>>
    BY <1>0, <1>4, <2>4 DEF ScanVds, Fails, Return
  <2>5. CASE ~(Fails(BlockRead(vds.loc + i)) /\ UNCHANGED <<i, pdStart, lvd>>)
    <3>1. Starts(pdStart')
      BY <1>4, <2>2, <2>3, <2>5 DEF ScanVds, d
    <3>2. lvd' = NoLvd \/ (lvd' \in Descriptor /\ lvd'.tag = "LVD")
      BY <1>4, <2>1, <2>5 DEF ScanVds, d
    <3>3. i' \in Nat /\ pc' \in {"scan", "resolve"} /\ out' = out
      BY <1>4, <2>5 DEF ScanVds
    <3> QED  BY <1>4, <3>1, <3>2, <3>3 DEF ScanVds, Starts
  <2> QED  BY <2>4, <2>5
<1>5. CASE ScanEnds
  BY <1>5 DEF ScanEnds
<1>6. CASE Resolve
  <2>1. CASE lvd # NoLvd /\ DOMAIN pdStart # {} /\ ~Overflows(StartOf(lvd, pdStart), lvd.lbn)
    <3>1. StartOf(lvd, pdStart) \in U32
      BY <2>1, StartType DEF Starts
    <3>2. lvd.lbn \in U32 /\ KindOf(lvd) \in PartitionKind /\ Len(lvd.maps) \in Nat
      BY <2>1, DescFields, KindType
    <3>3. StartOf(lvd, pdStart) + lvd.lbn \in U32
      BY <2>1, <3>1, <3>2, Numbers DEF Overflows, U32
    <3> QED  BY <1>6, <2>1, <3>1, <3>2, <3>3 DEF Resolve
  <2>2. CASE ~(lvd # NoLvd /\ DOMAIN pdStart # {} /\ ~Overflows(StartOf(lvd, pdStart), lvd.lbn))
    BY <1>0, <1>6, <2>2 DEF Resolve, Return
  <2> QED  BY <2>1, <2>2
<1>7. CASE ReadFsd
  <2> DEFINE fsd == Block(info.fsd_lba)
             root == info.partition_start + fsd.root
  <2>1. fsd \in Descriptor
    BY DescType DEF Block
  <2>2. ASSUME fsd.tag = "FSD" PROVE State(root % (MaxU32 + 1)) \in Answers
    <3>1. info.partition_start \in Nat /\ fsd.root \in Nat
      BY <1>7, <2>1, <2>2, DescFields, Numbers DEF ReadFsd
    <3>2. root % (MaxU32 + 1) \in U32
      <4>1. root \in Nat /\ MaxU32 \in Nat
        BY <3>1, Numbers
      <4> HIDE DEF root
      <4> QED  BY <4>1, WrapsInside DEF U32
    <3>3. Sectors(vds.len, blockSize) \in Nat
      BY <1>7, SectorsCover, Numbers DEF ReadFsd
    <3> HIDE DEF root
    <3> QED  BY <1>7, <3>2, <3>3 DEF State, Answers, ReadFsd
  <2>3. out' \in Answers /\ pc' = "done"
    BY <1>0, <1>7, <2>2 DEF ReadFsd, Fails, Return
  <2> QED  BY <1>7, <2>3 DEF ReadFsd
<1>8. CASE UNCHANGED vars
  BY <1>8 DEF vars
<1> QED  BY <1>1, <1>2, <1>3, <1>4, <1>5, <1>6, <1>7, <1>8 DEF Next

\* The type invariant of the chain holds for all block sizes, address widths
\* and media.
THEOREM TypeCorrect == Spec => []TypeOK
<1> QED  BY TypeInit, TypeStep, PTL DEF Spec

-----------------------------------------------------------------------------
(* The inductive invariant. *)

Probe(j) == ReadResult(medium, AnchorLba * Candidates[j], TagLen)
ProbedDesc(j) == DescAt(medium, AnchorLba * Candidates[j])
Probes == 1 .. Len(Candidates)

(* Surfaced: while the chain runs, nothing has failed but probes that met the
   end of the image, and the probes passed are summed up by anyReadOk. *)
Surfaced ==
    /\ pc # "done" => \A f \in failed : f.why = "eof" /\ f.at = "probe"
    /\ pc = "probe" =>
         /\ IF anyReadOk THEN \E j \in Probes : Probe(j) = "ok"
                         ELSE \A j \in 1 .. k - 1 : Probe(j) = "eof"
         /\ \A j \in 1 .. k - 1 : Probe(j) = "ok" => ~IsAnchor(ProbedDesc(j))
    /\ pc \notin {"probe", "done"} => \E j \in Probes : Probe(j) = "ok"

(* Anchored: a block size was accepted for the anchor that is there. *)
Anchored ==
    /\ blockSize # 0 => IsAnchor(Block(AnchorLba))
    /\ pc \in {"scan", "resolve", "fsd"} =>
         vds.loc = Block(AnchorLba).vdsLoc /\ vds.len = Block(AnchorLba).vdsLen
    /\ pc \in {"probe", "avdp"} => i = 0 /\ DOMAIN pdStart = {} /\ lvd = NoLvd
    /\ pc = "probe" => blockSize = 0

TagAt(h) == Block(vds.loc + h).tag

(* Collected: what the scan has kept of the blocks before i. *)
Collected ==
    /\ \A h \in 0 .. i - 1 : TagAt(h) \notin {"TERM", "ZERO"}
    /\ lvd = NoLvd => \A h \in 0 .. i - 1 : TagAt(h) # "LVD"
    /\ lvd # NoLvd => \E h \in 0 .. i - 1 :
          /\ lvd = Block(vds.loc + h)
          /\ \A g \in 0 .. i - 1 : g > h => TagAt(g) # "LVD"
    /\ \A h \in 0 .. i - 1 : TagAt(h) = "PD" => Block(vds.loc + h).num \in DOMAIN pdStart
    /\ \A n \in DOMAIN pdStart : \E h \in 0 .. i - 1 :
          /\ IsPd(h, n) /\ pdStart[n] = Block(vds.loc + h).start
          /\ \A g \in 0 .. i - 1 : g > h => ~IsPd(g, n)

Resolved ==
    /\ lvd # NoLvd /\ DOMAIN pdStart # {}
    /\ info.partition_start = StartOf(lvd, pdStart)
    /\ info.fsd_lba = info.partition_start + lvd.lbn
    /\ info.partition_kind = KindOf(lvd) /\ info.map_count = Len(lvd.maps)

Scanning ==
    /\ pc \in {"scan", "resolve", "fsd"} => Collected
    /\ pc = "scan" => i <= Sectors(vds.len, blockSize)
    /\ pc \in {"resolve", "fsd"} => Window = 0 .. i - 1
    /\ pc = "fsd" => Resolved

Promise == HonestAnswer /\ StateDescribesMedium /\ NoFalseNegative

IInv == TypeOK /\ Surfaced /\ Anchored /\ Scanning /\ Promise

LEMMA MediumConstant == Next => medium' = medium
BY DEF Next, ProbeCandidate, ProbesExhausted, ReadAvdp, ScanVds, ScanEnds, Resolve, ReadFsd

\* What is said of the medium does not change while the chain looks at it.
LEMMA ViewConstant ==
    ASSUME UNCHANGED <<medium, blockSize, vds>>
    PROVE  /\ \A lba : Block(lba)' = Block(lba)
           /\ Window' = Window
           /\ \A h, n : IsPd(h, n)' = IsPd(h, n) /\ IsLastPd(h, n)' = IsLastPd(h, n)
           /\ \A h : IsLastLvd(h)' = IsLastLvd(h) /\ TagAt(h)' = TagAt(h)
           /\ \A l, s : IsStartFor(l, s)' = IsStartFor(l, s)
<1>1. \A lba : Block(lba)' = Block(lba)
  BY DEF Block, BlockPos
<1>2. Window' = Window
  BY <1>1 DEF Window
<1>3. \A h, n : IsPd(h, n)' = IsPd(h, n)
  BY <1>1 DEF IsPd
<1>4. \A h, n : IsLastPd(h, n)' = IsLastPd(h, n)
  BY <1>2, <1>3 DEF IsLastPd
<1>5. \A h : IsLastLvd(h)' = IsLastLvd(h) /\ TagAt(h)' = TagAt(h)
  BY <1>1, <1>2 DEF IsLastLvd, TagAt
<1>6. \A l, s : IsStartFor(l, s)' = IsStartFor(l, s)
  BY <1>1, <1>2, <1>3, <1>4 DEF IsStartFor
<1> QED  BY <1>1, <1>2, <1>3, <1>4, <1>5, <1>6

LEMMA WindowIs ==
    ASSUME TypeOK, blockSize # 0, i <= Sectors(vds.len, blockSize),
           \A h \in 0 .. i - 1 : TagAt(h) \notin {"TERM", "ZERO"},
           i = Sectors(vds.len, blockSize) \/ TagAt(i) \in {"TERM", "ZERO"}
    PROVE  Window = 0 .. i - 1
<1>1. vds.len \in Nat /\ blockSize \in Nat \ {0} /\ i \in Nat
  BY Numbers DEF TypeOK
<1>2. \A j \in Nat : j * blockSize < vds.len <=> j < Sectors(vds.len, blockSize)
  BY <1>1, SectorsCover
<1>3. Sectors(vds.len, blockSize) \in Nat
  BY <1>1, SectorsCover
<1>4. ASSUME NEW j \in Window PROVE j \in 0 .. i - 1
  <2>1. j \in Nat /\ j < Sectors(vds.len, blockSize) /\ \A h \in 0 .. j : TagAt(h) \notin {"TERM", "ZERO"}
    BY <1>1, <1>2, <1>4 DEF Window, TagAt
  <2> QED  BY <1>1, <1>3, <2>1
<1>5. ASSUME NEW j \in 0 .. i - 1 PROVE j \in Window
  <2>1. j \in Nat /\ j < Sectors(vds.len, blockSize)
    BY <1>1, <1>3, <1>5
  <2>2. j * blockSize < vds.len
    BY <1>2, <2>1
  <2>3. j * blockSize >= j
    BY <1>1, <2>1
  <2>4. j \in 0 .. vds.len
    BY <1>1, <2>1, <2>2, <2>3
  <2> QED  BY <1>1, <2>1, <2>2, <2>4 DEF Window, TagAt
<1> QED  BY <1>4, <1>5

\* What the scan kept is what prevails in the sequence.
LEMMA Prevails ==
    ASSUME TypeOK, blockSize # 0, Collected, Window = 0 .. i - 1, lvd # NoLvd, DOMAIN pdStart # {}
    PROVE  /\ \E j \in Window : IsLastLvd(j) /\ lvd = Block(vds.loc + j)
           /\ IsStartFor(lvd, StartOf(lvd, pdStart))
<1>1. \E j \in Window : IsLastLvd(j) /\ lvd = Block(vds.loc + j)
  BY DEF Collected, IsLastLvd, TagAt, TypeOK
<1>2. Starts(pdStart)
  BY DEF TypeOK, Starts
<1>3. \A n \in DOMAIN pdStart : \E h \in Window :
        IsLastPd(h, n) /\ pdStart[n] = Block(vds.loc + h).start
  BY DEF Collected, IsLastPd
<1>4. \A n : (\E h \in Window : IsPd(h, n)) => n \in DOMAIN pdStart
  BY DEF Collected, IsPd, TagAt
<1>5. \A n, g, h : IsLastPd(g, n) /\ IsLastPd(h, n) => g = h
  <2> SUFFICES ASSUME NEW n, NEW g, NEW h, IsLastPd(g, n), IsLastPd(h, n) PROVE g = h
    OBVIOUS
  <2>1. g \in Window /\ h \in Window /\ i \in Nat
    BY DEF IsLastPd, TypeOK
  <2>2. g \in Int /\ h \in Int /\ ~(g > h) /\ ~(h > g)
    BY <2>1 DEF IsLastPd
  <2> QED  BY <2>2
<1>6. CASE Named(lvd, pdStart)
  <2>1. \E j \in Window : IsLastPd(j, RefMap(lvd).num) /\ pdStart[RefMap(lvd).num] = Block(vds.loc + j).start
    BY <1>3, <1>6 DEF Named
  <2>2. \E j \in Window : IsPd(j, RefMap(lvd).num)
    BY <2>1 DEF IsLastPd
  <2> QED  BY <1>1, <1>6, <2>1, <2>2 DEF Named, IsStartFor, StartOf
<1>7. CASE ~Named(lvd, pdStart)
  <2> DEFINE s == StartOf(lvd, pdStart)
  <2>1. (\E n \in DOMAIN pdStart : s = pdStart[n]) /\ \A n \in DOMAIN pdStart : s <= pdStart[n]
    BY <1>2, <1>7, LowestStart DEF StartOf
  <2> HIDE DEF s
  <2>2. \E j \in Window, n \in U32 : IsLastPd(j, n) /\ s = Block(vds.loc + j).start
    BY <1>2, <1>3, <2>1 DEF Starts
  <2>3. ASSUME NEW j \in Window, NEW n \in U32, IsLastPd(j, n) PROVE s <= Block(vds.loc + j).start
    <3>1. n \in DOMAIN pdStart
      BY <1>4, <2>3 DEF IsLastPd
    <3> QED  BY <1>3, <1>5, <2>1, <2>3, <3>1
  <2>4. ~(HasMap(lvd) /\ RefMap(lvd).kind = "Physical" /\ \E j \in Window : IsPd(j, RefMap(lvd).num))
    BY <1>4, <1>7 DEF Named
  <2>5. IsStartFor(lvd, s)
    BY <2>2, <2>3, <2>4 DEF IsStartFor
  <2> QED  BY <1>1, <2>5 DEF s
<1> QED  BY <1>6, <1>7

-----------------------------------------------------------------------------
(* Every step keeps the invariant. *)

LEMMA Silent == TypeOK /\ pc # "done" => Promise
BY DEF TypeOK, Promise, HonestAnswer, StateDescribesMedium, NoFalseNegative, NotUdf

\* The answer is there and nothing of it changes any more.
LEMMA Stutter == UNCHANGED vars => IInv' = IInv
<1> SUFFICES ASSUME UNCHANGED vars PROVE IInv' = IInv
  OBVIOUS
<1> USE DEF vars
<1>1. /\ \A lba : Block(lba)' = Block(lba)
      /\ Window' = Window
      /\ \A h, n : IsPd(h, n)' = IsPd(h, n)
      /\ \A h : IsLastLvd(h)' = IsLastLvd(h) /\ TagAt(h)' = TagAt(h)
      /\ \A l, s : IsStartFor(l, s)' = IsStartFor(l, s)
  BY ViewConstant
<1>2. \A j : Probe(j)' = Probe(j) /\ ProbedDesc(j)' = ProbedDesc(j)
  BY DEF Probe, ProbedDesc
<1>3. TypeOK' = TypeOK
  BY DEF TypeOK
<1>4. Surfaced' = Surfaced
  BY <1>2 DEF Surfaced
<1>5. Anchored' = Anchored
  BY <1>1 DEF Anchored
<1>6. Scanning' = Scanning
  <2>1. Collected' = Collected
    BY <1>1 DEF Collected
  <2> QED  BY <1>1, <2>1 DEF Scanning, Resolved
<1>7. HonestAnswer' = HonestAnswer
  BY DEF HonestAnswer
<1>8. StateDescribesMedium' = StateDescribesMedium
  BY <1>1 DEF StateDescribesMedium
<1>9. NoFalseNegative' = NoFalseNegative
  BY <1>1 DEF NoFalseNegative
<1> QED  BY <1>3, <1>4, <1>5, <1>6, <1>7, <1>8, <1>9 DEF IInv, Promise

LEMMA InvInit == Init => IInv
<1> SUFFICES ASSUME Init PROVE IInv
  OBVIOUS
<1>1. TypeOK
  BY TypeInit
<1>2. pc = "probe" /\ Promise
  BY <1>1, Silent DEF Init
<1>3. Surfaced
  BY <1>2 DEF Init, Surfaced
<1>4. Anchored
  BY DEF Init, Anchored
<1> QED  BY <1>1, <1>2, <1>3, <1>4 DEF IInv, Scanning

LEMMA SurfacedStep == TypeOK /\ Surfaced /\ Next => Surfaced' /\ HonestAnswer'
<1> SUFFICES ASSUME TypeOK, Surfaced, Next PROVE Surfaced' /\ HonestAnswer'
  OBVIOUS
<1>1. \A j : Probe(j)' = Probe(j) /\ ProbedDesc(j)' = ProbedDesc(j)
  BY MediumConstant DEF Probe, ProbedDesc
<1>2. k \in 1 .. Len(Candidates) + 1 /\ Len(Candidates) \in Nat
  BY CandidatesAssumption DEF TypeOK
<1>3. /\ HonestAnswer' <=> (pc' = "done" =>
            (out' = Err <=> \/ \E f \in failed' : f.why = "fault" \/ f.at # "probe"
                            \/ \A j \in Probes : Probe(j) = "eof"))
      /\ Err # NotUdf /\ Err # Panic /\ \A root : Err # State(root)
  BY <1>1 DEF HonestAnswer, Probe, Probes, Err, NotUdf, Panic, State
<1> USE DEF Surfaced
<1>4. CASE ProbeCandidate
  <2>1. pc = "probe" /\ k \in Probes
    BY <1>2, <1>4 DEF ProbeCandidate, Probes
  <2>2. CASE Probe(k) = "ok" /\ IsAnchor(ProbedDesc(k)) /\ pc' = "avdp" /\ failed' = failed
    BY <1>1, <1>3, <2>1, <2>2
  <2>3. CASE /\ Probe(k) = "ok" /\ ~IsAnchor(ProbedDesc(k)) /\ anyReadOk' = TRUE /\ k' = k + 1
             /\ pc' = pc /\ failed' = failed
    <3>1. \A j \in 1 .. k' - 1 : j \in 1 .. k - 1 \/ j = k
      BY <1>2, <2>3
    <3> QED  BY <1>1, <1>3, <2>1, <2>3, <3>1
  <2>4. CASE /\ Probe(k) = "eof" /\ k' = k + 1 /\ anyReadOk' = anyReadOk /\ pc' = pc
             /\ failed' = failed \cup {[at |-> pc, why |-> "eof"]}
    <3>1. \A j \in 1 .. k' - 1 : j \in 1 .. k - 1 \/ j = k
      BY <1>2, <2>4
    <3> QED  BY <1>1, <1>3, <2>1, <2>4, <3>1
  <2>5. CASE /\ Probe(k) = "fault" /\ pc' = "done" /\ out' = Err
             /\ failed' = failed \cup {[at |-> pc, why |-> "fault"]}
    <3>1. [at |-> pc, why |-> "fault"] \in failed'
      BY <2>5
    <3>2. \E f \in failed' : f.why = "fault"
      BY <3>1
    <3> QED  BY <1>3, <2>5, <3>2
  <2> QED  BY <1>4, <2>2, <2>3, <2>4, <2>5 DEF ProbeCandidate, Probe, ProbedDesc, Fails, Return
<1>5. CASE ProbesExhausted
  <2>1. pc = "probe" /\ k = Len(Candidates) + 1 /\ failed' = failed /\ pc' = "done"
    BY <1>2, <1>5 DEF ProbesExhausted, Return
  <2>2. out' = NoAnchorFound /\ 1 .. k - 1 = Probes
    BY <1>2, <1>5, <2>1 DEF ProbesExhausted, Return, Probes
  <2> QED  BY <1>3, <2>1, <2>2 DEF NoAnchorFound
<1>6. CASE \/ ReadAvdp \/ ScanVds \/ ScanEnds \/ Resolve \/ ReadFsd
  <2>1. pc \notin {"probe", "done"}
    BY <1>6 DEF ReadAvdp, ScanVds, ScanEnds, Resolve, ReadFsd
  <2>2. pc' # "probe"
    BY <1>6, <2>1 DEF ReadAvdp, ScanVds, ScanEnds, Resolve, ReadFsd, Fails, Return
  <2>3. \/ \E result : /\ pc' = "done" /\ out' = Err
                       /\ failed' = failed \cup {[at |-> pc, why |-> result]}
        \/ failed' = failed /\ (pc' = "done" => out' # Err)
    <3>1. CASE ReadAvdp
      BY <1>3, <3>1 DEF ReadAvdp, Fails, Return
    <3>2. CASE ScanVds
      BY <2>1, <3>2 DEF ScanVds, Fails, Return
    <3>3. CASE ScanEnds
      BY <3>3 DEF ScanEnds
    <3>4. CASE Resolve
      BY <1>3, <3>4 DEF Resolve, Return
    <3>5. CASE ReadFsd
      BY <1>3, <3>5 DEF ReadFsd, Fails, Return
    <3> QED  BY <1>6, <3>1, <3>2, <3>3, <3>4, <3>5
  <2>4. \E j \in Probes : Probe(j) = "ok"
    BY <2>1
  <2>5. CASE failed' = failed /\ (pc' = "done" => out' # Err)
    BY <1>1, <1>3, <2>1, <2>2, <2>4, <2>5
  <2>6. CASE \E result : /\ pc' = "done" /\ out' = Err
                         /\ failed' = failed \cup {[at |-> pc, why |-> result]}
    <3>1. PICK result : failed' = failed \cup {[at |-> pc, why |-> result]}
      BY <2>6
    <3>2. [at |-> pc, why |-> result].at # "probe" /\ [at |-> pc, why |-> result] \in failed'
      BY <2>1, <3>1
    <3>3. \E f \in failed' : f.at # "probe"
      BY <3>2
    <3> QED  BY <1>3, <2>6, <3>3
  <2> QED  BY <2>3, <2>5, <2>6
<1> QED  BY <1>4, <1>5, <1>6 DEF Next

LEMMA AnchoredStep == TypeOK /\ Anchored /\ Next => Anchored'
<1> SUFFICES ASSUME TypeOK, Anchored, Next PROVE Anchored'
  OBVIOUS
<1> USE DEF Anchored
<1>1. CASE ProbeCandidate
  <2>1. CASE blockSize' = Candidates[k] /\ IsAnchor(DescAt(medium, AnchorLba * Candidates[k]))
             /\ pc' = "avdp" /\ medium' = medium
    <3>1. IsAnchor(Block(AnchorLba))'
      BY <2>1 DEF Block, BlockPos, IsAnchor
    <3> QED  BY <1>1, <2>1, <3>1 DEF ProbeCandidate
  <2>2. CASE blockSize' = blockSize /\ pc' \in {"probe", "done"}
    BY <1>1, <2>2 DEF ProbeCandidate
  <2> QED  BY <1>1, <2>1, <2>2 DEF ProbeCandidate, Fails, Return
<1>2. CASE ReadAvdp
  <2>1. Block(AnchorLba)' = Block(AnchorLba)
    BY <1>2 DEF ReadAvdp, Block, BlockPos
  <2> QED  BY <1>2, <2>1 DEF ReadAvdp, Fails, Return, IsAnchor
<1>3. CASE \/ ProbesExhausted \/ ScanVds \/ ScanEnds \/ Resolve \/ ReadFsd
  <2>1. UNCHANGED <<medium, blockSize, vds>>
    BY <1>3 DEF ProbesExhausted, ScanVds, ScanEnds, Resolve, ReadFsd
  <2>2. Block(AnchorLba)' = Block(AnchorLba)
    BY <2>1, ViewConstant
  <2>3. /\ pc' \notin {"probe", "avdp"}
        /\ pc' # "done" => pc \in {"scan", "resolve", "fsd"}
    BY <1>3 DEF ProbesExhausted, ScanVds, ScanEnds, Resolve, ReadFsd, Fails, Return
  <2> QED  BY <2>1, <2>2, <2>3 DEF IsAnchor
<1> QED  BY <1>1, <1>2, <1>3 DEF Next

\* One more block of the sequence is looked at.
LEMMA CollectedStep ==
    ASSUME TypeOK, Collected, ScanVds, pc' # "done", Block(vds.loc + i).tag \notin {"TERM", "ZERO"}
    PROVE  Collected'
<1> DEFINE d == Block(vds.loc + i)
<1>1. /\ i \in Nat /\ i' = i + 1 /\ UNCHANGED <<medium, blockSize, vds>>
      /\ pdStart' = IF d.tag = "PD" THEN WithPd(pdStart, d) ELSE pdStart
      /\ lvd' = IF d.tag = "LVD" THEN d ELSE lvd
  BY DEF ScanVds, Fails, Return, TypeOK
<1>2. /\ \A lba : Block(lba)' = Block(lba)
      /\ \A h : TagAt(h)' = TagAt(h)
      /\ \A h, n : IsPd(h, n)' = IsPd(h, n)
  BY <1>1, ViewConstant
<1>3. \A h \in 0 .. i' - 1 : h \in 0 .. i - 1 \/ h = i
  BY <1>1
<1>4. i \in 0 .. i' - 1 /\ \A h \in 0 .. i - 1 : h \in 0 .. i' - 1 /\ i > h
  BY <1>1
<1>5. \A h : (Block(vds.loc + h))' = Block(vds.loc + h)
  BY <1>1, <1>2
<1>6. d \in Descriptor /\ TagAt(i) = d.tag /\ \A n : IsPd(i, n) <=> d.tag = "PD" /\ d.num = n
  BY DescType DEF Block, TagAt, IsPd, TypeOK
<1>7. d = Block(vds.loc + i)
  OBVIOUS
<1> HIDE DEF d
<1>8. \A h \in 0 .. i' - 1 : TagAt(h)' \notin {"TERM", "ZERO"}
  BY <1>2, <1>3, <1>6, <1>7 DEF Collected
<1>9. lvd' = NoLvd => \A h \in 0 .. i' - 1 : TagAt(h)' # "LVD"
  <2>1. d.tag = "LVD" => d # NoLvd
    BY <1>6 DEF Descriptor, NoLvd
  <2> QED  BY <1>1, <1>2, <1>3, <1>6, <2>1 DEF Collected
<1>10. lvd' # NoLvd => \E h \in 0 .. i' - 1 :
          /\ lvd' = (Block(vds.loc + h))'
          /\ \A g \in 0 .. i' - 1 : g > h => TagAt(g)' # "LVD"
  <2>1. CASE d.tag = "LVD"
    <3>1. \A g \in 0 .. i' - 1 : ~(g > i)
      BY <1>1
    <3> QED  BY <1>1, <1>4, <1>5, <1>7, <2>1, <3>1
  <2>2. CASE d.tag # "LVD"
    BY <1>1, <1>2, <1>3, <1>4, <1>5, <1>6, <2>2 DEF Collected
  <2> QED  BY <2>1, <2>2
<1>11. Starts(pdStart) /\ (d.tag = "PD" =>
          /\ DOMAIN pdStart' = DOMAIN pdStart \cup {d.num}
          /\ \A n \in DOMAIN pdStart' : pdStart'[n] = IF n = d.num THEN d.start ELSE pdStart[n])
  <2>1. Starts(pdStart)
    BY DEF TypeOK, Starts
  <2>2. CASE d.tag = "PD"
    <3>1. pdStart' = WithPd(pdStart, d)
      BY <1>1, <2>2
    <3> QED  BY <1>6, <2>1, <2>2, <3>1, WithPdType
  <2> QED  BY <2>1, <2>2
<1>12. \A h \in 0 .. i' - 1 :
          TagAt(h)' = "PD" => (Block(vds.loc + h))'.num \in DOMAIN pdStart'
  BY <1>1, <1>2, <1>3, <1>5, <1>6, <1>7, <1>11 DEF Collected
<1>13. \A n \in DOMAIN pdStart' : \E h \in 0 .. i' - 1 :
          /\ IsPd(h, n)' /\ pdStart'[n] = (Block(vds.loc + h))'.start
          /\ \A g \in 0 .. i' - 1 : g > h => ~IsPd(g, n)'
  <2> SUFFICES ASSUME NEW n \in DOMAIN pdStart'
               PROVE  \E h \in 0 .. i' - 1 :
                        /\ IsPd(h, n) /\ pdStart'[n] = Block(vds.loc + h).start
                        /\ \A g \in 0 .. i' - 1 : g > h => ~IsPd(g, n)
    BY <1>2, <1>5
  <2>1. CASE d.tag = "PD" /\ d.num = n
    <3>1. \A g \in 0 .. i' - 1 : ~(g > i)
      BY <1>1
    <3> QED  BY <1>4, <1>6, <1>7, <1>11, <2>1, <3>1
  <2>2. CASE ~(d.tag = "PD" /\ d.num = n)
    <3>1. n \in DOMAIN pdStart /\ pdStart'[n] = pdStart[n]
      BY <1>1, <1>11, <2>2
    <3>2. PICK h \in 0 .. i - 1 :
            /\ IsPd(h, n) /\ pdStart[n] = Block(vds.loc + h).start
            /\ \A g \in 0 .. i - 1 : g > h => ~IsPd(g, n)
      BY <3>1 DEF Collected
    <3>3. \A g \in 0 .. i' - 1 : g > h => ~IsPd(g, n)
      BY <1>3, <1>6, <2>2, <3>2
    <3> QED  BY <1>4, <3>1, <3>2, <3>3
  <2> QED  BY <2>1, <2>2
<1> QED  BY <1>8, <1>9, <1>10, <1>12, <1>13 DEF Collected

LEMMA CollectedConstant ==
    UNCHANGED <<medium, blockSize, vds, i, pdStart, lvd>> => Collected' = Collected
<1> SUFFICES ASSUME UNCHANGED <<medium, blockSize, vds, i, pdStart, lvd>>
             PROVE  Collected' = Collected
  OBVIOUS
<1>1. /\ \A lba : Block(lba)' = Block(lba)
      /\ \A h : TagAt(h)' = TagAt(h)
      /\ \A h, n : IsPd(h, n)' = IsPd(h, n)
  BY ViewConstant
<1> QED  BY <1>1 DEF Collected

LEMMA ScanningStep == TypeOK /\ Anchored /\ Scanning /\ Next => Scanning'
<1> SUFFICES ASSUME TypeOK, Anchored, Scanning, Next PROVE Scanning'
  OBVIOUS
<1>0. i \in Nat /\ vds.len \in Nat
  BY Numbers DEF TypeOK
<1>1. CASE ProbeCandidate \/ ProbesExhausted \/ ReadFsd
  BY <1>1 DEF ProbeCandidate, ProbesExhausted, ReadFsd, Fails, Return, Scanning
<1>2. CASE ReadAvdp
  <2>1. i' = 0 /\ DOMAIN pdStart' = {} /\ lvd' = NoLvd /\ pc' \in {"scan", "done"}
    BY <1>2 DEF ReadAvdp, Anchored, Fails, Return
  <2>2. Collected'
    BY <2>1 DEF Collected
  <2>3. pc' = "scan" => 0 <= Sectors(vds.len, blockSize)'
    <3>1. TypeOK'
      BY TypeStep
    <3>2. ASSUME pc' = "scan" PROVE vds.len' \in Nat /\ blockSize' \in Nat \ {0}
      BY <3>1, <3>2, Numbers DEF TypeOK
    <3>3. ASSUME pc' = "scan" PROVE Sectors(vds.len', blockSize') \in Nat
      BY <3>2, <3>3, SectorsCover
    <3> QED  BY <3>3 DEF Sectors
  <2> QED  BY <2>1, <2>2, <2>3 DEF Scanning
<1>3. CASE ScanVds
  <2> DEFINE d == Block(vds.loc + i)
  <2>0. pc = "scan" /\ Collected /\ blockSize \in Nat \ {0} /\ i < Sectors(vds.len, blockSize)
    BY <1>3 DEF ScanVds, Scanning, TypeOK
  <2>1. CASE pc' = "done"
    BY <2>1 DEF Scanning
  <2>2. CASE pc' # "done" /\ d.tag \in {"TERM", "ZERO"}
    <3>1. pc' = "resolve" /\ UNCHANGED <<medium, blockSize, vds, i, pdStart, lvd>>
      BY <1>3, <2>2 DEF ScanVds, Fails, Return
    <3>2. Collected'
      BY <2>0, <3>1, CollectedConstant
    <3>3. i <= Sectors(vds.len, blockSize) /\ TagAt(i) \in {"TERM", "ZERO"}
      BY <1>0, <2>0, <2>2, SectorsCover DEF TagAt
    <3>4. Window = 0 .. i - 1
      BY <2>0, <3>3, WindowIs DEF Collected
    <3>5. Window' = 0 .. i' - 1
      BY <3>1, <3>4, ViewConstant
    <3> QED  BY <3>1, <3>2, <3>5 DEF Scanning
  <2>3. CASE pc' # "done" /\ d.tag \notin {"TERM", "ZERO"}
    <3>1. pc' = "scan" /\ i' = i + 1 /\ UNCHANGED <<blockSize, vds>>
      BY <1>3, <2>0, <2>3 DEF ScanVds, Fails, Return
    <3>2. Collected'
      BY <1>3, <2>0, <2>3, CollectedStep
    <3>3. i + 1 <= Sectors(vds.len, blockSize)
      <4>1. Sectors(vds.len, blockSize) \in Nat
        BY <1>0, <2>0, SectorsCover
      <4>2. i \in Nat
        BY <1>0
      <4> QED  BY <2>0, <4>1, <4>2
    <3>4. i' <= Sectors(vds.len, blockSize)'
      BY <3>1, <3>3 DEF Sectors
    <3> QED  BY <3>1, <3>2, <3>4 DEF Scanning
  <2> QED  BY <2>1, <2>2, <2>3
<1>4. CASE ScanEnds
  <2>1. /\ pc = "scan" /\ pc' = "resolve" /\ UNCHANGED <<medium, blockSize, vds, i, pdStart, lvd>>
        /\ i >= Sectors(vds.len, blockSize) /\ blockSize \in Nat \ {0}
    BY <1>4 DEF ScanEnds, TypeOK
  <2>2. Collected /\ i <= Sectors(vds.len, blockSize)
    BY <2>1 DEF Scanning
  <2>3. i = Sectors(vds.len, blockSize)
    <3>1. Sectors(vds.len, blockSize) \in Nat
      BY <1>0, <2>1, SectorsCover
    <3> QED  BY <1>0, <2>1, <2>2, <3>1
  <2>4. Window = 0 .. i - 1
    BY <2>1, <2>2, <2>3, WindowIs DEF Collected
  <2>5. Window' = 0 .. i' - 1
    BY <2>1, <2>4, ViewConstant
  <2>6. Collected'
    BY <2>1, <2>2, CollectedConstant
  <2> QED  BY <2>1, <2>5, <2>6 DEF Scanning
<1>5. CASE Resolve
  <2>1. /\ pc = "resolve" /\ pc' \in {"fsd", "done"}
        /\ UNCHANGED <<medium, blockSize, vds, i, pdStart, lvd>>
    BY <1>5 DEF Resolve, Return
  <2>2. Window' = 0 .. i' - 1
    BY <2>1, ViewConstant DEF Scanning
  <2>3. Collected'
    BY <2>1, CollectedConstant DEF Scanning
  <2>4. pc' = "fsd" => Resolved'
    <3>1. StartOf(lvd, pdStart)' = StartOf(lvd, pdStart) /\ KindOf(lvd)' = KindOf(lvd)
      BY <2>1
    <3>2. SUFFICES ASSUME pc' = "fsd" PROVE Resolved'
      OBVIOUS
    <3>3. /\ lvd # NoLvd /\ DOMAIN pdStart # {}
          /\ info' = [partition_start |-> StartOf(lvd, pdStart),
                      fsd_lba         |-> StartOf(lvd, pdStart) + lvd.lbn,
                      partition_kind  |-> KindOf(lvd),
                      map_count       |-> Len(lvd.maps)]
      BY <1>5, <3>2 DEF Resolve, Return
    <3> QED  BY <2>1, <3>1, <3>3 DEF Resolved
  <2> QED  BY <2>1, <2>2, <2>3, <2>4 DEF Scanning
<1> QED  BY <1>1, <1>2, <1>3, <1>4, <1>5 DEF Next

\* The two links that Resolve can find missing are missing on the medium.
LEMMA MissingLinks ==
    ASSUME Collected, Window = 0 .. i - 1
    PROVE  /\ lvd = NoLvd => \A j \in Window : Block(vds.loc + j).tag # "LVD"
           /\ DOMAIN pdStart = {} => \A j \in Window : Block(vds.loc + j).tag # "PD"
BY DEF Collected, TagAt

LEMMA AnswerStep ==
    ASSUME IInv, Next, pc' = "done"
    PROVE  StateDescribesMedium' /\ NoFalseNegative'
<1> USE DEF IInv
<1>0. TypeOK'
  BY TypeStep
<1>1. CASE out' \in {Err, Panic}
  BY <1>1 DEF StateDescribesMedium, NoFalseNegative, Err, Panic, NotUdf
<1>2. CASE out' \notin {Err, Panic}
  <2>1. ProbesExhausted \/ ReadAvdp \/ Resolve \/ ReadFsd
    <3>1. CASE ProbeCandidate
      BY <1>2, <3>1 DEF ProbeCandidate, Fails, Return
    <3>2. CASE ScanVds
      BY <1>2, <3>2 DEF ScanVds, Fails, Return
    <3>3. CASE ScanEnds
      BY <3>3 DEF ScanEnds
    <3> QED  BY <3>1, <3>2, <3>3 DEF Next
  <2>2. CASE ProbesExhausted
    <3>1. /\ pc = "probe" /\ k > Len(Candidates) /\ out' = NotUdf /\ anyReadOk
          /\ medium' = medium
      BY <1>2, <2>2 DEF ProbesExhausted, Return, NoAnchorFound
    <3>2. \A j \in 1 .. Len(Candidates) : j \in 1 .. k - 1
      BY <3>1, CandidatesAssumption DEF TypeOK
    <3>3. \A j \in 1 .. Len(Candidates) : Probe(j) = "ok" => ~IsAnchor(ProbedDesc(j))
      BY <3>1, <3>2 DEF Surfaced
    <3> QED  BY <3>1, <3>3 DEF StateDescribesMedium, NoFalseNegative, NotUdf, Probe, ProbedDesc
  <2>3. CASE ReadAvdp
    <3>1. blockSize # 0
      BY <2>3 DEF ReadAvdp, TypeOK
    <3>2. Block(AnchorLba).tag = "AVDP"
      BY <3>1 DEF Anchored, IsAnchor
    <3> QED  BY <1>2, <2>3, <3>2 DEF ReadAvdp, Fails, Return
  <2>4. CASE Resolve
    <3>1. /\ pc = "resolve" /\ out' = NotUdf /\ UNCHANGED <<medium, blockSize, vds>>
          /\ lvd = NoLvd \/ DOMAIN pdStart = {} \/ Overflows(StartOf(lvd, pdStart), lvd.lbn)
      BY <1>2, <2>4 DEF Resolve, Return
    <3>2. blockSize # 0 /\ Collected /\ Window = 0 .. i - 1
      BY <3>1 DEF TypeOK, Scanning
    <3>3. NoFalseNegative'
      <4>1. \/ \A j \in Window : Block(vds.loc + j).tag # "LVD"
            \/ \A j \in Window : Block(vds.loc + j).tag # "PD"
            \/ \E j \in Window, s \in U32 :
                  /\ IsLastLvd(j) /\ IsStartFor(Block(vds.loc + j), s)
                  /\ s + Block(vds.loc + j).lbn > MaxU32
        <5>1. CASE lvd = NoLvd \/ DOMAIN pdStart = {}
          BY <3>2, <5>1, MissingLinks
        <5>2. CASE lvd # NoLvd /\ DOMAIN pdStart # {} /\ Overflows(StartOf(lvd, pdStart), lvd.lbn)
          <6>1. /\ \E j \in Window : IsLastLvd(j) /\ lvd = Block(vds.loc + j)
                /\ IsStartFor(lvd, StartOf(lvd, pdStart))
            BY <3>2, <5>2, Prevails
          <6>2. StartOf(lvd, pdStart) \in U32
            BY <5>2, StartType DEF TypeOK, Starts
          <6> QED  BY <5>2, <6>1, <6>2 DEF Overflows
        <5> QED  BY <3>1, <5>1, <5>2
      <4>2. /\ \A lba : Block(lba)' = Block(lba)
            /\ Window' = Window
            /\ \A h : IsLastLvd(h)' = IsLastLvd(h)
            /\ \A l, s : IsStartFor(l, s)' = IsStartFor(l, s)
        BY <3>1, ViewConstant
      <4> QED  BY <3>1, <4>1, <4>2 DEF NoFalseNegative
    <3> QED  BY <3>1, <3>3 DEF StateDescribesMedium, NotUdf
  <2>5. CASE ReadFsd
    <3> DEFINE fsd == Block(info.fsd_lba)
               root == info.partition_start + fsd.root
    <3>1. /\ pc = "fsd" /\ UNCHANGED <<medium, blockSize, vds>>
          /\ \/ fsd.tag # "FSD" /\ out' = NotUdf
             \/ fsd.tag = "FSD" /\ out' = State(root % (MaxU32 + 1))
      BY <1>2, <2>5 DEF ReadFsd, Fails, Return
    <3>2. blockSize # 0 /\ Collected /\ Window = 0 .. i - 1 /\ Resolved
      BY <3>1 DEF TypeOK, Scanning
    <3>3. PICK j \in Window : IsLastLvd(j) /\ lvd = Block(vds.loc + j)
      BY <3>2, Prevails DEF Resolved
    <3>4. IsStartFor(lvd, info.partition_start) /\ info.partition_start \in U32
      BY <3>1, <3>2, Prevails DEF Resolved, TypeOK
    <3>5. /\ \A lba : Block(lba)' = Block(lba)
          /\ Window' = Window
          /\ \A h : IsLastLvd(h)' = IsLastLvd(h)
          /\ \A l, s : IsStartFor(l, s)' = IsStartFor(l, s)
      BY <3>1, ViewConstant
    <3>6. CASE fsd.tag # "FSD" /\ out' = NotUdf
      <4>1. \E s \in U32 : /\ IsLastLvd(j) /\ IsStartFor(Block(vds.loc + j), s)
                           /\ Block(s + Block(vds.loc + j).lbn).tag # "FSD"
        BY <3>2, <3>3, <3>4, <3>6 DEF Resolved
      <4>2. \E s \in U32 : /\ IsLastLvd(j)' /\ IsStartFor(Block(vds.loc + j), s)'
                           /\ Block(s + Block(vds.loc + j).lbn)'.tag # "FSD"
        BY <3>1, <3>5, <4>1
      <4>3. NoFalseNegative'
        BY <3>1, <3>5, <4>2 DEF NoFalseNegative
      <4>4. StateDescribesMedium'
        BY <3>6 DEF StateDescribesMedium, NotUdf
      <4> QED  BY <4>3, <4>4
    <3>7. CASE fsd.tag = "FSD" /\ out' = State(root % (MaxU32 + 1))
      <4>1. /\ out'.partition_start = info.partition_start /\ out'.fsd_lba = info.fsd_lba
            /\ out'.partition_kind = info.partition_kind /\ out'.map_count = info.map_count
            /\ out'.block_size = blockSize /\ out'.vds_loc = vds.loc
            /\ out'.res = "State" /\ out' # NotUdf
        BY <3>7 DEF State, NotUdf
      <4>2. IsAnchor(Block(AnchorLba)) /\ vds.loc = Block(AnchorLba).vdsLoc
        BY <3>1, <3>2 DEF Anchored
      <4>3. /\ IsLastLvd(j) /\ IsStartFor(Block(vds.loc + j), out'.partition_start)
            /\ out'.fsd_lba = out'.partition_start + Block(vds.loc + j).lbn
            /\ out'.partition_kind = KindOf(Block(vds.loc + j))
            /\ out'.map_count = Len(Block(vds.loc + j).maps)
            /\ Block(out'.fsd_lba).tag = "FSD"
        BY <3>2, <3>3, <3>4, <3>7, <4>1 DEF Resolved
      <4>4. \A d : IsAnchor(d)' = IsAnchor(d) /\ KindOf(d)' = KindOf(d)
        OBVIOUS
      <4>5. StateDescribesMedium'
        BY <3>1, <3>5, <4>1, <4>2, <4>3, <4>4 DEF StateDescribesMedium
      <4> QED  BY <4>1, <4>5 DEF NoFalseNegative
    <3> QED  BY <3>1, <3>6, <3>7
  <2> QED  BY <2>1, <2>2, <2>3, <2>4, <2>5
<1> QED  BY <1>1, <1>2

LEMMA InvStep == IInv /\ [Next]_vars => IInv'
<1> SUFFICES ASSUME IInv, [Next]_vars PROVE IInv'
  OBVIOUS
<1>1. CASE Next
  <2>1. TypeOK' /\ Surfaced' /\ HonestAnswer' /\ Anchored' /\ Scanning'
    BY <1>1, TypeStep, SurfacedStep, AnchoredStep, ScanningStep DEF IInv
  <2>2. CASE pc' = "done"
    BY <1>1, <2>1, <2>2, AnswerStep DEF IInv, Promise
  <2>3. CASE pc' # "done"
    <3>1. out'.res # "State" /\ out' # NotUdf
      BY <2>1, <2>3 DEF TypeOK, NotUdf
    <3> QED  BY <2>1, <3>1 DEF IInv, Promise, StateDescribesMedium, NoFalseNegative
  <2> QED  BY <2>2, <2>3
<1>2. CASE UNCHANGED vars
  BY <1>2, Stutter
<1> QED  BY <1>1, <1>2

LEMMA Inductive == Spec => []IInv
<1> QED  BY InvInit, InvStep, PTL DEF Spec

\* An I/O error is reported exactly when a read the answer depends on failed:
\* for every set of block sizes and every medium.
THEOREM AnswersHonestly == Spec => []HonestAnswer
<1>1. IInv => HonestAnswer
  BY DEF IInv, Promise
<1> QED  BY <1>1, Inductive, PTL

\* A returned UdfState follows from the descriptors that prevail in a Volume
\* Descriptor Sequence of any length, order and number of duplicates.
THEOREM DescribesMedium == Spec => []StateDescribesMedium
<1>1. IInv => StateDescribesMedium
  BY DEF IInv, Promise
<1> QED  BY <1>1, Inductive, PTL

\* A medium whose chain is there to be followed is never called "not UDF".
THEOREM NeverMissesAChain == Spec => []NoFalseNegative
<1>1. IInv => NoFalseNegative
  BY DEF IInv, Promise
<1> QED  BY <1>1, Inductive, PTL

\* The second check of the anchor's tag never fails.
THEOREM RecheckUnreachable == Spec => []AvdpRecheckUnreachable
<1>1. IInv => AvdpRecheckUnreachable
  BY DEF IInv, TypeOK, Anchored, IsAnchor, AvdpRecheckUnreachable
<1> QED  BY <1>1, Inductive, PTL

=============================================================================
