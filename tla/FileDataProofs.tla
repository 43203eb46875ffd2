--------------------------- MODULE FileDataProofs ---------------------------
(* Proofs about the bytes and the slack of a file, for every block size and
   every list of allocation descriptors. *)
EXTENDS FileData, NumberLemmas, TLAPS

-----------------------------------------------------------------------------
(* A file's bytes by its descriptors. *)

Count == Len(fe.ads)
B(j) == Before(RecordedBytes, j)
A(j) == Before(AllBytes, j)

LEMMA EntryType ==
    ASSUME IsMedium(medium)
    PROVE  /\ fe.ads \in Seq(Extent) /\ Count \in Nat /\ DOMAIN fe.ads = 1 .. Count
           /\ fe.infoLen \in Nat /\ fe.area \in Nat
           /\ \A j \in 1 .. Count : /\ fe.ads[j].len \in Nat /\ fe.ads[j].lbn \in Nat
                                    /\ Start(fe.ads[j]) \in Nat
           /\ AllBytes \in [1 .. Count -> Nat] /\ RecordedBytes \in [1 .. Count -> Nat]
           /\ \A j \in 1 .. Count : /\ AllBytes[j] = fe.ads[j].len
                                    /\ RecordedBytes[j] = IF Recorded(fe.ads[j]) THEN fe.ads[j].len ELSE 0
<1> PICK a : a = fe.ads
  OBVIOUS
<1>1. a \in Seq(Extent) /\ Count \in Nat /\ fe.infoLen \in Nat /\ fe.area \in Nat
  BY DEF IsMedium, FileEntry, fe, Count
<1>2. DOMAIN a = 1 .. Count
  BY <1>1 DEF Count
<1>3. \A j \in 1 .. Count : a[j] \in Extent
  BY <1>1, <1>2
<1>4. \A j \in 1 .. Count : a[j].len \in Nat /\ a[j].lbn \in Nat
  BY <1>3 DEF Extent
<1>5. \A e : e.lbn \in Nat => Start(e) \in Nat
  <2> SUFFICES ASSUME NEW e, e.lbn \in Nat PROVE Start(e) \in Nat
    OBVIOUS
  <2>1. PartStart + e.lbn \in Nat /\ BlockSize \in Nat
    BY SizesAssumption
  <2>2. \A x, y \in Nat : x * y \in Nat
    OBVIOUS
  <2> QED  BY <2>1, <2>2 DEF Start
<1>6. /\ \A j \in 1 .. Count : AllBytes[j] = a[j].len
      /\ \A j \in 1 .. Count : RecordedBytes[j] = IF Recorded(a[j]) THEN a[j].len ELSE 0
      /\ AllBytes \in [1 .. Count -> Nat] /\ RecordedBytes \in [1 .. Count -> Nat]
  BY <1>2, <1>4 DEF AllBytes, RecordedBytes
<1> QED  BY <1>1, <1>2, <1>4, <1>5, <1>6

LEMMA BeforeIs ==
    ASSUME IsMedium(medium), NEW bytes \in [1 .. Count -> Nat]
    PROVE  /\ Before(bytes, 1) = 0
           /\ \A j \in 1 .. Count : Before(bytes, j + 1) = Before(bytes, j) + bytes[j]
           /\ \A j \in 1 .. Count + 1 : Before(bytes, j) \in Nat
<1>1. Count \in Nat
  BY EntryType
<1> PICK F : F = RunningSum(Count, bytes)
  OBVIOUS
<1>2. F \in [0 .. Count -> Nat] /\ F[0] = 0 /\ \A n \in 1 .. Count : F[n] = F[n - 1] + bytes[n]
  BY <1>1, RunningSumIs
<1>3. \A j : Before(bytes, j) = F[j - 1]
  BY DEF Before, RunningSum, Count
<1>4. \A j \in 1 .. Count : Before(bytes, j + 1) = Before(bytes, j) + bytes[j]
  <2> TAKE j \in 1 .. Count
  <2>1. (j + 1) - 1 = j
    BY <1>1
  <2> QED  BY <1>2, <1>3, <2>1
<1>5. \A j \in 1 .. Count + 1 : Before(bytes, j) \in Nat
  <2> TAKE j \in 1 .. Count + 1
  <2>1. j - 1 \in 0 .. Count
    BY <1>1
  <2> QED  BY <1>2, <1>3, <2>1
<1> QED  BY <1>2, <1>3, <1>4, <1>5

\* The bytes before an extent do not decrease from one to a later one.
LEMMA BeforeGrows ==
    ASSUME IsMedium(medium), NEW bytes \in [1 .. Count -> Nat],
           NEW j \in 1 .. Count + 1, NEW k \in 1 .. Count + 1, j <= k
    PROVE  Before(bytes, j) <= Before(bytes, k)
<1> DEFINE S == {d \in Nat : j + d <= Count + 1 => Before(bytes, j) <= Before(bytes, j + d)}
<1>0. Count \in Nat
  BY EntryType
<1>1. 0 \in S
  <2>1. Before(bytes, j) \in Nat /\ j + 0 = j
    BY <1>0, BeforeIs
  <2> QED  BY <2>1
<1>2. ASSUME NEW d \in Nat, d \in S PROVE d + 1 \in S
  <2> SUFFICES ASSUME j + (d + 1) <= Count + 1 PROVE Before(bytes, j) <= Before(bytes, j + (d + 1))
    OBVIOUS
  <2>1. /\ j + d \in 1 .. Count /\ j + d \in 1 .. Count + 1 /\ j + (d + 1) = (j + d) + 1
        /\ Before(bytes, j) <= Before(bytes, j + d)
    BY <1>0, <1>2
  <2>2. Before(bytes, (j + d) + 1) = Before(bytes, j + d) + bytes[j + d] /\ bytes[j + d] \in Nat
    BY <2>1, BeforeIs
  <2>3. Before(bytes, j + d) \in Nat /\ Before(bytes, j) \in Nat
    BY <2>1, BeforeIs
  <2> QED  BY <2>1, <2>2, <2>3
<1>3. k - j \in Nat
  BY <1>0
<1>4. k - j \in S
  <2> HIDE DEF S
  <2> QED  BY <1>1, <1>2, <1>3, AllNumbers
<1>5. j + (k - j) = k /\ k <= Count + 1
  BY <1>0
<1> QED  BY <1>4, <1>5

\* Without holes, what is taken is all there is up to the end of the file.
LEMMA SameBefore ==
    ASSUME IsMedium(medium), ~Sparse, NEW j \in 1 .. Count + 1, B(j) < fe.infoLen
    PROVE  A(j) = B(j)
<1> DEFINE S == {n \in Nat : n + 1 <= j => A(n + 1) = B(n + 1)}
<1>0. /\ Count \in Nat /\ AllBytes \in [1 .. Count -> Nat] /\ RecordedBytes \in [1 .. Count -> Nat]
      /\ fe.infoLen \in Nat
  BY EntryType
<1>1. 0 \in S
  <2>1. A(1) = 0 /\ B(1) = 0
    BY <1>0, BeforeIs DEF A, B
  <2>2. 0 + 1 = 1
    OBVIOUS
  <2> QED  BY <2>1, <2>2
<1>2. ASSUME NEW n \in Nat, n \in S PROVE n + 1 \in S
  <2> SUFFICES ASSUME (n + 1) + 1 <= j PROVE A((n + 1) + 1) = B((n + 1) + 1)
    OBVIOUS
  <2> PICK m : m = n + 1
    OBVIOUS
  <2>1. m \in 1 .. Count /\ m \in 1 .. Count + 1 /\ m <= j /\ A(m) = B(m)
    BY <1>0, <1>2
  <2>2. A(m + 1) = A(m) + AllBytes[m] /\ B(m + 1) = B(m) + RecordedBytes[m]
    BY <1>0, <2>1, BeforeIs DEF A, B
  <2>3. B(m) <= B(j) /\ B(m) \in Nat /\ B(j) \in Nat
    BY <1>0, <2>1, BeforeGrows, BeforeIs DEF B
  <2>4. A(m) < fe.infoLen
    BY <1>0, <2>1, <2>3
  <2>5. ~Recorded(fe.ads[m]) => fe.ads[m].len = 0
    BY <2>1, <2>4, EntryType DEF Sparse, A
  <2>6. AllBytes[m] = RecordedBytes[m]
    BY <2>1, <2>5, EntryType
  <2> QED  BY <2>1, <2>2, <2>6
<1>3. j - 1 \in Nat /\ (j - 1) + 1 = j
  BY <1>0
<1>4. j - 1 \in S
  <2> HIDE DEF S
  <2> QED  BY <1>1, <1>2, <1>3, AllNumbers
<1> QED  BY <1>3, <1>4

LEMMA BlocksIs ==
    ASSUME NEW len \in Nat, NEW n \in Nat
    PROVE  Blocks(len) \in Nat /\ (n * BlockSize < len <=> n < Blocks(len))
BY CeilingDivision, SizesAssumption DEF Blocks

-----------------------------------------------------------------------------
(* The inductive invariant: at each read, what is collected is the recorded
   bytes up to that read's place, and what is returned is justified. *)

Upto(n) == IF n < fe.infoLen THEN n ELSE fe.infoLen

Typed ==
    /\ IsMedium(medium) /\ op \in {"data", "slack"}
    /\ ad \in 1 .. Count + 1 /\ s \in Nat

\* The n-th byte, at position p, is the j-th extent's.
Gives(j, n, p) ==
    B(j) <= n - 1 /\ n - 1 < B(j) + RecordedBytes[j] /\ p = Start(fe.ads[j]) + (n - 1 - B(j))

Contents(d) ==
    d \in Seq(Nat) /\ \A n \in 1 .. Len(d) : \E j \in 1 .. Count : Gives(j, n, d[n])

Refusal ==
    \/ ~FeReadable \/ ~fe.fits \/ fe.alloc = "reserved"
    \/ \E j \in DOMAIN fe.ads :
          /\ Recorded(fe.ads[j]) /\ Before(RecordedBytes, j) < fe.infoLen
          /\ \E b \in 0 .. fe.ads[j].len :
                b * BlockSize < fe.ads[j].len /\ ~Readable(Start(fe.ads[j]) + b * BlockSize)

Bytes(blocks) == blocks * BlockSize

AtExtent == Extents /\ Contents(data) /\ Len(data) = Upto(B(ad))

AtBlock ==
    /\ Extents /\ Contents(data) /\ Len(data) = Upto(B(ad) + Bytes(s))
    /\ ad <= Count /\ Recorded(fe.ads[ad]) /\ B(ad) < fe.infoLen
    /\ Bytes(s) < fe.ads[ad].len

Delivered(d) == Contents(d) /\ Len(d) = Upto(B(Count + 1))

DataRead ==
    op = "data" =>
      /\ pc \in {"entry", "extent", "block", "done"}
      /\ Len(data) \in 0 .. fe.infoLen
      /\ pc # "done" => ~out.some
      /\ pc = "entry" => data = << >> /\ ad = 1
      /\ pc = "extent" => AtExtent
      /\ pc = "block" => AtBlock
      /\ pc = "done" => IF out.some THEN Extents => Delivered(out.value) ELSE Refusal

RecordedAds == {j \in DOMAIN fe.ads : Recorded(fe.ads[j])}

FinalBlock == LastBlock(fe.ads[Max(RecordedAds)])

HasSlack == FeReadable /\ fe.infoLen # 0 /\ SlackLen # 0

HasFinalBlock == HasSlack /\ fe.fits /\ fe.alloc \in {"short", "long"} /\ RecordedAds # {}

SlackRead ==
    op = "slack" =>
      /\ pc \in {"entry", "last", "slack", "done"}
      /\ data = << >>
      /\ pc # "done" => ~out.some
      /\ pc = "last" => HasSlack
      /\ pc = "slack" => HasFinalBlock /\ last = Some(FinalBlock)
      /\ pc = "done" /\ out.some =>
            /\ HasFinalBlock
            /\ out.value = (FinalBlock + (fe.infoLen % BlockSize)) .. (FinalBlock + BlockSize - 1)

IInv == Typed /\ DataRead /\ SlackRead

-----------------------------------------------------------------------------
(* The medium stays, and with it all that is said of its File Entry. *)

LEMMA MediumStays ==
    ASSUME medium' = medium
    PROVE  /\ fe' = fe /\ Count' = Count /\ RecordedBytes' = RecordedBytes
           /\ Extents' = Extents /\ Refusal' = Refusal /\ FeReadable' = FeReadable
           /\ HasSlack' = HasSlack /\ HasFinalBlock' = HasFinalBlock /\ FinalBlock' = FinalBlock
           /\ \A j : B(j)' = B(j)
           /\ \A n : Upto(n)' = Upto(n)
           /\ \A d : Contents(d)' = Contents(d)
<1>1. fe' = fe /\ Count' = Count
  BY DEF fe, Count
<1>2. RecordedBytes' = RecordedBytes
  BY <1>1 DEF RecordedBytes, Recorded
<1>3. \A pos : Readable(pos)' = Readable(pos)
  BY DEF Readable
<1>4. FeReadable' = FeReadable
  BY <1>1 DEF FeReadable, Readable
<1>5. \A j : B(j)' = B(j)
  <2>1. \A j : B(j) = RunningSum(Count, RecordedBytes)[j - 1]
    BY DEF B, Before, RunningSum, Count
  <2>2. \A j : B(j)' = RunningSum(Count', RecordedBytes')[j - 1]
    BY DEF B, Before, RunningSum, Count
  <2> QED  BY <1>1, <1>2, <2>1, <2>2
<1>6. \A n : Upto(n)' = Upto(n)
  BY <1>1 DEF Upto
<1>7. \A j, n, p : Gives(j, n, p)' = Gives(j, n, p)
  BY <1>1, <1>2, <1>5 DEF Gives, Start
<1>8. \A d : Contents(d)' = Contents(d)
  BY <1>1, <1>7 DEF Contents
<1>9. Extents' = Extents
  BY <1>1, <1>4 DEF Extents
<1>10. Refusal' = Refusal
  <2>1. \A j : B(j) = Before(RecordedBytes, j)
    BY DEF B
  <2>2. \A j : B(j)' = Before(RecordedBytes, j)'
    BY DEF B
  <2>3. \A j : Before(RecordedBytes, j)' = Before(RecordedBytes, j)
    BY <1>5, <2>1, <2>2
  <2> QED  BY <1>1, <1>3, <1>4, <2>3 DEF Refusal, Recorded, Start, Readable
<1>11. RecordedAds' = RecordedAds
  BY <1>1 DEF RecordedAds, Recorded
<1>12. FinalBlock' = FinalBlock
  BY <1>1, <1>11 DEF FinalBlock, LastBlock, Start, Blocks, Max
<1>13. HasSlack' = HasSlack /\ HasFinalBlock' = HasFinalBlock
  BY <1>1, <1>4, <1>11 DEF HasSlack, HasFinalBlock, SlackLen
<1> QED  BY <1>1, <1>2, <1>4, <1>5, <1>6, <1>8, <1>9, <1>10, <1>12, <1>13

-----------------------------------------------------------------------------
(* Initially. *)

LEMMA InitIsRead == Init => IInv
<1> SUFFICES ASSUME Init PROVE IInv
  OBVIOUS
<1>1. medium \in Media /\ op \in {"data", "slack"} /\ pc = "entry" /\ ad = 1 /\ s = 0
      /\ data = << >> /\ out = None
  BY DEF Init
<1>2. IsMedium(medium)
  BY <1>1, MediaAssumption
<1>3. Count \in Nat /\ fe.infoLen \in Nat
  BY <1>2, EntryType
<1>4. Typed
  BY <1>1, <1>2, <1>3 DEF Typed
<1>5. DataRead
  BY <1>1, <1>3 DEF DataRead, None
<1>6. SlackRead
  BY <1>1 DEF SlackRead, None
<1> QED  BY <1>4, <1>5, <1>6 DEF IInv

-----------------------------------------------------------------------------
(* read_fe_data *)

LEMMA ReadEntryKeeps ==
    ASSUME IInv, ReadEntry
    PROVE  IInv'
<1>1. /\ medium' = medium /\ op' = op /\ ad' = ad /\ s' = s /\ op = "data" /\ pc = "entry"
  BY DEF ReadEntry
<1>2. IsMedium(medium) /\ ad \in 1 .. Count + 1 /\ s \in Nat /\ data = << >> /\ ad = 1 /\ ~out.some
  BY <1>1 DEF IInv, Typed, DataRead
<1>3. /\ Count \in Nat /\ fe.infoLen \in Nat /\ fe.area \in Nat
      /\ RecordedBytes \in [1 .. Count -> Nat]
  BY <1>2, EntryType
<1>4. Typed'
  BY <1>1, <1>2, MediumStays DEF IInv, Typed
<1>5. SlackRead'
  BY <1>1 DEF SlackRead
<1>6. DataRead'
  <2>1. ASSUME ~FeReadable \/ ~fe.fits \/ fe.alloc = "reserved", Return(None), data' = data
        PROVE  DataRead'
    <3>1. Refusal'
      BY <1>1, <2>1, MediumStays DEF Refusal
    <3>2. Len(data') = 0 /\ fe' = fe /\ pc' = "done" /\ ~out'.some
      BY <1>1, <1>2, <2>1, MediumStays DEF Return, None
    <3> QED  BY <1>3, <3>1, <3>2 DEF DataRead
  <2>2. ASSUME FeReadable, fe.fits, fe.alloc = "inline", Return(Some(data')),
               data' = [n \in 1 .. Min({fe.infoLen, fe.area}) |-> <<"area", n>>]
        PROVE  DataRead'
    <3>1. fe' = fe /\ pc' = "done" /\ out'.some /\ ~Extents' /\ FeReadable' = FeReadable
      BY <1>1, <2>2, MediumStays DEF Return, Some, Extents
    <3> PICK m : m = Min({fe.infoLen, fe.area})
      OBVIOUS
    <3>2. m \in 0 .. fe.infoLen
      BY <1>3, MinOfTwo
    <3>3. Len(data') = m
      BY <2>2, <3>2
    <3> QED  BY <3>1, <3>2, <3>3 DEF DataRead
  <2>3. ASSUME FeReadable, fe.fits, fe.alloc \in {"short", "long"}, pc' = "extent",
               data' = data, out' = out
        PROVE  DataRead'
    <3>1. Extents' /\ fe' = fe
      BY <1>1, <2>3, MediumStays DEF Extents
    <3>2. B(1) = 0
      BY <1>2, <1>3, BeforeIs DEF B
    <3>3. Upto(B(1)) = 0
      BY <1>3, <3>2 DEF Upto
    <3>4. Upto(B(ad))' = 0
      <4>1. B(1)' = B(1) /\ Upto(0)' = Upto(0) /\ Upto(0) = 0
        BY <1>1, <3>2, <3>3, MediumStays
      <4>2. B(ad)' = 0
        BY <1>1, <1>2, <3>2, <4>1 DEF B
      <4> QED  BY <4>1, <4>2 DEF Upto
    <3>5. Contents(data)'
      BY <1>2, <2>3 DEF Contents
    <3>6. AtExtent'
      BY <1>2, <2>3, <3>1, <3>4, <3>5 DEF AtExtent
    <3>7. Len(data') = 0 /\ fe'.infoLen \in Nat /\ ~out'.some /\ pc' = "extent"
      BY <1>2, <1>3, <2>3, <3>1
    <3> QED  BY <3>6, <3>7 DEF DataRead
  <2> QED  BY <2>1, <2>2, <2>3 DEF ReadEntry
<1> QED  BY <1>4, <1>5, <1>6 DEF IInv

LEMMA SkipExtentKeeps ==
    ASSUME IInv, SkipExtent
    PROVE  IInv'
<1>1. /\ medium' = medium /\ op' = op /\ pc' = pc /\ s' = s /\ data' = data /\ out' = out
      /\ pc = "extent" /\ ad <= Count /\ ~Recorded(fe.ads[ad]) /\ ad' = ad + 1
  BY DEF SkipExtent, PastSkipped, Count
<1>2. IsMedium(medium) /\ op \in {"data", "slack"} /\ ad \in 1 .. Count + 1 /\ s \in Nat
  BY DEF IInv, Typed
<1>3. op = "data"
  BY <1>1, <1>2 DEF IInv, SlackRead
<1>4. AtExtent /\ Len(data) \in 0 .. fe.infoLen /\ ~out.some
  BY <1>1, <1>3 DEF IInv, DataRead
<1>5. Count \in Nat /\ RecordedBytes \in [1 .. Count -> Nat] /\ ad \in 1 .. Count /\ RecordedBytes[ad] = 0
  BY <1>1, <1>2, EntryType
<1>6. Typed'
  BY <1>1, <1>2, <1>5, MediumStays DEF Typed
<1>7. SlackRead'
  BY <1>1, <1>3 DEF SlackRead
<1>8. B(ad + 1) = B(ad)
  <2>1. B(ad + 1) = B(ad) + 0 /\ B(ad) \in Nat
    BY <1>2, <1>5, BeforeIs DEF B
  <2> QED  BY <2>1
<1>9. B(ad)' = B(ad)
  <2>1. \A j : B(j)' = B(j)
    BY <1>1, MediumStays
  <2>2. \A j : j = ad' => B(ad)' = B(j)'
    BY DEF B, Before
  <2> PICK c : c = ad + 1
    OBVIOUS
  <2>3. B(c)' = B(c) /\ B(ad)' = B(c)'
    BY <1>1, <2>1, <2>2
  <2> QED  BY <1>8, <2>3
<1>10. AtExtent'
  <2>1. Extents' /\ Contents(data)'
    BY <1>1, <1>4, MediumStays DEF AtExtent, Contents
  <2>2. Len(data') = Upto(B(ad))'
    BY <1>1, <1>4, <1>9, MediumStays DEF AtExtent, Upto
  <2> QED  BY <2>1, <2>2 DEF AtExtent
<1>11. DataRead'
  BY <1>1, <1>3, <1>4, <1>10, MediumStays DEF DataRead
<1> QED  BY <1>6, <1>7, <1>11 DEF IInv

LEMMA BeginExtentKeeps ==
    ASSUME IInv, BeginExtent
    PROVE  IInv'
<1>1. /\ medium' = medium /\ op' = op /\ ad' = ad /\ s' = 0 /\ data' = data /\ out' = out
      /\ pc = "extent" /\ pc' = "block" /\ ad <= Count /\ Recorded(fe.ads[ad]) /\ Len(data) < fe.infoLen
  BY DEF BeginExtent, Count
<1>2. IsMedium(medium) /\ op \in {"data", "slack"} /\ ad \in 1 .. Count + 1 /\ s \in Nat
  BY DEF IInv, Typed
<1>3. op = "data"
  BY <1>1, <1>2 DEF IInv, SlackRead
<1>4. AtExtent /\ Len(data) \in 0 .. fe.infoLen /\ ~out.some
  BY <1>1, <1>3 DEF IInv, DataRead
<1>5. /\ Count \in Nat /\ RecordedBytes \in [1 .. Count -> Nat] /\ ad \in 1 .. Count
      /\ fe.ads[ad].len \in Nat /\ fe.infoLen \in Nat
  BY <1>1, <1>2, EntryType
<1>6. Typed'
  BY <1>1, <1>2, MediumStays DEF Typed
<1>7. SlackRead'
  BY <1>1, <1>3 DEF SlackRead
<1>8. B(ad) \in Nat
  BY <1>2, <1>5, BeforeIs DEF B
<1>9. B(ad) < fe.infoLen /\ Len(data) = B(ad)
  BY <1>1, <1>4, <1>5, <1>8 DEF AtExtent, Upto
<1>10. AtBlock'
  <2>1. Extents' /\ Contents(data)' /\ fe' = fe /\ Count' = Count
    BY <1>1, <1>4, MediumStays DEF AtExtent, Contents
  <2>2. B(ad)' = B(ad)
    BY <1>1, MediumStays DEF B
  <2>3. Bytes(s)' = 0 /\ 0 < fe.ads[ad].len
    BY <1>1, <1>5, SizesAssumption DEF Recorded, Bytes
  <2>4. Len(data') = Upto(B(ad) + Bytes(s))'
    BY <1>1, <1>5, <1>8, <1>9, <2>1, <2>2, <2>3 DEF Upto
  <2> QED  BY <1>1, <1>9, <2>1, <2>2, <2>3, <2>4 DEF AtBlock, Recorded
<1>11. DataRead'
  BY <1>1, <1>3, <1>4, <1>10, MediumStays DEF DataRead
<1> QED  BY <1>6, <1>7, <1>11 DEF IInv

LEMMA ExtentsEndKeeps ==
    ASSUME IInv, ExtentsEnd
    PROVE  IInv'
<1>1. /\ medium' = medium /\ op' = op /\ ad' = ad /\ s' = s /\ data' = data
      /\ pc = "extent" /\ pc' = "done" /\ out' = Some(Truncated)
      /\ ad > Count \/ Len(data) >= fe.infoLen
  BY DEF ExtentsEnd, Count, Return
<1>2. IsMedium(medium) /\ op \in {"data", "slack"} /\ ad \in 1 .. Count + 1 /\ s \in Nat
  BY DEF IInv, Typed
<1>3. op = "data"
  BY <1>1, <1>2 DEF IInv, SlackRead
<1>4. AtExtent /\ Len(data) \in 0 .. fe.infoLen /\ data \in Seq(Nat)
  BY <1>1, <1>3 DEF IInv, DataRead, AtExtent, Contents
<1>5. Count \in Nat /\ RecordedBytes \in [1 .. Count -> Nat] /\ fe.infoLen \in Nat
  BY <1>2, EntryType
<1>6. Typed'
  BY <1>1, <1>2, MediumStays DEF Typed
<1>7. SlackRead'
  BY <1>1, <1>3 DEF SlackRead
<1>8. Truncated = data
  <2>1. Min({Len(data), fe.infoLen}) = Len(data)
    <3>1. Len(data) \in Nat /\ Len(data) <= fe.infoLen
      BY <1>4, <1>5
    <3>2. Min({Len(data), fe.infoLen}) = IF Len(data) <= fe.infoLen THEN Len(data) ELSE fe.infoLen
      BY <1>5, <3>1, MinOfTwo
    <3> QED  BY <3>1, <3>2
  <2>2. SubSeq(data, 1, Len(data)) = data
    BY <1>4
  <2> QED  BY <2>1, <2>2 DEF Truncated
<1>9. out'.some /\ out'.value = data
  BY <1>1, <1>8 DEF Some
<1>10. Delivered(data)
  <2>1. B(ad) \in Nat /\ B(Count + 1) \in Nat /\ Count + 1 \in 1 .. Count + 1
    <3>1. \A j \in 1 .. Count + 1 : B(j) \in Nat
      BY <1>2, <1>5, BeforeIs DEF B
    <3>2. ad \in 1 .. Count + 1 /\ Count + 1 \in 1 .. Count + 1
      <4>1. Count \in Nat /\ ad \in 1 .. Count + 1
        BY <1>2, <1>5
      <4> QED  BY <4>1
    <3> QED  BY <3>1, <3>2
  <2>2. B(ad) <= B(Count + 1)
    BY <1>2, <1>5, <2>1, BeforeGrows DEF B
  <2>3. Len(data) = Upto(B(Count + 1))
    <3>1. CASE ad > Count
      <4>1. ad = Count + 1
        BY <1>2, <1>5, <3>1
      <4> QED  BY <1>4, <4>1 DEF AtExtent
    <3>2. CASE Len(data) >= fe.infoLen
      BY <1>4, <1>5, <2>1, <2>2, <3>2 DEF AtExtent, Upto
    <3> QED  BY <1>1, <3>1, <3>2
  <2> QED  BY <1>4, <2>3 DEF Delivered, AtExtent
<1>11. Delivered(out.value)'
  <2>1. B(Count + 1)' = B(Count + 1)
    BY <1>1, MediumStays DEF B
  <2>2. Upto(B(Count + 1))' = Upto(B(Count + 1))
    BY <1>1, <2>1, MediumStays DEF Upto
  <2>3. Contents(data)'
    BY <1>1, <1>10, MediumStays DEF Delivered, Contents
  <2>4. Contents(out.value)'
    BY <1>1, <1>9, <2>3 DEF Contents
  <2> QED  BY <1>1, <1>9, <1>10, <2>2, <2>4 DEF Delivered
<1>12. DataRead'
  BY <1>1, <1>3, <1>4, <1>9, <1>11, MediumStays DEF DataRead
<1> QED  BY <1>6, <1>7, <1>12 DEF IInv

LEMMA Concatenation ==
    ASSUME NEW p \in Seq(Nat), NEW q \in Seq(Nat)
    PROVE  /\ p \o q \in Seq(Nat) /\ Len(p \o q) = Len(p) + Len(q)
           /\ \A n \in 1 .. Len(p) : (p \o q)[n] = p[n]
           /\ \A n \in 1 .. Len(q) : (p \o q)[Len(p) + n] = q[n]
OBVIOUS

LEMMA BytesIs ==
    ASSUME NEW n \in Nat
    PROVE  /\ Bytes(n) \in Nat /\ Bytes(n + 1) = Bytes(n) + BlockSize /\ n <= Bytes(n)
<1>1. \A a \in Nat, b \in Nat \ {0} : a * b \in Nat /\ (a + 1) * b = a * b + b /\ a <= a * b
  OBVIOUS
<1> QED  BY <1>1, SizesAssumption DEF Bytes

\* What is taken of a block: up to the extent's end, the block's and the file's.
LEMMA TakeIs ==
    ASSUME IsMedium(medium), AtBlock, Len(data) \in 0 .. fe.infoLen, s \in Nat, ad \in 1 .. Count + 1
    PROVE  LET len == fe.ads[ad].len
               to == B(ad) + (IF len <= Bytes(s + 1) THEN len ELSE Bytes(s + 1))
           IN  /\ Take(fe.ads[ad]) \in Nat
               /\ Len(data) + Take(fe.ads[ad]) = Upto(to)
               /\ Take(fe.ads[ad]) > 0 => Len(data) = B(ad) + Bytes(s)
<1>x. PICK x \in Nat : x = Bytes(s)
  BY BytesIs
<1>k. PICK k : k = Take(fe.ads[ad])
  OBVIOUS
<1>0. Count \in Nat /\ RecordedBytes \in [1 .. Count -> Nat] /\ ad \in 1 .. Count
  BY EntryType DEF AtBlock
<1>1. fe.ads[ad].len \in Nat /\ fe.infoLen \in Nat
  BY <1>0, EntryType
<1>len. PICK len \in Nat : len = fe.ads[ad].len
  BY <1>1
<1>2. B(ad) \in Nat
  BY <1>0, BeforeIs DEF B
<1>3. BlockSize \in Nat \ {0}
  BY SizesAssumption
<1>4. Bytes(s + 1) = x + BlockSize
  BY <1>x, BytesIs
<1>5. x < len /\ Len(data) = Upto(B(ad) + x) /\ B(ad) < fe.infoLen
  BY <1>x, <1>len DEF AtBlock
<1>6. Len(data) \in Nat /\ Len(data) <= fe.infoLen
  BY <1>1
<1>7. Remaining \in Nat /\ Remaining = fe.infoLen - Len(data)
  BY <1>1, <1>6 DEF Remaining
<1>b. PICK b \in Nat : b = B(ad)
  BY <1>2
<1>l. PICK l \in Nat : l = Len(data)
  BY <1>6
<1>r. PICK r \in Nat : r = Remaining
  BY <1>7
<1>f. PICK f \in Nat : f = fe.infoLen
  BY <1>1
<1>z. PICK z \in Nat \ {0} : z = BlockSize
  BY <1>3
<1>8. k \in {len - x, z, r} /\ k <= len - x /\ k <= z /\ k <= r
  <2> DEFINE S == {len - x, z, r}
  <2>1. S \in SUBSET Nat /\ S # {}
    BY <1>5
  <2>2. k = Min(S)
    BY <1>k, <1>x, <1>len, <1>z, <1>r DEF Take, Bytes
  <2>3. Min(S) \in S /\ \A y \in S : Min(S) <= y
    <3> HIDE DEF S
    <3> QED  BY <2>1, MinOf
  <2> QED  BY <2>2, <2>3
<1>9. /\ l <= f /\ r = f - l /\ x < len /\ b < f /\ l = (IF b + x < f THEN b + x ELSE f)
      /\ k = len - x \/ k = z \/ k = r
      /\ k <= len - x /\ k <= z /\ k <= r
  BY <1>b, <1>l, <1>r, <1>f, <1>5, <1>6, <1>7, <1>8 DEF Upto
<1>10. k \in Nat /\ (k > 0 => l = b + x)
  BY <1>9
<1>to. PICK to \in Nat : to = b + (IF len <= x + z THEN len ELSE x + z)
  OBVIOUS
<1>11. l + k = IF to < f THEN to ELSE f
  <2>1. CASE l = f
    <3>1. k = 0 /\ f <= b + x /\ b + x <= to
      BY <1>to, <1>9, <1>10, <2>1
    <3> QED  BY <1>10, <2>1, <3>1
  <2>2. CASE l # f
    <3>1. l = b + x /\ l < f /\ r = f - l
      BY <1>9, <2>2
    <3> QED  BY <1>to, <1>9, <1>10, <3>1
  <2> QED  BY <2>1, <2>2
<1>12. l + k = Upto(to)
  BY <1>f, <1>11 DEF Upto
<1> QED  BY <1>x, <1>k, <1>len, <1>b, <1>l, <1>z, <1>to, <1>4, <1>10, <1>12

LEMMA ReadBlockKeeps ==
    ASSUME IInv, ReadBlock
    PROVE  IInv'
<1>1. medium' = medium /\ op' = op /\ pc = "block"
  BY DEF ReadBlock
<1>2. IsMedium(medium) /\ op \in {"data", "slack"} /\ ad \in 1 .. Count + 1 /\ s \in Nat
  BY DEF IInv, Typed
<1>3. op = "data"
  BY <1>1, <1>2 DEF IInv, SlackRead
<1>4. AtBlock /\ Len(data) \in 0 .. fe.infoLen /\ ~out.some
  BY <1>1, <1>3 DEF IInv, DataRead
<1>e. PICK e : e = fe.ads[ad]
  OBVIOUS
<1>x. PICK x \in Nat : x = Bytes(s)
  BY <1>2, BytesIs
<1>5. /\ Count \in Nat /\ RecordedBytes \in [1 .. Count -> Nat] /\ ad \in 1 .. Count
      /\ e.len \in Nat /\ fe.infoLen \in Nat /\ Start(e) \in Nat /\ RecordedBytes[ad] = e.len
      /\ DOMAIN fe.ads = 1 .. Count
  BY <1>e, <1>2, <1>4, EntryType DEF AtBlock
<1>st. PICK st \in Nat : st = Start(e)
  BY <1>5
<1>pos. PICK pos \in Nat : pos = st + x
  OBVIOUS
<1>len. PICK len \in Nat : len = e.len
  BY <1>5
<1>f. PICK f \in Nat : f = fe.infoLen
  BY <1>5
<1>z. PICK z \in Nat \ {0} : z = BlockSize
  BY SizesAssumption
<1>y. PICK y \in Nat : y = x + z
  OBVIOUS
<1>6. Bytes(s + 1) = y
  BY <1>x, <1>y, <1>z, <1>2, BytesIs
<1>a. B(ad) \in Nat /\ B(ad + 1) = B(ad) + len
  BY <1>e, <1>len, <1>2, <1>5, BeforeIs DEF B
<1>b. PICK b \in Nat : b = B(ad)
  BY <1>a
<1>l. PICK l \in Nat : l = Len(data)
  BY <1>4, <1>5
<1>7. B(ad) = b /\ B(ad + 1) = b + len /\ l <= f
  BY <1>b, <1>l, <1>f, <1>4, <1>5, <1>a
<1>8. SlackRead'
  BY <1>1, <1>3 DEF SlackRead
<1>9. ASSUME ~Readable(pos), Return(None), ad' = ad, s' = s, data' = data
      PROVE  IInv'
  <2>1. s <= x
    BY <1>x, <1>2, BytesIs
  <2>2. s \in 0 .. e.len /\ Bytes(s) < e.len
    BY <1>e, <1>len, <1>x, <1>2, <1>4, <1>5, <1>6, <2>1 DEF AtBlock
  <2>3. Refusal
    BY <1>e, <1>x, <1>st, <1>pos, <1>4, <1>5, <1>9, <2>2 DEF Refusal, AtBlock, B, Bytes
  <2>4. DataRead'
    BY <1>1, <1>3, <1>4, <1>9, <2>3, MediumStays DEF DataRead, Return, None
  <2>5. Typed'
    BY <1>1, <1>2, <1>9, MediumStays DEF Typed
  <2> QED  BY <1>8, <2>4, <2>5 DEF IInv
<1>10. ASSUME Readable(pos), data' = data \o [n \in 1 .. Take(e) |-> pos + n - 1], s' = s + 1,
              IF s' < Blocks(e.len) THEN pc' = pc /\ ad' = ad ELSE pc' = "extent" /\ ad' = ad + 1,
              out' = out
       PROVE  IInv'
  <2>0. /\ Take(e) \in Nat
        /\ Take(e) > 0 => l = b + x
        /\ l + Take(e) = Upto(b + (IF len <= y THEN len ELSE y))
    BY <1>e, <1>x, <1>b, <1>l, <1>len, <1>2, <1>4, <1>6, TakeIs
  <2>k. PICK k \in Nat : k = Take(e)
    BY <2>0
  <2>to. PICK to \in Nat : to = b + (IF len <= y THEN len ELSE y)
    OBVIOUS
  <2>d. PICK d : d = data'
    OBVIOUS
  <2> DEFINE new == [n \in 1 .. k |-> pos + n - 1]
  <2>1. /\ k > 0 => l = b + x
        /\ l + k = IF to < f THEN to ELSE f
    BY <2>k, <2>to, <1>f, <2>0 DEF Upto
  <2>2. data \in Seq(Nat) /\ Contents(data) /\ Extents /\ x < e.len
    BY <1>e, <1>x, <1>len, <1>4 DEF AtBlock, Contents
  <2>3. new \in Seq(Nat) /\ Len(new) = k
    <3>1. \A n \in 1 .. k : pos + n - 1 \in Nat
      OBVIOUS
    <3> QED  BY <3>1
  <2>4. /\ d \in Seq(Nat) /\ Len(d) = l + k
        /\ \A n \in 1 .. l : d[n] = data[n]
        /\ \A n \in 1 .. k : d[l + n] = pos + n - 1
    <3>1. d = data \o new
      BY <2>k, <2>d, <1>10
    <3>2. \A n \in 1 .. k : new[n] = pos + n - 1
      OBVIOUS
    <3> HIDE DEF new
    <3>3. Len(data) = l /\ Len(new) = k /\ data \in Seq(Nat) /\ new \in Seq(Nat)
      BY <1>l, <2>2, <2>3
    <3> QED  BY <3>1, <3>2, <3>3, Concatenation
  <2>5. Contents(d)
    <3> SUFFICES ASSUME NEW n \in 1 .. Len(d) PROVE \E j \in 1 .. Count : Gives(j, n, d[n])
      BY <2>4 DEF Contents
    <3>0. n \in 1 .. l + k
      BY <2>4
    <3>1. CASE n <= l
      BY <1>l, <2>2, <2>4, <3>0, <3>1 DEF Contents
    <3>2. CASE n > l
      <4>m. PICK m \in 1 .. k : n = l + m
        BY <3>0, <3>2
      <4>1. l = b + x /\ n = b + x + m
        BY <4>m, <2>1
      <4>2. d[n] = pos + m - 1
        BY <4>m, <2>4
      <4>3. n - 1 < b + len
        BY <2>to, <4>m, <3>0, <2>1
      <4>4. b <= n - 1 /\ d[n] = st + (n - 1 - b)
        BY <1>pos, <4>m, <4>1, <4>2
      <4>5. Gives(ad, n, d[n])
        BY <1>e, <1>st, <1>len, <1>5, <1>7, <4>3, <4>4 DEF Gives
      <4> QED  BY <1>5, <4>5
    <3> QED  BY <3>0, <3>1, <3>2
  <2>6. Contents(data)' /\ Extents' /\ fe' = fe /\ Count' = Count
    <3>1. Contents(d)' /\ Extents' /\ fe' = fe /\ Count' = Count
      BY <1>1, <2>2, <2>5, MediumStays
    <3> QED  BY <2>d, <3>1 DEF Contents
  <2>7. Len(data') \in 0 .. fe.infoLen
    <3>1. l + k \in 0 .. f
      BY <1>7, <2>1
    <3> QED  BY <2>d, <1>f, <2>4, <3>1
  <2>8. s' < Blocks(e.len) <=> y < e.len
    <3>1. Bytes(s + 1) < e.len <=> s + 1 < Blocks(e.len)
      <4>1. s + 1 \in Nat
        BY <1>2
      <4>2. (s + 1) * BlockSize < e.len <=> s + 1 < Blocks(e.len)
        BY <1>5, <4>1, BlocksIs
      <4> QED  BY <4>2 DEF Bytes
    <3> QED  BY <1>6, <1>10, <3>1
  <2>9. CASE y < e.len
    <3>1. pc' = "block" /\ ad' = ad
      BY <1>1, <1>10, <2>8, <2>9
    <3>2. Len(data') = Upto(B(ad) + y)
      <4>1. to = b + y
        BY <2>to, <1>len, <2>9
      <4> QED  BY <2>d, <1>f, <1>7, <2>1, <2>4, <4>1 DEF Upto
    <3>3. B(ad)' = B(ad)
      BY <1>1, <3>1, MediumStays DEF B
    <3>4. Len(data') = Upto(B(ad) + Bytes(s))'
      BY <1>6, <1>10, <2>6, <3>2, <3>3 DEF Upto
    <3>5. AtBlock'
      BY <1>e, <1>y, <1>z, <1>len, <1>x, <1>4, <1>6, <1>10, <2>6, <2>9, <3>1, <3>3, <3>4 DEF AtBlock, Recorded
    <3>6. DataRead'
      BY <1>1, <1>3, <1>4, <1>10, <2>6, <2>7, <3>1, <3>5 DEF DataRead
    <3>7. Typed'
      BY <1>1, <1>2, <1>10, <2>6, <3>1, MediumStays DEF Typed
    <3> QED  BY <1>8, <3>6, <3>7 DEF IInv
  <2>10. CASE ~(y < e.len)
    <3>1. pc' = "extent" /\ ad' = ad + 1
      BY <1>10, <2>8, <2>10
    <3>2. Len(data') = Upto(B(ad + 1))
      <4>1. to = b + len
        BY <2>to, <1>len, <2>10
      <4> QED  BY <2>d, <1>f, <1>7, <2>1, <2>4, <4>1 DEF Upto
    <3>3. B(ad)' = B(ad + 1)
      <4> PICK c : c = ad + 1
        OBVIOUS
      <4>1. B(c)' = B(c) /\ \A j : j = ad' => B(ad)' = B(j)'
        BY <1>1, MediumStays DEF B, Before
      <4> QED  BY <3>1, <4>1
    <3>4. Len(data') = Upto(B(ad))'
      BY <2>6, <3>2, <3>3 DEF Upto
    <3>5. AtExtent'
      BY <2>6, <3>4 DEF AtExtent
    <3>6. DataRead'
      BY <1>1, <1>3, <1>4, <1>10, <2>6, <2>7, <3>1, <3>5 DEF DataRead
    <3>7. Typed'
      BY <1>1, <1>2, <1>5, <1>10, <2>6, <3>1, MediumStays DEF Typed
    <3> QED  BY <1>8, <3>6, <3>7 DEF IInv
  <2> QED  BY <2>9, <2>10
<1>11. pos = Start(fe.ads[ad]) + s * BlockSize
  BY <1>e, <1>x, <1>st, <1>pos DEF Bytes
<1> QED  BY <1>e, <1>9, <1>10, <1>11 DEF ReadBlock

-----------------------------------------------------------------------------
(* fe_slack_nonzero *)

LEMMA SlackEntryKeeps ==
    ASSUME IInv, SlackEntry
    PROVE  IInv'
<1>1. /\ medium' = medium /\ op' = op /\ ad' = ad /\ s' = s /\ data' = data
      /\ op = "slack" /\ pc = "entry"
      /\ \/ pc' = "done" /\ out' = None
         \/ HasSlack /\ pc' = "last" /\ out' = out
  BY DEF SlackEntry, Return, HasSlack
<1>2. Typed'
  BY <1>1, MediumStays DEF IInv, Typed
<1>3. DataRead'
  BY <1>1 DEF DataRead
<1>4. SlackRead'
  BY <1>1, MediumStays DEF IInv, SlackRead, None
<1> QED  BY <1>2, <1>3, <1>4 DEF IInv

LEMMA FindLastBlockKeeps ==
    ASSUME IInv, FindLastBlock
    PROVE  IInv'
<1>1. /\ medium' = medium /\ op' = op /\ ad' = ad /\ s' = s /\ data' = data /\ pc = "last"
      /\ \/ pc' = "done" /\ out' = None
         \/ /\ fe.fits /\ fe.alloc \in {"short", "long"} /\ RecordedAds # {}
            /\ last' = Some(FinalBlock) /\ pc' = "slack" /\ out' = out
  BY DEF FindLastBlock, Return, RecordedAds, FinalBlock
<1>2. op = "slack"
  BY <1>1 DEF IInv, Typed, DataRead
<1>3. Typed'
  BY <1>1, MediumStays DEF IInv, Typed
<1>4. DataRead'
  BY <1>1, <1>2 DEF DataRead
<1>5. SlackRead'
  <2>1. HasSlack /\ data = << >> /\ ~out.some
    BY <1>1, <1>2 DEF IInv, SlackRead
  <2>2. CASE pc' = "done" /\ out' = None
    BY <1>1, <2>1, <2>2 DEF SlackRead, None
  <2>3. CASE /\ fe.fits /\ fe.alloc \in {"short", "long"} /\ RecordedAds # {}
             /\ last' = Some(FinalBlock) /\ pc' = "slack" /\ out' = out
    <3>1. HasFinalBlock
      BY <2>1, <2>3 DEF HasFinalBlock
    <3>2. HasFinalBlock' /\ last' = Some(FinalBlock')
      BY <1>1, <2>3, <3>1, MediumStays
    <3> QED  BY <1>1, <2>1, <2>3, <3>2 DEF SlackRead, Some
  <2> QED  BY <1>1, <2>2, <2>3
<1> QED  BY <1>3, <1>4, <1>5 DEF IInv

LEMMA ReadSlackKeeps ==
    ASSUME IInv, ReadSlack
    PROVE  IInv'
<1>1. /\ medium' = medium /\ op' = op /\ ad' = ad /\ s' = s /\ data' = data
      /\ pc = "slack" /\ pc' = "done"
      /\ \/ out' = Some((last.value + (fe.infoLen % BlockSize)) .. (last.value + BlockSize - 1))
         \/ out' = None
  BY DEF ReadSlack, Return
<1>2. op = "slack"
  BY <1>1 DEF IInv, Typed, DataRead
<1>3. Typed'
  BY <1>1, MediumStays DEF IInv, Typed
<1>4. DataRead'
  BY <1>1, <1>2 DEF DataRead
<1>5. SlackRead'
  <2>1. HasFinalBlock /\ last.value = FinalBlock /\ data = << >>
    BY <1>1, <1>2 DEF IInv, SlackRead, Some
  <2>2. CASE out' = None
    BY <1>1, <2>1, <2>2 DEF SlackRead, None
  <2>3. CASE out' = Some((last.value + (fe.infoLen % BlockSize)) .. (last.value + BlockSize - 1))
    <3>1. HasFinalBlock' /\ FinalBlock' = FinalBlock /\ fe' = fe
      BY <1>1, <2>1, MediumStays
    <3>2. out'.value = (FinalBlock' + (fe'.infoLen % BlockSize)) .. (FinalBlock' + BlockSize - 1)
      BY <2>1, <2>3, <3>1 DEF Some
    <3> QED  BY <1>1, <2>1, <3>1, <3>2 DEF SlackRead
  <2> QED  BY <1>1, <2>2, <2>3
<1> QED  BY <1>3, <1>4, <1>5 DEF IInv

-----------------------------------------------------------------------------
(* The invariant holds. *)

LEMMA NextKeeps ==
    ASSUME IInv, [Next]_vars
    PROVE  IInv'
<1>1. CASE Next
  BY <1>1, ReadEntryKeeps, SkipExtentKeeps, BeginExtentKeeps, ReadBlockKeeps, ExtentsEndKeeps,
     SlackEntryKeeps, FindLastBlockKeeps, ReadSlackKeeps DEF Next
<1>2. CASE UNCHANGED vars
  <2>1. /\ medium' = medium /\ op' = op /\ pc' = pc /\ ad' = ad /\ s' = s /\ data' = data
        /\ last' = last /\ out' = out
    BY <1>2 DEF vars
  <2>2. Typed'
    BY <2>1, MediumStays DEF IInv, Typed
  <2>3. B(ad)' = B(ad)
    BY <2>1, MediumStays DEF B
  <2>4. Contents(data)' = Contents(data)
    BY <2>1, MediumStays DEF Contents
  <2>5. AtExtent' = AtExtent
    BY <2>1, <2>3, <2>4, MediumStays DEF AtExtent, Upto
  <2>6. AtBlock' = AtBlock
    BY <2>1, <2>3, <2>4, MediumStays DEF AtBlock, Upto, Bytes, Recorded
  <2>7. Delivered(out.value)' = Delivered(out.value)
    <3>1. B(Count + 1)' = B(Count + 1)
      BY <2>1, MediumStays DEF B
    <3>2. Contents(out.value)' = Contents(out.value)
      BY <2>1, MediumStays DEF Contents
    <3> QED  BY <2>1, <3>1, <3>2, MediumStays DEF Delivered, Upto
  <2>8. DataRead'
    BY <2>1, <2>5, <2>6, <2>7, MediumStays DEF IInv, DataRead
  <2>9. SlackRead'
    BY <2>1, MediumStays DEF IInv, SlackRead
  <2> QED  BY <2>2, <2>8, <2>9 DEF IInv
<1> QED  BY <1>1, <1>2

LEMMA Invariance == Spec => []IInv
BY InitIsRead, NextKeeps, PTL DEF Spec

-----------------------------------------------------------------------------
(* The theorems. *)

\* The block fe_last_block_pos finds is the last recorded extent's last.
LEMMA FinalBlockIs ==
    ASSUME IsMedium(medium), HasFinalBlock
    PROVE  \E m \in 1 .. Count :
              /\ Recorded(fe.ads[m]) /\ \A j \in 1 .. Count : Recorded(fe.ads[j]) => j <= m
              /\ Blocks(fe.ads[m].len) \in Nat \ {0}
              /\ FinalBlock = Start(fe.ads[m]) + Bytes(Blocks(fe.ads[m].len) - 1)
              /\ FinalBlock \in Nat
<1>1. Count \in Nat /\ DOMAIN fe.ads = 1 .. Count
  BY EntryType
<1>2. RecordedAds \in SUBSET (0 .. Count) /\ RecordedAds # {}
  BY <1>1 DEF RecordedAds, HasFinalBlock
<1>3. Max(RecordedAds) \in RecordedAds /\ \A j \in RecordedAds : j <= Max(RecordedAds)
  BY <1>1, <1>2, MaxOf
<1>m. PICK m : m = Max(RecordedAds)
  OBVIOUS
<1>4. m \in 1 .. Count /\ Recorded(fe.ads[m]) /\ \A j \in 1 .. Count : Recorded(fe.ads[j]) => j <= m
  BY <1>1, <1>3, <1>m DEF RecordedAds
<1>5. fe.ads[m].len \in Nat /\ 0 < fe.ads[m].len /\ Start(fe.ads[m]) \in Nat
  BY <1>4, EntryType DEF Recorded
<1>6. Blocks(fe.ads[m].len) \in Nat \ {0}
  <2>1. 0 * BlockSize = 0
    BY SizesAssumption
  <2>2. 0 < Blocks(fe.ads[m].len) /\ Blocks(fe.ads[m].len) \in Nat
    BY <1>5, <2>1, BlocksIs
  <2> QED  BY <2>2
<1>7. FinalBlock = Start(fe.ads[m]) + Bytes(Blocks(fe.ads[m].len) - 1)
  BY <1>m DEF FinalBlock, LastBlock, Bytes
<1>8. Blocks(fe.ads[m].len) - 1 \in Nat
  BY <1>6
<1>9. Bytes(Blocks(fe.ads[m].len) - 1) \in Nat
  BY <1>8, BytesIs
<1> QED  BY <1>4, <1>5, <1>6, <1>7, <1>9

\* The type invariant: a cursor inside the descriptors and, while a block is
\* read, inside its extent; a final block's position when the slack is read.
THEOREM TypeCorrect == Spec => []TypeOK
<1>1. IInv => TypeOK
  <2> SUFFICES ASSUME IInv PROVE TypeOK
    OBVIOUS
  <2>1. IsMedium(medium) /\ op \in {"data", "slack"} /\ ad \in 1 .. Count + 1 /\ s \in Nat
    BY DEF IInv, Typed
  <2>2. Count \in Nat /\ fe.infoLen \in Nat
    BY <2>1, EntryType
  <2>3. CASE op = "data"
    <3>1. DataRead
      BY DEF IInv
    <3>2. pc \in {"entry", "extent", "block", "done"} /\ Len(data) \in Nat
      BY <2>2, <2>3, <3>1 DEF DataRead
    <3>3. ASSUME pc = "block" PROVE ad <= Count /\ s < Blocks(fe.ads[ad].len)
      <4>1. AtBlock
        BY <2>3, <3>1, <3>3 DEF DataRead
      <4>2. ad \in 1 .. Count /\ s * BlockSize < fe.ads[ad].len
        BY <2>1, <2>2, <4>1 DEF AtBlock, Bytes
      <4>3. fe.ads[ad].len \in Nat
        BY <2>1, <4>2, EntryType
      <4> QED  BY <2>1, <4>2, <4>3, BlocksIs
    <3> QED  BY <2>1, <3>2, <3>3 DEF TypeOK, Count
  <2>4. CASE op = "slack"
    <3>1. SlackRead
      BY DEF IInv
    <3>2. pc \in {"entry", "last", "slack", "done"} /\ Len(data) = 0
      BY <2>4, <3>1 DEF SlackRead
    <3>3. ASSUME pc = "slack" PROVE last.some /\ last.value \in Nat
      BY <2>1, <2>4, <3>1, <3>3, FinalBlockIs DEF SlackRead, Some
    <3> QED  BY <2>1, <3>2, <3>3 DEF TypeOK, Count
  <2> QED  BY <2>1, <2>3, <2>4
<1> QED  BY <1>1, Invariance, PTL

\* read_extent never collects more than the information length.
THEOREM BufferBoundedAlways == Spec => []BufferBounded
<1>1. IInv => BufferBounded
  <2> SUFFICES ASSUME IInv PROVE BufferBounded
    OBVIOUS
  <2>1. IsMedium(medium) /\ op \in {"data", "slack"}
    BY DEF IInv, Typed
  <2>2. fe.infoLen \in Nat
    BY <2>1, EntryType
  <2>3. CASE op = "data"
    BY <2>2, <2>3 DEF IInv, DataRead, BufferBounded
  <2>4. CASE op = "slack"
    BY <2>2, <2>4 DEF IInv, SlackRead, BufferBounded
  <2> QED  BY <2>1, <2>3, <2>4
<1> QED  BY <1>1, Invariance, PTL

\* read_fe_data refuses a file only for its File Entry, or for a block it has
\* to read and cannot.
THEOREM NoneIsJustifiedAlways == Spec => []NoneIsJustified
<1>1. IInv => NoneIsJustified
  BY DEF IInv, DataRead, Refusal, NoneIsJustified
<1> QED  BY <1>1, Invariance, PTL

\* read_fe_data delivers the recorded bytes in order, up to the information
\* length; for a file without holes, its bytes at their offsets.
THEOREM DataIsContentsAlways == Spec => []DataIsContents
<1>1. IInv => DataIsContents
  <2> SUFFICES ASSUME IInv, op = "data", Extents, out.some PROVE
        /\ \A n \in 1 .. Len(out.value) :
              \E j \in DOMAIN fe.ads :
                 /\ IsAt(RecordedBytes, n - 1, j)
                 /\ out.value[n] = Start(fe.ads[j]) + (n - 1 - Before(RecordedBytes, j))
                 /\ ~Sparse => IsAt(AllBytes, n - 1, j)
        /\ Len(out.value) = Min({fe.infoLen, Before(RecordedBytes, Len(fe.ads) + 1)})
    BY DEF DataIsContents
  <2>1. IsMedium(medium) /\ Delivered(out.value)
    BY DEF IInv, Typed, DataRead
  <2>2. /\ Count \in Nat /\ fe.infoLen \in Nat /\ DOMAIN fe.ads = 1 .. Count
        /\ RecordedBytes \in [1 .. Count -> Nat] /\ AllBytes \in [1 .. Count -> Nat]
    BY <2>1, EntryType
  <2>3. Len(out.value) = Upto(B(Count + 1)) /\ B(Count + 1) \in Nat
    <3>1. Count + 1 \in 1 .. Count + 1
      BY <2>2
    <3>2. B(Count + 1) \in Nat
      BY <2>1, <2>2, <3>1, BeforeIs DEF B
    <3> QED  BY <2>1, <3>2 DEF Delivered
  <2>4. Len(out.value) = Min({fe.infoLen, Before(RecordedBytes, Len(fe.ads) + 1)})
    <3>1. Min({fe.infoLen, B(Count + 1)}) = IF fe.infoLen <= B(Count + 1) THEN fe.infoLen ELSE B(Count + 1)
      BY <2>2, <2>3, MinOfTwo
    <3>2. Len(out.value) = Min({fe.infoLen, B(Count + 1)})
      BY <2>2, <2>3, <3>1 DEF Upto
    <3> QED  BY <3>2 DEF B, Count
  <2>5. ASSUME NEW n \in 1 .. Len(out.value)
        PROVE  \E j \in DOMAIN fe.ads :
                  /\ IsAt(RecordedBytes, n - 1, j)
                  /\ out.value[n] = Start(fe.ads[j]) + (n - 1 - Before(RecordedBytes, j))
                  /\ ~Sparse => IsAt(AllBytes, n - 1, j)
    <3>1. PICK j \in 1 .. Count : Gives(j, n, out.value[n])
      BY <2>1 DEF Delivered, Contents
    <3>2. IsAt(RecordedBytes, n - 1, j)
      BY <3>1 DEF Gives, IsAt, B
    <3>3. out.value[n] = Start(fe.ads[j]) + (n - 1 - Before(RecordedBytes, j))
      BY <3>1 DEF Gives, B
    <3>4. ASSUME ~Sparse PROVE IsAt(AllBytes, n - 1, j)
      <4>0. j \in 1 .. Count + 1
        BY <2>2
      <4>1. B(j) \in Nat
        BY <2>1, <2>2, <4>0, BeforeIs DEF B
      <4>2. n <= fe.infoLen /\ n \in Nat
        BY <2>2, <2>3 DEF Upto
      <4>3. B(j) < fe.infoLen
        BY <2>2, <3>1, <4>1, <4>2 DEF Gives
      <4>4. A(j) = B(j)
        BY <2>1, <3>4, <4>0, <4>3, SameBefore
      <4>5. RecordedBytes[j] <= AllBytes[j] /\ RecordedBytes[j] \in Nat /\ AllBytes[j] \in Nat
        <5>1. /\ fe.ads[j].len \in Nat /\ AllBytes[j] = fe.ads[j].len
              /\ RecordedBytes[j] = IF Recorded(fe.ads[j]) THEN fe.ads[j].len ELSE 0
          BY <2>1, EntryType
        <5> QED  BY <5>1
      <4>6. B(j) <= n - 1 /\ n - 1 < B(j) + AllBytes[j]
        BY <3>1, <4>1, <4>2, <4>5 DEF Gives
      <4> QED  BY <4>4, <4>6 DEF IsAt, A
    <3> QED  BY <2>2, <3>2, <3>3, <3>4
  <2> QED  BY <2>4, <2>5
<1> QED  BY <1>1, Invariance, PTL

-----------------------------------------------------------------------------
(* The slack of a regular file. *)

LEMMA DivisionWithRest ==
    ASSUME NEW a \in Nat, NEW z \in Nat \ {0}
    PROVE  a \div z \in Nat /\ a = (a \div z) * z + (a % z)
OBVIOUS

LEMMA BytesAdd ==
    ASSUME NEW m \in Nat, NEW n \in Nat
    PROVE  /\ Bytes(m + n) = Bytes(m) + Bytes(n)
           /\ Bytes(m) \in Nat /\ Bytes(n) \in Nat /\ Bytes(n + 1) = Bytes(n) + BlockSize
<1>1. \A a, b, c \in Nat : (a + b) * c = a * c + b * c
  OBVIOUS
<1>2. Bytes(m + n) = Bytes(m) + Bytes(n)
  BY <1>1, SizesAssumption DEF Bytes
<1> QED  BY <1>2, BytesIs

\* How many blocks a length takes, from the block it ends in.
LEMMA BlocksEnd ==
    ASSUME NEW len \in Nat, NEW n \in Nat, Bytes(n) < len, len <= Bytes(n + 1)
    PROVE  Blocks(len) = n + 1
<1>1. Blocks(len) \in Nat /\ n < Blocks(len)
  BY BlocksIs DEF Bytes
<1>2. ~(n + 1 < Blocks(len))
  <2>1. n + 1 \in Nat /\ ~(Bytes(n + 1) < len)
    BY BytesIs, SizesAssumption
  <2> QED  BY <2>1, BlocksIs DEF Bytes
<1> QED  BY <1>1, <1>2

LEMMA BlocksEndIn ==
    ASSUME NEW len \in Nat, 0 < len
    PROVE  \E n \in Nat : Blocks(len) = n + 1 /\ Bytes(n) < len /\ len <= Bytes(n + 1)
<1>1. Blocks(len) \in Nat /\ 0 < Blocks(len)
  <2>1. 0 * BlockSize = 0
    BY SizesAssumption
  <2> QED  BY <2>1, BlocksIs
<1>n. PICK n \in Nat : n = Blocks(len) - 1
  BY <1>1
<1>2. Blocks(len) = n + 1
  BY <1>n, <1>1
<1>3. Bytes(n) < len
  BY <1>2, BlocksIs DEF Bytes
<1>4. n + 1 \in Nat /\ ~(Bytes(n + 1) < len)
  BY <1>2, BlocksIs DEF Bytes
<1>5. Bytes(n + 1) \in Nat
  BY <1>4, BytesIs
<1> QED  BY <1>2, <1>3, <1>4, <1>5

\* The extents before the last of a well-formed file are whole blocks.
LEMMA WholeBlocksBefore ==
    ASSUME IsMedium(medium), WellFormed, NEW j \in 1 .. Count
    PROVE  \E q \in Nat : A(j) = Bytes(q)
<1> DEFINE S == {n \in Nat : n + 1 <= j => \E q \in Nat : A(n + 1) = Bytes(q)}
<1>0. Count \in Nat /\ AllBytes \in [1 .. Count -> Nat] /\ DOMAIN fe.ads = 1 .. Count
  BY EntryType
<1>1. 0 \in S
  <2>1. A(1) = 0 /\ 0 + 1 = 1
    BY <1>0, BeforeIs DEF A
  <2>2. Bytes(0) = 0
    BY SizesAssumption DEF Bytes
  <2> QED  BY <2>1, <2>2
<1>2. ASSUME NEW n \in Nat, n \in S PROVE n + 1 \in S
  <2> SUFFICES ASSUME (n + 1) + 1 <= j PROVE \E q \in Nat : A((n + 1) + 1) = Bytes(q)
    OBVIOUS
  <2>m. PICK m \in Nat : m = n + 1
    OBVIOUS
  <2>1. m \in 1 .. Count /\ m < Count /\ \E q \in Nat : A(m) = Bytes(q)
    BY <1>0, <1>2, <2>m
  <2>2. PICK q \in Nat : A(m) = Bytes(q)
    BY <2>1
  <2>3. A(m + 1) = A(m) + AllBytes[m]
    BY <1>0, <2>1, BeforeIs DEF A
  <2>len. PICK len \in Nat : len = fe.ads[m].len
    BY <2>1, EntryType
  <2>4. AllBytes[m] = len
    BY <2>1, <2>len, EntryType
  <2>5. len % BlockSize = 0
    BY <1>0, <2>1, <2>len DEF WellFormed, Count
  <2>6. PICK d \in Nat : len = Bytes(d)
    <3>1. len \div BlockSize \in Nat /\ len = (len \div BlockSize) * BlockSize + (len % BlockSize)
      BY SizesAssumption, DivisionWithRest
    <3>2. len = Bytes(len \div BlockSize)
      BY <2>5, <3>1, SizesAssumption DEF Bytes
    <3> QED  BY <3>1, <3>2
  <2>7. q + d \in Nat /\ Bytes(q + d) = Bytes(q) + Bytes(d)
    BY BytesAdd
  <2>8. A(m + 1) = Bytes(q + d)
    BY <2>2, <2>3, <2>4, <2>6, <2>7
  <2> QED  BY <2>m, <2>7, <2>8
<1>3. j - 1 \in Nat /\ (j - 1) + 1 = j
  BY <1>0
<1>4. j - 1 \in S
  <2> HIDE DEF S
  <2> QED  BY <1>1, <1>2, <1>3, AllNumbers
<1> QED  BY <1>3, <1>4

\* The end of the file is as far into the last block of the last extent as
\* into a block.
LEMMA EndInBlock ==
    ASSUME NEW q \in Nat, NEW len \in Nat, NEW f \in Nat,
           Bytes(q) < f, f <= Bytes(q) + len, f % BlockSize # 0, Blocks(Bytes(q) + len) = Blocks(f)
    PROVE  /\ Bytes(Blocks(len) - 1) + (f % BlockSize) = f - Bytes(q)
           /\ (f % BlockSize) \in 1 .. BlockSize - 1
<1>z. BlockSize \in Nat \ {0}
  BY SizesAssumption
<1>b. PICK b \in Nat : b = Bytes(q)
  BY BytesIs
<1>r. PICK r \in Nat : r = f % BlockSize
  BY <1>z
<1>1. r \in 1 .. BlockSize - 1
  <2>1. \A a \in Nat, z \in Nat \ {0} : a % z \in 0 .. z - 1
    OBVIOUS
  <2> QED  BY <1>z, <1>r, <2>1
<1>2. PICK n \in Nat : f = Bytes(n) + r
  <2>1. f \div BlockSize \in Nat /\ f = (f \div BlockSize) * BlockSize + (f % BlockSize)
    BY <1>z, DivisionWithRest
  <2>2. f = Bytes(f \div BlockSize) + r
    BY <1>r, <2>1 DEF Bytes
  <2> QED  BY <2>1, <2>2
<1>3. Bytes(n) \in Nat /\ Bytes(n + 1) = Bytes(n) + BlockSize
  BY BytesIs
<1>4. Blocks(f) = n + 1
  <2>1. Bytes(n) < f /\ f <= Bytes(n + 1)
    BY <1>z, <1>1, <1>2, <1>3
  <2> QED  BY <2>1, BlocksEnd
<1>5. 0 < len
  BY <1>b
<1>6. PICK c \in Nat : Blocks(len) = c + 1 /\ Bytes(c) < len /\ len <= Bytes(c + 1)
  BY <1>5, BlocksEndIn
<1>7. Bytes(c) \in Nat /\ Bytes(c + 1) = Bytes(c) + BlockSize /\ Bytes(q + c) = b + Bytes(c)
  BY <1>b, BytesAdd
<1>8. Blocks(b + len) = (q + c) + 1
  <2>p. PICK p \in Nat : p = q + c
    OBVIOUS
  <2>1. Bytes(p) = b + Bytes(c) /\ Bytes(p + 1) = Bytes(p) + BlockSize
    BY <1>7, <2>p, BytesIs
  <2>2. b + len \in Nat /\ Bytes(p) < b + len /\ b + len <= Bytes(p + 1)
    BY <1>z, <1>6, <1>7, <2>1
  <2>3. Blocks(b + len) = p + 1
    BY <2>2, BlocksEnd
  <2> QED  BY <2>p, <2>3
<1>9. n = q + c
  BY <1>b, <1>4, <1>8
<1>10. Bytes(c) + r = f - b
  BY <1>2, <1>3, <1>7, <1>9
<1>11. Blocks(len) - 1 = c
  BY <1>6
<1>12. Bytes(Blocks(len) - 1) = Bytes(c)
  BY <1>11
<1>13. Bytes(Blocks(len) - 1) + (f % BlockSize) = f - Bytes(q)
  BY <1>b, <1>r, <1>10, <1>12
<1> QED  BY <1>r, <1>1, <1>13

\* The slack fe_slack_nonzero looks at begins where a regular file ends and
\* goes to the end of that block.
THEOREM SlackFollowsFileAlways == Spec => []SlackFollowsFile
<1>1. IInv => SlackFollowsFile
  <2> SUFFICES ASSUME IInv, op = "slack", out.some, Regular PROVE
        \E j \in DOMAIN fe.ads :
           LET end == Start(fe.ads[j]) + (fe.infoLen - 1 - Before(AllBytes, j))
           IN  IsAt(AllBytes, fe.infoLen - 1, j) /\ out.value = end + 1 .. end + SlackLen
    BY DEF SlackFollowsFile
  <2>1. /\ IsMedium(medium) /\ HasFinalBlock
        /\ out.value = (FinalBlock + (fe.infoLen % BlockSize)) .. (FinalBlock + BlockSize - 1)
    BY DEF IInv, Typed, SlackRead
  <2>2. /\ Count \in Nat /\ fe.infoLen \in Nat /\ DOMAIN fe.ads = 1 .. Count
        /\ AllBytes \in [1 .. Count -> Nat] /\ fe.ads \in Seq(Extent)
    BY <2>1, EntryType
  <2>z. BlockSize \in Nat \ {0}
    BY SizesAssumption
  <2>m. PICK m \in 1 .. Count :
           /\ Recorded(fe.ads[m]) /\ \A j \in 1 .. Count : Recorded(fe.ads[j]) => j <= m
           /\ FinalBlock = Start(fe.ads[m]) + Bytes(Blocks(fe.ads[m].len) - 1)
    BY <2>1, FinalBlockIs
  <2>3. WellFormed /\ ~Sparse /\ Blocks(Total) = Blocks(fe.infoLen) /\ A(Count) < fe.infoLen
    <3>1. fe.ads # << >>
      BY <2>2, <2>m DEF Count
    <3> QED  BY <3>1 DEF Regular, A, Count
  <2>4. Count \in 1 .. Count
    BY <2>2, <2>m
  <2>5. Recorded(fe.ads[Count])
    BY <2>2, <2>3, <2>4 DEF Sparse, WellFormed, A
  <2>6. m = Count
    BY <2>2, <2>m, <2>4, <2>5
  <2>len. PICK len \in Nat : len = fe.ads[Count].len
    BY <2>1, <2>4, EntryType
  <2>st. PICK st \in Nat : st = Start(fe.ads[Count])
    BY <2>1, <2>4, EntryType
  <2>f. PICK f \in Nat : f = fe.infoLen
    BY <2>2
  <2>7. PICK q \in Nat : A(Count) = Bytes(q)
    BY <2>1, <2>3, <2>4, WholeBlocksBefore
  <2>b. PICK b \in Nat : b = Bytes(q)
    BY BytesIs
  <2>8. AllBytes[Count] = len /\ A(Count + 1) = b + len
    <3>1. AllBytes[Count] = len
      BY <2>1, <2>4, <2>len, EntryType
    <3>2. A(Count + 1) = A(Count) + AllBytes[Count]
      BY <2>1, <2>2, <2>4, BeforeIs DEF A
    <3> QED  BY <2>7, <2>b, <3>1, <3>2
  <2>9. b < f /\ f <= b + len /\ Blocks(b + len) = Blocks(f)
    <3>1. Total = b + len
      BY <2>8 DEF Total, A, Count
    <3>2. Total >= fe.infoLen
      BY <2>3 DEF WellFormed
    <3> QED  BY <2>3, <2>7, <2>b, <2>f, <3>1, <3>2
  <2>r. PICK r \in Nat : r = f % BlockSize
    BY <2>z
  <2>10. r # 0 /\ SlackLen # 0
    <3>1. SlackLen # 0
      BY <2>1 DEF HasFinalBlock, HasSlack
    <3>2. \A z \in Nat \ {0} : (z - 0) % z = 0
      OBVIOUS
    <3> QED  BY <2>z, <2>f, <2>r, <3>1, <3>2 DEF SlackLen
  <2>l. PICK l : l = Bytes(Blocks(len) - 1)
    OBVIOUS
  <2>11. l + r = f - b /\ r \in 1 .. BlockSize - 1
    <3>1. f % BlockSize # 0 /\ Bytes(q) < f /\ f <= Bytes(q) + len
      BY <2>b, <2>r, <2>9, <2>10
    <3>2. Blocks(Bytes(q) + len) = Blocks(f)
      BY <2>b, <2>9
    <3>3. /\ Bytes(Blocks(len) - 1) + (f % BlockSize) = f - Bytes(q)
          /\ (f % BlockSize) \in 1 .. BlockSize - 1
      BY <3>1, <3>2, EndInBlock
    <3>4. l + r = f - b
      BY <2>b, <2>r, <2>l, <3>3
    <3> QED  BY <2>r, <3>3, <3>4
  <2>12. SlackLen = BlockSize - r
    <3>1. \A x, z \in Nat : x < z => x % z = x
      OBVIOUS
    <3>2. BlockSize - r \in Nat /\ BlockSize - r < BlockSize
      BY <2>z, <2>11
    <3> QED  BY <2>z, <2>f, <2>r, <3>1, <3>2 DEF SlackLen
  <2>13. IsAt(AllBytes, fe.infoLen - 1, Count)
    <3>1. b <= f - 1 /\ f - 1 < b + len
      BY <2>9
    <3> QED  BY <2>f, <2>7, <2>b, <2>8, <3>1 DEF IsAt, A
  <2>14. out.value = (st + (f - 1 - b)) + 1 .. (st + (f - 1 - b)) + SlackLen
    <3>1. FinalBlock = st + l
      BY <2>m, <2>6, <2>len, <2>st, <2>l
    <3>2. l \in Int /\ l = f - b - r
      <4>1. Blocks(len) - 1 \in Nat
        BY <2>9, BlocksEndIn
      <4>2. l \in Nat
        BY <2>l, <4>1, BytesIs
      <4> QED  BY <2>11, <4>2
    <3>3. FinalBlock + r = (st + (f - 1 - b)) + 1
      BY <3>1, <3>2
    <3>4. FinalBlock + BlockSize - 1 = (st + (f - 1 - b)) + SlackLen
      BY <2>z, <2>12, <3>1, <3>2
    <3> QED  BY <2>1, <2>f, <2>r, <3>3, <3>4
  <2>15. st + (f - 1 - b) = Start(fe.ads[Count]) + (fe.infoLen - 1 - Before(AllBytes, Count))
    BY <2>st, <2>f, <2>7, <2>b DEF A
  <2> QED  BY <2>2, <2>4, <2>13, <2>14, <2>15
<1> QED  BY <1>1, Invariance, PTL

=============================================================================
