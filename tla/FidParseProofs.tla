--------------------------- MODULE FidParseProofs ---------------------------
(* Proofs about the parse of a directory's descriptors, for every width of the
   numbers and every set of directories, whatever stands in their buffers. *)
EXTENDS FidParse, NumberLemmas, TLAPS

-----------------------------------------------------------------------------
(* What the fields of a descriptor make. *)

LEMMA FidType ==
    ASSUME IsDirectory(dir), NEW p \in DOMAIN dir.fid, NEW t \in Tags
    PROVE  /\ dir.fid[p].crc \in Nat /\ dir.fid[p].idLen[t] \in Nat /\ dir.fid[p].iuLen[t] \in Nat
           /\ Lbn(dir.fid[p], t) \in Nat
           /\ p \in Nat /\ p < dir.len /\ dir.len \in Nat /\ dir.part \in Nat
<1>1. dir.fid[p] \in Fid
  BY DEF IsDirectory
<1>2. t + 6 \in {22, 24, 26} /\ t + 8 \in {22, 24, 26}
  BY DEF Tags
<1>3. HalfBase \in Nat /\ HalfBase > 0
  BY NumbersAssumption
<1> PICK f : f = dir.fid[p]
  OBVIOUS
<1>4. f.half[t + 6] \in Nat /\ f.half[t + 8] \in Nat
  BY <1>1, <1>2, <1>3 DEF Fid
<1>5. HalfBase * f.half[t + 8] \in Nat
  BY <1>3, <1>4
<1>6. Lbn(f, t) \in Nat
  BY <1>4, <1>5 DEF Lbn
<1>7. p \in Nat /\ p < dir.len /\ dir.len \in Nat
  BY DEF IsDirectory
<1>8. dir.part \in Nat
  BY <1>3 DEF IsDirectory, MaxU32
<1> QED  BY <1>1, <1>6, <1>7, <1>8 DEF Fid

LEMMA AdvanceIs ==
    ASSUME NEW f, f.crc \in Nat, NEW t \in Tags
    PROVE  /\ Advance(f, t) \in Nat /\ Advance(f, t) >= MinFid(t) /\ MinFid(t) \in {36, 38}
           /\ 16 + f.crc >= MinFid(t) =>
                Advance(f, t) = RoundUp4(16 + f.crc) /\ Advance(f, t) % 4 = 0
           /\ Advance(f, t) >= 16 + f.crc
<1> PICK n \in Nat : n = 16 + f.crc
  OBVIOUS
<1> PICK r : r = RoundUp4(n)
  OBVIOUS
<1>1. r \in Nat /\ r >= n /\ r % 4 = 0
  BY DEF RoundUp4
<1>2. MinFid(t) \in {36, 38}
  BY DEF Tags, MinFid
<1>3. Advance(f, t) = IF r < MinFid(t) THEN MinFid(t) ELSE r
  BY DEF Advance, AtLeast
<1> QED  BY <1>1, <1>2, <1>3

-----------------------------------------------------------------------------
(* The inductive invariant. *)

Positions == DOMAIN dir.fid
Entry == [at : Nat, name : Nat \X Nat, is_dir : BOOLEAN, size : Nat, fe_lba : Nat]

Typed ==
    /\ IsDirectory(dir) /\ pc \in {"detect", "parse", "done"}
    /\ off \in 0 .. dir.len /\ tagSize \in Tags /\ entries \in Seq(Entry)

(* Detecting: everything before the cursor has been looked at. *)
Detecting ==
    /\ pc = "detect" => entries = << >> /\ off % 4 = 0
                        /\ \A p \in Positions : p % 4 = 0 => off <= p
    /\ pc # "detect" /\ (\A p \in Positions : p % 4 = 0 /\ p + 28 <= dir.len) =>
          \/ Positions = {}
          \/ \E p \in Positions : (\A q \in Positions : p <= q) /\ tagSize = Detected(dir.fid[p])

(* Listed: each entry is a descriptor's, in order, before the cursor. *)
Listed ==
    \A n \in DOMAIN entries : \A p : entries[n].at = p =>
        /\ p \in Positions /\ Listable(p) /\ entries[n] = EntryAt(p, dir.fid[p], tagSize)
        /\ EndOf(p) <= off /\ \A m \in 1 .. n - 1 : \A q : entries[m].at = q => EndOf(q) <= p

(* Passed: nothing is passed without being listed. *)
Passed ==
    pc # "detect" /\ OnGrid =>
        /\ off % 4 = 0
        /\ \A p \in Positions :
              /\ Listable(p) /\ Free(p) /\ p < off => \E n \in DOMAIN entries : entries[n].at = p
              /\ pc = "done" /\ Free(p) => p < off

IInv == Typed /\ Detecting /\ Listed /\ Passed

\* What the buffer says does not change while one tag size is in force.
LEMMA SameBuffer ==
    ASSUME UNCHANGED <<dir, tagSize>>
    PROVE  /\ Positions' = Positions /\ OnGrid' = OnGrid
           /\ \A p : EndOf(p)' = EndOf(p) /\ Listable(p)' = Listable(p) /\ Free(p)' = Free(p)
           /\ \A p, f, t : EntryAt(p, f, t)' = EntryAt(p, f, t)
<1>1. \A p : EndOf(p)' = EndOf(p) /\ Listable(p)' = Listable(p)
  BY DEF EndOf, Listable
<1>2. \A p : Free(p)' = Free(p)
  BY <1>1 DEF Free
<1>3. \A p, f, t : EntryAt(p, f, t)' = EntryAt(p, f, t)
  BY DEF EntryAt, NameSpan, SizeAt, Address
<1> QED  BY <1>1, <1>2, <1>3 DEF Positions, OnGrid

LEMMA EndType ==
    ASSUME Typed, NEW p \in Positions
    PROVE  /\ p \in Nat /\ EndOf(p) \in Nat /\ EndOf(p) >= p + MinFid(tagSize)
           /\ MinFid(tagSize) \in {36, 38} /\ p < dir.len /\ dir.len \in Nat
           /\ OnGrid => p % 4 = 0 /\ EndOf(p) % 4 = 0
<1>1. /\ dir.fid[p].crc \in Nat /\ p \in Nat /\ p < dir.len /\ dir.len \in Nat /\ tagSize \in Tags
  BY FidType DEF Typed, Positions
<1>2. /\ Advance(dir.fid[p], tagSize) \in Nat /\ Advance(dir.fid[p], tagSize) >= MinFid(tagSize)
      /\ MinFid(tagSize) \in {36, 38}
      /\ 16 + dir.fid[p].crc >= MinFid(tagSize) => Advance(dir.fid[p], tagSize) % 4 = 0
  BY <1>1, AdvanceIs
<1> PICK a : a = Advance(dir.fid[p], tagSize)
  OBVIOUS
<1>3. EndOf(p) = p + a
  BY DEF EndOf
<1>4. OnGrid => p % 4 = 0 /\ a % 4 = 0
  BY <1>2 DEF OnGrid, Positions
<1> QED  BY <1>1, <1>2, <1>3, <1>4

LEMMA EntryType ==
    ASSUME Typed, NEW p \in Positions, Listable(p)
    PROVE  /\ EntryAt(p, dir.fid[p], tagSize) \in Entry
           /\ Address(dir.fid[p]) \in 0 .. MaxU32
<1> PICK f : f = dir.fid[p]
  OBVIOUS
<1>1. /\ f.idLen[tagSize] \in Nat /\ f.iuLen[tagSize] \in Nat /\ Lbn(f, tagSize) \in Nat
      /\ p \in Nat /\ dir.len \in Nat /\ dir.part \in Nat
  BY FidType DEF Typed, Positions
<1>. tagSize \in Nat
  BY DEF Typed, Tags
<1>2. Address(f) \in Nat /\ Address(f) <= MaxU32 /\ MaxU32 \in Int
  BY <1>1, NumbersAssumption DEF Address, Listable, MaxU32
<1>3. SizeAt(Address(f)) \in Nat
  BY DEF SizeAt, Typed, IsDirectory
<1>4. NameSpan(p, f, tagSize) \in Nat \X Nat
  BY <1>1 DEF NameSpan, AtMost
<1> QED  BY <1>1, <1>2, <1>3, <1>4 DEF EntryAt, Entry

LEMMA InvInit == Init => IInv
<1> SUFFICES ASSUME Init PROVE IInv
  OBVIOUS
<1>1. IsDirectory(dir)
  BY DirectoriesAssumption DEF Init
<1>2. dir.len \in Nat /\ \A p \in Positions : p \in Nat
  BY <1>1 DEF IsDirectory, Positions
<1>3. entries \in Seq(Entry) /\ 16 \in Tags
  BY DEF Init, Tags
<1>4. Typed
  BY <1>1, <1>2, <1>3 DEF Init, Typed
<1> QED  BY <1>2, <1>4 DEF Init, IInv, Detecting, Listed, Passed

LEMMA StartStep ==
    ASSUME IInv, NEW t \in Tags, StartParse(t), UNCHANGED <<dir, entries>>, pc = "detect",
           (\A p \in Positions : p % 4 = 0 /\ p + 28 <= dir.len) =>
             \/ Positions = {}
             \/ \E p \in Positions : (\A q \in Positions : p <= q) /\ t = Detected(dir.fid[p])
    PROVE  IInv'
<1>1. pc' = "parse" /\ off' = 0 /\ tagSize' = t /\ dir' = dir /\ entries' = entries /\ entries = << >>
  BY DEF StartParse, IInv, Detecting
<1>2. Typed'
  BY <1>1 DEF IInv, Typed, IsDirectory
<1>3. Detecting'
  BY <1>1 DEF Detecting, Positions
<1>4. Listed' /\ \A p \in Positions' : p \in Nat
  BY <1>1, <1>2 DEF Listed, Typed, IsDirectory, Positions
<1>5. Passed'
  BY <1>1, <1>4 DEF Passed
<1> QED  BY <1>2, <1>3, <1>4, <1>5 DEF IInv

LEMMA DetectStep ==
    ASSUME IInv, DetectSkip \/ DetectFirst \/ DetectNone
    PROVE  IInv'
<1>0. /\ Typed /\ pc = "detect" /\ entries = << >> /\ off \in Nat /\ off % 4 = 0 /\ dir.len \in Nat
      /\ \A p \in Positions : p \in Nat /\ (p % 4 = 0 => off <= p)
  BY DEF IInv, Detecting, Typed, IsDirectory, Positions, DetectSkip, DetectFirst, DetectNone
<1>1. CASE DetectSkip
  <2>1. off' = off + 4 /\ off + 28 <= dir.len /\ off \notin Positions
        /\ UNCHANGED <<dir, pc, tagSize, entries>>
    BY <1>1 DEF DetectSkip, AtFid, Positions
  <2>2. off' \in 0 .. dir.len /\ off' % 4 = 0
    BY <1>0, <2>1
  <2>3. \A p \in Positions : p % 4 = 0 => off' <= p
    BY <1>0, <2>1
  <2> QED  BY <1>0, <2>1, <2>2, <2>3 DEF IInv, Typed, Detecting, Listed, Passed, Positions
<1>2. CASE DetectFirst
  <2>1. off \in Positions /\ StartParse(Detected(dir.fid[off])) /\ UNCHANGED <<dir, entries>>
    BY <1>2 DEF DetectFirst, AtFid, Positions
  <2>2. Detected(dir.fid[off]) \in Tags
    BY DEF Detected, Tags
  <2>3. (\A p \in Positions : p % 4 = 0) => \A q \in Positions : off <= q
    BY <1>0
  <2> QED  BY <1>0, <2>1, <2>2, <2>3, StartStep
<1>3. CASE DetectNone
  <2>1. StartParse(16) /\ UNCHANGED <<dir, entries>> /\ off + 28 > dir.len
    BY <1>3 DEF DetectNone
  <2>2. (\A p \in Positions : p % 4 = 0 /\ p + 28 <= dir.len) => Positions = {}
    BY <1>0, <2>1
  <2> QED  BY <1>0, <2>1, <2>2, StartStep DEF Tags
<1> QED  BY <1>1, <1>2, <1>3

\* The three steps that move the cursor over the descriptors or past nothing
\* keep what was passed listed, and a step that ends the parse leaves none.
LEMMA SkipStep == IInv /\ SkipOther => IInv'
<1> SUFFICES ASSUME IInv, SkipOther PROVE IInv'
  OBVIOUS
<1>1. /\ pc = "parse" /\ off \notin Positions /\ off' = off + 4 /\ off + MinFid(tagSize) <= dir.len
      /\ UNCHANGED <<dir, pc, tagSize, entries>> /\ off \in Nat /\ tagSize \in Tags /\ dir.len \in Nat
  BY DEF SkipOther, Room, AtFid, Positions, IInv, Typed, IsDirectory
<1>2. MinFid(tagSize) \in {36, 38}
  BY <1>1 DEF Tags, MinFid
<1>3. off' \in 0 .. dir.len
  BY <1>1, <1>2
<1>4. Typed' /\ Detecting'
  BY <1>1, <1>3 DEF IInv, Typed, Detecting, Positions
<1>5. Listed'
  <2> SUFFICES ASSUME NEW n \in DOMAIN entries, NEW p, entries[n].at = p
               PROVE  /\ p \in Positions /\ Listable(p)
                      /\ entries[n] = EntryAt(p, dir.fid[p], tagSize) /\ EndOf(p) <= off + 4
                      /\ \A m \in 1 .. n - 1 : \A q : entries[m].at = q => EndOf(q) <= p
    BY <1>1, SameBuffer DEF Listed
  <2>1. EndOf(p) \in Nat
    BY EndType DEF IInv, Listed
  <2> QED  BY <1>1, <2>1 DEF IInv, Listed
<1>6. Passed'
  <2> SUFFICES ASSUME OnGrid
               PROVE  /\ (off + 4) % 4 = 0
                      /\ \A p \in Positions : Listable(p) /\ Free(p) /\ p < off + 4 =>
                            \E n \in DOMAIN entries : entries[n].at = p
    BY <1>1, SameBuffer DEF Passed
  <2>1. off % 4 = 0
    BY <1>1 DEF IInv, Passed
  <2>2. ASSUME NEW p \in Positions, p < off + 4 PROVE p < off
    BY <1>1, <2>1, <2>2, EndType DEF IInv
  <2> QED  BY <1>1, <2>1, <2>2 DEF IInv, Passed
<1> QED  BY <1>4, <1>5, <1>6 DEF IInv

LEMMA EndStep ==
    ASSUME IInv, StopAtOverrun \/ ParseEnds
    PROVE  IInv'
<1>1. /\ pc = "parse" /\ pc' = "done" /\ UNCHANGED <<dir, off, tagSize, entries>>
      /\ off \in Nat /\ dir.len \in Nat
  BY DEF StopAtOverrun, ParseEnds, IInv, Typed, IsDirectory
<1>2. Typed' /\ Detecting'
  BY <1>1 DEF IInv, Typed, Detecting, Positions
<1>3. Listed'
  BY <1>1, SameBuffer DEF IInv, Listed
<1>4. ASSUME NEW p \in Positions, Free(p), p >= off PROVE FALSE
  <2>1. EndOf(p) <= dir.len /\ EndOf(p) \in Nat /\ p \in Nat
        /\ EndOf(p) >= p + MinFid(tagSize) /\ MinFid(tagSize) \in {36, 38}
    BY <1>4, EndType DEF IInv, Free
  <2>2. CASE ParseEnds
    BY <1>1, <1>4, <2>1, <2>2 DEF ParseEnds, Room
  <2>3. CASE StopAtOverrun
    <3>1. off \in Positions /\ EndOf(off) > dir.len
      BY <2>3 DEF StopAtOverrun, AtFid, Positions, Overruns, Here, EndOf
    <3>2. CASE p = off
      BY <1>1, <2>1, <3>1, <3>2
    <3>3. CASE off < p
      BY <1>1, <1>4, <3>1, <3>3, EndType DEF Free, Positions, IInv
    <3> QED  BY <1>1, <1>4, <2>1, <3>2, <3>3
  <2> QED  BY <2>2, <2>3
<1>5. \A p \in Positions : p \in Nat
  BY EndType DEF IInv
<1>6. Passed'
  <2> SUFFICES ASSUME OnGrid
               PROVE  /\ off % 4 = 0
                      /\ \A p \in Positions :
                            /\ Listable(p) /\ Free(p) /\ p < off =>
                                  \E n \in DOMAIN entries : entries[n].at = p
                            /\ Free(p) => p < off
    BY <1>1, SameBuffer DEF Passed
  <2> QED  BY <1>1, <1>4, <1>5 DEF IInv, Passed
<1> QED  BY <1>2, <1>3, <1>6 DEF IInv

\* A step over a whole descriptor leaves the cursor at its end, inside the
\* buffer, and jumps over no free descriptor.
LEMMA WholeStep ==
    ASSUME IInv, Whole
    PROVE  /\ pc = "parse" /\ off \in Positions /\ off \in Nat /\ tagSize \in Tags
           /\ EndOf(off) \in Nat /\ EndOf(off) > off /\ EndOf(off) <= dir.len
           /\ \A p \in Positions : Free(p) /\ p < EndOf(off) => p <= off
           /\ OnGrid => EndOf(off) % 4 = 0
           /\ Here = dir.fid[off] /\ off + Advance(Here, tagSize) = EndOf(off)
<1>1. pc = "parse" /\ off \in Positions /\ tagSize \in Tags /\ EndOf(off) <= dir.len
  <2>1. pc = "parse" /\ off \in Positions /\ tagSize \in Tags /\ ~(EndOf(off) > dir.len)
    BY DEF Whole, AtFid, Positions, Overruns, Here, EndOf, IInv, Typed
  <2>2. EndOf(off) \in Nat /\ dir.len \in Nat
    BY <2>1, EndType DEF IInv
  <2> QED  BY <2>1, <2>2
<1>2. EndOf(off) \in Nat /\ off \in Nat /\ EndOf(off) > off
  BY <1>1, EndType DEF IInv
<1>3. \A p \in Positions : Free(p) /\ p < EndOf(off) => p <= off
  <2> SUFFICES ASSUME NEW p \in Positions, Free(p), off < p PROVE EndOf(off) <= p
    BY <1>2, EndType DEF IInv
  <2> QED  BY <1>1 DEF Free, Positions
<1>4. OnGrid => EndOf(off) % 4 = 0
  BY <1>1, EndType DEF IInv
<1> QED  BY <1>1, <1>2, <1>3, <1>4 DEF Here, EndOf

LEMMA SkipEntryStep == IInv /\ SkipEntry => IInv'
<1> SUFFICES ASSUME IInv, SkipEntry PROVE IInv'
  OBVIOUS
<1>1. /\ off' = EndOf(off) /\ UNCHANGED <<dir, pc, tagSize, entries>> /\ ~Listable(off)
      /\ Whole /\ pc = "parse" /\ off \in Positions /\ off \in Nat
      /\ EndOf(off) \in Nat /\ EndOf(off) > off /\ EndOf(off) <= dir.len
  <2>1. Whole
    BY DEF SkipEntry
  <2>2. Address(Here) \in Nat /\ MaxU32 \in Int /\ Address(Here) = dir.part + Lbn(dir.fid[off], tagSize)
    BY <2>1, WholeStep, FidType, NumbersAssumption DEF IInv, Typed, Positions, Address, MaxU32
  <2> QED  BY <2>1, <2>2, WholeStep DEF SkipEntry, PastSkipped, Listable
<1>2. Typed' /\ Detecting'
  BY <1>1 DEF IInv, Typed, Detecting, Positions
<1>3. Listed'
  <2> SUFFICES ASSUME NEW n \in DOMAIN entries, NEW p, entries[n].at = p
               PROVE  /\ p \in Positions /\ Listable(p)
                      /\ entries[n] = EntryAt(p, dir.fid[p], tagSize) /\ EndOf(p) <= EndOf(off)
                      /\ \A m \in 1 .. n - 1 : \A q : entries[m].at = q => EndOf(q) <= p
    BY <1>1, SameBuffer DEF Listed
  <2>1. EndOf(p) \in Nat
    BY EndType DEF IInv, Listed
  <2> QED  BY <1>1, <2>1 DEF IInv, Listed
<1>4. Passed'
  <2> SUFFICES ASSUME OnGrid
               PROVE  /\ EndOf(off) % 4 = 0
                      /\ \A p \in Positions : Listable(p) /\ Free(p) /\ p < EndOf(off) =>
                            \E n \in DOMAIN entries : entries[n].at = p
    BY <1>1, SameBuffer DEF Passed
  <2>1. \A p \in Positions : Listable(p) /\ Free(p) /\ p < EndOf(off) => p < off
    BY <1>1, WholeStep, EndType DEF IInv
  <2> QED  BY <1>1, <2>1, WholeStep DEF IInv, Passed
<1> QED  BY <1>2, <1>3, <1>4 DEF IInv

LEMMA TakeStep == IInv /\ TakeEntry => IInv'
<1> SUFFICES ASSUME IInv, TakeEntry PROVE IInv'
  OBVIOUS
<1> PICK e : e = EntryAt(off, dir.fid[off], tagSize)
  OBVIOUS
<1> PICK N \in Nat : N = Len(entries)
  BY DEF IInv, Typed
<1>1. /\ off' = EndOf(off) /\ UNCHANGED <<dir, pc, tagSize>> /\ entries' = Append(entries, e)
      /\ Listable(off) /\ Whole /\ pc = "parse" /\ off \in Positions /\ off \in Nat
      /\ EndOf(off) \in Nat /\ EndOf(off) > off /\ EndOf(off) <= dir.len
  BY WholeStep DEF TakeEntry, Listable, Address
<1>2. e \in Entry /\ e.at = off
  BY <1>1, EntryType DEF IInv, EntryAt
<1>3. /\ entries \in Seq(Entry) /\ entries' \in Seq(Entry) /\ DOMAIN entries = 1 .. N
      /\ DOMAIN entries' = 1 .. N + 1
      /\ \A n \in 1 .. N : entries'[n] = entries[n]
      /\ entries'[N + 1] = e
  BY <1>1, <1>2 DEF IInv, Typed
<1>4. Typed' /\ Detecting'
  BY <1>1, <1>3 DEF IInv, Typed, Detecting, Positions
<1>5. Listed'
  <2> SUFFICES ASSUME NEW n \in 1 .. N + 1, NEW p, entries'[n].at = p
               PROVE  /\ p \in Positions /\ Listable(p)
                      /\ entries'[n] = EntryAt(p, dir.fid[p], tagSize) /\ EndOf(p) <= EndOf(off)
                      /\ \A m \in 1 .. n - 1 : \A q : entries'[m].at = q => EndOf(q) <= p
    BY <1>1, <1>3, SameBuffer DEF Listed
  <2>1. CASE n \in 1 .. N
    <3>1. p \in Positions /\ EndOf(p) \in Nat /\ EndOf(p) <= off
      BY <1>3, <2>1, EndType DEF IInv, Listed
    <3> QED  BY <1>1, <1>3, <2>1, <3>1 DEF IInv, Listed
  <2>2. CASE n = N + 1
    BY <1>1, <1>2, <1>3, <2>2 DEF IInv, Listed
  <2> QED  BY <2>1, <2>2
<1>6. Passed'
  <2> SUFFICES ASSUME OnGrid
               PROVE  /\ EndOf(off) % 4 = 0
                      /\ \A p \in Positions : Listable(p) /\ Free(p) /\ p < EndOf(off) =>
                            \E n \in DOMAIN entries' : entries'[n].at = p
    BY <1>1, SameBuffer DEF Passed
  <2>1. \A p \in Positions : Free(p) /\ p < EndOf(off) => p < off \/ p = off
    BY <1>1, WholeStep, EndType DEF IInv
  <2>2. \A p \in Positions : Listable(p) /\ Free(p) /\ p < off => \E n \in 1 .. N : entries[n].at = p
    BY <1>1, <1>3 DEF IInv, Passed
  <2>3. EndOf(off) % 4 = 0
    BY <1>1, WholeStep
  <2>4. ASSUME NEW p \in Positions, Listable(p), Free(p), p < EndOf(off)
        PROVE  \E n \in DOMAIN entries' : entries'[n].at = p
    <3>1. CASE p < off
      BY <1>3, <2>2, <2>4, <3>1
    <3>2. CASE p = off
      BY <1>2, <1>3, <3>2
    <3> QED  BY <2>1, <2>4, <3>1, <3>2
  <2> QED  BY <2>3, <2>4
<1> QED  BY <1>4, <1>5, <1>6 DEF IInv

LEMMA InvStep == IInv /\ [Next]_vars => IInv'
<1> SUFFICES ASSUME IInv, [Next]_vars PROVE IInv'
  OBVIOUS
<1>1. CASE UNCHANGED vars
  <2>1. UNCHANGED <<dir, pc, off, tagSize, entries>>
    BY <1>1 DEF vars
  <2>2. Typed' /\ Detecting'
    BY <2>1 DEF IInv, Typed, Detecting, Positions
  <2> QED  BY <2>1, <2>2, SameBuffer DEF IInv, Listed, Passed
<1> QED  BY <1>1, DetectStep, SkipStep, EndStep, SkipEntryStep, TakeStep DEF Next

LEMMA Inductive == Spec => []IInv
<1> QED  BY InvInit, InvStep, PTL DEF Spec

-----------------------------------------------------------------------------
(* What the invariant gives. *)

LEMMA TypeFollows == IInv => TypeOK
<1> SUFFICES ASSUME IInv, NEW n \in DOMAIN entries
             PROVE  /\ entries[n].at \in DOMAIN dir.fid /\ entries[n].is_dir \in BOOLEAN
                    /\ entries[n].fe_lba \in 0 .. MaxU32 /\ entries[n].size \in Nat
  BY DEF IInv, Typed, TypeOK
<1> PICK p : p = entries[n].at
  OBVIOUS
<1>1. p \in Positions /\ Listable(p) /\ entries[n] = EntryAt(p, dir.fid[p], tagSize)
  BY DEF IInv, Listed
<1>2. entries[n] \in Entry
  BY <1>1, EntryType DEF IInv
<1>3. entries[n].fe_lba = Address(dir.fid[p])
  BY <1>1 DEF EntryAt
<1> QED  BY <1>1, <1>2, <1>3, EntryType DEF IInv, Entry, Positions

\* Both cursors stay in the buffer and every entry is what an entry is, for any
\* lengths and numbers the buffer holds.
THEOREM TypeCorrect == Spec => []TypeOK
<1> QED  BY TypeFollows, Inductive, PTL

\* On the grid no descriptor that is free and has an address goes unlisted, in
\* any buffer, damaged or not.
THEOREM SkipsNothingAlways == Spec => []SkipsNothing
<1>1. IInv => SkipsNothing
  BY DEF IInv, Passed, SkipsNothing, Positions
<1> QED  BY <1>1, Inductive, PTL

LEMMA DescriptorsFollow == IInv => EntriesAreDescriptors
<1> SUFFICES ASSUME IInv, NEW n \in DOMAIN entries
             PROVE  LET e == entries[n]
                        f == dir.fid[e.at]
                    IN  /\ ~IsParent(f, tagSize)
                        /\ e.fe_lba = dir.part + Lbn(f, tagSize)
                        /\ e.name = <<0, 0>> \/ (/\ e.at + MinFid(tagSize) <= e.name[1]
                                                 /\ e.name[1] < e.name[2] /\ e.name[2] <= dir.len)
                        /\ n > 1 => e.at >= EndOf(entries[n - 1].at)
  BY DEF EntriesAreDescriptors, EndOf
<1> PICK p : p = entries[n].at
  OBVIOUS
<1> PICK f : f = dir.fid[p]
  OBVIOUS
<1>1. p \in Positions /\ Listable(p) /\ entries[n] = EntryAt(p, f, tagSize)
  BY DEF IInv, Listed
<1>2. /\ f.idLen[tagSize] \in Nat /\ f.iuLen[tagSize] \in Nat /\ p \in Nat /\ dir.len \in Nat
      /\ tagSize \in Tags
  BY <1>1, FidType DEF IInv, Typed, Positions
<1>3. ~IsParent(f, tagSize) /\ entries[n].fe_lba = dir.part + Lbn(f, tagSize)
  BY <1>1 DEF Listable, EntryAt, Address
<1>4. \/ NameSpan(p, f, tagSize) = <<0, 0>>
      \/ /\ p + MinFid(tagSize) <= NameSpan(p, f, tagSize)[1]
         /\ NameSpan(p, f, tagSize)[1] < NameSpan(p, f, tagSize)[2]
         /\ NameSpan(p, f, tagSize)[2] <= dir.len
  <2>1. PICK t \in Nat : t = tagSize
    BY <1>2 DEF Tags
  <2>2. PICK start \in Nat : start = p + t + 20 + f.iuLen[tagSize]
    BY <1>2
  <2>3. PICK end : end = AtMost(start + f.idLen[tagSize], dir.len)
    OBVIOUS
  <2>4. end \in Nat /\ end <= dir.len
    BY <1>2, <2>3 DEF AtMost
  <2>5. NameSpan(p, f, tagSize) = IF end > start THEN <<start, end>> ELSE <<0, 0>>
    BY <2>1, <2>2, <2>3 DEF NameSpan
  <2>6. p + MinFid(tagSize) <= start
    BY <1>2, <2>1, <2>2 DEF MinFid
  <2> QED  BY <2>4, <2>5, <2>6
<1>5. n > 1 => p >= EndOf(entries[n - 1].at)
  <2> SUFFICES ASSUME n > 1 PROVE p >= EndOf(entries[n - 1].at)
    OBVIOUS
  <2>1. n - 1 \in DOMAIN entries /\ n - 1 \in 1 .. n - 1
    BY DEF IInv, Typed
  <2>2. entries[n - 1].at \in Positions /\ EndOf(entries[n - 1].at) <= p
    BY <2>1 DEF IInv, Listed
  <2>3. EndOf(entries[n - 1].at) \in Nat
    BY <2>2, EndType DEF IInv
  <2> QED  BY <1>2, <2>2, <2>3
<1> QED  BY <1>1, <1>3, <1>4, <1>5 DEF EntryAt

\* Whatever the buffer holds, entries come from descriptors that do not overlap,
\* and say what those say.
THEOREM EntriesAreDescriptorsAlways == Spec => []EntriesAreDescriptors
<1> QED  BY DescriptorsFollow, Inductive, PTL

-----------------------------------------------------------------------------
(* A directory that is well formed. *)

\* Block numbers below 65536 are told apart by the tag they stand behind.
LEMMA Tells ==
    ASSUME NEW f \in Fid, NEW t \in Tags, Lbn(f, t) < HalfBase, t = 18 => Lbn(f, t) > 0
    PROVE  Detected(f) = t
<1> PICK a, b, c : a = f.half[22] /\ b = f.half[24] /\ c = f.half[26]
  OBVIOUS
<1>1. a \in Nat /\ b \in Nat /\ c \in Nat /\ HalfBase \in Nat /\ HalfBase > 0
  BY NumbersAssumption DEF Fid
<1>2. Lbn(f, 16) = a + HalfBase * b /\ Lbn(f, 18) = b + HalfBase * c
  BY DEF Lbn
<1>3. CASE t = 16
  <2>1. HalfBase * b \in Nat
    BY <1>1
  <2>2. Lbn(f, 16) \in Nat
    BY <1>1, <1>2, <2>1
  <2> QED  BY <1>1, <1>3, <2>2 DEF Detected
<1>4. CASE t = 18
  <2>1. b + HalfBase * c < HalfBase /\ b + HalfBase * c > 0
    BY <1>2, <1>4
  <2>2. HalfBase * c \in Nat /\ (c > 0 => HalfBase * c >= HalfBase)
    <3>1. c > 0 => HalfBase * c = HalfBase + HalfBase * (c - 1) /\ HalfBase * (c - 1) \in Nat
      BY <1>1
    <3> QED  BY <1>1, <3>1
  <2>3. b > 0
    BY <1>1, <2>1, <2>2
  <2>4. HalfBase * b >= HalfBase /\ HalfBase * b \in Nat
    <3>1. HalfBase * b = HalfBase + HalfBase * (b - 1) /\ HalfBase * (b - 1) \in Nat
      BY <1>1, <2>3
    <3> QED  BY <1>1, <3>1
  <2> QED  BY <1>1, <1>2, <1>4, <2>1, <2>4 DEF Detected
<1> QED  BY <1>3, <1>4 DEF Tags

\* In a well-formed directory of the detected size every descriptor is free and
\* on the grid.
LEMMA WellFormedIs ==
    ASSUME Typed, WellFormed(dir), tagSize = dir.layout
    PROVE  /\ OnGrid /\ \A p \in Positions : Free(p)
           /\ \A p \in Positions : LET f == dir.fid[p]
                                   IN  p + MinFid(tagSize) + f.iuLen[tagSize] + f.idLen[tagSize] <= dir.len
<1>1. ASSUME NEW p \in Positions
      PROVE  /\ p % 4 = 0 /\ EndOf(p) <= dir.len
             /\ 16 + dir.fid[p].crc >= MinFid(tagSize)
             /\ EndOf(p) >= p + 16 + dir.fid[p].crc
             /\ 16 + dir.fid[p].crc >= MinFid(tagSize) + dir.fid[p].iuLen[tagSize] + dir.fid[p].idLen[tagSize]
             /\ \A q \in Positions : q > p => q >= EndOf(p)
  <2> PICK f : f = dir.fid[p]
    OBVIOUS
  <2>1. /\ f.crc \in Nat /\ f.idLen[tagSize] \in Nat /\ f.iuLen[tagSize] \in Nat /\ p \in Nat
        /\ tagSize \in Tags
    BY FidType DEF Typed, Positions
  <2>2. 16 + f.crc >= MinFid(tagSize) + f.iuLen[tagSize] + f.idLen[tagSize]
    BY DEF WellFormed, Positions
  <2>3. MinFid(tagSize) \in Nat
    BY <2>1, AdvanceIs
  <2>4. 16 + f.crc >= MinFid(tagSize)
    BY <2>1, <2>2, <2>3
  <2>5. Advance(f, tagSize) = RoundUp4(16 + f.crc) /\ Advance(f, tagSize) >= 16 + f.crc
        /\ Advance(f, tagSize) \in Nat
    BY <2>1, <2>4, AdvanceIs
  <2>6. EndOf(p) = p + RoundUp4(16 + f.crc)
    BY <2>5 DEF EndOf
  <2>7. p % 4 = 0 /\ EndOf(p) <= dir.len /\ \A q \in Positions : q > p => q >= EndOf(p)
    BY <2>6 DEF WellFormed, Positions
  <2>8. EndOf(p) >= p + 16 + f.crc
    BY <2>1, <2>5, <2>6
  <2> QED  BY <2>2, <2>4, <2>7, <2>8
<1>2. OnGrid
  BY <1>1 DEF OnGrid, Positions
<1>3. \A p \in Positions : p \in Nat /\ EndOf(p) \in Nat
  BY EndType
<1>4. \A p \in Positions : Free(p)
  BY <1>1, <1>3 DEF Free, Positions
<1>5. ASSUME NEW p \in Positions
      PROVE  p + MinFid(tagSize) + dir.fid[p].iuLen[tagSize] + dir.fid[p].idLen[tagSize] <= dir.len
  <2>1. /\ dir.fid[p].crc \in Nat /\ dir.fid[p].idLen[tagSize] \in Nat /\ dir.fid[p].iuLen[tagSize] \in Nat
        /\ p \in Nat /\ dir.len \in Nat /\ MinFid(tagSize) \in Nat /\ EndOf(p) \in Nat
    <3>1. tagSize \in Tags
      BY DEF Typed
    <3>2. dir.fid[p].crc \in Nat /\ dir.fid[p].idLen[tagSize] \in Nat /\ dir.fid[p].iuLen[tagSize] \in Nat
      BY <3>1, FidType DEF Typed, Positions
    <3>3. p \in Nat /\ dir.len \in Nat /\ MinFid(tagSize) \in Nat
      <4>1. tagSize + 20 \in Nat
        BY <3>1 DEF Tags
      <4>2. dir.len \in Nat
        BY FidType DEF Typed, Positions
      <4> QED  BY <1>3, <4>1, <4>2 DEF MinFid
    <3> QED  BY <1>3, <3>2, <3>3
  <2> QED  BY <1>1, <2>1
<1> QED  BY <1>2, <1>4, <1>5

LEMMA SizeDetected ==
    ASSUME IInv, pc # "detect", WellFormed(dir), Tellable(dir), Positions # {}
    PROVE  tagSize = dir.layout
<1>1. Typed /\ IsDirectory(dir) /\ dir.layout \in Tags
  BY DEF IInv, Typed, IsDirectory
<1>2. ASSUME NEW p \in Positions PROVE p \in Nat /\ p % 4 = 0 /\ p + 28 <= dir.len
  <2> PICK t \in Tags : t = dir.layout
    BY <1>1
  <2> PICK f : f = dir.fid[p]
    OBVIOUS
  <2>1. /\ f.crc \in Nat /\ f.idLen[t] \in Nat /\ f.iuLen[t] \in Nat /\ p \in Nat /\ dir.len \in Nat
    BY <1>1, FidType DEF Positions
  <2>2. /\ p % 4 = 0 /\ p + RoundUp4(16 + f.crc) <= dir.len
        /\ 16 + f.crc >= MinFid(t) + f.iuLen[t] + f.idLen[t]
    BY DEF WellFormed, Positions
  <2>3. MinFid(t) \in {36, 38}
    BY DEF MinFid, Tags
  <2>4. 16 + f.crc \in Nat /\ 16 + f.crc >= 36
    BY <2>1, <2>2, <2>3
  <2>5. \A n \in Nat : RoundUp4(n) \in Nat /\ RoundUp4(n) >= n
    BY DEF RoundUp4
  <2>6. RoundUp4(16 + f.crc) \in Nat /\ RoundUp4(16 + f.crc) >= 36
    BY <2>4, <2>5
  <2> QED  BY <2>1, <2>2, <2>6
<1>3. PICK p \in Positions : (\A q \in Positions : p <= q) /\ tagSize = Detected(dir.fid[p])
  BY <1>2 DEF IInv, Detecting
<1>4. Positions \in SUBSET Nat
  BY <1>2
<1>5. Min(Positions) \in Positions /\ \A q \in Positions : Min(Positions) <= q
  BY <1>4, MinOf
<1>6. Min(Positions) = p
  BY <1>2, <1>3, <1>5
<1>7. FirstLbn(dir) = Lbn(dir.fid[p], dir.layout)
  BY <1>6 DEF FirstLbn, Positions
<1>8. Lbn(dir.fid[p], dir.layout) < HalfBase /\ (dir.layout = 18 => Lbn(dir.fid[p], dir.layout) > 0)
  BY <1>7 DEF Tellable, Positions
<1>9. dir.fid[p] \in Fid
  BY <1>1 DEF IsDirectory, Positions
<1>10. Detected(dir.fid[p]) = dir.layout
  BY <1>1, <1>8, <1>9, Tells
<1> QED  BY <1>3, <1>10

\* What is read behind the detected tag is what was written there.
LEMMA ReadAsWritten ==
    ASSUME Typed, WellFormed(dir), tagSize = dir.layout, NEW p \in Positions
    PROVE  /\ EntryAt(p, dir.fid[p], tagSize) = WrittenAt(dir, p)
           /\ Child(dir, p) <=> Listable(p)
<1> PICK f : f = dir.fid[p]
  OBVIOUS
<1> PICK t : t = tagSize
  OBVIOUS
<1>1. /\ f.idLen[t] \in Nat /\ f.iuLen[t] \in Nat /\ p \in Nat /\ dir.len \in Nat /\ t \in Tags
      /\ p + MinFid(t) + f.iuLen[t] + f.idLen[t] <= dir.len
  BY FidType, WellFormedIs DEF Typed, Positions
<1>2. t \in Nat
  BY <1>1 DEF Tags
<1> DEFINE name == p + t + 20 + f.iuLen[t]
<1>3. NameSpan(p, f, t) = IF f.idLen[t] = 0 THEN <<0, 0>> ELSE <<name, name + f.idLen[t]>>
  <2>1. name \in Nat /\ name + f.idLen[t] <= dir.len
    BY <1>1, <1>2 DEF MinFid
  <2>2. AtMost(name + f.idLen[t], dir.len) = name + f.idLen[t]
    BY <1>1, <2>1 DEF AtMost
  <2> QED  BY <1>1, <2>1, <2>2 DEF NameSpan
<1>4. Address(f) = dir.part + Lbn(f, t)
  BY DEF Address
<1>5. EntryAt(p, f, t) = WrittenAt(dir, p)
  BY <1>3, <1>4 DEF EntryAt, WrittenAt, SizeAt
<1>6. Child(dir, p) <=> Listable(p)
  BY DEF Child, Listable, Positions
<1> QED  BY <1>5, <1>6

LEMMA ListedFollows == IInv => DirectoryListed
<1> SUFFICES ASSUME IInv, pc = "done", WellFormed(dir), Tellable(dir)
             PROVE  /\ \A p \in Positions :
                         Child(dir, p) => \E n \in DOMAIN entries : entries[n] = WrittenAt(dir, p)
                    /\ \A n \in DOMAIN entries :
                         Child(dir, entries[n].at) /\ entries[n] = WrittenAt(dir, entries[n].at)
                    /\ \A m, n \in DOMAIN entries : m < n => entries[m].at < entries[n].at
  BY DEF DirectoryListed, Positions
<1>0. Typed
  BY DEF IInv
<1>1. Positions # {} => tagSize = dir.layout
  BY SizeDetected
<1>2. ASSUME NEW n \in DOMAIN entries
      PROVE  /\ entries[n].at \in Positions /\ Listable(entries[n].at) /\ tagSize = dir.layout
             /\ entries[n] = WrittenAt(dir, entries[n].at)
  BY <1>0, <1>1, ReadAsWritten DEF IInv, Listed
<1>3. ASSUME NEW p \in Positions, Child(dir, p)
      PROVE  \E n \in DOMAIN entries : entries[n] = WrittenAt(dir, p)
  <2>1. OnGrid /\ Free(p) /\ Listable(p)
    BY <1>0, <1>1, <1>3, WellFormedIs, ReadAsWritten
  <2>2. PICK n \in DOMAIN entries : entries[n].at = p
    BY <2>1 DEF IInv, Passed
  <2> QED  BY <1>2, <2>2
<1>4. ASSUME NEW m \in DOMAIN entries, NEW n \in DOMAIN entries, m < n
      PROVE  entries[m].at < entries[n].at
  <2>1. m \in 1 .. n - 1
    BY <1>4 DEF IInv, Typed
  <2> PICK p, q : p = entries[m].at /\ q = entries[n].at
    OBVIOUS
  <2>2. EndOf(p) <= q /\ p \in Positions /\ q \in Positions
    BY <1>2, <2>1 DEF IInv, Listed
  <2>3. EndOf(p) > p /\ EndOf(p) \in Nat /\ p \in Nat /\ q \in Nat
    BY <1>0, <2>2, EndType
  <2> QED  BY <2>2, <2>3
<1>5. \A n \in DOMAIN entries : Child(dir, entries[n].at)
  BY <1>0, <1>2, ReadAsWritten
<1> QED  BY <1>2, <1>3, <1>4, <1>5

\* A well-formed directory of either layout whose tag size can be told is listed
\* as it was written, whatever its length and the number of its entries.
THEOREM ListsTheDirectory == Spec => []DirectoryListed
<1> QED  BY ListedFollows, Inductive, PTL

-----------------------------------------------------------------------------
(* Termination as a bound on the steps. *)

\* A cursor that advances by at least four bytes has one step fewer before it.
LEMMA AheadShrinks ==
    ASSUME NEW len \in Nat, NEW o \in 0 .. len, NEW p \in o + 4 .. len
    PROVE  /\ (len - p) \div 4 \in Nat /\ (len - o) \div 4 \in Nat
           /\ (len - p) \div 4 < (len - o) \div 4
<1>1. len - p \in Nat /\ len - o \in Nat /\ (len - p) + 4 <= len - o
  OBVIOUS
<1> QED  BY <1>1, DivisionLess

LEMMA StepShrinks == IInv /\ Next => StepsLeft' \in 0 .. StepsLeft - 1
<1> SUFFICES ASSUME IInv, Next PROVE StepsLeft' \in 0 .. StepsLeft - 1
  OBVIOUS
<1> PICK len \in Nat : len = dir.len
  BY DEF IInv, Typed, IsDirectory
<1> PICK ahead : ahead = (len - off) \div 4
  OBVIOUS
<1> PICK whole : whole = len \div 4
  OBVIOUS
<1>1. off \in 0 .. len /\ dir' = dir /\ len = dir'.len
  BY DEF IInv, Typed, Next, DetectSkip, DetectFirst, DetectNone, SkipOther, StopAtOverrun,
         SkipEntry, TakeEntry, ParseEnds
<1>2. ahead \in Nat /\ whole \in Nat
  <2>1. len - off \in Nat
    BY <1>1
  <2> QED  BY <2>1, Division
<1>3. CASE DetectSkip
  <2>1. pc = "detect" /\ pc' = "detect" /\ off' = off + 4 /\ off + 28 <= len
    BY <1>3 DEF DetectSkip
  <2>2. off + 4 \in off + 4 .. len
    BY <1>1, <2>1
  <2> PICK rest : rest = (len - (off + 4)) \div 4
    OBVIOUS
  <2>3. rest \in Nat /\ rest < ahead
    BY <1>1, <2>2, AheadShrinks
  <2>4. StepsLeft = ahead + 1 + whole + 1 /\ StepsLeft' = rest + 1 + whole + 1
    BY <1>1, <2>1 DEF StepsLeft
  <2> QED  BY <1>2, <2>3, <2>4
<1>4. CASE DetectFirst \/ DetectNone
  <2>1. pc = "detect" /\ pc' = "parse" /\ off' = 0
    BY <1>4 DEF DetectFirst, DetectNone, StartParse
  <2>2. StepsLeft = ahead + 1 + whole + 1 /\ StepsLeft' = (len - 0) \div 4 + 1
    BY <1>1, <2>1 DEF StepsLeft
  <2>3. StepsLeft' = whole + 1
    BY <2>2
  <2> QED  BY <1>2, <2>2, <2>3
<1>5. CASE StopAtOverrun \/ ParseEnds
  <2>1. pc = "parse" /\ pc' = "done"
    BY <1>5 DEF StopAtOverrun, ParseEnds
  <2>2. StepsLeft = ahead + 1 /\ StepsLeft' = 0
    BY <1>1, <2>1 DEF StepsLeft
  <2> QED  BY <1>2, <2>2
<1>6. CASE SkipOther \/ SkipEntry \/ TakeEntry
  <2>1. pc = "parse" /\ pc' = "parse" /\ off' \in off + 4 .. len
    <3>1. CASE SkipOther
      <4>1. MinFid(tagSize) \in {36, 38}
        BY DEF IInv, Typed, MinFid, Tags
      <4> QED  BY <1>1, <3>1, <4>1 DEF SkipOther, Room
    <3>2. CASE SkipEntry \/ TakeEntry
      <4>1. Whole /\ pc' = "parse" /\ off' = EndOf(off)
        BY <3>2, WholeStep DEF SkipEntry, TakeEntry, PastSkipped, Whole
      <4>2. off \in Positions /\ EndOf(off) \in Nat /\ EndOf(off) <= len /\ pc = "parse"
        BY <4>1, WholeStep
      <4>3. EndOf(off) >= off + MinFid(tagSize) /\ MinFid(tagSize) \in {36, 38}
        BY <4>2, EndType DEF IInv
      <4> QED  BY <1>1, <4>1, <4>2, <4>3
    <3> QED  BY <1>6, <3>1, <3>2
  <2> PICK next : next = off'
    OBVIOUS
  <2> PICK rest : rest = (len - next) \div 4
    OBVIOUS
  <2>2. rest \in Nat /\ rest < ahead
    BY <1>1, <2>1, AheadShrinks
  <2>3. StepsLeft = ahead + 1 /\ StepsLeft' = rest + 1
    BY <1>1, <2>1 DEF StepsLeft
  <2> QED  BY <1>2, <2>2, <2>3
<1> QED  BY <1>3, <1>4, <1>5, <1>6 DEF Next

\* Whatever lengths a buffer records, every step takes the two passes nearer to
\* their end, which is at most one step for every two of its bytes away.
THEOREM StepsBoundedAlways == Spec => StepsBounded
<1>1. IInv /\ [Next]_vars => [StepsLeft' \in 0 .. StepsLeft - 1]_vars
  BY StepShrinks
<1> QED  BY <1>1, Inductive, PTL DEF Spec, StepsBounded

=============================================================================
