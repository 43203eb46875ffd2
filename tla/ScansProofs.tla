----------------------------- MODULE ScansProofs -----------------------------
(* Proofs about the three scans, for every table, link and recognition
   sequence, whatever the lengths in them are. *)
EXTENDS Scans, NumberLemmas, FiniteSetTheorems, SequenceTheorems, TLAPS

-----------------------------------------------------------------------------
(* The inductive invariant, one part for each scan. *)

EndOfMap(n) == IF n = 0 THEN 0 ELSE out[n].at + MapLen(in, out[n].at)

(* MapsRead: the maps so far stand one behind the other from the table's start
   to the cursor. *)
MapsRead ==
    /\ IsTable(in) /\ off \in Nat /\ (off = 0 \/ off <= MapsEnd(in))
    /\ out \in Seq({ParsedMap(in, p) : p \in Nat}) /\ Len(out) <= in.count
    /\ \A n \in DOMAIN out :
          /\ out[n].at = EndOfMap(n - 1) /\ EndOfMap(n) <= MapsEnd(in)
          /\ out[n].at \in Nat /\ out[n].at + 2 <= MapsEnd(in)
          /\ WellSized(in, out[n].at) /\ out[n] = ParsedMap(in, out[n].at)
    /\ off = EndOfMap(Len(out))
    /\ pc = "done" => ~MoreMaps \/ ~WellSized(in, off)

Part == [text : {"/", "..", ".", "name"}, from : Nat, to : Nat]

(* The names of a target o are spans of the link before b, in order. *)
InOrder(o, b) ==
    /\ o \in Seq(Part)
    /\ \A n \in DOMAIN o : o[n].text = "name" =>
          /\ 4 <= o[n].from /\ o[n].from < o[n].to /\ o[n].to <= Len(in) /\ o[n].to <= b
          /\ \A m \in 1 .. n - 1 : o[m].text = "name" => o[n].from >= 4 + o[m].to

LinkRead == in \in Seq(Byte) /\ off \in 0 .. Len(in) + 255 /\ InOrder(out, off)

SectorsRead ==
    /\ in \in [16 .. 31 -> Sector] /\ off \in 16 .. 32
    /\ out \in {<< >>, <<"udf">>}
    /\ \A h \in 16 .. off - 1 : in[h] = "other"
    /\ pc = "scan" => out = << >>
    /\ pc = "done" => \/ out = <<"udf">> /\ off < 32 /\ in[off] = "nsr"
                      \/ out = << >> /\ (off = 32 \/ in[off] \in {"tea", "unreadable"})

IInv ==
    /\ pc \in {"scan", "done"}
    /\ \/ op = "maps" /\ MapsRead
       \/ op = "link" /\ LinkRead
       \/ op = "detect" /\ SectorsRead

LEMMA InvInit == Init => IInv
<1> SUFFICES ASSUME Init PROVE IInv
  OBVIOUS
<1>1. CASE op = "maps" /\ in \in Tables /\ off = 0
  <2>1. IsTable(in)
    BY <1>1, TablesAssumption
  <2>2. Len(out) = 0 /\ DOMAIN out = {} /\ out \in Seq({ParsedMap(in, p) : p \in Nat}) /\ in.count \in Nat
    BY <2>1 DEF Init, IsTable
  <2>3. MapsRead
    BY <1>1, <2>1, <2>2 DEF MapsRead, EndOfMap, Init
  <2> QED  BY <1>1, <2>3 DEF IInv, Init
<1>2. CASE op = "link" /\ in \in Links /\ off = 0
  <2>1. in \in Seq(Byte) /\ out \in Seq(Part) /\ DOMAIN out = {}
    BY <1>2, LinksAssumption DEF Init
  <2>2. off \in 0 .. Len(in) + 255
    BY <1>2, <2>1
  <2> QED  BY <1>2, <2>1, <2>2 DEF IInv, Init, LinkRead, InOrder
<1>3. CASE op = "detect" /\ in \in Recognitions /\ off = 16
  BY <1>3, RecognitionsAssumption DEF IInv, Init, SectorsRead
<1> QED  BY <1>1, <1>2, <1>3 DEF Init

-----------------------------------------------------------------------------
(* parse_partition_maps *)

LEMMA MapType ==
    ASSUME IsTable(in)
    PROVE  /\ MapsEnd(in) \in Nat /\ MapsEnd(in) <= Len(in.bytes) /\ in.count \in Nat
           /\ \A p \in Nat : p < Len(in.bytes) => At(in.bytes, p) \in Byte
           /\ \A p \in Nat : p + 2 <= MapsEnd(in) => MapLen(in, p) \in Nat /\ At(in.bytes, p) \in Byte
<1>1. in.bytes \in Seq(Byte) /\ in.mtLen \in Nat /\ in.count \in Nat /\ Len(in.bytes) \in Nat
  BY DEF IsTable
<1>2. \A p \in Nat : p < Len(in.bytes) => At(in.bytes, p) \in Byte
  BY <1>1 DEF At
<1>3. MapsEnd(in) \in Nat /\ MapsEnd(in) <= Len(in.bytes)
  BY <1>1 DEF MapsEnd
<1>4. ASSUME NEW p \in Nat, p + 2 <= MapsEnd(in)
      PROVE  MapLen(in, p) \in Nat /\ At(in.bytes, p) \in Byte
  <2>1. p + 1 < Len(in.bytes) /\ p < Len(in.bytes) /\ p + 1 \in Nat
    BY <1>1, <1>3, <1>4
  <2>2. At(in.bytes, p) \in Byte /\ At(in.bytes, p + 1) \in Byte
    BY <1>2, <2>1
  <2> QED  BY <2>2 DEF MapLen, Byte
<1> QED  BY <1>1, <1>2, <1>3, <1>4

LEMMA LengthType ==
    ASSUME IsTable(in), NEW p \in Nat, p + 2 <= MapsEnd(in)
    PROVE  MapLen(in, p) \in Nat
BY MapType

LEMMA TakeMapStep == IInv /\ TakeMap => IInv'
<1> SUFFICES ASSUME IInv, TakeMap PROVE IInv'
  OBVIOUS
<1>1. /\ op = "maps" /\ MapsRead /\ pc = "scan" /\ UNCHANGED <<op, in, pc>>
      /\ WellSized(in, off) /\ MoreMaps
      /\ out' = Append(out, ParsedMap(in, off)) /\ off' = off + MapLen(in, off)
  BY DEF IInv, TakeMap, Scanning, Push
<1> PICK N \in Nat : N = Len(out)
  BY <1>1 DEF MapsRead
<1> PICK e : e = ParsedMap(in, off)
  OBVIOUS
<1> PICK S : S = {ParsedMap(in, p) : p \in Nat}
  OBVIOUS
<1>2. /\ off \in Nat /\ MapLen(in, off) \in Nat /\ MapsEnd(in) \in Nat /\ in.count \in Nat
      /\ off + MapLen(in, off) <= MapsEnd(in) /\ N < in.count /\ off + 2 <= MapsEnd(in)
  BY <1>1, MapType DEF MapsRead, WellSized, MoreMaps
<1>3. e \in S /\ e.at = off
  <2>1. ParsedMap(in, off).at = off
    BY DEF ParsedMap
  <2> QED  BY <1>2, <2>1
<1>4. /\ out \in Seq(S) /\ out' \in Seq(S) /\ DOMAIN out = 1 .. N /\ DOMAIN out' = 1 .. N + 1
      /\ Len(out') = N + 1 /\ out'[N + 1] = e /\ \A n \in 1 .. N : out'[n] = out[n]
  BY <1>1, <1>3 DEF MapsRead
<1>5. \A n \in 0 .. N : EndOfMap(n)' = EndOfMap(n)
  BY <1>1, <1>4 DEF EndOfMap
<1>6. EndOfMap(N + 1)' = off + MapLen(in, off)
  BY <1>1, <1>3, <1>4 DEF EndOfMap
<1>7. off = EndOfMap(N)
  BY <1>1 DEF MapsRead
<1>8. ASSUME NEW n \in 1 .. N + 1
      PROVE  /\ out'[n].at = EndOfMap(n - 1)' /\ EndOfMap(n)' <= MapsEnd(in)
             /\ out'[n].at \in Nat /\ out'[n].at + 2 <= MapsEnd(in)
             /\ WellSized(in, out'[n].at) /\ out'[n] = ParsedMap(in, out'[n].at)
  <2>1. CASE n \in 1 .. N
    <3>1. /\ out[n].at = EndOfMap(n - 1) /\ EndOfMap(n) <= MapsEnd(in)
          /\ out[n].at \in Nat /\ out[n].at + 2 <= MapsEnd(in)
          /\ WellSized(in, out[n].at) /\ out[n] = ParsedMap(in, out[n].at)
      BY <1>1, <1>4, <2>1 DEF MapsRead
    <3>2. n - 1 \in 0 .. N /\ n \in 0 .. N
      BY <2>1
    <3> QED  BY <1>4, <1>5, <2>1, <3>1, <3>2
  <2>2. CASE n = N + 1
    BY <1>1, <1>2, <1>3, <1>4, <1>5, <1>6, <1>7, <2>2
  <2> QED  BY <2>1, <2>2
<1>9. off' = EndOfMap(Len(out))'
  <2>1. Len(out)' = N + 1
    BY <1>4
  <2> QED  BY <1>1, <1>6, <2>1 DEF EndOfMap
<1>10. MapsRead'
  <2>1. in' = in /\ pc' # "done" /\ IsTable(in)
    BY <1>1 DEF MapsRead
  <2>2. S = {ParsedMap(in', p) : p \in Nat}
    BY <2>1
  <2>3. off' \in Nat /\ off' <= MapsEnd(in) /\ Len(out') <= in.count
    BY <1>1, <1>2, <1>4
  <2> QED  BY <1>4, <1>8, <1>9, <2>1, <2>2, <2>3 DEF MapsRead
<1> QED  BY <1>1, <1>10 DEF IInv

LEMMA MapsDoneStep == IInv /\ MapsDone => IInv'
<1> SUFFICES ASSUME IInv, MapsDone PROVE IInv'
  OBVIOUS
<1>1. /\ op = "maps" /\ MapsRead /\ pc' = "done" /\ UNCHANGED <<op, in, off, out>>
      /\ ~MoreMaps \/ ~WellSized(in, off)
  BY DEF IInv, MapsDone, Scanning, Done
<1>2. MapsRead'
  BY <1>1 DEF MapsRead, EndOfMap, MoreMaps
<1> QED  BY <1>1, <1>2 DEF IInv

-----------------------------------------------------------------------------
(* decode_symlink_target *)

\* A target stays in order when something is appended that is no name, or a
\* name behind a further header.
LEMMA InOrderAppend ==
    ASSUME NEW o, NEW b \in Nat, InOrder(o, b), NEW c \in Nat, b <= c, NEW x \in Part,
           x.text = "name" =>
             b + 4 <= x.from /\ x.from < x.to /\ x.to <= Len(in) /\ x.to <= c
    PROVE  InOrder(Append(o, x), c)
<1> PICK N \in Nat : N = Len(o)
  BY DEF InOrder
<1> PICK q : q = Append(o, x)
  OBVIOUS
<1>1. /\ o \in Seq(Part) /\ q \in Seq(Part) /\ DOMAIN o = 1 .. N /\ DOMAIN q = 1 .. N + 1
      /\ q[N + 1] = x /\ \A n \in 1 .. N : q[n] = o[n] /\ o[n] \in Part
  BY DEF InOrder
<1>2. ASSUME NEW n \in 1 .. N + 1, q[n].text = "name"
      PROVE  /\ 4 <= q[n].from /\ q[n].from < q[n].to /\ q[n].to <= Len(in) /\ q[n].to <= c
             /\ \A m \in 1 .. n - 1 : q[m].text = "name" => q[n].from >= 4 + q[m].to
  <2>1. CASE n \in 1 .. N
    <3>1. o[n].to \in Nat /\ o[n].to <= b
      BY <1>1, <1>2, <2>1 DEF InOrder, Part
    <3>2. /\ 4 <= o[n].from /\ o[n].from < o[n].to /\ o[n].to <= Len(in)
          /\ \A m \in 1 .. n - 1 : o[m].text = "name" => o[n].from >= 4 + o[m].to
      BY <1>1, <1>2, <2>1 DEF InOrder
    <3>3. q[n] = o[n] /\ \A m \in 1 .. n - 1 : q[m] = o[m]
      BY <1>1, <2>1
    <3>4. q[n].to <= c
      BY <3>1, <3>3
    <3> QED  BY <3>2, <3>3, <3>4
  <2>2. CASE n = N + 1
    <3>1. x.from \in Nat /\ b + 4 <= x.from
      BY <1>1, <1>2, <2>2 DEF Part
    <3>2. ASSUME NEW m \in 1 .. N, q[m].text = "name" PROVE x.from >= 4 + q[m].to
      <4>1. o[m].to \in Nat /\ o[m].to <= b
        BY <1>1, <3>2 DEF InOrder, Part
      <4> QED  BY <1>1, <3>1, <4>1
    <3> QED  BY <1>1, <1>2, <2>2, <3>1, <3>2
  <2> QED  BY <2>1, <2>2
<1> QED  BY <1>1, <1>2 DEF InOrder

\* What is not a name may be added without moving the cursor.
LEMMA InOrderText ==
    ASSUME NEW o, NEW b \in Nat, InOrder(o, b), NEW c \in Nat, b <= c,
           NEW x \in {"/", "..", "."}
    PROVE  InOrder(Append(o, Text(x)), c)
<1>1. Text(x) \in Part /\ Text(x).text # "name"
  BY DEF Text, Part
<1> QED  BY <1>1, InOrderAppend

LEMMA InOrderLater ==
    ASSUME NEW o, NEW b \in Nat, InOrder(o, b), NEW c \in Nat, b <= c
    PROVE  InOrder(o, c)
<1>1. \A n \in DOMAIN o : o[n] \in Part
  BY DEF InOrder
<1>2. \A n \in DOMAIN o : o[n].to \in Nat
  BY <1>1 DEF Part
<1> QED  BY <1>2 DEF InOrder

LEMMA TakeComponentStep == IInv /\ TakeComponent => IInv'
<1> SUFFICES ASSUME IInv, TakeComponent PROVE IInv'
  OBVIOUS
<1>1. /\ op = "link" /\ LinkRead /\ pc = "scan" /\ UNCHANGED <<op, in, pc>>
      /\ off + 4 <= Len(in) /\ off' = Past(Component)
      /\ out' = CASE Reset -> AfterReset(out)
                [] Component = 3 -> out \o <<Text(".."), Slash>>
                [] Component = 4 -> out \o <<Text("."), Slash>>
                [] Component = 5 -> out \o Decoded \o <<Slash>>
                [] OTHER -> out
  BY DEF IInv, TakeComponent, Scanning, HasHeader
<1>2. in \in Seq(Byte) /\ off \in Nat /\ Len(in) \in Nat /\ InOrder(out, off) /\ out \in Seq(Part)
  BY <1>1 DEF LinkRead, InOrder
<1>3. IdentLen \in 0 .. 255
  <2>1. in[off + 1 + 1] \in Byte
    BY <1>1, <1>2
  <2> QED  BY <2>1 DEF IdentLen, At, Byte
<1> PICK c : c = off'
  OBVIOUS
<1>4. /\ c \in 0 .. Len(in) + 255 /\ c \in Nat /\ off + 4 <= c
      /\ Component = 5 => c = off + 4 + IdentLen
  <2> PICK l : l = IdentLen
    OBVIOUS
  <2>1. c = off + 4 + (IF Component \in {1, 5} THEN l ELSE 0)
    BY <1>1 DEF Past
  <2>2. Component = 5 => c = off + 4 + l
    BY <2>1
  <2>3. c = off + 4 + l \/ c = off + 4
    BY <1>2, <2>1
  <2>4. l \in 0 .. 255 /\ off + 4 <= Len(in)
    BY <1>1, <1>3
  <2>5. c \in 0 .. Len(in) + 255 /\ c \in Nat /\ off + 4 <= c
    BY <1>2, <2>3, <2>4
  <2> QED  BY <2>2, <2>5
<1>5. InOrder(out', c)
  <2>1. CASE Reset
    <3> PICK none : none = << >>
      OBVIOUS
    <3>1. out' = <<Text("/")>>
      BY <1>1, <2>1 DEF AfterReset, Slash, Reset
    <3>2. <<Text("/")>> = Append(none, Text("/"))
      OBVIOUS
    <3>3. InOrder(none, c)
      BY DEF InOrder
    <3>4. InOrder(Append(none, Text("/")), c)
      <4>1. c \in Nat /\ c <= c
        BY <1>4
      <4> QED  BY <3>3, <4>1, InOrderText
    <3> QED  BY <3>1, <3>2, <3>4
  <2>2. CASE ~Reset /\ Component = 3
    <3>1. out' = Append(Append(out, Text("..")), Text("/"))
      BY <1>1, <1>2, <2>2 DEF Slash
    <3>2. InOrder(Append(out, Text("..")), off)
      BY <1>2, InOrderText
    <3> QED  BY <1>2, <1>4, <3>1, <3>2, InOrderText
  <2>3. CASE ~Reset /\ Component = 4
    <3>1. out' = Append(Append(out, Text(".")), Text("/"))
      BY <1>1, <1>2, <2>3 DEF Slash
    <3>2. InOrder(Append(out, Text(".")), off)
      BY <1>2, InOrderText
    <3> QED  BY <1>2, <1>4, <3>1, <3>2, InOrderText
  <2>4. CASE ~Reset /\ Component = 5
    <3>1. out' = out \o Decoded \o <<Text("/")>>
      BY <1>1, <2>4 DEF Slash
    <3>2. CASE Decoded = << >>
      <4>1. out' = Append(out, Text("/"))
        BY <1>2, <3>1, <3>2
      <4> QED  BY <1>2, <1>4, <4>1, InOrderText
    <3>3. CASE Decoded # << >>
      <4> PICK x : x = Name(off + 4, off + 4 + IdentLen)
        OBVIOUS
      <4>1. Decoded = <<x>> /\ IdentLen > 0 /\ off + 4 + IdentLen <= Len(in)
        BY <3>3 DEF Decoded, NameInRange
      <4>2. /\ x \in Part /\ x.text = "name" /\ x.from = off + 4 /\ x.to = c
            /\ x.from < x.to /\ x.to <= Len(in)
        BY <1>2, <1>3, <1>4, <2>4, <4>1 DEF Name, Part
      <4>3. out' = Append(Append(out, x), Text("/"))
        BY <1>2, <3>1, <4>1
      <4>4. InOrder(Append(out, x), c)
        BY <1>2, <1>4, <4>2, InOrderAppend
      <4> QED  BY <1>4, <4>3, <4>4, InOrderText
    <3> QED  BY <3>2, <3>3
  <2>5. CASE ~Reset /\ Component \notin {3, 4, 5}
    <3>1. out' = out
      BY <1>1, <2>5
    <3> QED  BY <1>2, <1>4, <3>1, InOrderLater
  <2> QED  BY <2>1, <2>2, <2>3, <2>4, <2>5
<1>6. InOrder(out, off)'
  BY <1>1, <1>5 DEF InOrder
<1>7. LinkRead'
  BY <1>1, <1>2, <1>4, <1>6 DEF LinkRead
<1> QED  BY <1>1, <1>7 DEF IInv

LEMMA LinkDoneStep == IInv /\ LinkDone => IInv'
<1> SUFFICES ASSUME IInv, LinkDone PROVE IInv'
  OBVIOUS
<1>1. /\ op = "link" /\ LinkRead /\ pc' = "done" /\ UNCHANGED <<op, in, off>> /\ out' = Trimmed(out)
  BY DEF IInv, LinkDone, Scanning, Done
<1>2. out \in Seq(Part) /\ InOrder(out, off)
  BY <1>1 DEF LinkRead, InOrder
<1>3. InOrder(out', off)
  <2>1. CASE out' = out
    BY <1>2, <2>1
  <2>2. CASE out' = SubSeq(out, 1, Len(out) - 1) /\ Len(out) > 1
    <3>1. /\ out' \in Seq(Part) /\ DOMAIN out' \subseteq DOMAIN out
          /\ \A n \in DOMAIN out' : out'[n] = out[n] /\ \A m \in 1 .. n - 1 : m \in DOMAIN out'
      BY <1>2, <2>2
    <3> QED  BY <1>2, <3>1 DEF InOrder
  <2> QED  BY <1>1, <2>1, <2>2 DEF Trimmed, Front
<1>4. InOrder(out, off)'
  BY <1>1, <1>3 DEF InOrder
<1> QED  BY <1>1, <1>4 DEF LinkRead, IInv

-----------------------------------------------------------------------------
(* detect_udf *)

LEMMA NextSectorStep == IInv /\ NextSector => IInv'
<1> SUFFICES ASSUME IInv, NextSector PROVE IInv'
  OBVIOUS
<1>1. /\ op = "detect" /\ SectorsRead /\ pc = "scan" /\ UNCHANGED <<op, in, pc, out>>
      /\ off < 32 /\ in[off] # "nsr" /\ in[off] \notin {"tea", "unreadable"} /\ off' = off + 1
  BY DEF IInv, NextSector, Scanning, Stops
<1>2. off \in 16 .. 31 /\ off' \in 16 .. 32
  BY <1>1 DEF SectorsRead
<1>3. in[off] = "other"
  BY <1>1, <1>2 DEF SectorsRead, Sector
<1>4. \A h \in 16 .. off' - 1 : in[h] = "other"
  BY <1>1, <1>2, <1>3 DEF SectorsRead
<1>5. SectorsRead'
  BY <1>1, <1>2, <1>4 DEF SectorsRead
<1> QED  BY <1>1, <1>5 DEF IInv

LEMMA DetectDoneStep == IInv /\ DetectDone => IInv'
<1> SUFFICES ASSUME IInv, DetectDone PROVE IInv'
  OBVIOUS
<1>1. /\ op = "detect" /\ SectorsRead /\ pc = "scan" /\ pc' = "done" /\ UNCHANGED <<op, in, off>>
      /\ \/ off < 32 /\ in[off] = "nsr" /\ out' = <<"udf">>
         \/ off < 32 /\ in[off] \in {"tea", "unreadable"} /\ out' = out
         \/ off = 32 /\ out' = out
  BY DEF IInv, DetectDone, Scanning, Stops, Done
<1>2. SectorsRead'
  BY <1>1 DEF SectorsRead
<1> QED  BY <1>1, <1>2 DEF IInv

LEMMA InvStep == IInv /\ [Next]_vars => IInv'
<1> SUFFICES ASSUME IInv, [Next]_vars PROVE IInv'
  OBVIOUS
<1>1. CASE UNCHANGED vars
  <2>1. UNCHANGED <<op, in, pc, off, out>>
    BY <1>1 DEF vars
  <2>2. MapsRead' = MapsRead
    BY <2>1 DEF MapsRead, EndOfMap, MoreMaps
  <2>3. LinkRead' = LinkRead /\ SectorsRead' = SectorsRead
    BY <2>1 DEF LinkRead, InOrder, SectorsRead
  <2> QED  BY <2>1, <2>2, <2>3 DEF IInv
<1> QED  BY <1>1, TakeMapStep, MapsDoneStep, TakeComponentStep, LinkDoneStep, NextSectorStep,
            DetectDoneStep DEF Next

LEMMA Inductive == Spec => []IInv
<1> QED  BY InvInit, InvStep, PTL DEF Spec

-----------------------------------------------------------------------------
(* What the invariant gives. *)

\* The cursor of each scan stays in what it scans, or as far behind it as one
\* recorded length reaches.
THEOREM TypeCorrect == Spec => []TypeOK
<1>1. IInv => TypeOK
  BY DEF IInv, MapsRead, LinkRead, SectorsRead, TypeOK
<1> QED  BY <1>1, Inductive, PTL

LEMMA KindIs ==
    ASSUME IsTable(in), NEW p \in Nat, WellSized(in, p), p + 2 <= MapsEnd(in)
    PROVE  LET m == ParsedMap(in, p)
               Own == {x[2] : x \in {y \in in.names : p <= y[1] /\ y[1] + NameLen <= p + MapLen(in, p)}}
           IN  /\ m.at = p /\ (m.kind = "Physical" => MapLen(in, p) >= 6)
               /\ m.kind \in Own \cup {"Physical", "Unknown"}
               /\ At(in.bytes, p) = 2 /\ Own # {} => m.kind \in Own
<1> DEFINE m == ParsedMap(in, p)
           Own == {x[2] : x \in {y \in in.names : p <= y[1] /\ y[1] + NameLen <= p + MapLen(in, p)}}
<1>1. MapLen(in, p) \in Nat /\ NameLen \in Nat
  BY MapType, NameLenAssumption
<1>2. Own \subseteq {"Metadata", "Virtual", "Sparable"}
  BY DEF IsTable
<1>3. ASSUME NEW name PROVE Holds(in, p, name) <=> name \in Own
  <2>1. ASSUME Holds(in, p, name) PROVE name \in Own
    <3>1. PICK s \in p .. p + MapLen(in, p) - NameLen : <<s, name>> \in in.names
      BY <2>1 DEF Holds
    <3>2. p <= s /\ s + NameLen <= p + MapLen(in, p)
      BY <1>1
    <3>3. <<s, name>> \in {y \in in.names : p <= y[1] /\ y[1] + NameLen <= p + MapLen(in, p)}
      BY <3>1, <3>2
    <3>4. <<s, name>>[2] = name
      OBVIOUS
    <3> QED  BY <3>3, <3>4
  <2>2. ASSUME name \in Own PROVE Holds(in, p, name)
    <3>1. PICK y \in in.names : name = y[2] /\ p <= y[1] /\ y[1] + NameLen <= p + MapLen(in, p)
      BY <2>2
    <3>2. y = <<y[1], name>> /\ y[1] \in Nat
      BY <3>1 DEF IsTable
    <3>3. y[1] \in p .. p + MapLen(in, p) - NameLen
      BY <1>1, <3>1, <3>2
    <3> QED  BY <3>1, <3>2, <3>3 DEF Holds
  <2> QED  BY <2>1, <2>2
<1> HIDE DEF Own
<1>4. /\ ClassifyType2(in, p) \in Own \cup {"Unknown"} /\ ClassifyType2(in, p) # "Physical"
      /\ Own # {} => ClassifyType2(in, p) \in Own
  BY <1>2, <1>3 DEF ClassifyType2
<1>5. /\ m.at = p /\ (m.kind = "Physical" => MapLen(in, p) >= 6)
      /\ m.kind \in Own \cup {"Physical", "Unknown"}
      /\ At(in.bytes, p) = 2 /\ Own # {} => m.kind \in Own
  BY <1>4 DEF ParsedMap
<1> QED  BY <1>5 DEF Own

LEMMA MapsFollow == IInv => MapsKeepTheirPlace
<1> SUFFICES ASSUME op = "maps", MapsRead PROVE MapsKeepTheirPlace
  BY DEF IInv, MapsKeepTheirPlace
<1> DEFINE Own(n) == {x[2] : x \in {y \in in.names :
                                      out[n].at <= y[1] /\ y[1] + NameLen <= EndOfMap(n)}}
<1>1. ASSUME NEW n \in DOMAIN out
      PROVE  /\ out[n].at = EndOfMap(n - 1) /\ EndOfMap(n) <= MapsEnd(in)
             /\ out[n].kind = "Physical" => out[n].at + 6 <= EndOfMap(n)
             /\ out[n].kind \in Own(n) \cup {"Physical", "Unknown"}
             /\ At(in.bytes, out[n].at) = 2 /\ Own(n) # {} => out[n].kind \in Own(n)
  <2> PICK p : p = out[n].at
    OBVIOUS
  <2>1. /\ p = EndOfMap(n - 1) /\ EndOfMap(n) <= MapsEnd(in) /\ p \in Nat
        /\ WellSized(in, p) /\ out[n] = ParsedMap(in, p) /\ IsTable(in) /\ p + 2 <= MapsEnd(in)
    BY DEF MapsRead
  <2>2. n # 0 /\ EndOfMap(n) = p + MapLen(in, p)
    BY DEF MapsRead, EndOfMap
  <2>5. MapLen(in, p) \in Nat
    BY <2>1, LengthType
  <2>6. /\ out[n].at = p /\ (out[n].kind = "Physical" => MapLen(in, p) >= 6)
        /\ out[n].kind \in Own(n) \cup {"Physical", "Unknown"}
        /\ At(in.bytes, p) = 2 /\ Own(n) # {} => out[n].kind \in Own(n)
    BY <2>1, <2>2, <2>5, KindIs
  <2> HIDE DEF Own
  <2> QED  BY <2>1, <2>2, <2>5, <2>6
<1>2. pc = "done" => \/ Len(out) = in.count \/ off + 2 > MapsEnd(in)
                     \/ MapLen(in, off) < 2 \/ off + MapLen(in, off) > MapsEnd(in)
  <2> SUFFICES ASSUME pc = "done", off + 2 <= MapsEnd(in), Len(out) # in.count
               PROVE  MapLen(in, off) < 2 \/ off + MapLen(in, off) > MapsEnd(in)
    BY MapType DEF MapsRead
  <2>1. IsTable(in) /\ off \in Nat /\ Len(out) < in.count
    BY DEF MapsRead, IsTable
  <2>2. MapLen(in, off) \in Nat /\ MapsEnd(in) \in Nat
    BY <2>1, MapType
  <2> QED  BY <2>1, <2>2 DEF MapsRead, MoreMaps, WellSized
<1>3. off = EndOfMap(Len(out))
  BY DEF MapsRead
<1> QED  BY <1>1, <1>2, <1>3 DEF MapsKeepTheirPlace, EndOfMap

\* The j-th map of the result is the j-th map of the table, and says what its
\* own bytes say, however many maps before it are unknown or malformed.
THEOREM MapsKeepTheirPlaceAlways == Spec => []MapsKeepTheirPlace
<1> QED  BY MapsFollow, Inductive, PTL

\* Each name of a link's target is bytes of the link behind its own header.
THEOREM NamesInBufferAlways == Spec => []NamesInBuffer
<1>1. IInv => NamesInBuffer
  BY DEF IInv, LinkRead, InOrder, NamesInBuffer
<1> QED  BY <1>1, Inductive, PTL

\* A volume is recognised exactly when nothing hides the NSR descriptor.
THEOREM RecognisedAlways == Spec => []RecognisedIfReachable
<1>1. IInv => RecognisedIfReachable
  <2> SUFFICES ASSUME SectorsRead, pc = "done"
               PROVE  out = <<"udf">> <=> \E h \in 16 .. 31 :
                        in[h] = "nsr" /\ \A j \in 16 .. h - 1 : in[j] \in {"nsr", "other"}
    BY DEF IInv, RecognisedIfReachable
  <2>1. off \in 16 .. 32 /\ \A h \in 16 .. off - 1 : in[h] = "other"
    BY DEF SectorsRead
  <2>2. CASE out = <<"udf">> /\ off < 32 /\ in[off] = "nsr"
    <3>1. off \in 16 .. 31
      BY <2>1, <2>2
    <3> QED  BY <2>1, <2>2, <3>1
  <2>3. CASE out = << >> /\ (off = 32 \/ in[off] \in {"tea", "unreadable"})
    <3>1. ASSUME NEW h \in 16 .. 31, in[h] = "nsr", \A j \in 16 .. h - 1 : in[j] \in {"nsr", "other"}
          PROVE  FALSE
      <4>1. h >= off
        BY <2>1, <3>1
      <4>2. CASE h = off
        BY <2>3, <3>1, <4>2
      <4>3. CASE h > off
        BY <2>1, <2>3, <3>1, <4>3
      <4> QED  BY <2>1, <4>1, <4>2, <4>3
    <3> QED  BY <2>3, <3>1
  <2> QED  BY <2>2, <2>3 DEF SectorsRead
<1> QED  BY <1>1, Inductive, PTL

-----------------------------------------------------------------------------
(* Where the components of a link begin: the function that Begins defines by
   recursion exists, because the least set that holds 0 and is closed under
   stepping over a component is one. *)

Steps(l, q, p) == q + 4 <= p /\ q + 4 + At(l, q + 1) = p

LEMMA BeginsIs ==
    ASSUME NEW l, NEW N \in Nat, N = Len(l)
    PROVE  /\ Begins(l) \subseteq 0 .. N /\ 0 \in Begins(l)
           /\ \A p \in Begins(l) : p = 0 \/ \E q \in Begins(l) : Steps(l, q, p)
           /\ \A q \in Begins(l) : \A p \in 0 .. N : Steps(l, q, p) => p \in Begins(l)
<1> DEFINE Is(f) == f = [p \in 0 .. N |-> p = 0 \/ \E q \in 0 .. p - 4 : q + 4 + At(l, q + 1) = p /\ f[q]]
<1> DEFINE ClosedSet(S) == 0 \in S /\ \A q \in S : \A p \in 0 .. N : Steps(l, q, p) => p \in S
           B == {p \in 0 .. N : \A S \in SUBSET (0 .. N) : ClosedSet(S) => p \in S}
           g == [p \in 0 .. N |-> p \in B]
<1>1. ClosedSet(B) /\ B \subseteq 0 .. N
  OBVIOUS
<1>2. ASSUME NEW p \in B, p # 0 PROVE \E q \in B : Steps(l, q, p)
  <2> SUFFICES ASSUME \A q \in B : ~Steps(l, q, p) PROVE FALSE
    OBVIOUS
  <2> DEFINE S == B \ {p}
  <2>1. S \in SUBSET (0 .. N) /\ ClosedSet(S)
    BY <1>1, <1>2
  <2>2. p \in S
    <3> HIDE DEF ClosedSet, S
    <3> QED  BY <2>1
  <2> QED  BY <2>2
<1>3. \A q \in 0 .. N : g[q] = (q \in B)
  OBVIOUS
<1> HIDE DEF B, g
<1>4. ASSUME NEW p \in 0 .. N
      PROVE  p \in B <=> (p = 0 \/ \E q \in 0 .. p - 4 : q + 4 + At(l, q + 1) = p /\ g[q])
  <2>1. ASSUME p \in B, p # 0 PROVE \E q \in 0 .. p - 4 : q + 4 + At(l, q + 1) = p /\ g[q]
    <3>1. PICK q \in B : Steps(l, q, p)
      BY <1>2, <2>1
    <3>2. q \in 0 .. N /\ q \in 0 .. p - 4
      BY <1>1, <3>1 DEF Steps
    <3> QED  BY <1>3, <3>1, <3>2 DEF Steps
  <2>2. ASSUME NEW q \in 0 .. p - 4, q + 4 + At(l, q + 1) = p, g[q] PROVE p \in B
    <3>1. q \in 0 .. N /\ q + 4 <= p
      OBVIOUS
    <3> QED  BY <1>1, <1>3, <2>2, <3>1 DEF Steps
  <2> QED  BY <1>1, <2>1, <2>2
<1>5. Is(g)
  <2>1. \A p \in 0 .. N : (p \in B) = (p = 0 \/ \E q \in 0 .. p - 4 : q + 4 + At(l, q + 1) = p /\ g[q])
    BY <1>4
  <2>2. g = [p \in 0 .. N |-> p \in B]
    BY DEF g
  <2> QED  BY <2>1, <2>2, Zenon
<1> DEFINE f == CHOOSE h : Is(h)
<1>6. Is(f)
  <2> HIDE DEF Is
  <2> QED  BY <1>5
<1>7. Begins(l) = {p \in 0 .. N : f[p]}
  BY DEF Begins
<1> HIDE DEF f
<1>8. \A p \in 0 .. N : f[p] <=> (p = 0 \/ \E q \in 0 .. p - 4 : q + 4 + At(l, q + 1) = p /\ f[q])
  BY <1>6
<1> HIDE DEF Is
<1>9. ASSUME NEW p \in Begins(l), p # 0 PROVE \E q \in Begins(l) : Steps(l, q, p)
  <2>1. p \in 0 .. N /\ f[p]
    BY <1>7
  <2>2. PICK q \in 0 .. p - 4 : q + 4 + At(l, q + 1) = p /\ f[q]
    BY <1>8, <1>9, <2>1
  <2>3. q \in 0 .. N /\ q + 4 <= p
    BY <2>1, <2>2
  <2> QED  BY <1>7, <2>2, <2>3 DEF Steps
<1>10. ASSUME NEW q \in Begins(l), NEW p \in 0 .. N, Steps(l, q, p) PROVE p \in Begins(l)
  <2>1. q \in 0 .. N /\ f[q]
    BY <1>7
  <2>2. q \in 0 .. p - 4 /\ q + 4 + At(l, q + 1) = p
    BY <1>10, <2>1 DEF Steps
  <2> QED  BY <1>7, <1>8, <2>1, <2>2
<1> QED  BY <1>7, <1>8, <1>9, <1>10

-----------------------------------------------------------------------------
(* What a link's components before e say, and how one more of them adds to it. *)

\* Every component before e ends before e.
WholeBefore(l, e) == \A h \in Begins(l) : h < e => h + 4 <= e /\ h + 4 + At(l, h + 1) <= e

(* A target o says the components before e, each with a separator behind it. *)
Says(l, e, o) ==
    /\ Len(o) = RootLen(l, e) + 2 * Cardinality(Kept(l, e))
    /\ RootLen(l, e) = 1 => o[1] = Slash
    /\ Kept(l, e) # {} => o[Len(o)] = Slash
    /\ \A p \in Kept(l, e) :
          /\ Place(l, e, p) \in Nat /\ Place(l, e, p) < Len(o)
          /\ o[Place(l, e, p)] = Said(l, p) /\ o[Place(l, e, p) + 1] = Slash

\* The invariant of a well-formed link's scan.
LinkSaid ==
    op = "link" /\ WellFormedLink(in) =>
        /\ pc = "scan" => off \in Begins(in) /\ WholeBefore(in, off) /\ Says(in, off, out)
        /\ pc = "done" => LinkIsItsComponents

LEMMA ByteAt ==
    ASSUME NEW l \in Seq(Byte), NEW p \in Nat, p < Len(l)
    PROVE  At(l, p) \in 0 .. 255 /\ At(l, p) \in Nat
<1>1. p + 1 \in 1 .. Len(l)
  OBVIOUS
<1>2. l[p + 1] \in Byte
  BY <1>1
<1>3. \A x \in Byte : x \in 0 .. 255 /\ x \in Nat
  BY DEF Byte
<1> QED  BY <1>2, <1>3 DEF At

LEMMA NextBegin ==
    ASSUME NEW l \in Seq(Byte), NEW p \in Begins(l), WholeBefore(l, p),
           Len(l) \in Begins(l), p # Len(l)
    PROVE  /\ p \in Nat /\ p + 4 <= Len(l) /\ At(l, p + 1) \in Nat
           /\ p + 4 + At(l, p + 1) \in Begins(l) /\ p + 4 + At(l, p + 1) <= Len(l)
           /\ \A h \in Begins(l) : h > p => h >= p + 4 + At(l, p + 1)
           /\ WholeBefore(l, p + 4 + At(l, p + 1))
<1>1. PICK N \in Nat : N = Len(l)
  OBVIOUS
<1>2. /\ Begins(l) \subseteq 0 .. N
      /\ \A h \in Begins(l) : h = 0 \/ \E q \in Begins(l) : Steps(l, q, h)
  BY <1>1, BeginsIs
<1> DEFINE S == {h \in Begins(l) : h > p}
<1>3. PICK m \in S : \A h \in S : m <= h
  <2>1. N \in S /\ S \in SUBSET Nat
    BY <1>1, <1>2
  <2> HIDE DEF S
  <2> QED  BY <2>1, LeastNumber
<1>4. p \in Nat /\ m \in Nat /\ p < m /\ m <= N /\ m \in Begins(l)
  BY <1>2, <1>3
<1>5. PICK q \in Begins(l) : Steps(l, q, m)
  BY <1>2, <1>4
<1>6. q \in Nat /\ q + 4 <= m /\ q + 4 + At(l, q + 1) = m
  BY <1>2, <1>5 DEF Steps
<1>7. q = p
  <2>1. CASE q < p
    <3>1. q + 4 + At(l, q + 1) <= p
      BY <2>1 DEF WholeBefore
    <3> QED  BY <1>4, <1>6, <3>1
  <2>2. CASE q > p
    <3>1. q \in S
      BY <2>2
    <3> QED  BY <1>3, <1>4, <1>6, <3>1
  <2> QED  BY <1>4, <1>6, <2>1, <2>2
<1>8. p + 4 <= N
  BY <1>4, <1>6, <1>7
<1>9. At(l, p + 1) \in Nat
  <2>1. p + 1 \in Nat /\ p + 1 < Len(l)
    BY <1>1, <1>4, <1>8
  <2> QED  BY <2>1, ByteAt
<1>10. \A h \in Begins(l) : h > p => h >= m
  BY <1>2, <1>3, <1>4
<1>11. WholeBefore(l, m)
  <2>1. ASSUME NEW h \in Begins(l), h < m PROVE h + 4 <= m /\ h + 4 + At(l, h + 1) <= m
    <3>1. h \in Nat
      BY <1>2
    <3>2. CASE h < p
      <4>1. h + 4 <= p /\ h + 4 + At(l, h + 1) <= p
        BY <3>2 DEF WholeBefore
      <4>2. h + 4 + At(l, h + 1) <= m
        <5>1. At(l, h + 1) \in Nat
          <6>1. h + 1 \in Nat /\ h + 1 < Len(l)
            BY <1>1, <1>4, <3>1, <4>1
          <6> QED  BY <6>1, ByteAt
        <5> QED  BY <1>4, <3>1, <4>1, <5>1
      <4> QED  BY <1>4, <3>1, <4>1, <4>2
    <3>3. CASE h = p
      BY <1>4, <1>6, <1>7, <3>3
    <3>4. CASE h > p
      BY <1>4, <1>10, <2>1, <3>1, <3>4
    <3> QED  BY <1>4, <3>1, <3>2, <3>3, <3>4
  <2> QED  BY <2>1 DEF WholeBefore
<1> QED  BY <1>1, <1>4, <1>6, <1>7, <1>8, <1>9, <1>10, <1>11

LEMMA KeptIsFinite ==
    ASSUME NEW l, Len(l) \in Nat, NEW e
    PROVE  /\ IsFiniteSet(Kept(l, e)) /\ Cardinality(Kept(l, e)) \in Nat
           /\ Cardinality(Kept(l, e)) = 0 <=> Kept(l, e) = {}
           /\ RootLen(l, e) \in 0 .. 1
<1>1. PICK N \in Nat : N = Len(l)
  OBVIOUS
<1>2. Kept(l, e) \subseteq 0 .. N
  BY <1>1, BeginsIs DEF Kept
<1>3. IsFiniteSet(0 .. N)
  BY FS_Interval
<1>4. IsFiniteSet(Kept(l, e))
  BY <1>2, <1>3, FS_Subset
<1> QED  BY <1>4, FS_CardinalityType, FS_EmptySet DEF RootLen

\* A component that does not reset the target joins what is kept, or is nothing.
LEMMA OneMore ==
    ASSUME NEW l, Len(l) \in Nat, NEW p \in Begins(l), NEW e \in Nat, p < e,
           \A h \in Begins(l) : h > p => h >= e,
           p \notin Resets(l, e)
    PROVE  /\ RootLen(l, e) = RootLen(l, p)
           /\ At(l, p) \notin 3 .. 5 => Kept(l, e) = Kept(l, p)
           /\ At(l, p) \in 3 .. 5 => Kept(l, e) = Kept(l, p) \cup {p}
           /\ \A q \in Kept(l, p) : q < p /\ Place(l, e, q) = Place(l, p, q)
           /\ Place(l, e, p) = RootLen(l, p) + 2 * Cardinality(Kept(l, p)) + 1
<1>1. PICK N \in Nat : N = Len(l)
  OBVIOUS
<1>2. Begins(l) \subseteq 0 .. N
  BY <1>1, BeginsIs
<1>3. \A h \in Begins(l) : h < e <=> h < p \/ h = p
  BY <1>2
<1>4. Resets(l, e) = Resets(l, p)
  BY <1>3 DEF Resets
<1>5. \A r \in Resets(l, p) : r < p
  BY DEF Resets
<1>6. At(l, p) \notin 3 .. 5 => Kept(l, e) = Kept(l, p)
  BY <1>3, <1>4 DEF Kept
<1>7. At(l, p) \in 3 .. 5 => Kept(l, e) = Kept(l, p) \cup {p}
  <2> SUFFICES ASSUME At(l, p) \in 3 .. 5 PROVE Kept(l, e) = Kept(l, p) \cup {p}
    OBVIOUS
  <2>1. p \in Kept(l, e)
    BY <1>3, <1>4, <1>5 DEF Kept
  <2>2. \A q \in Begins(l) : q # p => (q \in Kept(l, e) <=> q \in Kept(l, p))
    BY <1>3, <1>4 DEF Kept
  <2>3. Kept(l, e) \subseteq Begins(l) /\ Kept(l, p) \subseteq Begins(l)
    BY DEF Kept
  <2> QED  BY <2>1, <2>2, <2>3
<1>8. RootLen(l, e) = RootLen(l, p)
  BY <1>4 DEF RootLen
<1>9. \A q \in Kept(l, p) : q \in Nat /\ q < p
  BY <1>2 DEF Kept
<1>10. p \in Nat
  BY <1>2
<1>11. ASSUME NEW q \in Kept(l, p) PROVE Place(l, e, q) = Place(l, p, q)
  <2>1. {x \in Kept(l, e) : x < q} = {x \in Kept(l, p) : x < q}
    BY <1>6, <1>7, <1>9, <1>10
  <2> QED  BY <1>8, <2>1 DEF Place
<1>12. {x \in Kept(l, e) : x < p} = Kept(l, p)
  BY <1>6, <1>7, <1>9, <1>10
<1>13. Place(l, e, p) = RootLen(l, p) + 2 * Cardinality(Kept(l, p)) + 1
  BY <1>8, <1>12 DEF Place
<1> QED  BY <1>6, <1>7, <1>8, <1>9, <1>11, <1>13

LEMMA SaysOneMore ==
    ASSUME NEW l, Len(l) \in Nat, NEW p \in Begins(l), NEW e \in Nat, p < e,
           \A h \in Begins(l) : h > p => h >= e,
           p \notin Resets(l, e), At(l, p) \in 3 .. 5,
           NEW o \in Seq(Part), Says(l, p, o), NEW x \in Part, x = Said(l, p), Slash \in Part
    PROVE  Says(l, e, o \o <<x, Slash>>)
<1>1. /\ RootLen(l, e) = RootLen(l, p)
      /\ Kept(l, e) = Kept(l, p) \cup {p}
      /\ \A q \in Kept(l, p) : q < p /\ Place(l, e, q) = Place(l, p, q)
      /\ Place(l, e, p) = RootLen(l, p) + 2 * Cardinality(Kept(l, p)) + 1
  BY OneMore
<1>2. IsFiniteSet(Kept(l, p)) /\ Cardinality(Kept(l, p)) \in Nat /\ RootLen(l, p) \in 0 .. 1
  BY KeptIsFinite
<1>3. p \notin Kept(l, p)
  <2>1. PICK N \in Nat : N = Len(l)
    OBVIOUS
  <2>2. p \in 0 .. N
    BY <2>1, BeginsIs
  <2> QED  BY <1>1, <2>2
<1>4. Cardinality(Kept(l, e)) = Cardinality(Kept(l, p)) + 1
  BY <1>1, <1>2, <1>3, FS_AddElement
<1> PICK c \in Nat : c = Cardinality(Kept(l, p))
  BY <1>2
<1> PICK r \in 0 .. 1 : r = RootLen(l, p)
  BY <1>2
<1> PICK n \in Nat : n = Len(o)
  OBVIOUS
<1> DEFINE u == o \o <<x, Slash>>
<1>5. /\ Len(u) = n + 2 /\ u[n + 1] = x /\ u[n + 2] = Slash
      /\ \A k \in 1 .. n : u[k] = o[k]
  OBVIOUS
<1> HIDE DEF u
<1>6. n = r + 2 * c
  BY DEF Says
<1>7. Len(u) = RootLen(l, e) + 2 * Cardinality(Kept(l, e))
  BY <1>1, <1>4, <1>5, <1>6
<1>8. RootLen(l, e) = 1 => u[1] = Slash
  <2> SUFFICES ASSUME RootLen(l, e) = 1 PROVE u[1] = Slash
    OBVIOUS
  <2>1. 1 \in 1 .. n
    BY <1>1, <1>6
  <2>2. o[1] = Slash
    BY <1>1 DEF Says
  <2> QED  BY <1>5, <2>1, <2>2
<1>9. u[Len(u)] = Slash
  BY <1>5
<1>10. ASSUME NEW q \in Kept(l, e)
       PROVE  /\ Place(l, e, q) \in Nat /\ Place(l, e, q) < Len(u)
              /\ u[Place(l, e, q)] = Said(l, q) /\ u[Place(l, e, q) + 1] = Slash
  <2>1. CASE q = p
    <3>1. Place(l, e, q) = n + 1
      BY <1>1, <1>6, <2>1
    <3>2. n + 1 + 1 = n + 2
      OBVIOUS
    <3> QED  BY <1>5, <2>1, <3>1, <3>2
  <2>2. CASE q \in Kept(l, p)
    <3>1. PICK k \in Nat : k = Place(l, p, q)
      BY <2>2 DEF Says
    <3>2. k < n /\ o[k] = Said(l, q) /\ o[k + 1] = Slash /\ Place(l, e, q) = k
      BY <1>1, <2>2, <3>1 DEF Says
    <3>3. k >= 1
      <4> PICK T : T = {y \in Kept(l, p) : y < q}
        OBVIOUS
      <4>1. IsFiniteSet(T) /\ Cardinality(T) \in Nat
        BY <1>2, FS_Subset, FS_CardinalityType
      <4> QED  BY <3>1, <4>1 DEF Place
    <3>4. k \in 1 .. n /\ k + 1 \in 1 .. n
      BY <3>2, <3>3
    <3> QED  BY <1>5, <3>2, <3>4
  <2> QED  BY <1>1, <2>1, <2>2
<1>11. Says(l, e, u)
  BY <1>7, <1>8, <1>9, <1>10 DEF Says
<1> QED  BY <1>11 DEF u

LEMMA SaysReset ==
    ASSUME NEW l, Len(l) \in Nat, NEW p \in Begins(l), NEW e \in Nat, p < e,
           \A h \in Begins(l) : h > p => h >= e,
           p \in Resets(l, e)
    PROVE  Says(l, e, <<Slash>>)
<1>1. PICK N \in Nat : N = Len(l)
  OBVIOUS
<1>2. Begins(l) \subseteq 0 .. N
  BY <1>1, BeginsIs
<1>3. At(l, p) \in {1, 2} /\ RootLen(l, e) = 1
  BY DEF Resets, RootLen
<1>4. ASSUME NEW q \in Kept(l, e) PROVE FALSE
  <2>1. q \in Begins(l) /\ q < e /\ p < q
    BY <1>4 DEF Kept
  <2> QED  BY <1>2, <2>1
<1>5. Kept(l, e) = {}
  BY <1>4
<1>6. Cardinality(Kept(l, e)) = 0
  BY <1>5, FS_EmptySet
<1> DEFINE u == <<Slash>>
<1>7. Len(u) = 1 /\ u[1] = Slash
  OBVIOUS
<1> HIDE DEF u
<1>8. Len(u) = RootLen(l, e) + 2 * Cardinality(Kept(l, e))
  BY <1>3, <1>6, <1>7
<1>9. Says(l, e, u)
  BY <1>5, <1>7, <1>8 DEF Says
<1> QED  BY <1>9 DEF u

LEMMA SaysNothingMore ==
    ASSUME NEW l, Len(l) \in Nat, NEW p \in Begins(l), NEW e \in Nat, p < e,
           \A h \in Begins(l) : h > p => h >= e,
           p \notin Resets(l, e), At(l, p) \notin 3 .. 5,
           NEW o, Says(l, p, o)
    PROVE  Says(l, e, o)
<1>1. /\ RootLen(l, e) = RootLen(l, p) /\ Kept(l, e) = Kept(l, p)
      /\ \A q \in Kept(l, p) : Place(l, e, q) = Place(l, p, q)
  BY OneMore
<1> QED  BY <1>1 DEF Says

LEMMA LinkSaidInit == Init => LinkSaid
<1> SUFFICES ASSUME Init, op = "link" PROVE pc = "scan" /\ off \in Begins(in) /\ WholeBefore(in, off) /\ Says(in, off, out)
  BY DEF LinkSaid, Init
<1>1. in \in Seq(Byte) /\ off = 0 /\ out = << >> /\ pc = "scan"
  BY LinksAssumption DEF Init
<1>2. PICK N \in Nat : N = Len(in)
  BY <1>1
<1>3. off \in Begins(in) /\ Begins(in) \subseteq 0 .. N
  BY <1>1, <1>2, BeginsIs
<1>4. \A h \in Begins(in) : ~(h < off)
  BY <1>1, <1>3
<1>5. Kept(in, off) = {} /\ Resets(in, off) = {}
  BY <1>4 DEF Kept, Resets
<1>6. RootLen(in, off) = 0 /\ Cardinality(Kept(in, off)) = 0 /\ Len(out) = 0
  BY <1>1, <1>5, FS_EmptySet DEF RootLen
<1>7. Says(in, off, out)
  BY <1>5, <1>6 DEF Says
<1> QED  BY <1>1, <1>3, <1>4, <1>7 DEF WholeBefore

\* A name and the slash behind it, appended one by one.
LEMMA TwoAppended ==
    ASSUME NEW S, NEW s \in Seq(S), NEW a \in S, NEW b \in S
    PROVE  s \o <<a>> \o <<b>> = s \o <<a, b>>
<1> PICK n \in Nat : n = Len(s)
  OBVIOUS
<1> PICK t : t = s \o <<a>>
  OBVIOUS
<1> PICK u, v : u = t \o <<b>> /\ v = s \o <<a, b>>
  OBVIOUS
<1>1. t \in Seq(S) /\ Len(t) = n + 1 /\ t[n + 1] = a /\ \A k \in 1 .. n : t[k] = s[k]
  OBVIOUS
<1>2. u \in Seq(S) /\ Len(u) = n + 2 /\ u[n + 2] = b /\ \A k \in 1 .. n + 1 : u[k] = t[k]
  BY <1>1
<1>3. /\ v \in Seq(S) /\ Len(v) = n + 2 /\ v[n + 1] = a /\ v[n + 2] = b
      /\ \A k \in 1 .. n : v[k] = s[k]
  OBVIOUS
<1>4. ASSUME NEW k \in 1 .. n + 2 PROVE u[k] = v[k]
  <2>1. k \in 1 .. n \/ k = n + 1 \/ k = n + 2
    OBVIOUS
  <2>2. n + 1 \in 1 .. n + 1 /\ (k \in 1 .. n => k \in 1 .. n + 1)
    OBVIOUS
  <2> QED  BY <1>1, <1>2, <1>3, <2>1, <2>2
<1>5. Len(u) = Len(v) /\ \A k \in 1 .. Len(u) : u[k] = v[k]
  BY <1>2, <1>3, <1>4
<1>6. u = v
  BY <1>2, <1>3, <1>5, SeqEqual
<1> QED  BY <1>6

LEMMA LinkSaidTake == IInv /\ LinkSaid /\ TakeComponent => LinkSaid'
<1> SUFFICES ASSUME IInv, LinkSaid, TakeComponent, WellFormedLink(in)
             PROVE  off' \in Begins(in) /\ WholeBefore(in, off') /\ Says(in, off', out')
  <2>1. TakeComponent => UNCHANGED <<op, in, pc>> /\ pc = "scan"
    BY DEF TakeComponent, Scanning
  <2>2. TakeComponent => (WellFormedLink(in)' <=> WellFormedLink(in)) /\ pc' # "done"
    BY <2>1
  <2> QED  BY <2>1, <2>2 DEF LinkSaid
<1>1. /\ op = "link" /\ LinkRead /\ off + 4 <= Len(in) /\ off' = Past(Component)
      /\ off \in Begins(in) /\ WholeBefore(in, off) /\ Says(in, off, out)
      /\ out' = CASE Reset -> AfterReset(out)
                [] Component = 3 -> out \o <<Text(".."), Slash>>
                [] Component = 4 -> out \o <<Text("."), Slash>>
                [] Component = 5 -> out \o Decoded \o <<Slash>>
                [] OTHER -> out
  BY DEF IInv, TakeComponent, Scanning, HasHeader, LinkSaid
<1> PICK l : l = in
  OBVIOUS
<1> PICK p : p = off
  OBVIOUS
<1> PICK o : o = out
  OBVIOUS
<1>2. l \in Seq(Byte) /\ Len(l) \in Nat /\ o \in Seq(Part) /\ p \in Nat /\ p + 4 <= Len(l)
  BY <1>1 DEF LinkRead, InOrder
<1>3. /\ Len(l) \in Begins(l) /\ p \in Begins(l) /\ p # Len(l)
      /\ \/ At(l, p) = 1
         \/ At(l, p) \in 2 .. 4 /\ At(l, p + 1) = 0
         \/ At(l, p) = 5 /\ Named(l, p)
  BY <1>1, <1>2 DEF WellFormedLink
<1> PICK b : b = At(l, p + 1)
  OBVIOUS
<1> PICK k : k = At(l, p)
  OBVIOUS
<1> PICK e : e = p + 4 + b
  OBVIOUS
<1>4. /\ b \in Nat /\ e \in Begins(l) /\ e <= Len(l) /\ WholeBefore(l, e)
      /\ \A h \in Begins(l) : h > p => h >= e
  BY <1>1, <1>2, <1>3, NextBegin
<1>5. e \in Nat /\ p < e
  BY <1>2, <1>4
<1>6. k = 1 \/ (k \in 2 .. 4 /\ b = 0) \/ (k = 5 /\ b >= 2 /\ (At(l, p + 4) = 16 => b >= 3))
  BY <1>3 DEF Named
<1>7. off' = e
  <2>1. off' = p + 4 + (IF k \in {1, 5} THEN b ELSE 0)
    BY <1>1 DEF Past, IdentLen, Component
  <2> QED  BY <1>2, <1>6, <2>1
<1>8. Reset <=> k = 2 \/ (k = 1 /\ b = 0)
  BY DEF Reset, Component, IdentLen
<1>9. Reset <=> p \in Resets(l, e)
  BY <1>3, <1>5, <1>6, <1>8 DEF Resets
<1>10. /\ Slash \in Part /\ Text("..") \in Part /\ Text(".") \in Part
       /\ Name(p + 4, e) \in Part
  BY <1>2, <1>5 DEF Slash, Text, Name, Part
<1>11. Says(l, e, out')
  <2>1. CASE Reset
    <3>1. out' = <<Slash>>
      BY <1>1, <2>1 DEF AfterReset, Reset
    <3> QED  BY <1>2, <1>3, <1>4, <1>5, <1>9, <2>1, <3>1, SaysReset
  <2>2. ASSUME ~Reset, k \in 3 .. 5, NEW x \in Part, x = Said(l, p), out' = o \o <<x, Slash>>
        PROVE  Says(l, e, out')
    <3>1. Says(l, p, o)
      BY <1>1
    <3> QED  BY <1>2, <1>3, <1>4, <1>5, <1>9, <1>10, <2>2, <3>1, SaysOneMore
  <2>3. CASE ~Reset /\ k = 3
    <3>1. out' = o \o <<Text(".."), Slash>> /\ Said(l, p) = Text("..") /\ k \in 3 .. 5
      BY <1>1, <2>3 DEF Component, Said
    <3> QED  BY <1>10, <2>2, <2>3, <3>1
  <2>4. CASE ~Reset /\ k = 4
    <3>1. out' = o \o <<Text("."), Slash>> /\ Said(l, p) = Text(".") /\ k \in 3 .. 5
      BY <1>1, <2>4 DEF Component, Said
    <3> QED  BY <1>10, <2>2, <2>4, <3>1
  <2>5. CASE ~Reset /\ k = 5
    <3>1. Said(l, p) = Name(p + 4, e)
      BY <2>5 DEF Said
    <3>2. Decoded = <<Name(p + 4, e)>>
      <4>1. NameInRange(p + 4, b) /\ Legible(p + 4, b)
        BY <1>2, <1>4, <1>5, <1>6, <2>5 DEF NameInRange, Legible
      <4> QED  BY <4>1 DEF Decoded, IdentLen
    <3> PICK x \in Part : x = Name(p + 4, e)
      BY <1>10
    <3>3. out' = o \o <<x>> \o <<Slash>>
      BY <1>1, <2>5, <3>2 DEF Component
    <3>4. out' = o \o <<x, Slash>>
      <4>1. o \in Seq(Part) /\ x \in Part /\ Slash \in Part
        BY <1>2, <1>10
      <4>2. o \o <<x>> \o <<Slash>> = o \o <<x, Slash>>
        BY <4>1, TwoAppended
      <4> QED  BY <3>3, <4>2
    <3>5. ~Reset /\ k \in 3 .. 5 /\ x = Said(l, p)
      BY <2>5, <3>1
    <3> QED  BY <2>2, <3>4, <3>5
  <2>6. CASE ~Reset /\ k \notin 3 .. 5
    <3>1. out' = o
      BY <1>1, <2>6 DEF Component
    <3>2. Says(l, p, o)
      BY <1>1
    <3>3. p \notin Resets(l, e) /\ At(l, p) \notin 3 .. 5
      BY <1>9, <2>6
    <3>4. p \in Begins(l) /\ e \in Nat /\ p < e /\ Len(l) \in Nat
      BY <1>2, <1>3, <1>5
    <3>5. \A h \in Begins(l) : h > p => h >= e
      BY <1>4
    <3>6. Says(l, e, o)
      BY <3>2, <3>3, <3>4, <3>5, SaysNothingMore
    <3> QED  BY <3>1, <3>6
  <2> QED  BY <1>6, <2>1, <2>3, <2>4, <2>5, <2>6
<1> QED  BY <1>4, <1>7, <1>11

LEMMA LinkSaidDone == IInv /\ LinkSaid /\ LinkDone => LinkSaid'
<1> SUFFICES ASSUME IInv, LinkSaid, LinkDone, WellFormedLink(in) PROVE LinkIsItsComponents'
  <2>1. LinkDone => UNCHANGED <<op, in>> /\ pc' # "scan"
    BY DEF LinkDone, Done
  <2>2. LinkDone => (WellFormedLink(in)' <=> WellFormedLink(in))
    BY <2>1
  <2> QED  BY <2>1, <2>2 DEF LinkSaid
<1>1. /\ op = "link" /\ LinkRead /\ ~(off + 4 <= Len(in)) /\ out' = Trimmed(out) /\ UNCHANGED <<op, in>>
      /\ off \in Begins(in) /\ WholeBefore(in, off) /\ Says(in, off, out)
  BY DEF IInv, LinkDone, Scanning, HasHeader, LinkSaid, Done
<1> PICK l : l = in
  OBVIOUS
<1> PICK o : o = out
  OBVIOUS
<1> PICK u : u = out'
  OBVIOUS
<1> PICK e \in Nat : e = Len(l)
  BY <1>1 DEF LinkRead
<1>2. l \in Seq(Byte) /\ o \in Seq(Part)
  BY <1>1 DEF LinkRead, InOrder
<1>3. off = e
  BY <1>1, <1>2, NextBegin DEF WellFormedLink
<1>4. Says(l, e, o)
  BY <1>1, <1>3
<1>5. /\ IsFiniteSet(Kept(l, e)) /\ Cardinality(Kept(l, e)) \in Nat
      /\ Cardinality(Kept(l, e)) = 0 <=> Kept(l, e) = {}
      /\ RootLen(l, e) \in 0 .. 1
  BY KeptIsFinite
<1> PICK c \in Nat : c = Cardinality(Kept(l, e))
  BY <1>5
<1> PICK r \in 0 .. 1 : r = RootLen(l, e)
  BY <1>5
<1>6. Len(o) = r + 2 * c
  BY <1>4 DEF Says
<1>7. CASE Kept(l, e) = {}
  <2>1. c = 0
    BY <1>5, <1>7
  <2>2. ~(Len(o) > 1)
    BY <1>6, <2>1
  <2>3. u = o
    BY <1>1, <2>2 DEF Trimmed
  <2>4. RootLen(l, e) = 1 => u[1] = Slash
    BY <1>4, <2>3 DEF Says
  <2>5. Len(u) = r + (IF Kept(l, e) = {} THEN 0 ELSE 2 * Cardinality(Kept(l, e)) - 1)
    <3>1. Len(u) = r + 0
      BY <1>6, <2>1, <2>3
    <3> QED  BY <1>7, <3>1
  <2> QED  BY <1>1, <1>7, <2>4, <2>5 DEF LinkIsItsComponents
<1>8. CASE Kept(l, e) # {}
  <2>1. c >= 1 /\ Len(o) > 1
    BY <1>5, <1>6, <1>8
  <2>2. u = SubSeq(o, 1, Len(o) - 1)
    <3>1. o[Len(o)] = Slash
      BY <1>4, <1>8 DEF Says
    <3> QED  BY <1>1, <2>1, <3>1 DEF Trimmed, Front, Last
  <2> PICK n \in Nat : n = Len(o)
    BY <1>2
  <2>3. Len(u) = n - 1 /\ \A k \in 1 .. n - 1 : u[k] = o[k]
    BY <1>2, <2>1, <2>2
  <2>4. Len(u) = RootLen(l, e) + (IF Kept(l, e) = {} THEN 0 ELSE 2 * Cardinality(Kept(l, e)) - 1)
    <3>1. Len(u) = r + (2 * c - 1)
      BY <1>6, <2>3
    <3> QED  BY <1>8, <3>1
  <2>5. RootLen(l, e) = 1 => u[1] = Slash
    <3>1. 1 \in 1 .. n - 1
      BY <2>1
    <3> QED  BY <1>4, <2>3, <3>1 DEF Says
  <2>6. ASSUME NEW q \in Kept(l, e)
        PROVE  /\ u[Place(l, e, q)] = Said(l, q)
               /\ Place(l, e, q) < Len(u) => u[Place(l, e, q) + 1] = Slash
    <3>1. PICK k \in Nat : k = Place(l, e, q)
      BY <1>4 DEF Says
    <3>2. k < n /\ o[k] = Said(l, q) /\ o[k + 1] = Slash
      BY <1>4, <3>1 DEF Says
    <3>3. k >= 1
      <4> PICK T : T = {y \in Kept(l, e) : y < q}
        OBVIOUS
      <4>1. IsFiniteSet(T) /\ Cardinality(T) \in Nat
        BY <1>5, FS_Subset, FS_CardinalityType
      <4> QED  BY <3>1, <4>1 DEF Place
    <3>4. k \in 1 .. n - 1 /\ (k < n - 1 => k + 1 \in 1 .. n - 1)
      BY <3>2, <3>3
    <3> QED  BY <2>3, <3>1, <3>2, <3>4
  <2> QED  BY <1>1, <2>4, <2>5, <2>6 DEF LinkIsItsComponents
<1> QED  BY <1>7, <1>8

LEMMA LinkSaidStep == IInv /\ LinkSaid /\ [Next]_vars => LinkSaid'
<1> SUFFICES ASSUME IInv, LinkSaid, [Next]_vars PROVE LinkSaid'
  OBVIOUS
<1>1. CASE TakeComponent
  BY <1>1, LinkSaidTake
<1>2. CASE LinkDone
  BY <1>2, LinkSaidDone
<1>3. CASE TakeMap \/ MapsDone
  BY <1>3 DEF TakeMap, MapsDone, Scanning, Done, LinkSaid
<1>4. CASE NextSector \/ DetectDone
  BY <1>4 DEF NextSector, DetectDone, Scanning, Done, LinkSaid
<1>5. CASE UNCHANGED vars
  BY <1>5 DEF vars, LinkSaid, LinkIsItsComponents
<1> QED  BY <1>1, <1>2, <1>3, <1>4, <1>5 DEF Next

\* The target of a well-formed link, of any length, is what its components say.
THEOREM LinkIsItsComponentsAlways == Spec => []LinkIsItsComponents
<1>1. LinkSaid => LinkIsItsComponents
  BY DEF LinkSaid, LinkIsItsComponents
<1> QED  BY <1>1, LinkSaidInit, LinkSaidStep, Inductive, PTL DEF Spec

-----------------------------------------------------------------------------
(* Termination as a bound on the steps. *)

\* A cursor that advances by at least a unit has one step fewer before it.
LEMMA AheadShrinks ==
    ASSUME NEW unit \in Nat \ {0}, NEW end \in Nat, NEW o \in 0 .. end,
           NEW p \in o + unit .. end
    PROVE  /\ (end - p) \div unit \in Nat /\ (end - o) \div unit \in Nat
           /\ (end - p) \div unit < (end - o) \div unit
<1>1. end - p \in Nat /\ end - o \in Nat /\ (end - p) + unit <= end - o
  OBVIOUS
<1> QED  BY <1>1, DivisionLess

LEMMA MapsShrink == IInv /\ TakeMap => StepsLeft' \in 0 .. StepsLeft - 1
<1> SUFFICES ASSUME IInv, TakeMap PROVE StepsLeft' \in 0 .. StepsLeft - 1
  OBVIOUS
<1>1. /\ op = "maps" /\ MapsRead /\ pc = "scan" /\ UNCHANGED <<op, in, pc>>
      /\ off + 2 <= MapsEnd(in) /\ MapLen(in, off) >= 2 /\ off + MapLen(in, off) <= MapsEnd(in)
      /\ off' = off + MapLen(in, off)
  BY DEF IInv, TakeMap, Scanning, MoreMaps, WellSized
<1> PICK end, len, next : end = MapsEnd(in) /\ len = MapLen(in, off) /\ next = off + len
  OBVIOUS
<1>2. off \in Nat /\ end \in Nat /\ len \in Nat
  BY <1>1, MapType DEF MapsRead
<1>3. off \in 0 .. end /\ next \in off + 2 .. end
  BY <1>1, <1>2
<1> PICK ahead, rest : ahead = (end - off) \div 2 /\ rest = (end - next) \div 2
  OBVIOUS
<1>4. rest \in Nat /\ ahead \in Nat /\ rest < ahead
  BY <1>2, <1>3, AheadShrinks
<1>5. StepsLeft = 1 + ahead /\ StepsLeft' = 1 + rest
  BY <1>1 DEF StepsLeft
<1> QED  BY <1>4, <1>5

\* The same of a link's components, whose last may reach beyond the link.
LEMMA ComponentsAhead ==
    ASSUME NEW end \in Nat, NEW o \in Nat, NEW p \in Nat, o + 4 <= end, o + 4 <= p
    PROVE  /\ 1 + 0 \in 0 .. (1 + ((end - o) \div 4)) - 1
           /\ p + 4 <= end => 1 + ((end - p) \div 4) \in 0 .. (1 + ((end - o) \div 4)) - 1
<1> PICK n \in Nat : n = end - o /\ 0 + 4 <= n
  OBVIOUS
<1>1. n \div 4 \in Nat /\ 0 \div 4 < n \div 4 /\ 0 \div 4 \in Nat
  BY DivisionLess
<1> PICK d \in Nat : d = n \div 4 /\ d > 0
  BY <1>1
<1>2. 1 + 0 \in 0 .. (1 + d) - 1
  OBVIOUS
<1>3. ASSUME p + 4 <= end PROVE 1 + ((end - p) \div 4) \in 0 .. (1 + d) - 1
  <2> PICK m \in Nat : m = end - p /\ m + 4 <= n
    BY <1>3
  <2>1. m \div 4 \in Nat /\ m \div 4 < n \div 4
    BY DivisionLess
  <2> QED  BY <2>1
<1> QED  BY <1>2, <1>3

LEMMA ComponentsShrink == IInv /\ TakeComponent => StepsLeft' \in 0 .. StepsLeft - 1
<1> SUFFICES ASSUME IInv, TakeComponent PROVE StepsLeft' \in 0 .. StepsLeft - 1
  OBVIOUS
<1>1. /\ op = "link" /\ LinkRead /\ pc = "scan" /\ UNCHANGED <<op, in, pc>>
      /\ off + 4 <= Len(in) /\ off' = Past(Component)
  BY DEF IInv, TakeComponent, Scanning, HasHeader
<1> PICK end \in Nat : end = Len(in)
  BY <1>1 DEF LinkRead
<1> PICK o \in Nat : o = off
  BY <1>1 DEF LinkRead
<1> PICK b \in Nat : b = IdentLen
  BY <1>1, ByteAt DEF LinkRead, IdentLen
<1> PICK p \in Nat : p = Past(Component) /\ o + 4 <= p
  BY DEF Past
<1>2. StepsLeft = 1 + ((end - o) \div 4)
  BY <1>1 DEF StepsLeft, HasHeader
<1>3. StepsLeft' = IF p + 4 <= end THEN 1 + ((end - p) \div 4) ELSE 1 + 0
  BY <1>1 DEF StepsLeft, HasHeader
<1>4. o + 4 <= end
  BY <1>1
<1>5. /\ 1 + 0 \in 0 .. (1 + ((end - o) \div 4)) - 1
      /\ p + 4 <= end => 1 + ((end - p) \div 4) \in 0 .. (1 + ((end - o) \div 4)) - 1
  BY <1>4, ComponentsAhead
<1> QED  BY <1>2, <1>3, <1>5, Zenon

LEMMA EndShrinks == IInv /\ (MapsDone \/ LinkDone \/ DetectDone) => StepsLeft' \in 0 .. StepsLeft - 1
<1> SUFFICES ASSUME IInv, MapsDone \/ LinkDone \/ DetectDone PROVE StepsLeft' \in 0 .. StepsLeft - 1
  OBVIOUS
<1>1. pc = "scan" /\ StepsLeft' = 0
  BY DEF MapsDone, LinkDone, DetectDone, Scanning, Done, StepsLeft
<1>2. StepsLeft \in Nat /\ StepsLeft > 0
  <2>1. CASE op = "maps" /\ MapsRead
    <3> PICK end \in Nat : end = MapsEnd(in)
      BY <2>1, MapType DEF MapsRead
    <3>1. end - off \in Nat
      BY <2>1 DEF MapsRead
    <3>2. (end - off) \div 2 \in Nat
      BY <3>1, Division
    <3>3. StepsLeft = 1 + (end - off) \div 2
      BY <1>1, <2>1 DEF StepsLeft
    <3> QED  BY <3>2, <3>3
  <2>2. CASE op = "link" /\ LinkRead
    <3>1. LinkDone
      BY <2>2 DEF MapsDone, DetectDone, Scanning
    <3>2. StepsLeft = 1 + 0
      BY <1>1, <2>2, <3>1 DEF StepsLeft, LinkDone
    <3> QED  BY <3>2
  <2>3. CASE op = "detect" /\ SectorsRead
    <3>1. off \in 16 .. 32
      BY <2>3 DEF SectorsRead
    <3>2. StepsLeft = 1 + (32 - off)
      BY <1>1, <2>3 DEF StepsLeft
    <3> QED  BY <3>1, <3>2
  <2> QED  BY <2>1, <2>2, <2>3 DEF IInv
<1> QED  BY <1>1, <1>2

LEMMA SectorsShrink == IInv /\ NextSector => StepsLeft' \in 0 .. StepsLeft - 1
<1> SUFFICES ASSUME IInv, NextSector PROVE StepsLeft' \in 0 .. StepsLeft - 1
  OBVIOUS
<1>1. /\ op = "detect" /\ pc = "scan" /\ op' = op /\ pc' = pc
      /\ off \in 16 .. 31 /\ off' = off + 1
  BY DEF IInv, SectorsRead, NextSector, Scanning
<1>2. StepsLeft = 1 + (32 - off) /\ StepsLeft' = 1 + (32 - (off + 1))
  BY <1>1 DEF StepsLeft
<1> QED  BY <1>1, <1>2

\* Whatever lengths an input holds, every step of a scan takes it nearer to an
\* end that is never further away than the input is long.
THEOREM StepsBoundedAlways == Spec => StepsBounded
<1>1. IInv /\ [Next]_vars => [StepsLeft' \in 0 .. StepsLeft - 1]_vars
  BY MapsShrink, ComponentsShrink, EndShrinks, SectorsShrink DEF Next
<1> QED  BY <1>1, Inductive, PTL DEF Spec, StepsBounded

=============================================================================
