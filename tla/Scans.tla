-------------------------------- MODULE Scans --------------------------------
(***************************************************************************)
(* The reader's three short scans (core/src/lib.rs), each one cursor over  *)
(* one input and a result:                                                 *)
(*   "maps"    parse_partition_maps, the map table of a Logical Volume     *)
(*             Descriptor, with classify_type2;                            *)
(*   "link"    decode_symlink_target, the path components of a link;       *)
(*   "detect"  detect_udf, the volume recognition sequence.                *)
(*                                                                         *)
(* A table and a link are bytes, because a wrong length makes the code     *)
(* read any of them as the next header; offsets are the code's, from 0.    *)
(* What is abstracted: the entity names of a map table are given by where  *)
(* they stand; a path component's name is the span of bytes that is        *)
(* decoded, and holds no "/"; a sector of the recognition sequence is what *)
(* its identifier makes of it.                                             *)
(***************************************************************************)
EXTENDS Naturals, Sequences, SequencesExt

CONSTANTS
    NameLen,        \* length of the names that classify_type2 looks for
    Tables, Links, Recognitions   \* the inputs of the three scans

Byte == 0 .. 255
At(bytes, p) == bytes[p + 1]

(* mtLen: the recorded length of the table; count: N_PM; names: where which
   entity name starts. The bytes are those from BP 440 to the sector's end. *)
IsTable(t) ==
    /\ t.bytes \in Seq(Byte) /\ t.mtLen \in Nat /\ t.count \in Nat
    /\ t.names \subseteq Nat \X {"Metadata", "Virtual", "Sparable"}

(* Sectors 16 to 31: an NSR descriptor, the terminator TEA01, another one or
   nothing known, or a failed seek or read. *)
Sector == {"nsr", "tea", "other", "unreadable"}

ASSUME NameLenAssumption == NameLen \in Nat
ASSUME TablesAssumption == \A t \in Tables : IsTable(t)
ASSUME LinksAssumption == Links \subseteq Seq(Byte)
ASSUME RecognitionsAssumption == Recognitions \subseteq [16 .. 31 -> Sector]

VARIABLES
    op,         \* which scan runs
    in,         \* its input
    pc,         \* "scan" or "done"
    off,        \* its cursor
    out         \* its result so far

vars == <<op, in, pc, off, out>>

Init ==
    /\ \/ op = "maps" /\ in \in Tables /\ off = 0
       \/ op = "link" /\ in \in Links /\ off = 0
       \/ op = "detect" /\ in \in Recognitions /\ off = 16
    /\ pc = "scan" /\ out = << >>

Scanning(o) == pc = "scan" /\ op = o
Done == pc' = "done" /\ UNCHANGED <<op, in, off>>

-----------------------------------------------------------------------------
(* parse_partition_maps *)

MapsEnd(t) == IF t.mtLen < Len(t.bytes) THEN t.mtLen ELSE Len(t.bytes)
MapLen(t, p) == At(t.bytes, p + 1)

MoreMaps == Len(out) < in.count /\ off + 2 <= MapsEnd(in)

\* Mutants: a map may be empty, or leave the table if not the sector.
WellSizedEmpty(t, p) == p + MapLen(t, p) <= MapsEnd(t)
WellSizedLoose(t, p) == MapLen(t, p) >= 2 /\ p + MapLen(t, p) <= Len(t.bytes)

WellSized(t, p) == MapLen(t, p) >= 2 /\ p + MapLen(t, p) <= MapsEnd(t)

Holds(t, p, name) ==
    \E s \in p .. p + MapLen(t, p) - NameLen : <<s, name>> \in t.names

(* classify_type2: the first of three names that the map holds. *)
ClassifyType2(t, p) ==
    IF Holds(t, p, "Metadata") THEN "Metadata"
    ELSE IF Holds(t, p, "Virtual") THEN "Virtual"
    ELSE IF Holds(t, p, "Sparable") THEN "Sparable" ELSE "Unknown"

\* The map's kind, and a one-element sequence with a Type 1 map's number.
ParsedMap(t, p) ==
    CASE At(t.bytes, p) = 1 /\ MapLen(t, p) >= 6 ->
            [at |-> p, kind |-> "Physical", number |-> <<At(t.bytes, p + 4) + 256 * At(t.bytes, p + 5)>>]
      [] At(t.bytes, p) = 2 -> [at |-> p, kind |-> ClassifyType2(t, p), number |-> << >>]
      [] OTHER -> [at |-> p, kind |-> "Unknown", number |-> << >>]

\* Mutant: a map that is not understood is left out.
PushKnown(maps, m) == IF m.kind = "Unknown" THEN maps ELSE Append(maps, m)

Push(maps, m) == Append(maps, m)

TakeMap ==
    /\ Scanning("maps") /\ MoreMaps /\ WellSized(in, off)
    /\ out' = Push(out, ParsedMap(in, off))
    /\ off' = off + MapLen(in, off)
    /\ UNCHANGED <<op, in, pc>>

MapsDone ==
    /\ Scanning("maps") /\ (MoreMaps => ~WellSized(in, off))
    /\ Done /\ UNCHANGED out

-----------------------------------------------------------------------------
(* decode_symlink_target *)

HasHeader == off + 4 <= Len(in)
Component == At(in, off)
IdentLen == At(in, off + 1)

\* Where the cursor stands after the component; an unknown one has no name.
Past(component) == off + 4 + (IF component \in {1, 5} THEN IdentLen ELSE 0)

(* What a target is made of: separators, dots, and the names' bytes. *)
Text(s) == [text |-> s, from |-> 0, to |-> 0]
Name(from, to) == [text |-> "name", from |-> from, to |-> to]
Slash == Text("/")

Reset == Component = 2 \/ (Component = 1 /\ IdentLen = 0)

\* Mutant: a name is taken when it begins in the buffer.
NameBeginsInRange(start, len) == len > 0 /\ start < Len(in)

NameInRange(start, len) == len > 0 /\ start + len <= Len(in)

\* A name of which decode_osta_cs0 makes something: it has a byte behind the
\* compression identifier, or two when that is 16.
Legible(start, len) == len >= (IF At(in, start) = 16 THEN 3 ELSE 2)

Decoded ==
    IF NameInRange(off + 4, IdentLen) /\ Legible(off + 4, IdentLen)
    THEN <<Name(off + 4, off + 4 + IdentLen)>> ELSE << >>

\* Mutant: a reset adds the root to what is already there.
AfterResetAppended(target) == Append(target, Slash)

AfterReset(target) == <<Slash>>

TakeComponent ==
    /\ Scanning("link") /\ HasHeader
    /\ out' = CASE Reset -> AfterReset(out)
                [] Component = 3 -> out \o <<Text(".."), Slash>>
                [] Component = 4 -> out \o <<Text("."), Slash>>
                [] Component = 5 -> out \o Decoded \o <<Slash>>
                [] OTHER -> out
    /\ off' = Past(Component)
    /\ UNCHANGED <<op, in, pc>>

\* The trailing separator goes, unless it is the whole target.
Trimmed(target) ==
    IF Len(target) > 1 /\ Last(target) = Slash THEN Front(target) ELSE target

LinkDone ==
    /\ Scanning("link") /\ ~HasHeader
    /\ out' = Trimmed(out) /\ Done

-----------------------------------------------------------------------------
(* detect_udf *)

\* Mutant: an unreadable sector is passed over.
StopsAtTea(s) == s = "tea"

Stops(s) == s \in {"tea", "unreadable"}

NextSector ==
    /\ Scanning("detect") /\ off < 32 /\ in[off] # "nsr" /\ ~Stops(in[off])
    /\ off' = off + 1
    /\ UNCHANGED <<op, in, pc, out>>

DetectDone ==
    /\ Scanning("detect")
    /\ \/ off < 32 /\ in[off] = "nsr" /\ out' = <<"udf">>
       \/ off < 32 /\ Stops(in[off]) /\ UNCHANGED out
       \/ off = 32 /\ UNCHANGED out
    /\ Done

Next == TakeMap \/ MapsDone \/ TakeComponent \/ LinkDone \/ NextSector \/ DetectDone

(* A running function keeps running. *)
Spec == Init /\ [][Next]_vars /\ WF_vars(Next)

-----------------------------------------------------------------------------
(* Properties. *)

\* Type invariant: a scan's cursor stays within what it scans.
TypeOK ==
    /\ pc \in {"scan", "done"}
    /\ CASE op = "maps" -> IsTable(in) /\ (off = 0 \/ off <= MapsEnd(in))
         [] op = "link" -> in \in Seq(Byte) /\ off \in 0 .. Len(in) + 255
         [] op = "detect" -> in \in [16 .. 31 -> Sector] /\ off \in 16 .. 32 /\ out \in {<< >>, <<"udf">>}

\* Bootstrap takes the map with the index that the volume records: the j-th map
\* of the result is the j-th of the table, however many before it are unknown or
\* malformed, what it says comes from its own bytes and not from a neighbour's,
\* and the list only stops where the table ends or no map can follow.
MapsKeepTheirPlace ==
    op = "maps" =>
        LET End(n) == IF n = 0 THEN 0 ELSE out[n].at + MapLen(in, out[n].at)
            stop == End(Len(out))
            Own(n) == {x[2] : x \in {y \in in.names :
                                        out[n].at <= y[1] /\ y[1] + NameLen <= End(n)}}
        IN  /\ \A n \in DOMAIN out :
                  /\ out[n].at = End(n - 1) /\ End(n) <= MapsEnd(in)
                  /\ out[n].kind = "Physical" => out[n].at + 6 <= End(n)
                  /\ out[n].kind \in Own(n) \cup {"Physical", "Unknown"}
                  /\ At(in.bytes, out[n].at) = 2 /\ Own(n) # {} => out[n].kind \in Own(n)
            /\ pc = "done" => \/ Len(out) = in.count \/ stop + 2 > MapsEnd(in)
                              \/ MapLen(in, stop) < 2 \/ stop + MapLen(in, stop) > MapsEnd(in)

\* Where the components of a link begin when their lengths are taken at their
\* word: at its start and wherever another one ends; its end is among these
\* places exactly when the components fill it.
Begins(l) ==
    LET begins[p \in 0 .. Len(l)] ==
            p = 0 \/ \E q \in 0 .. p - 4 : q + 4 + At(l, q + 1) = p /\ begins[q]
    IN  {p \in 0 .. Len(l) : begins[p]}

Named(l, p) == At(l, p + 1) >= 2 /\ (At(l, p + 4) = 16 => At(l, p + 1) >= 3)

\* A link as its writer means it: known components, exactly filling the buffer,
\* a name in each component that is to have one and in no other but the root's.
WellFormedLink(l) ==
    /\ Len(l) \in Begins(l)
    /\ \A p \in Begins(l) \ {Len(l)} : \/ At(l, p) = 1
                                       \/ At(l, p) \in 2 .. 4 /\ At(l, p + 1) = 0
                                       \/ At(l, p) = 5 /\ Named(l, p)

\* Of the components before e: those that reset the target, and those that the
\* last reset leaves; what such a component says.
Resets(l, e) == {p \in Begins(l) : p < e /\ At(l, p) \in {1, 2} /\ At(l, p + 1) = 0}
Kept(l, e) == {p \in Begins(l) : p < e /\ At(l, p) \in 3 .. 5 /\ \A r \in Resets(l, e) : r < p}
Said(l, p) ==
    CASE At(l, p) = 3 -> Text("..") [] At(l, p) = 4 -> Text(".")
      [] OTHER -> Name(p + 4, p + 4 + At(l, p + 1))

\* Where in the target a kept component stands: behind the root, if there is one,
\* and the components before it with a separator each.
RootLen(l, e) == IF Resets(l, e) = {} THEN 0 ELSE 1
Place(l, e, p) == RootLen(l, e) + 2 * Cardinality({q \in Kept(l, e) : q < p}) + 1

\* The target of a well-formed link is what its components say: absolute exactly
\* when a root or parent component resets it, then the components after the last
\* reset, in order and joined by single separators; a root with an identifier
\* counts for nothing.
LinkIsItsComponents ==
    op = "link" /\ pc = "done" /\ WellFormedLink(in) =>
        LET e == Len(in)
            K == Kept(in, e)
        IN  /\ Len(out) = RootLen(in, e) + (IF K = {} THEN 0 ELSE 2 * Cardinality(K) - 1)
            /\ RootLen(in, e) = 1 => out[1] = Slash
            /\ \A p \in K : LET n == Place(in, e, p)
                            IN  out[n] = Said(in, p) /\ (n < Len(out) => out[n + 1] = Slash)

\* Whatever the lengths in a link's chain are, each name is bytes of the buffer
\* behind a header of its own: names come in order and never overlap.
NamesInBuffer ==
    op = "link" =>
        \A n \in DOMAIN out : out[n].text = "name" =>
            /\ 4 <= out[n].from /\ out[n].from < out[n].to /\ out[n].to <= Len(in)
            /\ \A m \in 1 .. n - 1 : out[m].text = "name" => out[n].from >= 4 + out[m].to

\* A volume is recognised exactly when an NSR descriptor can be reached: a
\* terminator or an unreadable sector before it hides it, and nothing else does.
RecognisedIfReachable ==
    op = "detect" /\ pc = "done" =>
        (out = <<"udf">> <=> \E i \in 16 .. 31 :
            in[i] = "nsr" /\ \A j \in 16 .. i - 1 : in[j] \in {"nsr", "other"})

\* How many steps a scan can still take, at most: it ends, and before that it
\* meets maps of at least two bytes, components of at least four, or sectors.
StepsLeft ==
    IF pc = "done" THEN 0
    ELSE 1 + (CASE op = "maps" -> (MapsEnd(in) - off) \div 2
                [] op = "link" -> IF HasHeader THEN (Len(in) - off) \div 4 ELSE 0
                [] op = "detect" -> 32 - off)

\* No length, not even zero, makes a scan stand still or go back: every step
\* takes it nearer to its end, which is never further away than the input is
\* long (the guards on a map's length, fixed headers of components).
StepsBounded == [][StepsLeft' \in 0 .. StepsLeft - 1]_vars

=============================================================================
