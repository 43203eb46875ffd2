------------------------------ MODULE MCScans ------------------------------
(* Map tables of up to three maps, well sized, short, empty, overrunning or of
   unknown type, with the table's recorded length at, below and above them;
   links of up to three components of every kind, cut or with wrong lengths;
   and recognition sequences that differ in their first three and last sectors. *)
EXTENDS Scans

Zeros(n) == [k \in 1 .. n |-> 0]
Map(type, len, n) == <<type, len>> \o Zeros(n - 2)

(* Bytes of one map and the offsets, within it, at which a name starts. *)
Maps == {<<<<1, 6, 0, 0, 7, 1>>, {}>>, <<Map(1, 5, 5), {}>>, <<Map(3, 2, 2), {}>>,
         <<Map(2, 8, 8), {<<3, "Virtual">>}>>, <<Map(2, 8, 8), {<<6, "Sparable">>}>>,
         <<Map(2, 9, 9), {<<2, "Virtual">>, <<5, "Metadata">>}>>,
         <<Map(2, 6, 6), {<<1, "Sparable">>}>>, <<Map(2, 0, 4), {}>>,
         <<Map(1, 1, 4), {}>>, <<Map(2, 200, 4), {<<0, "Metadata">>}>>}

Shifted(names, by) == {<<x[1] + by, x[2]>> : x \in names}
TableOf(ms, mt, count) ==
    LET l1 == Len(ms[1][1])
        l2 == Len(ms[2][1])
        bytes == ms[1][1] \o ms[2][1] \o ms[3][1] \o Zeros(2)
    IN  [bytes |-> bytes, mtLen |-> IF mt < 0 THEN 0 ELSE mt, count |-> count,
         names |-> ms[1][2] \cup Shifted(ms[2][2], l1) \cup Shifted(ms[3][2], l1 + l2)]
Total(ms) == Len(ms[1][1]) + Len(ms[2][1]) + Len(ms[3][1])

MCTables ==
    {TableOf(ms, Total(ms) + x, n) : ms \in [1 .. 3 -> Maps], x \in {-3, 0, 9}, n \in {2, 4}}

Components == {<<1, 0, 0, 0>>, <<1, 2, 0, 0, 5, 5>>, <<2, 0, 0, 0>>, <<3, 0, 0, 0>>,
               <<4, 0, 0, 0>>, <<5, 2, 0, 0, 8, 65>>, <<5, 3, 0, 0, 16, 0, 65>>,
               <<5, 1, 0, 0, 8>>, <<5, 0, 0, 0>>, <<5, 9, 0, 0, 8, 66>>, <<9, 4, 0, 0, 5, 1, 0, 0>>}
Chains == UNION {[1 .. n -> Components] : n \in 0 .. 3}
MCLinks == {LET all == FlattenSeq(c) IN SubSeq(all, 1, Len(all) - cut) :
               c \in Chains, cut \in {0, 1}}

MCRecognitions ==
    {[i \in 16 .. 31 |-> CASE i \in 16 .. 18 -> f[i] [] i = 31 -> f[19] [] OTHER -> "other"] :
        f \in [16 .. 19 -> Sector]}

=============================================================================
