----------------------------- MODULE MCFidParse -----------------------------
(* Block numbers of two base-16 digits.  Three families of directories: those
   a writer of either layout makes of up to three descriptors, with padding
   between them; buffers cut short of their last descriptors; and buffers with
   descriptors at odd places, of any recorded length, over and inside each
   other. *)
EXTENDS FidParse

\* The fields behind the other tag size are whatever the bytes happen to be.
FidOf(t, crc, chars, lbn, idLen, iuLen) ==
    [crc |-> crc,
     chars |-> [u \in Tags |-> IF u = t THEN chars ELSE {}],
     idLen |-> [u \in Tags |-> IF u = t THEN idLen ELSE 1],
     iuLen |-> [u \in Tags |-> IF u = t THEN iuLen ELSE 0],
     half |-> [h \in {22, 24, 26} |-> CASE h = t + 6 -> lbn % HalfBase
                                        [] h = t + 8 -> lbn \div HalfBase
                                        [] OTHER -> 0]]

(* A writer's descriptor: the CRC covers header, implementation use and name. *)
Items == {<<{"parent", "directory"}, 2, 0, 0>>, <<{"directory"}, 3, 4, 0>>,
          <<{}, 5, 2, 4>>, <<{}, 40, 7, 0>>, <<{}, 0, 0, 0>>}
Written(t, i) == FidOf(t, t + 4 + i[3] + i[4], i[1], i[2], i[3], i[4])
Size(t, i) == RoundUp4(20 + t + i[3] + i[4])

\* Up to three items, the first gap bytes of padding after the first one.
Image(t, items, gap, part, cut) ==
    LET At(n) == CASE n = 1 -> 0
                   [] n = 2 -> Size(t, items[1]) + gap
                   [] n = 3 -> Size(t, items[1]) + gap + Size(t, items[2])
        end == IF items = << >> THEN gap
               ELSE At(Len(items)) + Size(t, items[Len(items)])
        len == IF cut < end THEN end - cut ELSE 0
    IN  [len |-> len, layout |-> t, part |-> part,
         fid |-> [p \in {At(n) : n \in DOMAIN items} \cap 0 .. len - 1 |->
                     Written(t, items[CHOOSE n \in DOMAIN items : At(n) = p])],
         sizes |-> [l \in {5, 13, 245} |-> l]]

WrittenDirs == {Image(t, s, gap, part, 0) :
    t \in Tags, s \in UNION {[1 .. n -> Items] : n \in 0 .. 3}, gap \in {0, 8}, part \in {10, 240}}

CutDirs == {Image(t, s, 0, 10, cut) :
    t \in Tags, s \in [1 .. 2 -> Items], cut \in {1, 2, 4, 12, 40}}

OddDirs == UNION {
    {[len |-> len, layout |-> t, part |-> 10, sizes |-> [l \in {12} |-> 3],
      fid |-> [p \in P |-> FidOf(t, crc[p], {}, 2, id, iu)]] :
        crc \in [P -> {0, 24, 200}], t \in Tags, len \in {40, 76, 114}, id \in {0, 3, 100}, iu \in {0, 60}} :
    P \in {{0, 38}, {0, 36, 38}, {4, 40}, {2, 38, 76}}}

Fits(d) == DOMAIN d.fid \subseteq 0 .. d.len - 1

MCDirectories == WrittenDirs \cup CutDirs \cup {d \in OddDirs : Fits(d)}

=============================================================================
