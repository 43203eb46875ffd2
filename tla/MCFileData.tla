------------------------------ MODULE MCFileData ------------------------------
(* Blocks of four bytes; the File Entry at LBA 0, the partition at LBA 1, eight
   blocks in all.  Every list of up to three extents over recorded and
   unrecorded ones of up to two blocks, with every information length; inline
   and refused File Entries; one bad unit or an early end of the image. *)
EXTENDS FileData

\* The n-th descriptor's extent lies at block 2 (n - 1) of the partition.
Lengths == {0, 2, 4, 5, 7, 8}
Shapes == {[type |-> 0, len |-> l] : l \in Lengths} \cup {[type |-> 1, len |-> l] : l \in {2, 4}}
              \cup {[type |-> 2, len |-> 4]}
Lists == UNION {[1 .. n -> Shapes] : n \in 0 .. 3}
Placed(shapes) ==
    [n \in DOMAIN shapes |-> [type |-> shapes[n].type, len |-> shapes[n].len, lbn |-> 2 * (n - 1)]]

Entry(alloc, len, ads) ==
    [tag |-> "fe", alloc |-> alloc, infoLen |-> len, fits |-> TRUE, area |-> 3, ads |-> ads]

Sound == {[size |-> 28, bad |-> {}, fe |-> Entry("short", len, Placed(v))] :
              len \in {0, 3, 4, 6, 11, 13, 16, 17, 30}, v \in Lists}

TwoExtents(a, b) == Placed(<<[type |-> 0, len |-> a], [type |-> 0, len |-> b]>>)
Damaged == {[size |-> n, bad |-> b, fe |-> Entry("long", len, TwoExtents(x, y))] :
              n \in {3, 4, 11, 12, 28}, b \in {{}, {2}, {9}, {15}, {27}}, len \in {3, 7, 8, 10},
              x \in {4, 8}, y \in {0, 4, 7}}

Refused ==
    {[size |-> 28, bad |-> {}, fe |-> [Entry(alloc, len, TwoExtents(4, 4)) EXCEPT !.tag = t, !.fits = f]] :
        alloc \in {"inline", "reserved", "short"}, len \in {0, 2, 3, 5},
        t \in {"fe", "other"}, f \in BOOLEAN}

MCMedia == Sound \cup Damaged \cup Refused

=============================================================================
