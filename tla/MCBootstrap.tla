----------------------------- MODULE MCBootstrap -----------------------------
(* Small media for Bootstrap.  Block sizes 4 (tried first), 2 and 8 units, the
   anchor at logical sector 2, u32 ending at 12, so that the sums of two LBAs
   leave it.  The VDS is at LBA 3..5 and File Set Descriptors at 6, 7 and 12. *)
EXTENDS Bootstrap, TLC

MCCandidates == <<4, 2, 8>>

Phys(n) == [kind |-> "Physical", num |-> n]
Virt == [kind |-> "Virtual"]
Avdp(len) == [tag |-> "AVDP", location |-> AnchorLba, vdsLoc |-> 3, vdsLen |-> len]
Stray == [tag |-> "AVDP", location |-> 5, vdsLoc |-> 3, vdsLen |-> 8]
Pd(n, s) == [tag |-> "PD", num |-> n, start |-> s]
Lvd(lbn, ref, maps) == [tag |-> "LVD", lbn |-> lbn, ref |-> ref, maps |-> maps]
Fsd(root) == [tag |-> "FSD", root |-> root]
Plain(t) == [tag |-> t]

VdsDescriptors ==
    {Pd(0, 6), Pd(0, 7), Pd(1, 5), Pd(1, 12),
     Lvd(0, 0, <<Phys(0)>>), Lvd(1, 1, <<Virt, Phys(1)>>), Lvd(1, 0, <<Virt>>),
     Lvd(0, 2, <<Phys(0)>>), Lvd(1, 0, <<Phys(3)>>), Plain("TERM"), Plain("ZERO"), Plain("OTHER")}

\* A medium with block size s, the given VDS, and a File Set Descriptor at LBA 6
\* (sound) and 7 (its root lies outside the address space).
Chain(s, len, v) ==
    (2 * s :> Avdp(len)) @@ (3 * s :> v[1]) @@ (4 * s :> v[2]) @@ (5 * s :> v[3])
      @@ (6 * s :> Fsd(1)) @@ (7 * s :> Fsd(9)) @@ (12 * s :> Fsd(0))

\* Every VDS of three blocks under two recorded lengths (one a fraction of a
\* block more than one block), all of it readable.
VdsMedia ==
    {[size |-> 52, bad |-> {}, desc |-> Chain(4, len, v)] :
        len \in {5, 12}, v \in [1 .. 3 -> VdsDescriptors]}

\* A sound chain of every block size, cut at every length or with one bad unit,
\* alone or with a stray anchor where another candidate is probed.
SoundVds == <<Pd(0, 6), Lvd(0, 0, <<Phys(0)>>), Plain("TERM")>>
SoundChain(s) == Chain(s, Min({3 * s, MaxU32}), SoundVds)
FaultMedia ==
    UNION {{[size |-> n, bad |-> b, desc |-> d] :
               n \in 0 .. 9 * s,
               b \in {{}} \cup {{u} : u \in {4, 5, 8, 10, 16, 20, 6 * s, 6 * s + 1}},
               d \in {SoundChain(s), (4 :> Stray) @@ SoundChain(s), (8 :> Stray) @@ SoundChain(s)}} :
           s \in {2, 4, 8}}

\* An anchor that records an empty VDS.
EmptyMedia == {[size |-> 52, bad |-> {}, desc |-> Chain(4, 0, SoundVds)]}

MCMedia == VdsMedia \cup FaultMedia \cup EmptyMedia

=============================================================================
