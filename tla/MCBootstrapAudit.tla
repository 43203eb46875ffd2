-------------------------- MODULE MCBootstrapAudit --------------------------
(* Media for BootstrapAudit: VDSs of up to four blocks at the start, in the
   middle and at the end of the address space, with a flawed tag at any one
   block, readable up to any block. *)
EXTENDS BootstrapAudit, TLC

ACandidates == <<2>>

Avdp(loc, len) == [tag |-> "AVDP", location |-> AnchorLba, vdsLoc |-> loc, vdsLen |-> len]
Pd == [tag |-> "PD", num |-> 0, start |-> 1]
Lvd == [tag |-> "LVD", lbn |-> 0, ref |-> 0, maps |-> <<[kind |-> "Physical", num |-> 0]>>]
Fsd == [tag |-> "FSD", root |-> 3]
Plain(t) == [tag |-> t]

Sequences4 ==
    {<<Pd, Lvd, Plain(a), Plain(b)>> : a, b \in {"TERM", "ZERO", "OTHER"}}
      \cup {<<Plain("OTHER"), Lvd, Pd, Plain("TERM")>>, <<Lvd, Plain("TERM"), Pd, Plain("TERM")>>}

\* Block size 2: the File Set Descriptor is at LBA 1, the anchor at 2, the VDS
\* at loc .. loc + 3.
Layout(loc, len, v) ==
    (2 :> Fsd) @@ (4 :> Avdp(loc, len)) @@ [p \in {2 * (loc + h) : h \in 0 .. 3} |-> v[p \div 2 - loc + 1]]

FlawSets == {{}, {"checksum"}, {"checksum", "crc"}}

AMedia ==
    {[size |-> n, bad |-> {}, desc |-> Layout(loc, len, v), flaws |-> (2 * lba :> f)] :
        n \in {14, 22, 24, 26}, loc \in {3, 7, 8, 9}, len \in {3, 4, 8}, v \in Sequences4,
        lba \in {1, 2, 4, 8, 9, 10}, f \in FlawSets}

=============================================================================
