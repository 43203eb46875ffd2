--------------------------- MODULE BootstrapAudit ---------------------------
(***************************************************************************)
(* The analyzer on top of the bootstrap chain (forensic/src/findings.rs):  *)
(* analyze first lets the reader parse the chain (module Bootstrap), then  *)
(* walks it a second time on its own, block by block, to validate every    *)
(* descriptor tag (audit_bootstrap_tags), then reads the volume time from  *)
(* the File Set Descriptor.  The directory walk that follows is module     *)
(* Walk.  The medium's field flaws gives, per position, what is wrong with *)
(* the tag there: a checksum or a CRC that does not match.                 *)
(***************************************************************************)
EXTENDS Bootstrap

ASSUME FlawsAssumption ==
    \A m \in Media : \A pos \in DOMAIN m.flaws : m.flaws[pos] \subseteq {"checksum", "crc"}

VARIABLES
    apc,       \* next step of the analyzer; "walk" when it goes on to the tree
    j,         \* index of its own loop over the VDS
    audited,   \* history: the blocks audit_tag_at has validated
    findings   \* what was pushed on the result, as <<lba, flaw>>

avars == <<apc, j, audited, findings>>
allvars == <<vars, avars>>

Flaws(lba) == IF BlockPos(lba) \in DOMAIN medium.flaws THEN medium.flaws[BlockPos(lba)] ELSE {}

AInit ==
    /\ Init
    /\ apc = "parse" /\ j = 0 /\ audited = {} /\ findings = {}

(* analyze: an io::Error of the reader is returned, "not UDF" and a panic leave
   nothing to audit. *)
ParseReturns ==
    /\ apc = "parse" /\ pc = "done"
    /\ apc' = CASE out.res = "State" -> "avdp"
                [] out.res = "Err" -> "err"
                [] OTHER -> "nothing"
    /\ UNCHANGED <<vars, j, audited, findings>>

(* audit_tag_at: a failed read is an error of the analysis; a block that is
   not a descriptor has no flaws. *)
AuditTagAt(lba, next) ==
    IF BlockRead(lba) = "ok"
    THEN /\ audited' = audited \cup {lba}
         /\ findings' = findings \cup {<<lba, f>> : f \in Flaws(lba)}
         /\ apc' = next
    ELSE apc' = "err" /\ UNCHANGED <<audited, findings>>

AuditAvdp ==
    /\ apc = "avdp"
    /\ AuditTagAt(AnchorLba, "vds")
    /\ UNCHANGED <<vars, j>>

\* Mutant: the sum leaves u32.
PlainAdd(a, b) == a + b

(* `vds_loc.saturating_add(i)` *)
SaturatingAdd(a, b) == Min({a + b, MaxU32})

\* Mutant: an unknown tag ends the sequence as well.
EndsAtOther(tag) == tag \in {"TERM", "ZERO", "OTHER"}

\* What ends the sequence: a terminator, or a block with no tag.
EndsSequence(tag) == tag \in {"TERM", "ZERO"}

\* Mutant: one block too many.
InVdsInclusive(n) == n <= out.vds_len_sectors

InVds(n) == n < out.vds_len_sectors

NextIndex(n) == n + 1

AuditVds ==
    /\ apc = "vds" /\ InVds(j)
    /\ LET lba == SaturatingAdd(out.vds_loc, j)
       IN  AuditTagAt(lba, IF EndsSequence(Block(lba).tag) THEN "fsd" ELSE "vds")
    /\ j' = NextIndex(j)
    /\ UNCHANGED vars

VdsEnds ==
    /\ apc = "vds" /\ ~InVds(j)
    /\ apc' = "fsd"
    /\ UNCHANGED <<vars, j, audited, findings>>

AuditFsd ==
    /\ apc = "fsd"
    /\ AuditTagAt(out.fsd_lba, "time")
    /\ UNCHANGED <<vars, j>>

(* fsd_recording_time reads the same block again. *)
ReadVolumeTime ==
    /\ apc = "time"
    /\ apc' = IF BlockRead(out.fsd_lba) = "ok" THEN "walk" ELSE "err"
    /\ UNCHANGED <<vars, j, audited, findings>>

ANext ==
    \/ Next /\ UNCHANGED avars
    \/ ParseReturns
    \/ AuditAvdp
    \/ AuditVds
    \/ VdsEnds
    \/ AuditFsd
    \/ ReadVolumeTime

ASpec == AInit /\ [][ANext]_allvars /\ WF_allvars(ANext)

-----------------------------------------------------------------------------
(* Properties. *)

ATypeOK ==
    /\ apc \in {"parse", "avdp", "vds", "fsd", "time", "walk", "err", "nothing"}
    /\ j \in Nat /\ audited \subseteq U32
    /\ findings \subseteq U32 \X {"checksum", "crc"}

\* The VDS blocks the reader went through to get its state.
Scanned == {vds.loc + h : h \in Window}

\* The analyzer's second walk sees what the first one used: when it reaches
\* the tree, the anchor, each VDS block a descriptor was taken from and the
\* File Set Descriptor have been validated, and every flaw of theirs is a
\* finding, wherever the sequence ends (terminator, zero tag, recorded length)
\* as long as it lies within the address space.
AuditCoversBootstrap ==
    apc = "walk" /\ out.vds_loc + out.vds_len_sectors - 1 <= MaxU32 =>
      LET used == {AnchorLba, out.fsd_lba} \cup Scanned
      IN  used \subseteq audited /\ \A lba \in used : {lba} \X Flaws(lba) \subseteq findings

\* Block n of the VDS is the one that ended it before its recorded length: it
\* lies within that length, has the tag of a terminator or none, and everything
\* before it counts.
Terminates(n) ==
    /\ n * blockSize < vds.len
    /\ Block(vds.loc + n).tag \in {"TERM", "ZERO"}
    /\ 0 .. n - 1 \subseteq Window

\* It goes no further than the first one either: whatever it validates is the
\* anchor, the File Set Descriptor, a VDS block the reader used, or the very
\* block that ended the sequence.  A sequence that runs to its recorded length
\* without one has no such block, and what follows it is not validated.
AuditStaysInBootstrap ==
    out.res = "State" =>
      \A lba \in audited \ ({AnchorLba, out.fsd_lba} \cup Scanned) :
        \E n \in 0 .. vds.len : lba = vds.loc + n /\ Terminates(n)

\* The reader read all of it before, so the second walk over a stable medium
\* never fails: an error of analyze before the tree is the reader's own.
AuditNeverFails == apc = "err" => out = Err

=============================================================================
