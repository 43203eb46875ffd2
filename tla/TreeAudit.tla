----------------------------- MODULE TreeAudit -----------------------------
(***************************************************************************)
(* What the directory walk promises, without work list, cursor or order:   *)
(* starting at the root, entries that are known from an audited directory  *)
(* are audited, each directory once, until none is left or one cannot be   *)
(* read.  Nothing else is ever audited, nothing is forgotten, and nothing  *)
(* happens after the verdict.                                              *)
(***************************************************************************)
CONSTANTS Lba, Root, Volumes

VARIABLES
    vol,        \* the volume; constant through a behaviour
    dirs,       \* directories audited so far
    files,      \* files audited so far
    verdict     \* "running", or what the walk has returned

vars == <<vol, dirs, files, verdict>>

Listed(l) ==
    IF vol[l].data = "ok" THEN {vol[l].children[n] : n \in DOMAIN vol[l].children} ELSE {}

\* What is known of the tree: the root, and what audited directories list.
KnownDirs == {Root} \cup UNION {{c.lba : c \in {x \in Listed(l) : x.is_dir}} : l \in dirs}
KnownFiles == UNION {{c.lba : c \in {x \in Listed(l) : ~x.is_dir}} : l \in dirs}

Readable(l) == vol[l].sector # "unreadable"

Init == vol \in Volumes /\ dirs = {} /\ files = {} /\ verdict = "running"

AuditDir(l) ==
    /\ l \in KnownDirs \ dirs /\ Readable(l)
    /\ dirs' = dirs \cup {l}
    /\ UNCHANGED <<vol, files, verdict>>

AuditFile(l) ==
    /\ l \in KnownFiles /\ Readable(l)
    /\ files' = files \cup {l}
    /\ UNCHANGED <<vol, dirs, verdict>>

ReturnOk ==
    /\ KnownDirs \subseteq dirs /\ KnownFiles \subseteq files
    /\ verdict' = "ok"
    /\ UNCHANGED <<vol, dirs, files>>

ReturnErr ==
    /\ \E l \in (KnownDirs \ dirs) \cup KnownFiles : ~Readable(l)
    /\ verdict' = "err"
    /\ UNCHANGED <<vol, dirs, files>>

Next ==
    /\ verdict = "running"
    /\ (\E l \in Lba : AuditDir(l) \/ AuditFile(l)) \/ ReturnOk \/ ReturnErr

Spec == Init /\ [][Next]_vars

=============================================================================
