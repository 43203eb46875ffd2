-------------------------------- MODULE Walk --------------------------------
(***************************************************************************)
(* The directory walk of the analyzer (forensic/src/findings.rs,           *)
(* walk_directory_tree): a work list of directory File Entries, a visited  *)
(* set against cycles, an audit of every File Entry met.                   *)
(*                                                                         *)
(* The volume is a graph: a block is a File Entry or not, its data is a    *)
(* list of File Identifier Descriptors or cannot be obtained.  What an     *)
(* audit finds in one File Entry is left out (it is a function of the      *)
(* blocks it reads); which File Entries are audited, in which order, how   *)
(* often, and when the walk gives up is what this module is about.         *)
(***************************************************************************)
EXTENDS Naturals, Sequences

CONSTANTS
    Lba,       \* addresses of File Entries
    Root,      \* state.root_fe_lba
    Volumes    \* the volumes a walk starts from

Child == [lba : Lba, is_dir : BOOLEAN]

(* sector: what reading the block at an address gives.
   data: what read_dir_at_lba makes of it; "corrupt" when the block is not a
   File Entry or its allocation descriptors make no sense, "fault" when a read
   fails, of the block itself or of an extent.
   children: the parsed File Identifier Descriptors, parents excluded. *)
Node == [sector : {"fe", "other", "unreadable"}, data : {"ok", "corrupt", "fault"},
         children : Seq(Child)]

ASSUME RootAssumption == Root \in Lba
ASSUME VolumesAssumption ==
    \A v \in Volumes :
        /\ v \in [Lba -> Node]
        /\ \A l \in Lba : v[l].sector = "other" => v[l].data = "corrupt"
        /\ \A l \in Lba : v[l].sector = "unreadable" => v[l].data = "fault"

VARIABLES
    vol,       \* the volume; constant through a behaviour
    pc,        \* next step of the loop; "ok" and "err" when it has returned
    queue,     \* Vec of directory addresses still to visit
    visited,   \* HashSet of directories visited
    dir,       \* the directory being processed
    todo,      \* its children not yet handled
    audits     \* history: audit_file_entry calls that succeeded, in order

vars == <<vol, pc, queue, visited, dir, todo, audits>>

Elements(s) == {s[j] : j \in DOMAIN s}

Init ==
    /\ vol \in Volumes
    /\ pc = "pop" /\ queue = <<Root>> /\ visited = {}
    /\ dir = Root /\ todo = << >> /\ audits = << >>

\* Mutant: a visited directory is not recognised.
SeenNever(l) == FALSE

Seen(l) == l \in visited

(* `queue.pop()` takes the last element; a directory already visited is
   dropped. *)
Pop ==
    /\ pc = "pop" /\ queue # << >>
    /\ LET last == queue[Len(queue)]
       IN  /\ queue' = SubSeq(queue, 1, Len(queue) - 1)
           /\ IF Seen(last)
              THEN UNCHANGED <<pc, visited, dir>>
              ELSE visited' = visited \cup {last} /\ dir' = last /\ pc' = "audit"
    /\ UNCHANGED <<vol, todo, audits>>

Finish ==
    /\ pc = "pop" /\ queue = << >>
    /\ pc' = "ok"
    /\ UNCHANGED <<vol, queue, visited, dir, todo, audits>>

\* Mutant: an unreadable File Entry is skipped.
AuditFileEntrySkips(l, as, next) ==
    /\ pc' = next
    /\ audits' = IF vol[l].sector = "unreadable" THEN audits ELSE Append(audits, [lba |-> l, as |-> as])

(* audit_file_entry: an unreadable block is an error of the whole analysis
   (`?`); anything else, a File Entry or not, lets the walk go on. *)
AuditFileEntry(l, as, next) ==
    IF vol[l].sector = "unreadable"
    THEN pc' = "err" /\ UNCHANGED audits
    ELSE pc' = next /\ audits' = Append(audits, [lba |-> l, as |-> as])

AuditDirectory ==
    /\ pc = "audit"
    /\ AuditFileEntry(dir, "dir", "list")
    /\ UNCHANGED <<vol, queue, visited, dir, todo>>

\* Mutants: the walk ends, or tries again, where a directory cannot be listed.
EndsUnlisted == "ok"
RetriesUnlisted == "list"

AfterUnlisted == "pop"

(* read_dir_at_lba returns None for a fault as for a structural negative, and
   the walk moves on to the next directory. *)
ListDirectory ==
    /\ pc = "list"
    /\ IF vol[dir].data = "ok"
       THEN pc' = "children" /\ todo' = vol[dir].children
       ELSE pc' = AfterUnlisted /\ UNCHANGED todo
    /\ UNCHANGED <<vol, queue, visited, dir, audits>>

\* Mutant: every child is walked as a directory.
IsDirectoryAlways(c) == TRUE

IsDirectory(c) == c.is_dir

\* Mutant: the File Entry after the child's.
PushedNext(q, c) == Append(q, c.lba + 1)

Pushed(q, c) == Append(q, c.lba)

PushDirectory ==
    /\ pc = "children" /\ todo # << >> /\ IsDirectory(Head(todo))
    /\ queue' = Pushed(queue, Head(todo))
    /\ todo' = Tail(todo)
    /\ UNCHANGED <<vol, pc, visited, dir, audits>>

AuditFile ==
    /\ pc = "children" /\ todo # << >> /\ ~IsDirectory(Head(todo))
    /\ AuditFileEntry(Head(todo).lba, "file", "children")
    /\ todo' = Tail(todo)
    /\ UNCHANGED <<vol, queue, visited, dir>>

ChildrenDone ==
    /\ pc = "children" /\ todo = << >>
    /\ pc' = "pop"
    /\ UNCHANGED <<vol, queue, visited, dir, todo, audits>>

Next ==
    \/ Pop
    \/ Finish
    \/ AuditDirectory
    \/ ListDirectory
    \/ PushDirectory
    \/ AuditFile
    \/ ChildrenDone

(* A sequential loop: it keeps running until it returns. *)
Spec == Init /\ [][Next]_vars /\ WF_vars(Next)

-----------------------------------------------------------------------------
(* The graph. *)

\* The children a visited directory contributes; none when it is not listed.
Listed(l) == IF vol[l].data = "ok" THEN Elements(vol[l].children) ELSE {}
Subdirs(l) == {c.lba : c \in {x \in Listed(l) : x.is_dir}}
Files(l) == {c.lba : c \in {x \in Listed(l) : ~x.is_dir}}

Closed(S) == \A l \in S : Subdirs(l) \subseteq S

\* The directories of the tree: the least closed set with the root.
Tree == {l \in Lba : \A S \in SUBSET Lba : Root \in S /\ Closed(S) => l \in S}

-----------------------------------------------------------------------------
(* Properties. *)

\* Type invariant of the walk's work list, visited set and cursor.
TypeOK ==
    /\ vol \in Volumes
    /\ pc \in {"pop", "audit", "list", "children", "ok", "err"}
    /\ queue \in Seq(Lba)
    /\ visited \subseteq Lba
    /\ dir \in Lba
    /\ todo \in Seq(Child)
    /\ audits \in Seq([lba : Lba, as : {"dir", "file"}])

AuditedAs(as) == {a.lba : a \in {x \in Elements(audits) : x.as = as}}

\* An analysis that returns Ok has covered the tree: it visited and audited
\* every directory reachable from the root, cycles and shared subtrees or not,
\* and every file they list (walk_directory_tree's loop and visited set).
OkCoversTree ==
    pc = "ok" =>
        /\ visited = Tree
        /\ AuditedAs("dir") = Tree
        /\ AuditedAs("file") = UNION {Files(l) : l \in Tree}

\* The walk never strays: nothing outside the tree is audited, whatever the
\* links, so every finding is about an entry the volume's tree names.
StaysInTree ==
    /\ AuditedAs("dir") \subseteq Tree
    /\ AuditedAs("file") \subseteq UNION {Files(l) : l \in Tree}

\* A directory's own findings are reported once, however many links lead to
\* it or back to it.
DirectoriesAuditedOnce ==
    \A i, j \in DOMAIN audits :
        audits[i].as = "dir" /\ audits[j] = audits[i] => i = j

\* The walk gives up only for a File Entry of the tree that cannot be read,
\* and it never returns Ok when there is one.
ErrIsUnreadableEntry ==
    LET entries == Tree \cup UNION {Files(l) : l \in Tree}
        bad == {l \in entries : vol[l].sector = "unreadable"}
    IN  (pc = "err" => bad # {}) /\ (pc = "ok" => bad = {})

\* What the caller of the analyzer sees of the walk is an audit of the tree as
\* TreeAudit promises it: an entry is audited only when an audited directory has
\* named it, a directory no second time, and the verdict is the last step.
Verdict == IF pc \in {"ok", "err"} THEN pc ELSE "running"
Audit == INSTANCE TreeAudit
             WITH dirs <- AuditedAs("dir"), files <- AuditedAs("file"), verdict <- Verdict
Audits == Audit!Spec

\* How far the loop is from taking the next directory off its work list, and
\* what it still has in hand where it stands.
Rank ==
    CASE pc = "audit" -> 4 [] pc = "list" -> 3 [] pc = "children" -> 2 [] pc = "pop" -> 1
      [] OTHER -> 0
Work == CASE pc = "children" -> Len(todo) [] pc = "pop" -> Len(queue) [] OTHER -> 0

\* No step is lost, on any graph: each visits a directory of the tree for the
\* first time, or brings the loop nearer to the next one or to its return.  A
\* finite tree is walked in finitely many steps, however its links run.
Advances ==
    [][\/ \E l \in Tree \ visited : visited' = visited \cup {l}
       \/ visited' = visited /\ Rank' < Rank
       \/ visited' = visited /\ Rank' = Rank /\ Work' \in 0 .. Work - 1]_vars

\* The visited set bounds the walk: it returns on every volume, cyclic or not.
Returns == <>(pc \in {"ok", "err"})

\* findings.rs 257: Err is returned on "a seek/read I/O fault".
FaultSurfaces == pc = "ok" => \A l \in visited : vol[l].data # "fault"

=============================================================================
