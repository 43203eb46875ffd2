----------------------------- MODULE VfsAdapter -----------------------------
(***************************************************************************)
(* The forensic-vfs adapter (core/src/vfs.rs): one reader with its seek    *)
(* cursor and one per-File-Entry record cache behind a mutex, used by any  *)
(* number of workers.                                                      *)
(*                                                                         *)
(* Every access to the medium is a seek and a read, two steps on the       *)
(* shared cursor; a read may fail for good (an unreadable block), once     *)
(* (at most MaxFaults of these), or unwind the worker by a panic of the    *)
(* reader (at most MaxPanics), which poisons the mutex.  What is           *)
(* abstracted: the extents of a File Entry are read by one access with     *)
(* its block; a name is a model value, equal to another when the two       *)
(* differ in ASCII case only; read_at asks for the first byte.             *)
(***************************************************************************)
EXTENDS VfsVolume, SequencesExt

CONSTANTS
    Workers, NoOne,      \* threads that share the handle
    MaxCalls, MaxFaults, MaxPanics

FeMeta == [is_dir : BOOLEAN, kind : Kind, size : Nat]

ASSUME WorkersAssumption == NoOne \notin Workers
ASSUME BoundsAssumption == MaxCalls \in Nat /\ MaxFaults \in Nat /\ MaxPanics \in Nat

\* The stages of a call that access the medium.
Reading == {"type", "len", "data", "child_len", "child_type"}
Stages == {"idle", "dead", "lock", "resolve", "opened"} \cup Reading

VARIABLES
    vol,        \* the volume; constant through a behaviour
    holder,     \* the worker that holds the mutex, or NoOne
    poisoned,   \* a worker unwound while it held the mutex
    cursor,     \* where the shared reader stands
    cache,      \* Inner.cache, File Entry address -> FeMeta
    call,       \* each worker's call and its locals
    ans,        \* each worker's last answer
    calls, faults, panics,   \* how many there were of what is bounded
    hurt        \* history: addresses whose reading failed at least once

vars == <<vol, holder, poisoned, cursor, cache, call, ans, calls, faults, panics, hurt>>

NoCall == [stage |-> "idle", sought |-> FALSE, op |-> "meta", lba |-> Root,
           name |-> CHOOSE n \in Names : TRUE,
           kids |-> << >>, sizes |-> << >>, metas |-> << >>]

\* UdfVfs::open seeds the root as a directory of unknown (zero) size.
Seed == [is_dir |-> TRUE, kind |-> "Dir", size |-> 0]

NoAnswer == [op |-> "none"]
Asked(c) == [op |-> c.op, lba |-> c.lba, name |-> c.name]

Init ==
    /\ vol \in Volumes
    /\ holder = NoOne /\ poisoned = FALSE /\ cursor = Root
    /\ cache = [l \in {Root} |-> Seed]
    /\ call = [w \in Workers |-> NoCall]
    /\ ans = [w \in Workers |-> NoAnswer]
    /\ calls = 0 /\ faults = 0 /\ panics = 0 /\ hurt = {}

Goto(w, stage) == call' = [call EXCEPT ![w].stage = stage, ![w].sought = FALSE]

\* The call returns: its guard is dropped, the mutex is free.
Answer(w, a) ==
    /\ ans' = [ans EXCEPT ![w] = [asked |-> Asked(call[w]), res |-> a]]
    /\ call' = [call EXCEPT ![w] = NoCall]
    /\ holder' = NoOne

-----------------------------------------------------------------------------
(* Entering and leaving. *)

Call(w) ==
    /\ call[w].stage = "idle" /\ calls < MaxCalls
    /\ \E r \in Request :
          /\ r.op # "lookup" => r.name = NoCall.name
          /\ call' = [call EXCEPT ![w].stage = "lock", ![w].op = r.op, ![w].lba = r.lba,
                                  ![w].name = r.name]
    /\ calls' = calls + 1
    /\ UNCHANGED <<vol, holder, poisoned, cursor, cache, ans, faults, panics, hurt>>

(* fe_lba_of, require_default_stream: refused before the mutex is asked for. *)
Refuse(w) ==
    /\ call[w].stage = "lock" /\ call[w].lba = Foreign
    /\ ans' = [ans EXCEPT ![w] = [asked |-> Asked(call[w]), res |-> Refused]]
    /\ call' = [call EXCEPT ![w] = NoCall]
    /\ UNCHANGED <<vol, holder, poisoned, cursor, cache, calls, faults, panics, hurt>>

\* Mutants: no mutual exclusion; a poisoned mutex is not entered.
FreeAlways == TRUE
FreeUnpoisoned == holder = NoOne /\ ~poisoned

Free == holder = NoOne

(* UdfVfs::lock: a poisoned mutex is entered like any other. *)
Lock(w) ==
    /\ call[w].stage = "lock" /\ call[w].lba \in Lba /\ Free
    /\ holder' = w
    /\ Goto(w, "resolve")
    /\ UNCHANGED <<vol, poisoned, cursor, cache, ans, calls, faults, panics, hurt>>

-----------------------------------------------------------------------------
(* Access to the medium. *)

Target(w) ==
    CASE call[w].stage = "child_len" -> call[w].kids[Len(call[w].sizes) + 1].lba
      [] call[w].stage = "child_type" -> call[w].kids[Len(call[w].metas) + 1].lba
      [] OTHER -> call[w].lba

\* Mutant: the last child is forgotten.
ChildrenLeftButLast(w) ==
    CASE call[w].stage = "child_len" -> Len(call[w].sizes) + 1 < Len(call[w].kids)
      [] call[w].stage = "child_type" -> Len(call[w].metas) + 1 < Len(call[w].kids)
      [] OTHER -> TRUE

(* parse_fids and dir_children read nothing more when no child is left. *)
ChildrenLeft(w) ==
    CASE call[w].stage = "child_len" -> Len(call[w].sizes) < Len(call[w].kids)
      [] call[w].stage = "child_type" -> Len(call[w].metas) < Len(call[w].kids)
      [] OTHER -> TRUE

Seek(w) ==
    /\ call[w].stage \in Reading /\ ~call[w].sought /\ ChildrenLeft(w)
    /\ cursor' = Target(w)
    /\ call' = [call EXCEPT ![w].sought = TRUE]
    /\ UNCHANGED <<vol, holder, poisoned, cache, ans, calls, faults, panics, hurt>>

(* read_exact at the cursor: node is what it stands on, "fail" an error. *)
ReadFails(w) ==
    /\ call[w].sought
    /\ \/ vol[cursor].sector = "unreadable" /\ UNCHANGED faults
       \/ /\ vol[cursor].sector # "unreadable" /\ faults < MaxFaults
          /\ faults' = faults + 1
    /\ hurt' = hurt \cup {cursor}

ReadSucceeds(w) ==
    /\ call[w].sought /\ vol[cursor].sector # "unreadable"
    /\ UNCHANGED <<faults, hurt>>

(* The reader panics: the worker is gone, the guard's drop poisons and frees
   the mutex, what the call has cached stays. *)
ReaderPanics(w) ==
    /\ call[w].sought /\ panics < MaxPanics
    /\ panics' = panics + 1 /\ poisoned' = TRUE /\ holder' = NoOne
    /\ call' = [call EXCEPT ![w] = [NoCall EXCEPT !.stage = "dead"]]
    /\ UNCHANGED <<vol, cursor, cache, ans, calls, faults, hurt>>

-----------------------------------------------------------------------------
(* resolve *)

Insert(l, m) == cache' = [x \in DOMAIN cache \cup {l} |-> IF x = l THEN m ELSE cache[x]]

\* Mutant: whatever is no regular file is a directory.
IsDirLoose(ft) == ft # "File"

IsDir(ft) == ft = "Dir"

Resolve(w) ==
    /\ call[w].stage = "resolve"
    /\ Goto(w, IF call[w].lba \in DOMAIN cache THEN "opened" ELSE "type")
    /\ UNCHANGED <<vol, holder, poisoned, cursor, cache, ans, calls, faults, panics, hurt>>

(* read_fe_file_type: a failed read and a sector that is no File Entry are both
   None, a Decode error. *)
ReadType(w) ==
    /\ call[w].stage = "type"
    /\ \/ ReadFails(w) /\ Answer(w, Failed)
       \/ ReadSucceeds(w) /\ vol[cursor].sector # "fe" /\ Answer(w, Failed)
       \/ /\ ReadSucceeds(w) /\ vol[cursor].sector = "fe"
          /\ call' = [call EXCEPT ![w].stage = "len", ![w].sought = FALSE,
                                  ![w].metas = <<vol[cursor].ft>>]
          /\ UNCHANGED <<ans, holder>>
    /\ UNCHANGED <<vol, poisoned, cursor, cache, calls, panics>>

(* read_fe_info_len(..).unwrap_or(0), then the insertion. *)
ReadLen(w) ==
    /\ call[w].stage = "len"
    /\ LET ft == call[w].metas[1]
           Cached(size) == Insert(call[w].lba, [is_dir |-> IsDir(ft), kind |-> ft, size |-> size])
       IN  \/ ReadFails(w) /\ Cached(0)
           \/ ReadSucceeds(w) /\ Cached(IF vol[cursor].sector = "fe" THEN vol[cursor].size ELSE 0)
    /\ call' = [call EXCEPT ![w].stage = "opened", ![w].sought = FALSE, ![w].metas = << >>]
    /\ UNCHANGED <<vol, holder, poisoned, cursor, ans, calls, panics>>

(* What each operation does with the resolved record before it reads data. *)
Opened(w) ==
    /\ call[w].stage = "opened"
    /\ LET m == cache[call[w].lba]
           op == call[w].op
       IN  \/ op = "meta" /\ Answer(w, Ok(<<m.kind, m.size>>))
           \/ op = "extents" /\ Answer(w, Ok(IF m.size = 0 THEN << >> ELSE <<m.size>>))
           \/ op \in {"read_dir", "lookup"} /\ ~m.is_dir /\ Answer(w, Failed)
           \/ op = "read_link" /\ m.kind # "Symlink" /\ Answer(w, Ok("empty"))
           \/ /\ \/ op \in {"read_dir", "lookup"} /\ m.is_dir
                 \/ op = "read_link" /\ m.kind = "Symlink"
                 \/ op = "read_at"
              /\ Goto(w, "data") /\ UNCHANGED <<ans, holder>>
    /\ UNCHANGED <<vol, poisoned, cursor, cache, calls, faults, panics, hurt>>

(* read_fe_data: None for a failed read, a sector that is no File Entry and
   allocation descriptors that make no sense. *)
DataObtained == vol[cursor].sector = "fe" /\ vol[cursor].data = "ok"

ReadData(w) ==
    /\ call[w].stage = "data"
    /\ \/ /\ ReadFails(w) \/ (ReadSucceeds(w) /\ ~DataObtained)
          /\ Answer(w, IF call[w].op = "read_at" THEN Ok(0) ELSE Failed)
       \/ /\ ReadSucceeds(w) /\ DataObtained
          /\ CASE call[w].op = "read_at" -> Answer(w, Ok(IF vol[cursor].size = 0 THEN 0 ELSE 1))
               [] call[w].op = "read_link" -> Answer(w, Ok("target"))
               [] OTHER -> /\ call' = [call EXCEPT ![w].stage = "child_len", ![w].sought = FALSE,
                                                   ![w].kids = vol[cursor].children]
                           /\ UNCHANGED <<ans, holder>>
    /\ UNCHANGED <<vol, poisoned, cursor, cache, calls, panics>>

-----------------------------------------------------------------------------
(* parse_fids and dir_children: the lengths of all children, then their types. *)

ReadChildLen(w) ==
    /\ call[w].stage = "child_len"
    /\ LET Got(size) == call' = [call EXCEPT ![w].sought = FALSE,
                                             ![w].sizes = Append(@, size)]
       IN  \/ ReadFails(w) /\ Got(0)
           \/ ReadSucceeds(w) /\ Got(IF vol[cursor].sector = "fe" THEN vol[cursor].size ELSE 0)
    /\ UNCHANGED <<vol, holder, poisoned, cursor, cache, ans, calls, panics>>

\* Mutant: the data is read a second time for the types.
LengthsDoneRereads(w) ==
    /\ call[w].stage = "child_len" /\ ~ChildrenLeft(w)
    /\ Goto(w, "data")
    /\ UNCHANGED <<vol, holder, poisoned, cursor, cache, ans, calls, faults, panics, hurt>>

LengthsDone(w) ==
    /\ call[w].stage = "child_len" /\ ~ChildrenLeft(w)
    /\ Goto(w, "child_type")
    /\ UNCHANGED <<vol, holder, poisoned, cursor, cache, ans, calls, faults, panics, hurt>>

\* Mutant: what is no directory is taken for a regular file.
FidKindGuess(is_dir) == IF is_dir THEN "Dir" ELSE "File"

\* kind_from_fid_only: all a File Identifier Descriptor says.
FidKind(is_dir) == IF is_dir THEN "Dir" ELSE "Other"

ReadChildType(w) ==
    /\ call[w].stage = "child_type"
    /\ LET n == Len(call[w].metas) + 1
           c == call[w].kids[n]
           Got(is_dir, kind) ==
               LET m == [is_dir |-> is_dir, kind |-> kind, size |-> call[w].sizes[n]]
               IN  /\ Insert(c.lba, m)
                   /\ call' = [call EXCEPT ![w].sought = FALSE, ![w].metas = Append(@, m)]
       IN  \/ ReadFails(w) /\ Got(c.is_dir, FidKind(c.is_dir))
           \/ /\ ReadSucceeds(w)
              /\ IF vol[cursor].sector = "fe"
                 THEN Got(IsDir(vol[cursor].ft), vol[cursor].ft)
                 ELSE Got(c.is_dir, FidKind(c.is_dir))
    /\ UNCHANGED <<vol, holder, poisoned, cursor, ans, calls, panics>>

\* Mutant: a later entry of the same name hides an earlier one.
LastNamed(kids, name) ==
    LET hits == SelectSeq(kids, LAMBDA c : c.name = name)
    IN  IF hits = << >> THEN << >> ELSE <<hits[Len(hits)].lba>>

\* The first child that has the name, if any.
FirstNamed(kids, name) ==
    LET n == SelectInSeq(kids, LAMBDA c : c.name = name)
    IN  IF n = 0 THEN << >> ELSE <<kids[n].lba>>

(* read_dir lists every child with its kind; lookup takes one by its name. *)
ChildrenDone(w) ==
    /\ call[w].stage = "child_type" /\ ~ChildrenLeft(w)
    /\ Answer(w, Ok(IF call[w].op = "lookup"
                    THEN FirstNamed(call[w].kids, call[w].name)
                    ELSE [n \in DOMAIN call[w].kids |->
                             <<call[w].kids[n].lba, call[w].metas[n].kind>>]))
    /\ UNCHANGED <<vol, poisoned, cursor, cache, calls, faults, panics, hurt>>

Step(w) ==
    \/ Refuse(w) \/ Lock(w) \/ Resolve(w) \/ Seek(w) \/ ReadType(w) \/ ReadLen(w) \/ Opened(w)
    \/ ReadData(w) \/ ReadChildLen(w) \/ LengthsDone(w) \/ ReadChildType(w) \/ ChildrenDone(w)

Next == \E w \in Workers : Call(w) \/ Step(w) \/ ReaderPanics(w)

(* A thread inside a call keeps running; nobody has to call, no reader has to
   panic, and the mutex itself is not assumed to be fair. *)
Spec == Init /\ [][Next]_vars /\ \A w \in Workers : WF_vars(Step(w))

-----------------------------------------------------------------------------
(* Properties. *)

\* Type invariant of the shared reader, the cache and the calls in progress.
TypeOK ==
    /\ vol \in Volumes
    /\ holder \in Workers \cup {NoOne} /\ poisoned \in BOOLEAN
    /\ cursor \in Lba
    /\ DOMAIN cache \subseteq Lba /\ \A l \in DOMAIN cache : cache[l] \in FeMeta
    /\ \A w \in Workers :
          /\ call[w].stage \in Stages /\ call[w].sought \in BOOLEAN
          /\ call[w].op \in Ops /\ call[w].lba \in Lba \cup {Foreign} /\ call[w].name \in Names
          /\ call[w].kids \in Seq(Child) /\ call[w].sizes \in Seq(Nat)
          /\ Len(call[w].sizes) <= Len(call[w].kids)
          /\ call[w].stage = "child_type" =>
                Len(call[w].sizes) = Len(call[w].kids) /\ Len(call[w].metas) <= Len(call[w].kids)
    /\ calls \in 0 .. MaxCalls /\ faults \in 0 .. MaxFaults /\ panics \in 0 .. MaxPanics
    /\ hurt \subseteq Lba

\* One handle serves N workers: between a worker's seek and its read nobody
\* moves the shared cursor, so each read delivers the block it asked for, also
\* after another worker was unwound in the middle of an access.
ReadsWhatItSought ==
    \A w \in Workers : call[w].sought => holder = w /\ cursor = Target(w)

Whole(l) == vol[l].sector = "fe" /\ l \notin hurt
Truth(l) == [is_dir |-> vol[l].ft = "Dir", kind |-> vol[l].ft, size |-> vol[l].size]

\* A record in the cache is the File Entry's own, whichever worker, operation
\* or parent directory put it there, and whether that call completed or was
\* unwound; the root's is that or the seed.  Only an address that once failed
\* to read may carry anything else.
CacheIsTrue ==
    \A l \in DOMAIN cache : Whole(l) => cache[l] = Truth(l) \/ (l = Root /\ cache[l] = Seed)

\* What a File Identifier Descriptor alone can say of a child without a File
\* Entry: never that it is a regular file, never a size (kind_from_fid_only).
NothingFabricated ==
    \A l \in DOMAIN cache : vol[l].sector # "fe" =>
        cache[l].kind \in {"Dir", "Other"} /\ cache[l].size = 0

\* What a worker has asked, as VfsService knows it.
asked ==
    [w \in Workers |-> CASE call[w].stage = "idle" -> [op |-> "none"]
                         [] call[w].stage = "dead" -> [op |-> "lost"]
                         [] OTHER -> Asked(call[w])]

\* What callers see is the promise of VfsService: each call, however its steps
\* interleave with others, whatever was cached, failed or unwound before it, is
\* answered as if in one step from the volume, and from nothing else as long as
\* no address it is about has failed to read.
Service == INSTANCE VfsService
               WITH asked <- asked, ans <- ans, vol <- vol, hurt <- hurt
Promises == Service!Spec

\* Whatever path a call leaves by, with an answer, an error or unwound, it does not
\* leave the mutex locked behind it: only a call that runs holds it.
NeverLeftLocked == holder # NoOne => call[holder].stage \notin {"idle", "dead", "lock"}

\* How many steps a call can still take, at most: two for every block it may still
\* have to read, its own twice, its data and each child twice, and one for each of
\* what it does in between.
StepsLeft(c) ==
    LET n == Len(vol[c.lba].children)
        Reads(k) == IF c.sought THEN 2 * k - 1 ELSE 2 * k
    IN  CASE c.stage \in {"idle", "dead"} -> 0
          [] c.stage = "lock" -> IF c.lba = Foreign THEN 1 ELSE 4 * n + 11
          [] c.stage = "resolve" -> 4 * n + 10
          [] c.stage = "type" -> Reads(2 * n + 3) + 3
          [] c.stage = "len" -> Reads(2 * n + 2) + 3
          [] c.stage = "opened" -> 4 * n + 5
          [] c.stage = "data" -> Reads(2 * n + 1) + 2
          [] c.stage = "child_len" -> Reads(2 * n - Len(c.sizes)) + 2
          [] c.stage = "child_type" -> Reads(n - Len(c.metas)) + 1

\* A call is over after a number of its own steps that only the directory it is
\* about decides: nothing that another worker or a fault leaves in the cache, and no
\* panic of another, makes it begin again.  So the mutex is never held for longer.
CallsBounded ==
    [][\A w \in Workers :
          call'[w] # call[w] /\ call[w].stage # "idle" =>
              StepsLeft(call'[w]) \in 0 .. StepsLeft(call[w]) - 1]_vars

\* Every call returns: whatever path a call leaves by, with an error, a panic
\* of the reader or an answer, the mutex is free again for the others.
EveryCallReturns ==
    \A w \in Workers : call[w].stage \notin {"idle", "dead"} ~> call[w].stage \in {"idle", "dead"}

=============================================================================
