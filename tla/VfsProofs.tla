------------------------------ MODULE VfsProofs ------------------------------
(* Proofs about the forensic-vfs adapter, for every set of workers, addresses,
   names and volumes and all bounds: its invariants, and that it implements
   VfsService. *)
EXTENDS VfsAdapter, NumberLemmas, TLAPS

-----------------------------------------------------------------------------
(* The inductive invariant. *)

CallRecord == [stage : Stages, sought : BOOLEAN, op : Ops, lba : Lba \cup {Foreign},
               name : Names, kids : Seq(Child), sizes : Seq(Nat),
               metas : Seq(FeMeta) \cup Seq(Kind)]

(* The type invariant without what it says of the stages. *)
Typed ==
    /\ vol \in Volumes
    /\ holder \in Workers \cup {NoOne} /\ poisoned \in BOOLEAN
    /\ cursor \in Lba /\ hurt \subseteq Lba
    /\ DOMAIN cache \subseteq Lba /\ \A l \in DOMAIN cache : cache[l] \in FeMeta
    /\ call \in [Workers -> CallRecord] /\ DOMAIN ans = Workers
    /\ calls \in 0 .. MaxCalls /\ faults \in 0 .. MaxFaults /\ panics \in 0 .. MaxPanics

(* A call is past the mutex. *)
Inside(c) == c.stage \in {"resolve", "opened"} \cup Reading

(* The mutex is held by the worker whose call is past it, and by no other. *)
Mutual == \A w \in Workers : Inside(call[w]) <=> w = holder

(* A worker outside is between two calls, or has only said what it wants. *)
Outside(c) == ~c.sought /\ c.kids = << >> /\ c.sizes = << >> /\ c.metas = << >>

(* A record of the cache is one of those the service allows for its address; a
   directory is one by its kind; and a whole File Entry's is its own. *)
Sound(l, m) ==
    /\ m.is_dir = IsDir(m.kind)
    /\ m.kind \in Service!KindsOf(l, hurt) /\ m.size \in Service!SizesOf(l, hurt)
    /\ Whole(l) => m = Truth(l) \/ (l = Root /\ m = Seed)
    /\ vol[l].sector # "fe" => m.kind \in {"Dir", "Other"} /\ m.size = 0

CacheSound == Root \in DOMAIN cache /\ \A l \in DOMAIN cache : Sound(l, cache[l])

(* The length and the record that a directory's n-th child was given. *)
SizeSound(l, size) ==
    /\ size \in (IF vol[l].sector = "fe" THEN {0, vol[l].size} ELSE {0})
    /\ Whole(l) => size = vol[l].size
MetaSound(c, m) == m.kind \in Service!ListedKinds(c, hurt)

(* What allowed the call to read its data. *)
Entitled(c) ==
    /\ c.op \in {"read_dir", "lookup", "read_link", "read_at"}
    /\ c.op \in {"read_dir", "lookup"} => "Dir" \in Service!KindsOf(c.lba, hurt)
    /\ c.op = "read_link" => "Symlink" \in Service!KindsOf(c.lba, hurt)

(* What the call that holds the mutex has got so far, by its stage. *)
Listing(c) ==
    /\ c.op \in {"read_dir", "lookup"} /\ Entitled(c) /\ Service!HasData(c.lba)
    /\ c.kids = vol[c.lba].children
    /\ Len(c.sizes) <= Len(c.kids)
    /\ \A n \in 1 .. Len(c.sizes) : SizeSound(c.kids[n].lba, c.sizes[n])
    /\ c.stage = "child_len" => c.metas = << >>
    /\ c.stage = "child_type" =>
          /\ Len(c.sizes) = Len(c.kids)
          /\ c.metas \in Seq(FeMeta) /\ Len(c.metas) <= Len(c.kids)
          /\ \A n \in 1 .. Len(c.metas) : MetaSound(c.kids[n], c.metas[n])

Progress(c) ==
    /\ c.lba \in Lba
    /\ c.sought => c.stage \in Reading
    /\ c.stage \in {"type", "len"} => c.lba # Root
    /\ c.stage = "len" => vol[c.lba].sector = "fe" /\ c.metas = <<vol[c.lba].ft>>
    /\ c.stage = "opened" => c.lba \in DOMAIN cache
    /\ c.stage = "data" => Entitled(c)
    /\ IF c.stage \in {"child_len", "child_type"} THEN Listing(c)
       ELSE c.kids = << >> /\ c.sizes = << >> /\ (c.stage # "len" => c.metas = << >>)

(* The cursor stands where the holder has sought. *)
AtTarget(w) == call[w].sought => ChildrenLeft(w) /\ cursor = Target(w)

IInv ==
    /\ Typed /\ Mutual /\ CacheSound
    /\ \A w \in Workers : IF Inside(call[w]) THEN Progress(call[w]) /\ AtTarget(w)
                                             ELSE Outside(call[w])

-----------------------------------------------------------------------------
(* Data. *)

LEMMA NodeFields ==
    ASSUME NEW v \in Volumes, NEW l \in Lba
    PROVE  /\ v[l].sector \in {"fe", "other", "unreadable"}
           /\ v[l].ft \in Kind /\ v[l].size \in Nat /\ v[l].data \in {"ok", "corrupt"}
           /\ v[l].children \in Seq(Child)
BY VolumesAssumption DEF Node

LEMMA NoCallType == NoCall \in CallRecord /\ Outside(NoCall) /\ ~Inside(NoCall)
<1>1. NoCall.name \in Names
  BY NamesAssumption DEF NoCall
<1>2. NoCall.kids \in Seq(Child) /\ NoCall.sizes \in Seq(Nat) /\ NoCall.metas \in Seq(FeMeta)
  BY DEF NoCall
<1> QED  BY <1>1, <1>2, RootAssumption DEF NoCall, CallRecord, Stages, Reading, Ops, Outside, Inside

LEMMA SeedType == Seed \in FeMeta
BY DEF Seed, FeMeta, Kind

\* What the service allows of an address only grows with what is hurt.
LEMMA AllowedGrows ==
    ASSUME vol' = vol, hurt \subseteq hurt', NEW l
    PROVE  /\ Whole(l)' => Whole(l)
           /\ Service!KindsOf(l, hurt) \subseteq Service!KindsOf(l, hurt)'
           /\ Service!SizesOf(l, hurt) \subseteq Service!SizesOf(l, hurt)'
           /\ Truth(l)' = Truth(l)
           /\ Service!HasData(l)' = Service!HasData(l)
BY DEF Whole, Truth, Service!KindsOf, Service!SizesOf, Service!Whole, Service!HasData

LEMMA SoundStays ==
    ASSUME vol' = vol, hurt \subseteq hurt', NEW l, NEW m, Sound(l, m)
    PROVE  Sound(l, m)'
BY AllowedGrows DEF Sound

LEMMA ListedStays ==
    ASSUME vol' = vol, hurt \subseteq hurt', NEW c, NEW m, NEW s
    PROVE  /\ MetaSound(c, m) => MetaSound(c, m)'
           /\ SizeSound(c.lba, s) => SizeSound(c.lba, s)'
           /\ Entitled(c) => Entitled(c)'
<1>1. Service!ListedKinds(c, hurt) \subseteq Service!ListedKinds(c, hurt)'
  BY DEF Service!ListedKinds, Service!Whole, Service!FidSays
<1> QED  BY <1>1, AllowedGrows DEF MetaSound, SizeSound, Entitled

LEMMA ProgressStays ==
    ASSUME vol' = vol, hurt \subseteq hurt', DOMAIN cache \subseteq DOMAIN cache',
           NEW c, Progress(c)
    PROVE  Progress(c)'
<1>1. \A k, m, s : /\ MetaSound(k, m) => MetaSound(k, m)'
                   /\ SizeSound(k.lba, s) => SizeSound(k.lba, s)'
  BY ListedStays
<1>2. Entitled(c) => Entitled(c)'
  BY ListedStays
<1>3. Service!HasData(c.lba)' = Service!HasData(c.lba)
  BY AllowedGrows
<1>4. Listing(c) => Listing(c)'
  BY <1>1, <1>2, <1>3 DEF Listing
<1> QED  BY <1>2, <1>4 DEF Progress

LEMMA InsertSound ==
    ASSUME Typed, CacheSound, vol' = vol, hurt \subseteq hurt',
           NEW l \in Lba, NEW m \in FeMeta, Sound(l, m)', Insert(l, m)
    PROVE  /\ CacheSound' /\ DOMAIN cache' = DOMAIN cache \cup {l}
           /\ DOMAIN cache' \subseteq Lba /\ \A x \in DOMAIN cache' : cache'[x] \in FeMeta
<1>1. \A x \in DOMAIN cache : \A y : y = cache[x] => Sound(x, y)'
  BY SoundStays DEF CacheSound
<1>2. /\ DOMAIN cache' = DOMAIN cache \cup {l}
      /\ \A x \in DOMAIN cache' : cache'[x] = IF x = l THEN m ELSE cache[x]
  BY DEF Insert
<1>3. \A x \in DOMAIN cache' : Sound(x, cache[x])'
  BY <1>1, <1>2
<1> QED  BY <1>2, <1>3 DEF CacheSound, Typed

LEMMA CacheKept ==
    ASSUME CacheSound, vol' = vol, hurt \subseteq hurt', cache' = cache
    PROVE  CacheSound'
BY SoundStays DEF CacheSound

-----------------------------------------------------------------------------
(* Frames: the invariant after a step of worker w, from what the step does to
   w's own call, the cache and the cursor. *)

Others(w) == \A v \in Workers \ {w} : call'[v] = call[v]

LEMMA CallUpdate ==
    ASSUME Typed, NEW w \in Workers, NEW c \in CallRecord, call' = [call EXCEPT ![w] = c]
    PROVE  call' \in [Workers -> CallRecord] /\ Others(w) /\ call'[w] = c
BY DEF Typed, Others

LEMMA CallType ==
    ASSUME Typed, NEW w \in Workers
    PROVE  /\ call[w] \in CallRecord
           /\ call[w].stage \in Stages /\ call[w].sought \in BOOLEAN /\ call[w].op \in Ops
           /\ call[w].lba \in Lba \cup {Foreign} /\ call[w].name \in Names
           /\ call[w].kids \in Seq(Child) /\ call[w].sizes \in Seq(Nat)
BY DEF Typed, CallRecord

LEMMA HolderStep ==
    ASSUME IInv, NEW w \in Workers, holder \in {w, NoOne}, Typed', Others(w), CacheSound',
           IF Inside(call[w])' THEN holder' = w /\ Progress(call[w])' /\ AtTarget(w)'
                               ELSE holder' = NoOne /\ Outside(call[w])'
    PROVE  IInv'
<1>1. NoOne # w
  BY WorkersAssumption
<1>2. \A v \in Workers \ {w} : ~Inside(call[v]) /\ Outside(call[v]) /\ v # NoOne
  BY WorkersAssumption DEF IInv, Mutual
<1>3. \A v \in Workers \ {w} : ~Inside(call[v])' /\ Outside(call[v])'
  BY <1>2 DEF Others, Inside, Outside
<1>4. Mutual'
  BY <1>1, <1>2, <1>3 DEF Mutual
<1>5. \A v \in Workers : IF Inside(call[v])' THEN Progress(call[v])' /\ AtTarget(v)'
                                            ELSE Outside(call[v])'
  BY <1>3
<1> QED  BY <1>4, <1>5 DEF IInv

LEMMA OutsiderStep ==
    ASSUME IInv, NEW w \in Workers, ~Inside(call[w]), Typed', Others(w),
           ~Inside(call[w])', Outside(call[w])',
           UNCHANGED <<vol, holder, cursor, cache, hurt>>
    PROVE  IInv'
<1>1. \A v \in Workers \ {w} : Inside(call[v])' = Inside(call[v])
  BY DEF Others, Inside
<1>2. Mutual'
  BY <1>1 DEF Mutual, IInv
<1>3. CacheSound'
  BY CacheKept DEF IInv
<1>4. ASSUME NEW v \in Workers \ {w}, Inside(call[v])
      PROVE  Progress(call[v])' /\ AtTarget(v)'
  <2>1. Progress(call[v]) /\ AtTarget(v) /\ call'[v] = call[v]
    BY <1>4 DEF IInv, Others
  <2>2. AtTarget(v)'
    BY <2>1 DEF AtTarget, ChildrenLeft, Target
  <2>3. Progress(call[v])'
    <3>1. PICK c : c = call[v]
      OBVIOUS
    <3>2. Progress(c)'
      BY <2>1, <3>1, ProgressStays
    <3> QED  BY <2>1, <3>1, <3>2
  <2> QED  BY <2>2, <2>3
<1>5. \A v \in Workers \ {w} : ~Inside(call[v]) => Outside(call[v])'
  BY DEF IInv, Others, Outside
<1> QED  BY <1>1, <1>2, <1>3, <1>4, <1>5 DEF IInv

-----------------------------------------------------------------------------
(* The actions. *)

LEMMA Holding ==
    ASSUME IInv, NEW w \in Workers, Inside(call[w])
    PROVE  holder = w /\ Progress(call[w]) /\ AtTarget(w) /\ call[w].lba \in Lba
BY DEF IInv, Mutual, Progress

\* A read stands on a block of the volume and can only add to hurt.
LEMMA ReadEffect ==
    ASSUME IInv, NEW w \in Workers, ReadFails(w) \/ ReadSucceeds(w)
    PROVE  /\ hurt \subseteq hurt' /\ hurt' \subseteq Lba /\ faults' \in 0 .. MaxFaults
           /\ cursor \in Lba /\ call[w].sought
           /\ ReadFails(w) => cursor \in hurt'
BY BoundsAssumption DEF ReadFails, ReadSucceeds, IInv, Typed

LEMMA InitInv == Init => IInv
<1> SUFFICES ASSUME Init PROVE IInv
  OBVIOUS
<1>1. \A w \in Workers : call[w] = NoCall
  BY DEF Init
<1>2. call \in [Workers -> CallRecord]
  BY NoCallType DEF Init
<1>3. DOMAIN cache = {Root} /\ cache[Root] = Seed /\ DOMAIN ans = Workers
  BY DEF Init
<1>8. DOMAIN cache \subseteq Lba /\ \A l \in DOMAIN cache : cache[l] \in FeMeta
  BY <1>3, RootAssumption, SeedType
<1>9. /\ vol \in Volumes /\ holder = NoOne /\ poisoned \in BOOLEAN /\ cursor = Root /\ hurt = {}
      /\ calls = 0 /\ faults = 0 /\ panics = 0
  BY DEF Init
<1>7. Typed
  BY <1>2, <1>3, <1>8, <1>9, RootAssumption, BoundsAssumption DEF Typed
<1>4. Sound(Root, Seed)
  BY DEF Init, Sound, Seed, IsDir, Service!KindsOf, Service!SizesOf, Service!Whole, Whole, Truth
<1>5. CacheSound
  BY <1>4 DEF Init, CacheSound
<1>6. Mutual
  BY <1>1, NoCallType, WorkersAssumption DEF Init, Mutual
<1> QED  BY <1>1, <1>5, <1>6, <1>7, NoCallType DEF IInv

LEMMA CallInv == ASSUME IInv, NEW w \in Workers, Call(w) PROVE IInv'
<1>1. Outside(call[w]) /\ ~Inside(call[w]) /\ call[w] \in CallRecord
  BY CallType DEF Call, IInv, Inside, Reading
<1>2. PICK r \in Request :
         call' = [call EXCEPT ![w].stage = "lock", ![w].op = r.op, ![w].lba = r.lba,
                              ![w].name = r.name]
  BY DEF Call
<1>3. r.op \in Ops /\ r.lba \in Lba \cup {Foreign} /\ r.name \in Names
  BY DEF Request
<1> DEFINE c == [call[w] EXCEPT !.stage = "lock", !.op = r.op, !.lba = r.lba, !.name = r.name]
<1>4. c \in CallRecord /\ Outside(c) /\ ~Inside(c)
  BY <1>1, <1>3 DEF CallRecord, Stages, Outside, Inside, Reading
<1>5. call' = [call EXCEPT ![w] = c]
  BY <1>2 DEF IInv, Typed, CallRecord
<1> HIDE DEF c
<1>6. call' \in [Workers -> CallRecord] /\ Others(w) /\ call'[w] = c
  BY <1>4, <1>5, CallUpdate DEF IInv
<1>7. Typed'
  BY <1>6, BoundsAssumption DEF IInv, Typed, Call
<1>8. ~Inside(call[w])' /\ Outside(call[w])'
  BY <1>4, <1>6 DEF Inside, Outside
<1> QED  BY <1>1, <1>6, <1>7, <1>8, OutsiderStep DEF Call

LEMMA RefuseInv == ASSUME IInv, NEW w \in Workers, Refuse(w) PROVE IInv'
<1>1. ~Inside(call[w])
  BY DEF Refuse, Inside, Reading
<1>2. call' \in [Workers -> CallRecord] /\ Others(w) /\ call'[w] = NoCall
  BY NoCallType, CallUpdate DEF IInv, Refuse
<1>3. Typed'
  BY <1>2 DEF IInv, Typed, Refuse
<1>4. ~Inside(call[w])' /\ Outside(call[w])'
  BY <1>2, NoCallType DEF Inside, Outside
<1> QED  BY <1>1, <1>2, <1>3, <1>4, OutsiderStep DEF Refuse

\* A step that goes to another stage of the same call.
LEMMA GotoType ==
    ASSUME IInv, NEW w \in Workers, NEW stage \in Stages, Goto(w, stage)
    PROVE  /\ call' \in [Workers -> CallRecord] /\ Others(w)
           /\ call'[w] = [call[w] EXCEPT !.stage = stage, !.sought = FALSE]
<1> DEFINE c == [call[w] EXCEPT !.stage = stage, !.sought = FALSE]
<1>1. call[w] \in CallRecord
  BY CallType DEF IInv
<1>2. c \in CallRecord
  BY <1>1 DEF CallRecord
<1>3. call' = [call EXCEPT ![w] = c]
  BY DEF Goto, IInv, Typed, CallRecord
<1> QED  BY <1>2, <1>3, CallUpdate DEF IInv

LEMMA LockInv == ASSUME IInv, NEW w \in Workers, Lock(w) PROVE IInv'
<1>1. call[w] \in CallRecord /\ Outside(call[w]) /\ holder = NoOne
  BY CallType DEF Lock, Free, IInv, Inside, Reading
<1>2. /\ call' \in [Workers -> CallRecord] /\ Others(w)
      /\ call'[w] = [call[w] EXCEPT !.stage = "resolve", !.sought = FALSE]
  BY GotoType DEF Lock, Stages
<1>3. Typed'
  BY <1>2 DEF IInv, Typed, Lock
<1>4. CacheSound'
  BY CacheKept DEF IInv, Lock
<1>5. Inside(call[w])' /\ holder' = w /\ AtTarget(w)'
  BY <1>1, <1>2 DEF Lock, Inside, AtTarget, CallRecord
<1>6. Progress(call[w])'
  BY <1>1, <1>2 DEF Lock, Progress, Outside, CallRecord, Reading
<1> QED  BY <1>1, <1>2, <1>3, <1>4, <1>5, <1>6, HolderStep

LEMMA SeekInv == ASSUME IInv, NEW w \in Workers, Seek(w) PROVE IInv'
<1>1. call[w] \in CallRecord /\ Inside(call[w])
  BY CallType DEF Seek, IInv, Inside
<1>2. holder = w /\ Progress(call[w]) /\ call[w].lba \in Lba
  BY <1>1, Holding
<1> DEFINE c == [call[w] EXCEPT !.sought = TRUE]
<1>3. c \in CallRecord /\ call' = [call EXCEPT ![w] = c]
  BY <1>1 DEF CallRecord, Seek
<1>4. call' \in [Workers -> CallRecord] /\ Others(w) /\ call'[w] = c
  BY <1>3, CallUpdate DEF IInv
<1>5. Target(w) \in Lba
  <2>1. CASE call[w].stage = "child_len"
    <3>1. call[w].kids \in Seq(Child) /\ Len(call[w].sizes) + 1 \in 1 .. Len(call[w].kids)
      BY <1>1, <2>1 DEF Seek, ChildrenLeft, CallRecord
    <3>2. call[w].kids[Len(call[w].sizes) + 1] \in Child
      BY <3>1
    <3> QED  BY <3>2, <2>1 DEF Target, Child
  <2>2. CASE call[w].stage = "child_type"
    <3>1. call[w].kids \in Seq(Child) /\ call[w].metas \in Seq(FeMeta)
      BY <1>1, <1>2, <2>2 DEF CallRecord, Progress, Listing
    <3>2. Len(call[w].metas) + 1 \in 1 .. Len(call[w].kids)
      BY <3>1, <2>2 DEF Seek, ChildrenLeft
    <3>3. call[w].kids[Len(call[w].metas) + 1] \in Child
      BY <3>1, <3>2
    <3> QED  BY <3>3, <2>2 DEF Target, Child
  <2> QED  BY <1>2, <2>1, <2>2 DEF Target
<1>6. Typed'
  BY <1>4, <1>5 DEF IInv, Typed, Seek
<1>7. CacheSound'
  BY CacheKept DEF IInv, Seek
<1>8. Inside(call[w])' /\ holder' = w
  BY <1>1, <1>2, <1>4 DEF Seek, Inside, CallRecord
<1>9. AtTarget(w)'
  BY <1>1, <1>4 DEF Seek, AtTarget, Target, ChildrenLeft, CallRecord
<1>10. Progress(c)
  BY <1>1, <1>2 DEF Seek, Progress, Listing, Entitled, CallRecord
<1> HIDE DEF c
<1>11. Progress(call[w])'
  BY <1>4, <1>10, ProgressStays DEF Seek
<1> QED  BY <1>2, <1>4, <1>6, <1>7, <1>8, <1>9, <1>11, HolderStep

\* The holder's call goes on, as c, after an access or without one.
LEMMA Proceeds ==
    ASSUME IInv, NEW w \in Workers, Inside(call[w]), NEW c \in CallRecord,
           call' = [call EXCEPT ![w] = c], Inside(c), ~c.sought, Progress(c)',
           UNCHANGED <<vol, holder, poisoned, cursor, ans, calls, panics>>,
           hurt' \subseteq Lba, faults' \in 0 .. MaxFaults, CacheSound',
           DOMAIN cache' \subseteq Lba, \A l \in DOMAIN cache' : cache'[l] \in FeMeta
    PROVE  IInv'
<1>1. call' \in [Workers -> CallRecord] /\ Others(w) /\ call'[w] = c
  BY CallUpdate DEF IInv
<1>2. Typed'
  BY <1>1 DEF IInv, Typed
<1>3. Inside(call[w])' /\ AtTarget(w)' /\ Progress(call[w])'
  BY <1>1 DEF Inside, AtTarget
<1> QED  BY <1>1, <1>2, <1>3, Holding, HolderStep

LEMMA ProceedsUncached ==
    ASSUME IInv, NEW w \in Workers, Inside(call[w]), NEW c \in CallRecord,
           call' = [call EXCEPT ![w] = c], Inside(c), ~c.sought, Progress(c)',
           UNCHANGED <<vol, holder, poisoned, cursor, ans, calls, panics, cache>>,
           hurt \subseteq hurt', hurt' \subseteq Lba, faults' \in 0 .. MaxFaults
    PROVE  IInv'
<1>1. CacheSound' /\ DOMAIN cache' \subseteq Lba /\ \A l \in DOMAIN cache' : cache'[l] \in FeMeta
  BY CacheKept DEF IInv, Typed
<1> QED  BY <1>1, Proceeds

\* The holder's call returns.
LEMMA Leaves ==
    ASSUME IInv, NEW w \in Workers, Inside(call[w]), NEW a, Answer(w, a),
           UNCHANGED <<vol, poisoned, cursor, cache, calls, panics>>,
           hurt \subseteq hurt', hurt' \subseteq Lba, faults' \in 0 .. MaxFaults
    PROVE  IInv'
<1>1. call' \in [Workers -> CallRecord] /\ Others(w) /\ call'[w] = NoCall /\ holder' = NoOne
  BY NoCallType, CallUpdate DEF IInv, Answer
<1>2. DOMAIN ans' = Workers
  BY DEF IInv, Typed, Answer
<1>3. Typed'
  BY <1>1, <1>2 DEF IInv, Typed
<1>4. ~Inside(call[w])' /\ Outside(call[w])'
  BY <1>1, NoCallType DEF Inside, Outside
<1>5. CacheSound'
  BY CacheKept DEF IInv
<1> QED  BY <1>1, <1>3, <1>4, <1>5, Holding, HolderStep

LEMMA PanicInv == ASSUME IInv, NEW w \in Workers, ReaderPanics(w) PROVE IInv'
<1>1. Inside(call[w])
  BY DEF ReaderPanics, IInv, Outside
<1>2. PICK c : c = [NoCall EXCEPT !.stage = "dead"]
  OBVIOUS
<1>3. c \in CallRecord /\ Outside(c) /\ ~Inside(c)
  BY <1>2, NoCallType DEF CallRecord, Stages, Outside, Inside, Reading
<1>4. call' \in [Workers -> CallRecord] /\ Others(w) /\ call'[w] = c
  BY <1>2, <1>3, CallUpdate DEF IInv, ReaderPanics
<1>5. panics' \in 0 .. MaxPanics /\ poisoned' \in BOOLEAN
  BY BoundsAssumption DEF ReaderPanics, IInv, Typed
<1>6. Typed'
  BY <1>4, <1>5 DEF IInv, Typed, ReaderPanics
<1>7. ~Inside(call[w])' /\ Outside(call[w])' /\ holder' = NoOne
  BY <1>3, <1>4 DEF Inside, Outside, ReaderPanics
<1>8. CacheSound'
  BY CacheKept DEF IInv, ReaderPanics
<1> QED  BY <1>1, <1>4, <1>6, <1>7, <1>8, Holding, HolderStep

LEMMA GotoInv ==
    ASSUME IInv, NEW w \in Workers, Inside(call[w]), NEW stage \in Stages, Goto(w, stage),
           UNCHANGED <<vol, holder, poisoned, cursor, cache, ans, calls, panics, faults, hurt>>,
           \A c \in CallRecord : c = [call[w] EXCEPT !.stage = stage, !.sought = FALSE]
                                 => Inside(c) /\ Progress(c)
    PROVE  IInv'
<1>1. PICK c : c = [call[w] EXCEPT !.stage = stage, !.sought = FALSE]
  OBVIOUS
<1>2. c \in CallRecord /\ ~c.sought
  BY <1>1, CallType DEF IInv, CallRecord
<1>3. call' = [call EXCEPT ![w] = c]
  BY <1>1 DEF Goto, IInv, Typed, CallRecord
<1>4. Inside(c) /\ Progress(c)
  BY <1>1, <1>2
<1>5. Progress(c)'
  BY <1>4, ProgressStays
<1>6. hurt \subseteq hurt' /\ hurt' \subseteq Lba /\ faults' \in 0 .. MaxFaults
  BY DEF IInv, Typed
<1> QED  BY <1>2, <1>3, <1>4, <1>5, <1>6, ProceedsUncached

LEMMA ResolveInv == ASSUME IInv, NEW w \in Workers, Resolve(w) PROVE IInv'
<1>1. Inside(call[w]) /\ call[w] \in CallRecord
  BY CallType DEF Resolve, Inside, IInv
<1>2. Progress(call[w])
  BY <1>1, Holding
<1> DEFINE stage == IF call[w].lba \in DOMAIN cache THEN "opened" ELSE "type"
<1>3. stage \in Stages
  BY DEF Stages, Reading
<1>4. ASSUME NEW c \in CallRecord, c = [call[w] EXCEPT !.stage = stage, !.sought = FALSE]
      PROVE  Inside(c) /\ Progress(c)
  <2>1. c.stage \in {"opened", "type"} /\ ~c.sought /\ c.lba = call[w].lba
        /\ c.kids = << >> /\ c.sizes = << >> /\ c.metas = << >> /\ c.lba \in Lba
    BY <1>1, <1>2, <1>4 DEF Resolve, Progress, CallRecord
  <2>2. c.stage = "opened" <=> c.lba \in DOMAIN cache
    BY <1>1, <1>4 DEF CallRecord
  <2> QED  BY <2>1, <2>2 DEF Progress, Inside, Reading, IInv, CacheSound
<1> QED  BY <1>1, <1>3, <1>4, GotoInv DEF Resolve

LEMMA LengthsDoneInv == ASSUME IInv, NEW w \in Workers, LengthsDone(w) PROVE IInv'
<1>1. Inside(call[w]) /\ call[w] \in CallRecord
  BY CallType DEF LengthsDone, Inside, Reading, IInv
<1>2. Progress(call[w]) /\ Listing(call[w])
  BY <1>1, Holding DEF Progress, LengthsDone
<1>3. "child_type" \in Stages
  BY DEF Stages, Reading
<1>4. ASSUME NEW c \in CallRecord, c = [call[w] EXCEPT !.stage = "child_type", !.sought = FALSE]
      PROVE  Inside(c) /\ Progress(c)
  <2>1. /\ c.stage = "child_type" /\ ~c.sought /\ c.lba = call[w].lba /\ c.op = call[w].op
        /\ c.kids = call[w].kids /\ c.sizes = call[w].sizes /\ c.metas = << >>
    BY <1>1, <1>2, <1>4 DEF LengthsDone, Listing, CallRecord
  <2>2. Len(c.sizes) = Len(c.kids)
    BY <1>1, <1>2, <2>1 DEF LengthsDone, ChildrenLeft, Listing, CallRecord
  <2>3. Entitled(c)
    BY <1>2, <2>1 DEF Listing, Entitled
  <2>4. Listing(c)
    BY <1>2, <2>1, <2>2, <2>3 DEF Listing
  <2> QED  BY <1>2, <2>1, <2>4 DEF Progress, Inside, Reading
<1> QED  BY <1>1, <1>3, <1>4, GotoInv DEF LengthsDone

LEMMA ReadTypeInv == ASSUME IInv, NEW w \in Workers, ReadType(w) PROVE IInv'
<1>1. Inside(call[w]) /\ call[w] \in CallRecord
  BY CallType DEF ReadType, Inside, Reading, IInv
<1>2. Progress(call[w]) /\ cursor = call[w].lba
  BY <1>1, Holding, ReadEffect DEF ReadType, AtTarget, Target
<1>3. ReadFails(w) \/ ReadSucceeds(w)
  BY DEF ReadType
<1>4. hurt \subseteq hurt' /\ hurt' \subseteq Lba /\ faults' \in 0 .. MaxFaults
  BY <1>3, ReadEffect
<1>5. CASE Answer(w, Failed)
  BY <1>1, <1>4, <1>5, Leaves DEF ReadType
<1>6. CASE ~Answer(w, Failed)
  <2>1. PICK c : c = [call[w] EXCEPT !.stage = "len", !.sought = FALSE, !.metas = <<vol[cursor].ft>>]
    OBVIOUS
  <2>2. vol[cursor].sector = "fe" /\ UNCHANGED <<ans, holder>>
    BY <1>6 DEF ReadType
  <2>3. call' = [call EXCEPT ![w] = c]
    BY <1>1, <1>6, <2>1 DEF ReadType, IInv, Typed, CallRecord
  <2>4. <<vol[cursor].ft>> \in Seq(Kind)
    BY NodeFields DEF IInv, Typed
  <2>5. c \in CallRecord
    BY <1>1, <2>1, <2>4 DEF CallRecord, Stages, Reading
  <2>6. /\ c.stage = "len" /\ ~c.sought /\ c.lba = call[w].lba /\ c.kids = << >> /\ c.sizes = << >>
        /\ c.metas = <<vol[cursor].ft>>
    BY <1>1, <1>2, <2>1 DEF ReadType, Progress, CallRecord
  <2>7. Inside(c) /\ Progress(c)
    BY <1>2, <2>2, <2>6 DEF ReadType, Inside, Reading, Progress
  <2>8. Progress(c)'
    BY <1>4, <2>7, ProgressStays DEF ReadType
  <2> QED  BY <1>1, <1>4, <2>2, <2>3, <2>5, <2>6, <2>7, <2>8, ProceedsUncached DEF ReadType
<1> QED  BY <1>5, <1>6

LEMMA ReadLenInv == ASSUME IInv, NEW w \in Workers, ReadLen(w) PROVE IInv'
<1>1. Inside(call[w]) /\ call[w] \in CallRecord
  BY CallType DEF ReadLen, Inside, Reading, IInv
<1>2. ReadFails(w) \/ ReadSucceeds(w)
  BY DEF ReadLen
<1>3. /\ hurt \subseteq hurt' /\ hurt' \subseteq Lba /\ faults' \in 0 .. MaxFaults
      /\ ReadFails(w) => cursor \in hurt'
  BY <1>2, ReadEffect
<1>4. Progress(call[w]) /\ cursor = call[w].lba
  BY <1>1, <1>2, Holding, ReadEffect DEF ReadLen, AtTarget, Target
<1>5. PICK l, ft : l = call[w].lba /\ ft = vol[l].ft
  OBVIOUS
<1>6. l \in Lba /\ l # Root /\ vol[l].sector = "fe" /\ call[w].metas[1] = ft
  BY <1>4, <1>5 DEF ReadLen, Progress
<1>7. PICK size : /\ size = vol[l].size \/ (size = 0 /\ ReadFails(w))
                  /\ Insert(l, [is_dir |-> IsDir(ft), kind |-> ft, size |-> size])
  BY <1>4, <1>5, <1>6 DEF ReadLen
<1>8. PICK m : m = [is_dir |-> IsDir(ft), kind |-> ft, size |-> size]
  OBVIOUS
<1>9. m \in FeMeta /\ Insert(l, m)
  <2>1. vol[l].size \in Nat /\ ft \in Kind
    BY <1>5, <1>6, NodeFields DEF IInv, Typed
  <2> QED  BY <1>7, <1>8, <2>1 DEF FeMeta, IsDir
<1>10. Sound(l, m)'
  <2>1. vol' = vol /\ (size = vol[l].size \/ (size = 0 /\ l \in hurt'))
    BY <1>3, <1>4, <1>5, <1>7 DEF ReadLen
  <2>2. m.is_dir = IsDir(m.kind) /\ m.kind = ft /\ m.size = size
    BY <1>8
  <2>3. m.kind \in Service!KindsOf(l, hurt)'
    BY <1>5, <1>6, <2>1, <2>2 DEF Service!KindsOf
  <2>4. m.size \in Service!SizesOf(l, hurt)'
    BY <1>6, <2>1, <2>2 DEF Service!SizesOf, Service!Whole
  <2>5. Whole(l)' => m = Truth(l)'
    BY <1>5, <1>8, <2>1 DEF Whole, Truth, IsDir
  <2> QED  BY <1>6, <2>1, <2>2, <2>3, <2>4, <2>5 DEF Sound, IsDir
<1>11. /\ CacheSound' /\ DOMAIN cache' = DOMAIN cache \cup {l}
       /\ DOMAIN cache' \subseteq Lba /\ \A x \in DOMAIN cache' : cache'[x] \in FeMeta
  BY <1>3, <1>6, <1>9, <1>10, InsertSound DEF ReadLen, IInv
<1>12. PICK c : c = [call[w] EXCEPT !.stage = "opened", !.sought = FALSE, !.metas = << >>]
  OBVIOUS
<1>13. call' = [call EXCEPT ![w] = c]
  BY <1>1, <1>12 DEF ReadLen, IInv, Typed, CallRecord
<1>14. << >> \in Seq(Kind)
  OBVIOUS
<1>15. c \in CallRecord
  BY <1>1, <1>12, <1>14 DEF CallRecord, Stages
<1>16. /\ c.stage = "opened" /\ ~c.sought /\ c.lba = l /\ c.kids = << >> /\ c.sizes = << >>
       /\ c.metas = << >>
  BY <1>1, <1>4, <1>5, <1>12 DEF ReadLen, Progress, CallRecord
<1>17. Inside(c) /\ Progress(c)'
  BY <1>6, <1>11, <1>16 DEF Inside, Progress, Reading
<1> QED  BY <1>1, <1>3, <1>11, <1>13, <1>15, <1>16, <1>17, Proceeds DEF ReadLen

LEMMA OpenedInv == ASSUME IInv, NEW w \in Workers, Opened(w) PROVE IInv'
<1>1. Inside(call[w]) /\ call[w] \in CallRecord
  BY CallType DEF Opened, Inside, IInv
<1>2. Progress(call[w]) /\ call[w].lba \in DOMAIN cache
  BY <1>1, Holding DEF Opened, Progress
<1>3. hurt \subseteq hurt' /\ hurt' \subseteq Lba /\ faults' \in 0 .. MaxFaults
  BY DEF Opened, IInv, Typed
<1>4. ASSUME NEW a, Answer(w, a) PROVE IInv'
  BY <1>1, <1>3, <1>4, Leaves DEF Opened
<1>5. ASSUME Goto(w, "data"), UNCHANGED <<ans, holder>>,
             \/ call[w].op \in {"read_dir", "lookup"} /\ cache[call[w].lba].is_dir
             \/ call[w].op = "read_link" /\ cache[call[w].lba].kind = "Symlink"
             \/ call[w].op = "read_at"
      PROVE  IInv'
  <2>1. Sound(call[w].lba, cache[call[w].lba])
    BY <1>2 DEF IInv, CacheSound
  <2>2. ASSUME NEW c \in CallRecord, c = [call[w] EXCEPT !.stage = "data", !.sought = FALSE]
        PROVE  Inside(c) /\ Progress(c)
    <3>1. /\ c.stage = "data" /\ ~c.sought /\ c.lba = call[w].lba /\ c.op = call[w].op
          /\ c.kids = << >> /\ c.sizes = << >> /\ c.metas = << >> /\ c.lba \in Lba
      BY <1>1, <1>2, <2>2 DEF Opened, Progress, CallRecord
    <3>2. Entitled(c)
      BY <1>5, <2>1, <3>1 DEF Entitled, Sound, IsDir
    <3> QED  BY <3>1, <3>2 DEF Progress, Inside, Reading
  <2>3. "data" \in Stages
    BY DEF Stages, Reading
  <2> QED  BY <1>1, <1>5, <2>2, <2>3, GotoInv DEF Opened
<1> QED  BY <1>4, <1>5 DEF Opened


LEMMA ReadDataInv == ASSUME IInv, NEW w \in Workers, ReadData(w) PROVE IInv'
<1>1. Inside(call[w]) /\ call[w] \in CallRecord
  BY CallType DEF ReadData, Inside, Reading, IInv
<1>2. ReadFails(w) \/ ReadSucceeds(w)
  BY DEF ReadData
<1>3. hurt \subseteq hurt' /\ hurt' \subseteq Lba /\ faults' \in 0 .. MaxFaults
  BY <1>2, ReadEffect
<1>4. Progress(call[w]) /\ cursor = call[w].lba /\ Entitled(call[w])
  BY <1>1, <1>2, Holding, ReadEffect DEF ReadData, AtTarget, Target, Progress
<1>5. ASSUME NEW a, Answer(w, a) PROVE IInv'
  BY <1>1, <1>3, <1>5, Leaves DEF ReadData
<1>6. ASSUME DataObtained, call[w].op \notin {"read_at", "read_link"}, UNCHANGED <<ans, holder>>,
             call' = [call EXCEPT ![w].stage = "child_len", ![w].sought = FALSE,
                                  ![w].kids = vol[cursor].children]
      PROVE  IInv'
  <2>1. PICK c : c = [call[w] EXCEPT !.stage = "child_len", !.sought = FALSE,
                                     !.kids = vol[cursor].children]
    OBVIOUS
  <2>2. call' = [call EXCEPT ![w] = c]
    BY <1>1, <1>6, <2>1 DEF IInv, Typed, CallRecord
  <2>3. vol[cursor].children \in Seq(Child)
    BY NodeFields DEF IInv, Typed
  <2>4. c \in CallRecord
    BY <1>1, <2>1, <2>3 DEF CallRecord, Stages, Reading
  <2>5. /\ c.stage = "child_len" /\ ~c.sought /\ c.lba = call[w].lba /\ c.op = call[w].op
        /\ c.kids = vol[c.lba].children /\ c.sizes = << >> /\ c.metas = << >> /\ c.lba \in Lba
    BY <1>1, <1>4, <2>1 DEF ReadData, Progress, CallRecord
  <2>6. Entitled(c) /\ c.op \in {"read_dir", "lookup"} /\ Service!HasData(c.lba)
    BY <1>4, <1>6, <2>5 DEF Entitled, DataObtained, Service!HasData
  <2>7. Len(c.sizes) = 0 /\ Len(c.kids) \in Nat
    BY <2>3, <2>5, <1>4
  <2>8. Listing(c)
    BY <2>5, <2>6, <2>7 DEF Listing
  <2>9. Inside(c) /\ Progress(c)
    BY <2>5, <2>8 DEF Inside, Progress, Reading
  <2>10. Progress(c)'
    BY <1>3, <2>9, ProgressStays DEF ReadData
  <2> QED  BY <1>1, <1>3, <1>6, <2>2, <2>4, <2>5, <2>9, <2>10, ProceedsUncached DEF ReadData
<1>7. (\E a : Answer(w, a)) \/ (/\ DataObtained /\ call[w].op \notin {"read_at", "read_link"}
                               /\ UNCHANGED <<ans, holder>>
                               /\ call' = [call EXCEPT ![w].stage = "child_len", ![w].sought = FALSE,
                                                       ![w].kids = vol[cursor].children])
  BY DEF ReadData
<1> QED  BY <1>5, <1>6, <1>7

LEMMA ReadChildLenInv == ASSUME IInv, NEW w \in Workers, ReadChildLen(w) PROVE IInv'
<1>1. Inside(call[w]) /\ call[w] \in CallRecord
  BY CallType DEF ReadChildLen, Inside, Reading, IInv
<1>2. ReadFails(w) \/ ReadSucceeds(w)
  BY DEF ReadChildLen
<1>3. /\ hurt \subseteq hurt' /\ hurt' \subseteq Lba /\ faults' \in 0 .. MaxFaults /\ cursor \in Lba
      /\ (ReadFails(w) => cursor \in hurt') /\ vol' = vol
  BY <1>2, ReadEffect DEF ReadChildLen
<1>4. Progress(call[w]) /\ Listing(call[w]) /\ ChildrenLeft(w) /\ cursor = Target(w)
  BY <1>1, <1>2, Holding, ReadEffect DEF ReadChildLen, AtTarget, Progress
<1>5. PICK n : n = Len(call[w].sizes) + 1
  OBVIOUS
<1>6. n \in 1 .. Len(call[w].kids) /\ cursor = call[w].kids[n].lba
  <2>1. call[w].stage = "child_len" /\ call[w].kids \in Seq(Child) /\ call[w].sizes \in Seq(Nat)
    BY <1>1 DEF ReadChildLen, CallRecord
  <2>2. Len(call[w].sizes) < Len(call[w].kids)
    BY <1>4, <2>1 DEF ChildrenLeft
  <2>3. cursor = call[w].kids[n].lba
    BY <1>4, <1>5, <2>1 DEF Target
  <2> QED  BY <1>5, <2>1, <2>2, <2>3
<1>7. PICK size : /\ (size = 0 /\ ReadFails(w))
                        \/ size = IF vol[cursor].sector = "fe" THEN vol[cursor].size ELSE 0
                  /\ call' = [call EXCEPT ![w].sought = FALSE, ![w].sizes = Append(@, size)]
  BY DEF ReadChildLen
<1>8. size \in Nat
  BY <1>3, <1>7, NodeFields DEF IInv, Typed
<1>9. PICK c : c = [call[w] EXCEPT !.sought = FALSE, !.sizes = Append(@, size)]
  OBVIOUS
<1>10. call' = [call EXCEPT ![w] = c]
  BY <1>1, <1>7, <1>9 DEF IInv, Typed, CallRecord
<1>11. c \in CallRecord
  <2>1. call[w].sizes \in Seq(Nat)
    BY <1>1 DEF CallRecord
  <2>2. Append(call[w].sizes, size) \in Seq(Nat)
    BY <1>8, <2>1
  <2> QED  BY <1>1, <1>9, <2>2 DEF CallRecord
<1>12. /\ c.stage = "child_len" /\ ~c.sought /\ c.lba = call[w].lba /\ c.op = call[w].op
       /\ c.kids = call[w].kids /\ c.sizes = Append(call[w].sizes, size) /\ c.metas = << >>
  BY <1>1, <1>4, <1>9 DEF ReadChildLen, Listing, CallRecord
<1>13. /\ Len(c.sizes) = n /\ c.sizes[n] = size
       /\ \A h \in 1 .. n - 1 : c.sizes[h] = call[w].sizes[h]
  BY <1>1, <1>5, <1>8, <1>12 DEF CallRecord
<1>14. SizeSound(c.kids[n].lba, size)'
  BY <1>3, <1>6, <1>7, <1>12 DEF SizeSound, Whole
<1>15. \A h \in 1 .. n - 1 : SizeSound(c.kids[h].lba, c.sizes[h])
  BY <1>1, <1>4, <1>5, <1>12, <1>13 DEF Listing, CallRecord
<1>16. \A h \in 1 .. n - 1 : SizeSound(c.kids[h].lba, c.sizes[h])'
  BY <1>3, <1>15, ListedStays
<1>17. Entitled(c) /\ Service!HasData(c.lba) /\ c.kids = vol[c.lba].children
  BY <1>4, <1>12 DEF Listing, Entitled
<1>18. Entitled(c)' /\ Service!HasData(c.lba)' /\ c.kids = vol'[c.lba].children
  BY <1>3, <1>17, ListedStays, AllowedGrows
<1>19. Len(c.sizes) <= Len(c.kids) /\ n \in Nat
  BY <1>1, <1>6, <1>12, <1>13 DEF CallRecord
<1>20. \A h \in 1 .. Len(c.sizes) : SizeSound(c.kids[h].lba, c.sizes[h])'
  BY <1>13, <1>14, <1>16, <1>19
<1>21. Listing(c)'
  BY <1>4, <1>12, <1>18, <1>19, <1>20 DEF Listing
<1>22. Inside(c) /\ Progress(c)'
  BY <1>4, <1>12, <1>21 DEF Inside, Progress, Reading
<1> QED  BY <1>1, <1>3, <1>10, <1>11, <1>12, <1>22, ProceedsUncached DEF ReadChildLen

LEMMA ReadChildTypeInv == ASSUME IInv, NEW w \in Workers, ReadChildType(w) PROVE IInv'
<1>1. Inside(call[w]) /\ call[w] \in CallRecord
  BY CallType DEF ReadChildType, Inside, Reading, IInv
<1>2. ReadFails(w) \/ ReadSucceeds(w)
  BY DEF ReadChildType
<1>3. /\ hurt \subseteq hurt' /\ hurt' \subseteq Lba /\ faults' \in 0 .. MaxFaults /\ cursor \in Lba
      /\ (ReadFails(w) => cursor \in hurt') /\ vol' = vol
  BY <1>2, ReadEffect DEF ReadChildType
<1>4. Progress(call[w]) /\ Listing(call[w]) /\ ChildrenLeft(w) /\ cursor = Target(w)
  BY <1>1, <1>2, Holding, ReadEffect DEF ReadChildType, AtTarget, Progress
<1>5. PICK n : n = Len(call[w].metas) + 1
  OBVIOUS
<1>6. call[w].metas \in Seq(FeMeta) /\ n \in 1 .. Len(call[w].kids) /\ Len(call[w].sizes) = Len(call[w].kids)
  <2>1. call[w].stage = "child_type" /\ call[w].kids \in Seq(Child)
    BY <1>1 DEF ReadChildType, CallRecord
  <2>2. call[w].metas \in Seq(FeMeta) /\ Len(call[w].sizes) = Len(call[w].kids)
    BY <1>4, <2>1 DEF Listing
  <2>3. Len(call[w].metas) < Len(call[w].kids)
    BY <1>4, <2>1 DEF ChildrenLeft
  <2> QED  BY <1>5, <2>1, <2>2, <2>3
<1>7. PICK k : k = call[w].kids[n]
  OBVIOUS
<1>8. k \in Child /\ k.lba \in Lba /\ k.is_dir \in BOOLEAN /\ cursor = k.lba
  <2>1. k \in Child
    BY <1>1, <1>6, <1>7 DEF CallRecord
  <2> QED  BY <1>4, <1>5, <1>7, <2>1 DEF Child, ReadChildType, Target
<1>9. PICK size : size = call[w].sizes[n]
  OBVIOUS
<1>10. size \in Nat /\ SizeSound(k.lba, size)
  BY <1>1, <1>4, <1>6, <1>7, <1>9 DEF Listing, CallRecord
<1>11. PICK m : /\ \/ /\ ReadFails(w) \/ vol[cursor].sector # "fe"
                      /\ m = [is_dir |-> k.is_dir, kind |-> FidKind(k.is_dir), size |-> size]
                   \/ /\ ReadSucceeds(w) /\ vol[cursor].sector = "fe"
                      /\ m = [is_dir |-> IsDir(vol[cursor].ft), kind |-> vol[cursor].ft, size |-> size]
                /\ Insert(k.lba, m)
                /\ call' = [call EXCEPT ![w].sought = FALSE, ![w].metas = Append(@, m)]
  BY <1>5, <1>7, <1>9 DEF ReadChildType
<1>12. m \in FeMeta /\ m.size = size /\ m.is_dir = IsDir(m.kind)
  <2>1. vol[cursor].ft \in Kind
    BY <1>3, NodeFields DEF IInv, Typed
  <2>2. CASE m = [is_dir |-> k.is_dir, kind |-> FidKind(k.is_dir), size |-> size]
    BY <1>8, <1>10, <2>2 DEF FeMeta, FidKind, Kind, IsDir
  <2>3. CASE m = [is_dir |-> IsDir(vol[cursor].ft), kind |-> vol[cursor].ft, size |-> size]
    BY <1>10, <2>1, <2>3 DEF FeMeta, IsDir
  <2> QED  BY <1>11, <2>2, <2>3
<1>13. \/ (k.lba \in hurt' \/ vol[k.lba].sector # "fe") /\ m.kind = FidKind(k.is_dir)
       \/ vol[k.lba].sector = "fe" /\ m.kind = vol[k.lba].ft
  <2>1. CASE /\ ReadFails(w) \/ vol[cursor].sector # "fe"
             /\ m = [is_dir |-> k.is_dir, kind |-> FidKind(k.is_dir), size |-> size]
    BY <1>3, <1>8, <2>1
  <2>2. CASE /\ vol[cursor].sector = "fe"
             /\ m = [is_dir |-> IsDir(vol[cursor].ft), kind |-> vol[cursor].ft, size |-> size]
    BY <1>8, <2>2
  <2> QED  BY <1>11, <2>1, <2>2
<1>14. SizeSound(k.lba, size)'
  BY <1>3, <1>10, ListedStays
<1>15. Sound(k.lba, m)'
  <2>1. m.kind \in Service!KindsOf(k.lba, hurt)'
    BY <1>3, <1>13 DEF Service!KindsOf, Service!Whole, FidKind
  <2>2. m.size \in Service!SizesOf(k.lba, hurt)'
    BY <1>3, <1>12, <1>14 DEF Service!SizesOf, Service!Whole, SizeSound, Whole
  <2>3. Whole(k.lba)' => m = Truth(k.lba)'
    BY <1>3, <1>12, <1>13, <1>14 DEF Whole, Truth, SizeSound, IsDir, FeMeta
  <2>4. vol'[k.lba].sector # "fe" => m.kind \in {"Dir", "Other"} /\ m.size = 0
    BY <1>3, <1>12, <1>13, <1>14 DEF SizeSound, FidKind
  <2> QED  BY <1>12, <2>1, <2>2, <2>3, <2>4 DEF Sound
<1>16. MetaSound(k, m)'
  BY <1>3, <1>13 DEF MetaSound, Service!ListedKinds, Service!Whole, Service!FidSays, FidKind
<1>17. /\ CacheSound' /\ DOMAIN cache' = DOMAIN cache \cup {k.lba}
       /\ DOMAIN cache' \subseteq Lba /\ \A x \in DOMAIN cache' : cache'[x] \in FeMeta
  BY <1>3, <1>8, <1>11, <1>12, <1>15, InsertSound DEF IInv
<1>18. PICK c : c = [call[w] EXCEPT !.sought = FALSE, !.metas = Append(@, m)]
  OBVIOUS
<1>19. call' = [call EXCEPT ![w] = c]
  BY <1>1, <1>11, <1>18 DEF IInv, Typed, CallRecord
<1>20. c \in CallRecord
  <2>1. Append(call[w].metas, m) \in Seq(FeMeta)
    BY <1>6, <1>12
  <2> QED  BY <1>1, <1>18, <2>1 DEF CallRecord
<1>21. /\ c.stage = "child_type" /\ ~c.sought /\ c.lba = call[w].lba /\ c.op = call[w].op
       /\ c.kids = call[w].kids /\ c.sizes = call[w].sizes /\ c.metas = Append(call[w].metas, m)
  BY <1>1, <1>18 DEF ReadChildType, CallRecord
<1>22. /\ c.metas \in Seq(FeMeta) /\ Len(c.metas) = n /\ c.metas[n] = m
       /\ \A h \in 1 .. n - 1 : c.metas[h] = call[w].metas[h]
  BY <1>5, <1>6, <1>12, <1>21
<1>23. \A h \in 1 .. n - 1 : MetaSound(c.kids[h], c.metas[h])
  <2>1. \A h \in 1 .. Len(call[w].metas) : MetaSound(call[w].kids[h], call[w].metas[h])
    BY <1>4 DEF Listing, ReadChildType
  <2>2. n - 1 = Len(call[w].metas)
    BY <1>5, <1>6
  <2> QED  BY <1>21, <1>22, <2>1, <2>2
<1>24. \A h \in 1 .. n - 1 : MetaSound(c.kids[h], c.metas[h])'
  BY <1>3, <1>23, ListedStays
<1>25. \A h \in 1 .. Len(c.metas) : MetaSound(c.kids[h], c.metas[h])'
  BY <1>6, <1>7, <1>16, <1>21, <1>22, <1>24
<1>26. \A h \in 1 .. Len(c.sizes) : SizeSound(c.kids[h].lba, c.sizes[h])'
  BY <1>3, <1>4, <1>21, ListedStays DEF Listing
<1>27. Entitled(c) /\ Service!HasData(c.lba) /\ c.kids = vol[c.lba].children
  BY <1>4, <1>21 DEF Listing, Entitled
<1>28. Entitled(c)' /\ Service!HasData(c.lba)' /\ c.kids = vol'[c.lba].children
  BY <1>3, <1>27, ListedStays, AllowedGrows
<1>29. Listing(c)'
  <2>1. c.op \in {"read_dir", "lookup"}
    BY <1>4, <1>21 DEF Listing
  <2>2. Len(c.sizes) = Len(c.kids) /\ Len(c.metas) <= Len(c.kids) /\ Len(c.sizes) <= Len(c.kids)
    BY <1>6, <1>21, <1>22
  <2> QED  BY <1>21, <1>22, <1>25, <1>26, <1>28, <2>1, <2>2 DEF Listing
<1>30. Inside(c) /\ Progress(c)'
  BY <1>4, <1>21, <1>29 DEF Inside, Progress, Reading
<1> QED  BY <1>1, <1>3, <1>17, <1>19, <1>20, <1>21, <1>30, Proceeds DEF ReadChildType

LEMMA ChildrenDoneInv == ASSUME IInv, NEW w \in Workers, ChildrenDone(w) PROVE IInv'
<1>1. Inside(call[w])
  BY DEF ChildrenDone, Inside, Reading
<1>2. hurt \subseteq hurt' /\ hurt' \subseteq Lba /\ faults' \in 0 .. MaxFaults
  BY DEF ChildrenDone, IInv, Typed
<1>3. PICK a : Answer(w, a)
  BY DEF ChildrenDone
<1> QED  BY <1>1, <1>2, <1>3, Leaves DEF ChildrenDone

LEMMA InvStep == IInv /\ [Next]_vars => IInv'
<1> SUFFICES ASSUME IInv, [Next]_vars PROVE IInv'
  OBVIOUS
<1>1. ASSUME NEW w \in Workers, Step(w) PROVE IInv'
  BY <1>1, RefuseInv, LockInv, ResolveInv, SeekInv, ReadTypeInv, ReadLenInv, OpenedInv,
     ReadDataInv, ReadChildLenInv, LengthsDoneInv, ReadChildTypeInv, ChildrenDoneInv DEF Step
<1>2. CASE UNCHANGED vars
  <2>1. /\ vol' = vol /\ hurt \subseteq hurt' /\ cache' = cache /\ call' = call /\ cursor' = cursor
        /\ holder' = holder
    BY <1>2 DEF vars
  <2>2. Typed'
    BY <1>2 DEF vars, IInv, Typed
  <2>3. Mutual' /\ CacheSound'
    BY <2>1, CacheKept DEF IInv, Mutual
  <2>4. ASSUME NEW w \in Workers
        PROVE  IF Inside(call[w])' THEN Progress(call[w])' /\ AtTarget(w)' ELSE Outside(call[w])'
    <3>1. PICK c : c = call[w]
      OBVIOUS
    <3>2. call'[w] = c
      BY <2>1, <3>1
    <3>3. Progress(c) => Progress(c)'
      BY <2>1, ProgressStays
    <3>4. AtTarget(w) => AtTarget(w)'
      BY <2>1 DEF AtTarget, Target, ChildrenLeft
    <3> QED  BY <3>1, <3>2, <3>3, <3>4 DEF IInv
  <2> QED  BY <2>2, <2>3, <2>4 DEF IInv
<1> QED  BY <1>1, <1>2, CallInv, PanicInv DEF Next

LEMMA Inductive == Spec => []IInv
<1> QED  BY InitInv, InvStep, PTL DEF Spec

-----------------------------------------------------------------------------
(* The safety properties. *)

\* The adapter's type invariant, for any number of workers and any volumes.
THEOREM TypeCorrect == Spec => []TypeOK
<1>1. IInv => TypeOK
  <2> SUFFICES ASSUME IInv PROVE TypeOK
    OBVIOUS
  <2>1. ASSUME NEW w \in Workers
        PROVE  /\ Len(call[w].sizes) <= Len(call[w].kids)
               /\ call[w].stage = "child_type" =>
                     Len(call[w].sizes) = Len(call[w].kids) /\ Len(call[w].metas) <= Len(call[w].kids)
    <3>1. CASE Inside(call[w])
      BY <3>1, Holding DEF Progress, Listing
    <3>2. CASE ~Inside(call[w])
      BY <3>2 DEF IInv, Outside, Inside, Reading
    <3> QED  BY <3>1, <3>2
  <2> QED  BY <2>1, CallType DEF IInv, Typed, TypeOK
<1> QED  BY <1>1, Inductive, PTL

\* No worker's access to the medium is torn apart by another's.
THEOREM ReadsWhatItSoughtAlways == Spec => []ReadsWhatItSought
<1>1. IInv => ReadsWhatItSought
  BY DEF IInv, Outside, Mutual, AtTarget, ReadsWhatItSought
<1> QED  BY <1>1, Inductive, PTL

\* Whatever interleavings, failures and unwound calls there were, a record in
\* the cache of an address that never failed to read is its File Entry's.
THEOREM CacheIsTrueAlways == Spec => []CacheIsTrue
<1>1. IInv => CacheIsTrue
  BY DEF IInv, CacheSound, Sound, CacheIsTrue
<1> QED  BY <1>1, Inductive, PTL

\* Nothing is made up for a child without a File Entry.
THEOREM NothingFabricatedAlways == Spec => []NothingFabricated
<1>1. IInv => NothingFabricated
  BY DEF IInv, CacheSound, Sound, NothingFabricated
<1> QED  BY <1>1, Inductive, PTL

\* Only a call that runs holds the mutex, whatever path the earlier ones left by.
THEOREM NeverLeftLockedAlways == Spec => []NeverLeftLocked
<1>1. IInv => NeverLeftLocked
  BY DEF IInv, Typed, Mutual, Inside, Reading, NeverLeftLocked
<1> QED  BY <1>1, Inductive, PTL

-----------------------------------------------------------------------------
(* The adapter implements VfsService: every step is one of the service or a
   stutter. *)

\* The reads of one step hurt at most one address.
Hurts == hurt' = hurt \/ \E l \in Lba : hurt' = hurt \cup {l}

Busy(c) == c.stage \notin {"idle", "dead"}

LEMMA AskedBy ==
    ASSUME Typed, NEW w \in Workers, Busy(call[w])
    PROVE  /\ asked[w] = Asked(call[w]) /\ Service!Asking(w)
           /\ asked[w].op = call[w].op /\ asked[w].lba = call[w].lba
           /\ asked[w].name = call[w].name
<1>1. asked[w] = Asked(call[w])
  BY DEF asked, Busy
<1>2. call[w].op \in Ops
  BY CallType
<1>3. Asked(call[w]).op \notin {"none", "lost"}
  BY <1>2 DEF Asked, Ops
<1> QED  BY <1>1, <1>3 DEF Service!Asking, Service!Idle, Service!Lost, Asked

LEMMA AskedUpdate ==
    ASSUME NEW w \in Workers, Others(w)
    PROVE  asked' = [asked EXCEPT ![w] = asked'[w]]
<1>1. \A v \in Workers \ {w} : asked'[v] = asked[v]
  BY DEF Others, asked
<1>2. asked = [v \in Workers |-> asked[v]] /\ asked' = [v \in Workers |-> asked'[v]]
  BY DEF asked
<1> QED  BY <1>1, <1>2

\* What is still under way is for the service a stutter, or a failing read.
LEMMA Unseen ==
    ASSUME NEW w \in Workers, Others(w), Busy(call[w]), Busy(call'[w]),
           Asked(call'[w]) = Asked(call[w]), UNCHANGED <<vol, ans>>, Hurts
    PROVE  Service!Next
<1>1. asked'[w] = asked[w]
  BY DEF asked, Busy
<1>2. asked' = asked
  BY <1>1, AskedUpdate DEF asked
<1>3. Service!ReadFails
  BY DEF Hurts, Service!ReadFails
<1> QED  BY <1>2, <1>3 DEF Service!Next

LEMMA Replies ==
    ASSUME Typed, NEW w \in Workers, Busy(call[w]), UNCHANGED vol, Hurts,
           call' = [call EXCEPT ![w] = NoCall], NEW a,
           ans' = [ans EXCEPT ![w] = [asked |-> Asked(call[w]), res |-> a]],
           a \in Service!Promised(Asked(call[w]), hurt')
    PROVE  Service!Next
<1>1. Others(w) /\ call'[w] = NoCall
  BY NoCallType, CallUpdate
<1>2. asked'[w] = Service!Idle
  BY <1>1 DEF asked, NoCall, Service!Idle
<1>3. asked' = [asked EXCEPT ![w] = Service!Idle]
  BY <1>1, <1>2, AskedUpdate
<1>4. Service!ReadFails
  BY DEF Hurts, Service!ReadFails
<1>5. Service!Reply(w)
  BY <1>3, <1>4, AskedBy DEF Service!Reply
<1> QED  BY <1>5 DEF Service!Next

\* An answer is promised when the request may fail or the value is allowed.
LEMMA Promising ==
    ASSUME NEW r, NEW h, r.lba \in Lba
    PROVE  /\ Service!MayFail(r, h) => Failed \in Service!Promised(r, h)
           /\ \A x \in Service!Answers(r, h) : Ok(x) \in Service!Promised(r, h)
<1>1. r.lba # Foreign
  BY RootAssumption
<1> QED  BY <1>1 DEF Service!Promised, Service!Ok, Ok, Service!Failed, Failed

LEMMA RefuseImplements == ASSUME IInv, NEW w \in Workers, Refuse(w) PROVE Service!Next
<1>1. Busy(call[w]) /\ Hurts
  BY DEF Refuse, Busy, Hurts
<1>2. Refused \in Service!Promised(Asked(call[w]), hurt')
  BY DEF Refuse, Service!Promised, Asked, Service!Refused, Refused
<1> QED  BY <1>1, <1>2, Replies DEF Refuse, IInv

LEMMA CallImplements == ASSUME IInv, NEW w \in Workers, Call(w) PROVE Service!Next
<1>1. PICK r \in Request :
         call' = [call EXCEPT ![w].stage = "lock", ![w].op = r.op, ![w].lba = r.lba,
                              ![w].name = r.name]
  BY DEF Call
<1>2. Others(w) /\ call'[w].stage = "lock" /\ Asked(call'[w]) = [op |-> r.op, lba |-> r.lba, name |-> r.name]
  BY <1>1 DEF IInv, Typed, CallRecord, Others, Asked
<1>3. asked[w] = Service!Idle
  BY DEF Call, asked, Service!Idle
<1>4. asked'[w] = r
  BY <1>2 DEF asked, Request
<1>5. asked' = [asked EXCEPT ![w] = r]
  BY <1>2, <1>4, AskedUpdate
<1>6. Service!Ask(w)
  <2>1. Service!Request = Request
    BY DEF Service!Request, Request, Service!Ops, Ops
  <2> QED  BY <1>3, <1>5, <2>1 DEF Service!Ask, Call
<1> QED  BY <1>6 DEF Service!Next

LEMMA PanicImplements == ASSUME IInv, NEW w \in Workers, ReaderPanics(w) PROVE Service!Next
<1>1. Inside(call[w])
  BY DEF ReaderPanics, IInv, Outside
<1>2. Busy(call[w])
  BY <1>1 DEF Inside, Reading, Busy
<1>3. Others(w) /\ call'[w].stage = "dead"
  BY DEF ReaderPanics, IInv, Typed, CallRecord, Others, NoCall
<1>4. asked'[w] = Service!Lost
  BY <1>3 DEF asked, Service!Lost
<1>5. asked' = [asked EXCEPT ![w] = Service!Lost]
  BY <1>3, <1>4, AskedUpdate
<1>6. Service!Lose(w)
  BY <1>2, <1>5, AskedBy DEF IInv, Service!Lose, ReaderPanics
<1> QED  BY <1>6 DEF Service!Next

LEMMA InsideBusy ==
    ASSUME NEW c, Inside(c)
    PROVE  Busy(c)
BY DEF Inside, Reading, Busy

\* A step inside the call that neither answers nor changes what was asked.
LEMMA UnseenInside ==
    ASSUME IInv, NEW w \in Workers, Inside(call[w]), NEW c \in CallRecord, Busy(c),
           call' = [call EXCEPT ![w] = c], Asked(c) = Asked(call[w]), UNCHANGED <<vol, ans>>, Hurts
    PROVE  Service!Next
BY CallUpdate, InsideBusy, Unseen DEF IInv

LEMMA ReadHurts ==
    ASSUME IInv, NEW w \in Workers, ReadFails(w) \/ ReadSucceeds(w)
    PROVE  Hurts
BY DEF ReadFails, ReadSucceeds, Hurts, IInv, Typed

\* A read either fails or does not.
LEMMA ReadOnce ==
    ASSUME Typed, NEW w
    PROVE  ~(ReadFails(w) /\ ReadSucceeds(w))
BY BoundsAssumption DEF Typed, ReadFails, ReadSucceeds

LEMMA GotoImplements ==
    ASSUME IInv, NEW w \in Workers, Busy(call[w]), NEW stage \in Stages \ {"idle", "dead"},
           Goto(w, stage), UNCHANGED <<vol, ans, hurt>>
    PROVE  Service!Next
<1>1. Others(w) /\ call'[w] = [call[w] EXCEPT !.stage = stage, !.sought = FALSE]
  BY GotoType
<1>2. call[w] \in CallRecord
  BY CallType DEF IInv
<1>3. Busy(call'[w]) /\ Asked(call'[w]) = Asked(call[w]) /\ Hurts
  BY <1>1, <1>2 DEF Busy, Asked, CallRecord, Hurts
<1> QED  BY <1>1, <1>3, Unseen

LEMMA ReadTypeImplements == ASSUME IInv, NEW w \in Workers, ReadType(w) PROVE Service!Next
<1>1. Inside(call[w]) /\ call[w] \in CallRecord
  BY CallType DEF ReadType, Inside, Reading, IInv
<1>2. Progress(call[w]) /\ cursor = call[w].lba /\ Hurts
  BY <1>1, Holding, ReadEffect, ReadHurts DEF ReadType, AtTarget, Target
<1>3. ASSUME Answer(w, Failed), vol[cursor].sector # "fe" \/ cursor \in hurt', vol' = vol
      PROVE  Service!Next
  <2>1. Service!MayFail(Asked(call[w]), hurt')
    BY <1>2, <1>3 DEF ReadType, Progress, Asked, Service!MayFail, Service!Whole
  <2>2. Failed \in Service!Promised(Asked(call[w]), hurt')
    BY <1>2, <2>1, Promising DEF Progress, Asked
  <2> QED  BY <1>1, <1>2, <1>3, <2>2, InsideBusy, Replies DEF Answer, IInv
<1>4. ASSUME call' = [call EXCEPT ![w].stage = "len", ![w].sought = FALSE,
                                  ![w].metas = <<vol[cursor].ft>>],
             UNCHANGED <<vol, ans>>
      PROVE  Service!Next
  <2>1. PICK c : c = [call[w] EXCEPT !.stage = "len", !.sought = FALSE, !.metas = <<vol[cursor].ft>>]
    OBVIOUS
  <2>2. call' = [call EXCEPT ![w] = c]
    BY <1>1, <1>4, <2>1 DEF IInv, Typed, CallRecord
  <2>3. <<vol[cursor].ft>> \in Seq(Kind)
    BY NodeFields DEF IInv, Typed
  <2>4. c \in CallRecord /\ Busy(c) /\ Asked(c) = Asked(call[w])
    BY <1>1, <2>1, <2>3 DEF CallRecord, Stages, Reading, Busy, Asked
  <2> QED  BY <1>1, <1>2, <1>4, <2>2, <2>4, UnseenInside
<1> QED  BY <1>3, <1>4 DEF ReadType, ReadFails

LEMMA ReadLenImplements == ASSUME IInv, NEW w \in Workers, ReadLen(w) PROVE Service!Next
<1>1. Inside(call[w]) /\ call[w] \in CallRecord /\ Hurts
  BY CallType, ReadHurts DEF ReadLen, Inside, Reading, IInv
<1>2. PICK c : c = [call[w] EXCEPT !.stage = "opened", !.sought = FALSE, !.metas = << >>]
  OBVIOUS
<1>3. call' = [call EXCEPT ![w] = c]
  BY <1>1, <1>2 DEF ReadLen, IInv, Typed, CallRecord
<1>4. << >> \in Seq(Kind)
  OBVIOUS
<1>5. c \in CallRecord /\ Busy(c) /\ Asked(c) = Asked(call[w])
  BY <1>1, <1>2, <1>4 DEF CallRecord, Stages, Busy, Asked
<1> QED  BY <1>1, <1>3, <1>5, UnseenInside DEF ReadLen

LEMMA OpenedImplements == ASSUME IInv, NEW w \in Workers, Opened(w) PROVE Service!Next
<1>1. Inside(call[w]) /\ Busy(call[w]) /\ call[w] \in CallRecord /\ Hurts
  BY CallType, InsideBusy DEF Opened, Inside, IInv, Hurts
<1>2. Progress(call[w]) /\ call[w].lba \in DOMAIN cache /\ call[w].lba \in Lba
  BY <1>1, Holding DEF Opened, Progress
<1>3. PICK m, l, r : m = cache[l] /\ l = call[w].lba /\ r = Asked(call[w])
  OBVIOUS
<1>4. Sound(l, m) /\ hurt' = hurt /\ vol' = vol /\ m.is_dir \in BOOLEAN
  BY <1>2, <1>3 DEF IInv, Typed, FeMeta, CacheSound, Opened
<1>5. r.lba = l /\ r.op = call[w].op /\ l \in Lba
  BY <1>2, <1>3 DEF Asked
<1>6. ASSUME NEW a, Answer(w, a), a \in Service!Promised(r, hurt) PROVE Service!Next
  BY <1>1, <1>3, <1>4, <1>6, Replies DEF Answer, IInv
<1>7. CASE r.op = "meta" /\ Answer(w, Ok(<<m.kind, m.size>>))
  <2>1. <<m.kind, m.size>> \in Service!Answers(r, hurt)
    BY <1>4, <1>5, <1>7 DEF Service!Answers, Sound
  <2> QED  BY <1>5, <1>6, <1>7, <2>1, Promising
<1>8. CASE r.op = "extents" /\ Answer(w, Ok(IF m.size = 0 THEN << >> ELSE <<m.size>>))
  <2>1. (IF m.size = 0 THEN << >> ELSE <<m.size>>) \in Service!Answers(r, hurt)
    BY <1>4, <1>5, <1>8 DEF Service!Answers, Sound
  <2> QED  BY <1>5, <1>6, <1>8, <2>1, Promising
<1>9. CASE r.op \in {"read_dir", "lookup"} /\ ~m.is_dir /\ Answer(w, Failed)
  <2>1. Service!Whole(l, hurt) => vol[l].ft # "Dir"
    <3>1. m.kind # "Dir"
      BY <1>4, <1>9 DEF Sound, IsDir
    <3>2. Whole(l) => m = Truth(l)
      BY <1>4, <3>1 DEF Sound, Seed
    <3> QED  BY <3>1, <3>2 DEF Whole, Service!Whole, Truth
  <2>2. Service!MayFail(r, hurt)
    BY <1>5, <1>9, <2>1 DEF Service!MayFail
  <2> QED  BY <1>5, <1>6, <1>9, <2>2, Promising
<1>10. CASE r.op = "read_link" /\ m.kind # "Symlink" /\ Answer(w, Ok("empty"))
  <2>1. Service!KindsOf(l, hurt) # {"Symlink"}
    BY <1>4, <1>10 DEF Sound
  <2>2. "empty" \in Service!Answers(r, hurt)
    BY <1>5, <1>10, <2>1 DEF Service!Answers
  <2> QED  BY <1>5, <1>6, <1>10, <2>2, Promising
<1>11. CASE Goto(w, "data") /\ UNCHANGED ans
  <2>1. "data" \in Stages \ {"idle", "dead"}
    BY DEF Stages, Reading
  <2> QED  BY <1>1, <1>4, <1>11, <2>1, GotoImplements
<1> QED  BY <1>3, <1>5, <1>7, <1>8, <1>9, <1>10, <1>11 DEF Opened

LEMMA ReadDataImplements == ASSUME IInv, NEW w \in Workers, ReadData(w) PROVE Service!Next
<1>1. Inside(call[w]) /\ Busy(call[w]) /\ call[w] \in CallRecord
  BY CallType, InsideBusy DEF ReadData, Inside, Reading, IInv
<1>2. ReadFails(w) \/ ReadSucceeds(w)
  BY DEF ReadData
<1>3. Hurts /\ hurt \subseteq hurt' /\ vol' = vol
  BY <1>2, ReadEffect, ReadHurts DEF ReadData
<1>4. PICK l, r : l = call[w].lba /\ r = Asked(call[w])
  OBVIOUS
<1>5. Entitled(call[w]) /\ cursor = l /\ r.lba = l /\ r.op = call[w].op /\ l \in Lba
  BY <1>1, <1>2, <1>4, Holding, ReadEffect DEF ReadData, AtTarget, Target, Progress, Asked
<1>6. /\ r.op \in {"read_dir", "lookup", "read_link", "read_at"}
      /\ r.op = "read_link" => "Symlink" \in Service!KindsOf(l, hurt')
  BY <1>3, <1>4, <1>5 DEF Entitled, Service!KindsOf, Service!Whole
<1>7. ASSUME NEW a, Answer(w, a), a \in Service!Promised(r, hurt') PROVE Service!Next
  BY <1>1, <1>3, <1>4, <1>7, Replies DEF Answer, IInv
<1>8. CASE ReadFails(w) \/ (ReadSucceeds(w) /\ ~DataObtained)
  <2>1. ~Service!Whole(l, hurt') \/ ~Service!HasData(l)
    BY <1>5, <1>8 DEF ReadFails, DataObtained, Service!Whole, Service!HasData
  <2>2. r.op = "read_at" => 0 \in Service!Answers(r, hurt')
    BY <1>5, <2>1 DEF Service!Answers
  <2>3. r.op # "read_at" => Service!MayFail(r, hurt')
    BY <1>5, <1>6, <2>1 DEF Service!MayFail
  <2>4. (IF r.op = "read_at" THEN Ok(0) ELSE Failed) \in Service!Promised(r, hurt')
    BY <1>5, <2>2, <2>3, Promising
  <2>5. CASE Answer(w, IF r.op = "read_at" THEN Ok(0) ELSE Failed)
    BY <1>7, <2>4, <2>5
  <2>6. CASE ReadSucceeds(w) /\ DataObtained
    BY <1>8, <2>6, ReadOnce DEF IInv
  <2> QED  BY <1>5, <2>5, <2>6 DEF ReadData
<1>9. CASE ReadSucceeds(w) /\ DataObtained
  <2>1. Service!HasData(l) /\ vol[l].size \in Nat
    BY <1>5, <1>9, NodeFields DEF DataObtained, Service!HasData, IInv, Typed
  <2>2. CASE r.op = "read_at" /\ Answer(w, Ok(IF vol[cursor].size = 0 THEN 0 ELSE 1))
    <3>1. (IF vol[l].size = 0 THEN 0 ELSE 1) \in Service!Answers(r, hurt')
      BY <1>5, <2>1, <2>2 DEF Service!Answers
    <3> QED  BY <1>5, <1>7, <2>2, <3>1, Promising
  <2>3. CASE r.op = "read_link" /\ Answer(w, Ok("target"))
    <3>1. "target" \in Service!Answers(r, hurt')
      BY <1>5, <1>6, <2>1, <2>3 DEF Service!Answers
    <3> QED  BY <1>5, <1>7, <2>3, <3>1, Promising
  <2>4. CASE /\ call' = [call EXCEPT ![w].stage = "child_len", ![w].sought = FALSE,
                                    ![w].kids = vol[cursor].children]
             /\ UNCHANGED ans
    <3>1. PICK c : c = [call[w] EXCEPT !.stage = "child_len", !.sought = FALSE,
                                       !.kids = vol[cursor].children]
      OBVIOUS
    <3>2. call' = [call EXCEPT ![w] = c]
      BY <1>1, <2>4, <3>1 DEF IInv, Typed, CallRecord
    <3>3. vol[cursor].children \in Seq(Child)
      BY NodeFields DEF IInv, Typed
    <3>4. c \in CallRecord /\ Busy(c) /\ Asked(c) = Asked(call[w])
      BY <1>1, <3>1, <3>3 DEF CallRecord, Stages, Reading, Busy, Asked
    <3> QED  BY <1>1, <1>3, <2>4, <3>2, <3>4, UnseenInside
  <2>5. CASE ReadFails(w)
    BY <1>8, <2>5
  <2>6. CASE ~ReadFails(w)
    BY <1>5, <1>9, <2>2, <2>3, <2>4, <2>6 DEF ReadData
  <2> QED  BY <2>5, <2>6
<1> QED  BY <1>2, <1>8, <1>9

LEMMA SeekImplements == ASSUME IInv, NEW w \in Workers, Seek(w) PROVE Service!Next
<1>1. Inside(call[w]) /\ call[w] \in CallRecord /\ Hurts
  BY CallType DEF Seek, Inside, IInv, Hurts
<1>2. PICK c : c = [call[w] EXCEPT !.sought = TRUE]
  OBVIOUS
<1>3. c \in CallRecord /\ call' = [call EXCEPT ![w] = c] /\ Asked(c) = Asked(call[w])
  BY <1>1, <1>2 DEF CallRecord, Seek, Asked
<1>4. Busy(c)
  BY <1>1, <1>2 DEF CallRecord, Inside, Reading, Busy
<1> QED  BY <1>1, <1>3, <1>4, UnseenInside DEF Seek

LEMMA ReadChildLenImplements == ASSUME IInv, NEW w \in Workers, ReadChildLen(w) PROVE Service!Next
<1>1. Inside(call[w]) /\ call[w] \in CallRecord /\ Hurts
  BY CallType, ReadHurts DEF ReadChildLen, Inside, Reading, IInv
<1>2. cursor \in Lba
  BY DEF IInv, Typed
<1>3. PICK size \in Nat : call' = [call EXCEPT ![w].sought = FALSE, ![w].sizes = Append(@, size)]
  BY <1>2, NodeFields DEF ReadChildLen, IInv, Typed
<1>4. PICK c : c = [call[w] EXCEPT !.sought = FALSE, !.sizes = Append(@, size)]
  OBVIOUS
<1>5. call' = [call EXCEPT ![w] = c]
  BY <1>1, <1>3, <1>4 DEF IInv, Typed, CallRecord
<1>6. c \in CallRecord /\ Busy(c) /\ Asked(c) = Asked(call[w])
  <2>1. call[w].sizes \in Seq(Nat) /\ call[w].stage = "child_len"
    BY <1>1 DEF ReadChildLen, CallRecord
  <2>2. Append(call[w].sizes, size) \in Seq(Nat)
    BY <2>1
  <2>3. c \in CallRecord
    BY <1>1, <1>4, <2>2 DEF CallRecord
  <2>4. /\ c.stage = call[w].stage /\ c.op = call[w].op /\ c.lba = call[w].lba
        /\ c.name = call[w].name
    BY <1>1, <1>4 DEF CallRecord
  <2> QED  BY <2>1, <2>3, <2>4 DEF Busy, Asked
<1> QED  BY <1>1, <1>5, <1>6, UnseenInside DEF ReadChildLen

LEMMA ReadChildTypeImplements == ASSUME IInv, NEW w \in Workers, ReadChildType(w) PROVE Service!Next
<1>1. Inside(call[w]) /\ Hurts
  BY ReadHurts DEF ReadChildType, Inside, Reading
<1>2. PICK m : call' = [call EXCEPT ![w].sought = FALSE, ![w].metas = Append(@, m)]
  BY DEF ReadChildType
<1>3. /\ Others(w) /\ call'[w].stage = call[w].stage /\ call'[w].op = call[w].op
      /\ call'[w].lba = call[w].lba /\ call'[w].name = call[w].name
  BY <1>2 DEF IInv, Typed, CallRecord, Others
<1>4. Busy(call[w]) /\ Busy(call'[w]) /\ Asked(call'[w]) = Asked(call[w])
  BY <1>3 DEF ReadChildType, Busy, Asked
<1> QED  BY <1>1, <1>3, <1>4, Unseen DEF ReadChildType

\* Both look for the first entry of the name.
LEMMA LookupAgrees ==
    ASSUME NEW kids \in Seq(Child), NEW name
    PROVE  LET hits == {n \in DOMAIN kids : kids[n].name = name}
           IN  FirstNamed(kids, name) =
                  IF hits = {} THEN << >>
                  ELSE <<kids[CHOOSE n \in hits : \A m \in hits : n <= m].lba>>
<1> DEFINE hits == {n \in DOMAIN kids : kids[n].name = name}
<1>1. DOMAIN kids = 1 .. Len(kids) /\ hits = {n \in 1 .. Len(kids) : kids[n].name = name}
  OBVIOUS
<1>2. SelectInSeq(kids, LAMBDA c : c.name = name) = IF hits # {} THEN Min(hits) ELSE 0
  BY <1>1 DEF SelectInSeq
<1>3. ASSUME hits # {} PROVE Min(hits) # 0
  <2>1. hits \subseteq Nat /\ 0 \notin hits
    BY <1>1
  <2>2. PICK n \in hits : \A m \in hits : n <= m
    BY <1>3, <2>1, LeastNumber
  <2>3. Min(hits) \in hits
    BY <2>2 DEF Min
  <2> QED  BY <2>1, <2>3
<1> QED  BY <1>2, <1>3 DEF FirstNamed, Min

LEMMA ChildrenDoneImplements == ASSUME IInv, NEW w \in Workers, ChildrenDone(w) PROVE Service!Next
<1>1. Inside(call[w]) /\ Busy(call[w]) /\ call[w] \in CallRecord /\ Hurts
  BY CallType, InsideBusy DEF ChildrenDone, Inside, Reading, IInv, Hurts
<1>2. PICK c, l, r : c = call[w] /\ l = c.lba /\ r = Asked(call[w])
  OBVIOUS
<1>3. Listing(c) /\ l \in Lba /\ r.lba = l /\ r.op = c.op /\ r.name = c.name
  BY <1>1, <1>2, Holding DEF ChildrenDone, Progress, Asked
<1>4. /\ c.kids \in Seq(Child) /\ c.kids = vol[l].children /\ Service!HasData(l)
      /\ "Dir" \in Service!KindsOf(l, hurt) /\ c.op \in {"read_dir", "lookup"}
  BY <1>1, <1>2, <1>3 DEF Listing, Entitled, CallRecord
<1>5. /\ c.metas \in Seq(FeMeta) /\ Len(c.metas) = Len(c.kids)
      /\ \A n \in 1 .. Len(c.metas) : MetaSound(c.kids[n], c.metas[n])
  <2>1. c.stage = "child_type"
    BY <1>2 DEF ChildrenDone
  <2>2. /\ c.metas \in Seq(FeMeta) /\ Len(c.metas) <= Len(c.kids)
        /\ \A n \in 1 .. Len(c.metas) : MetaSound(c.kids[n], c.metas[n])
    BY <1>3, <2>1 DEF Listing
  <2>3. ~(Len(c.metas) < Len(c.kids))
    BY <1>2, <2>1 DEF ChildrenDone, ChildrenLeft
  <2> QED  BY <1>4, <2>2, <2>3
<1>6. ASSUME NEW a, Answer(w, a), a \in Service!Promised(r, hurt) PROVE Service!Next
  BY <1>1, <1>2, <1>6, Replies DEF Answer, IInv, ChildrenDone
<1>7. CASE c.op = "lookup"
  <2>1. FirstNamed(c.kids, c.name) = Service!Found(l, r.name)
    <3>1. FirstNamed(vol[l].children, c.name) = Service!Found(l, c.name)
      BY <1>4, LookupAgrees, Zenon DEF Service!Found
    <3> QED  BY <1>3, <1>4, <3>1
  <2>2. FirstNamed(c.kids, c.name) \in Service!Answers(r, hurt)
    BY <1>3, <1>4, <1>7, <2>1 DEF Service!Answers
  <2>3. Answer(w, Ok(FirstNamed(c.kids, c.name)))
    BY <1>2, <1>7 DEF ChildrenDone
  <2> QED  BY <1>3, <1>6, <2>2, <2>3, Promising
<1>8. CASE c.op # "lookup"
  <2> DEFINE k == [n \in DOMAIN c.kids |-> c.metas[n].kind]
             listing == [n \in DOMAIN c.kids |-> <<c.kids[n].lba, c.metas[n].kind>>]
  <2>1. DOMAIN c.kids = 1 .. Len(c.metas)
    BY <1>4, <1>5
  <2>2. k \in [DOMAIN c.kids -> Kind]
    <3>1. \A n \in DOMAIN c.kids : c.metas[n] \in FeMeta
      BY <1>5, <2>1
    <3>2. \A n \in DOMAIN c.kids : c.metas[n].kind \in Kind
      BY <3>1 DEF FeMeta
    <3> QED  BY <3>2
  <2>3. \A n \in DOMAIN c.kids : k[n] \in Service!ListedKinds(c.kids[n], hurt)
    BY <1>5, <2>1 DEF MetaSound
  <2>4. listing = [n \in DOMAIN c.kids |-> <<c.kids[n].lba, k[n]>>]
    OBVIOUS
  <2> HIDE DEF k
  <2>5. listing \in Service!Listings(l, hurt)
    <3>1. Service!Kind = Kind
      BY DEF Service!Kind, Kind
    <3> QED  BY <1>4, <2>2, <2>3, <2>4, <3>1 DEF Service!Listings
  <2>6. r.op = "read_dir"
    BY <1>3, <1>4, <1>8
  <2>7. Answer(w, Ok(listing))
    BY <1>2, <1>8 DEF ChildrenDone
  <2> HIDE DEF listing
  <2>8. listing \in Service!Answers(r, hurt)
    BY <1>3, <1>4, <2>5, <2>6 DEF Service!Answers
  <2> QED  BY <1>3, <1>6, <2>7, <2>8, Promising
<1> QED  BY <1>7, <1>8

LEMMA InitImplements == Init => Service!Init
<1> SUFFICES ASSUME Init PROVE Service!Init
  OBVIOUS
<1>1. \A w \in Workers : call[w].stage = "idle"
  BY DEF Init, NoCall
<1>2. asked = [w \in Workers |-> Service!Idle]
  BY <1>1 DEF asked, Service!Idle
<1> QED  BY <1>2 DEF Init, Service!Init, Service!Idle, NoAnswer

LEMMA StepImplements == IInv /\ [Next]_vars => [Service!Next]_Service!vars
<1> SUFFICES ASSUME IInv, [Next]_vars PROVE [Service!Next]_Service!vars
  OBVIOUS
<1>1. ASSUME NEW w \in Workers, Lock(w) \/ Resolve(w) \/ LengthsDone(w) PROVE Service!Next
  <2>1. {"resolve", "opened", "type", "child_type"} \subseteq Stages \ {"idle", "dead"}
    BY DEF Stages, Reading
  <2>2. Busy(call[w])
    BY <1>1 DEF Lock, Resolve, LengthsDone, Busy
  <2> QED  BY <1>1, <2>1, <2>2, GotoImplements DEF Lock, Resolve, LengthsDone
<1>2. ASSUME NEW w \in Workers, Step(w) PROVE Service!Next
  BY <1>1, <1>2, RefuseImplements, SeekImplements, ReadTypeImplements, ReadLenImplements,
     OpenedImplements, ReadDataImplements, ReadChildLenImplements, ReadChildTypeImplements,
     ChildrenDoneImplements DEF Step
<1>3. CASE UNCHANGED vars
  BY <1>3 DEF vars, asked, Service!vars
<1> QED  BY <1>2, <1>3, CallImplements, PanicImplements DEF Next

\* The adapter implements VfsService: whatever the workers interleave and the
\* reader fails, what callers see is what the service promises.
THEOREM KeepsPromises == Spec => Promises
<1> QED  BY InitImplements, StepImplements, Inductive, PTL DEF Spec, Promises, Service!Spec

-----------------------------------------------------------------------------
(* A call's steps are bounded. *)

Running(c) == c.stage \notin {"idle", "dead"}

\* A running call's directory, and how far through its children the call is.
LEMMA Reach ==
    ASSUME IInv, NEW w \in Workers, Inside(call[w])
    PROVE  \E n \in Nat :
              /\ n = Len(vol[call[w].lba].children)
              /\ call[w].stage = "child_len" =>
                    Len(call[w].sizes) \in 0 .. n /\ (ChildrenLeft(w) <=> Len(call[w].sizes) < n)
              /\ call[w].stage = "child_type" =>
                    Len(call[w].metas) \in 0 .. n /\ (ChildrenLeft(w) <=> Len(call[w].metas) < n)
              /\ call[w].sought => ChildrenLeft(w)
<1>1. Progress(call[w]) /\ AtTarget(w) /\ call[w].lba \in Lba /\ call[w].sizes \in Seq(Nat)
  BY Holding, CallType DEF IInv
<1>2. vol[call[w].lba].children \in Seq(Child)
  BY <1>1, NodeFields DEF IInv, Typed
<1> PICK n \in Nat : n = Len(vol[call[w].lba].children)
  BY <1>2
<1>3. ASSUME call[w].stage = "child_len"
      PROVE  Len(call[w].sizes) \in 0 .. n /\ (ChildrenLeft(w) <=> Len(call[w].sizes) < n)
  <2>1. call[w].kids = vol[call[w].lba].children /\ Len(call[w].sizes) <= Len(call[w].kids)
    BY <1>1, <1>3 DEF Progress, Listing
  <2>2. Len(call[w].sizes) \in Nat
    BY <1>1
  <2> QED  BY <1>3, <2>1, <2>2 DEF ChildrenLeft
<1>4. ASSUME call[w].stage = "child_type"
      PROVE  Len(call[w].metas) \in 0 .. n /\ (ChildrenLeft(w) <=> Len(call[w].metas) < n)
  <2>1. /\ call[w].kids = vol[call[w].lba].children /\ call[w].metas \in Seq(FeMeta)
        /\ Len(call[w].metas) <= Len(call[w].kids)
    BY <1>1, <1>4 DEF Progress, Listing
  <2>2. Len(call[w].metas) \in Nat
    BY <2>1
  <2> QED  BY <1>4, <2>1, <2>2 DEF ChildrenLeft
<1>5. call[w].sought => ChildrenLeft(w)
  BY <1>1 DEF AtTarget
<1> QED  BY <1>3, <1>4, <1>5

\* The steps that reading a directory's children takes, n children of which k are read.
LEMMA ReadsArithmetic ==
    ASSUME NEW n \in Nat, NEW k \in 0 .. n
    PROVE  /\ 2 * (2 * n - k) + 2 \in Nat \ {0}
           /\ 2 * (2 * n - k) - 1 + 2 \in Nat \ {0}
           /\ 2 * (n - k) + 1 \in Nat \ {0}
           /\ k < n => 2 * (n - k) - 1 + 1 \in Nat \ {0}
           /\ k < n => 2 * (2 * n - (k + 1)) + 2 \in 0 .. (2 * (2 * n - k) - 1 + 2) - 1
           /\ k < n => 2 * (n - (k + 1)) + 1 \in 0 .. (2 * (n - k) - 1 + 1) - 1
           /\ 2 * (2 * n - k) - 1 + 2 = (2 * (2 * n - k) + 2) - 1
           /\ 2 * (n - k) - 1 + 1 = (2 * (n - k) + 1) - 1
OBVIOUS

\* And the steps before that, with k blocks still to be read besides the children.
LEMMA OwnReadsArithmetic ==
    ASSUME NEW n \in Nat, NEW k \in {1, 2, 3}, NEW more \in {2, 3}
    PROVE  /\ 2 * (2 * n + k) + more \in Nat \ {0}
           /\ 2 * (2 * n + k) - 1 + more \in Nat \ {0}
OBVIOUS

\* From one stage to the next there are fewer.
LEMMA StagesArithmetic ==
    ASSUME NEW n \in Nat
    PROVE  /\ 4 * n + 10 \in 0 .. (4 * n + 11) - 1
           /\ 4 * n + 5 \in 0 .. (4 * n + 10) - 1
           /\ 2 * (2 * n + 3) + 3 \in 0 .. (4 * n + 10) - 1
           /\ 2 * (2 * n + 2) + 3 \in 0 .. (2 * (2 * n + 3) - 1 + 3) - 1
           /\ 4 * n + 5 \in 0 .. (2 * (2 * n + 2) - 1 + 3) - 1
           /\ 2 * (2 * n + 1) + 2 \in 0 .. (4 * n + 5) - 1
           /\ 2 * (2 * n - 0) + 2 \in 0 .. (2 * (2 * n + 1) - 1 + 2) - 1
           /\ 2 * (n - 0) + 1 \in 0 .. (2 * (2 * n - n) + 2) - 1
OBVIOUS

LEMMA SeekArithmetic ==
    ASSUME NEW n \in Nat
    PROVE  /\ 2 * (2 * n + 3) - 1 + 3 = (2 * (2 * n + 3) + 3) - 1
           /\ 2 * (2 * n + 2) - 1 + 3 = (2 * (2 * n + 2) + 3) - 1
           /\ 2 * (2 * n + 1) - 1 + 2 = (2 * (2 * n + 1) + 2) - 1
OBVIOUS

LEMMA StepsRemain ==
    ASSUME IInv, NEW w \in Workers, Running(call[w])
    PROVE  StepsLeft(call[w]) \in Nat \ {0}
<1> PICK c : c = call[w]
  OBVIOUS
<1>1. c.stage \in Stages /\ c.lba \in Lba \cup {Foreign}
  BY CallType DEF IInv
<1>2. CASE c.stage = "lock"
  <2>1. CASE c.lba = Foreign
    BY <1>2, <2>1 DEF StepsLeft
  <2>2. CASE c.lba \in Lba /\ c.lba # Foreign
    <3>1. vol[c.lba].children \in Seq(Child)
      BY <2>2, NodeFields DEF IInv, Typed
    <3> PICK n \in Nat : n = Len(vol[c.lba].children)
      BY <3>1
    <3>2. StepsLeft(c) = 4 * n + 11
      BY <1>2, <2>2 DEF StepsLeft
    <3> QED  BY <3>2
  <2> QED  BY <1>1, <2>1, <2>2
<1>3. CASE c.stage # "lock"
  <2>1. Inside(call[w])
    BY <1>1, <1>3 DEF Running, Stages, Inside
  <2> PICK n \in Nat :
              /\ n = Len(vol[c.lba].children)
              /\ c.stage = "child_len" => Len(c.sizes) \in 0 .. n
              /\ c.stage = "child_type" =>
                    Len(c.metas) \in 0 .. n /\ (c.sought => Len(c.metas) < n)
    BY <2>1, Reach
  <2>2. CASE c.stage \in {"resolve", "opened"}
    <3>1. StepsLeft(c) \in {4 * n + 10, 4 * n + 5}
      BY <2>2 DEF StepsLeft
    <3> QED  BY <3>1
  <2>3. CASE c.stage \in {"type", "len", "data"}
    <3> PICK k \in {1, 2, 3}, more \in {2, 3} :
             \/ StepsLeft(c) = 2 * (2 * n + k) + more
             \/ StepsLeft(c) = 2 * (2 * n + k) - 1 + more
      BY <2>3 DEF StepsLeft
    <3>1. 2 * (2 * n + k) + more \in Nat \ {0} /\ 2 * (2 * n + k) - 1 + more \in Nat \ {0}
      BY OwnReadsArithmetic
    <3> QED  BY <3>1, Zenon
  <2>4. CASE c.stage = "child_len"
    <3> PICK k \in 0 .. n : k = Len(c.sizes)
      BY <2>4
    <3>1. StepsLeft(c) = 2 * (2 * n - k) - 1 + 2 \/ StepsLeft(c) = 2 * (2 * n - k) + 2
      BY <2>4 DEF StepsLeft
    <3>2. 2 * (2 * n - k) + 2 \in Nat \ {0} /\ 2 * (2 * n - k) - 1 + 2 \in Nat \ {0}
      BY ReadsArithmetic
    <3> QED  BY <3>1, <3>2, Zenon
  <2>5. CASE c.stage = "child_type"
    <3> PICK k \in 0 .. n : k = Len(c.metas) /\ (c.sought => k < n)
      BY <2>5
    <3>1. \/ k < n /\ StepsLeft(c) = 2 * (n - k) - 1 + 1
          \/ StepsLeft(c) = 2 * (n - k) + 1
      BY <2>5 DEF StepsLeft
    <3>2. 2 * (n - k) + 1 \in Nat \ {0} /\ (k < n => 2 * (n - k) - 1 + 1 \in Nat \ {0})
      BY ReadsArithmetic
    <3> QED  BY <3>1, <3>2, Zenon
  <2> QED  BY <1>1, <1>3, <2>2, <2>3, <2>4, <2>5 DEF Running, Stages, Reading
<1> QED  BY <1>2, <1>3

Shrinks(w) == Others(w) /\ StepsLeft(call'[w]) \in 0 .. StepsLeft(call[w]) - 1

\* A call that is over has no step left.
LEMMA LeavingShrinks ==
    ASSUME IInv, NEW w \in Workers, Running(call[w]),
           (\E a : Answer(w, a)) \/ Refuse(w) \/ ReaderPanics(w)
    PROVE  Shrinks(w)
<1> PICK c \in CallRecord : c.stage \in {"idle", "dead"} /\ call' = [call EXCEPT ![w] = c]
  <2>1. NoCall \in CallRecord /\ NoCall.stage = "idle"
    BY NoCallType DEF NoCall
  <2>2. PICK d : d = [NoCall EXCEPT !.stage = "dead"]
    OBVIOUS
  <2>3. d \in CallRecord /\ d.stage = "dead"
    BY <2>1, <2>2 DEF CallRecord, Stages
  <2> QED  BY <2>1, <2>2, <2>3 DEF Answer, Refuse, ReaderPanics
<1>1. Others(w) /\ call'[w] = c
  BY CallUpdate DEF IInv
<1>2. StepsLeft(c) = 0
  BY DEF StepsLeft
<1>3. StepsLeft(call[w]) \in Nat \ {0}
  BY StepsRemain
<1> QED  BY <1>1, <1>2, <1>3 DEF Shrinks

LEMMA LockShrinks == ASSUME IInv, NEW w \in Workers, Lock(w) PROVE Shrinks(w)
<1> PICK c, d : c = call[w] /\ d = call'[w]
  OBVIOUS
<1>1. /\ c \in CallRecord /\ c.stage = "lock" /\ c.lba \in Lba
      /\ d = [c EXCEPT !.stage = "resolve", !.sought = FALSE] /\ Others(w)
  BY CallType, GotoType DEF IInv, Lock, Stages
<1>2. d.stage = "resolve" /\ d.lba = c.lba
  BY <1>1 DEF CallRecord
<1>3. vol[c.lba].children \in Seq(Child)
  BY <1>1, NodeFields DEF IInv, Typed
<1> PICK n \in Nat : n = Len(vol[c.lba].children)
  BY <1>3
<1>4. StepsLeft(c) = 4 * n + 11 /\ StepsLeft(d) = 4 * n + 10
  BY <1>1, <1>2, RootAssumption DEF StepsLeft
<1>5. 4 * n + 10 \in 0 .. (4 * n + 11) - 1
  BY StagesArithmetic
<1> QED  BY <1>1, <1>4, <1>5, Zenon DEF Shrinks

\* A step of the call from one stage to a later one.
LEMMA GotoShrinks ==
    ASSUME IInv, NEW w \in Workers, Inside(call[w]), NEW d, call'[w] = d, Others(w),
           d.lba = call[w].lba, ~d.sought,
           \/ call[w].stage = "resolve" /\ d.stage \in {"opened", "type"}
           \/ call[w].stage = "type" /\ call[w].sought /\ d.stage = "len"
           \/ call[w].stage = "len" /\ call[w].sought /\ d.stage = "opened"
           \/ call[w].stage = "opened" /\ d.stage = "data"
           \/ call[w].stage = "data" /\ call[w].sought /\ d.stage = "child_len" /\ d.sizes = << >>
           \/ /\ call[w].stage = "child_len" /\ ~call[w].sought /\ ~ChildrenLeft(w)
              /\ d.stage = "child_type" /\ d.metas = << >>
    PROVE  Shrinks(w)
<1> PICK c : c = call[w]
  OBVIOUS
<1> PICK n \in Nat :
            /\ n = Len(vol[c.lba].children)
            /\ c.stage = "child_len" =>
                  Len(c.sizes) \in 0 .. n /\ (ChildrenLeft(w) <=> Len(c.sizes) < n)
  BY Reach
<1>1. /\ 4 * n + 5 \in 0 .. (4 * n + 10) - 1
      /\ 2 * (2 * n + 3) + 3 \in 0 .. (4 * n + 10) - 1
      /\ 2 * (2 * n + 2) + 3 \in 0 .. (2 * (2 * n + 3) - 1 + 3) - 1
      /\ 4 * n + 5 \in 0 .. (2 * (2 * n + 2) - 1 + 3) - 1
      /\ 2 * (2 * n + 1) + 2 \in 0 .. (4 * n + 5) - 1
      /\ 2 * (2 * n - 0) + 2 \in 0 .. (2 * (2 * n + 1) - 1 + 2) - 1
      /\ 2 * (n - 0) + 1 \in 0 .. (2 * (2 * n - n) + 2) - 1
  BY StagesArithmetic
<1>2. CASE c.stage = "resolve"
  <2>1. StepsLeft(c) = 4 * n + 10 /\ StepsLeft(d) \in {4 * n + 5, 2 * (2 * n + 3) + 3}
    BY <1>2 DEF StepsLeft
  <2> QED  BY <1>1, <2>1, Zenon DEF Shrinks
<1>3. CASE c.stage = "type"
  <2>1. StepsLeft(c) = 2 * (2 * n + 3) - 1 + 3 /\ StepsLeft(d) = 2 * (2 * n + 2) + 3
    BY <1>3 DEF StepsLeft
  <2> QED  BY <1>1, <2>1, Zenon DEF Shrinks
<1>4. CASE c.stage = "len"
  <2>1. StepsLeft(c) = 2 * (2 * n + 2) - 1 + 3 /\ StepsLeft(d) = 4 * n + 5
    BY <1>4 DEF StepsLeft
  <2> QED  BY <1>1, <2>1, Zenon DEF Shrinks
<1>5. CASE c.stage = "opened"
  <2>1. StepsLeft(c) = 4 * n + 5 /\ StepsLeft(d) = 2 * (2 * n + 1) + 2
    BY <1>5 DEF StepsLeft
  <2> QED  BY <1>1, <2>1, Zenon DEF Shrinks
<1>6. CASE c.stage = "data"
  <2>1. Len(d.sizes) = 0
    BY <1>6
  <2>2. StepsLeft(c) = 2 * (2 * n + 1) - 1 + 2 /\ StepsLeft(d) = 2 * (2 * n - 0) + 2
    BY <1>6, <2>1 DEF StepsLeft
  <2> QED  BY <1>1, <2>2, Zenon DEF Shrinks
<1>7. CASE c.stage = "child_len"
  <2>1. Len(d.metas) = 0 /\ Len(c.sizes) = n
    BY <1>7
  <2>2. StepsLeft(c) = 2 * (2 * n - n) + 2 /\ StepsLeft(d) = 2 * (n - 0) + 1
    BY <1>7, <2>1 DEF StepsLeft
  <2> QED  BY <1>1, <2>2, Zenon DEF Shrinks
<1> QED  BY <1>2, <1>3, <1>4, <1>5, <1>6, <1>7

\* A seek is followed by one step fewer.
LEMMA SeekShrinks == ASSUME IInv, NEW w \in Workers, Seek(w) PROVE Shrinks(w)
<1> PICK c, d : c = call[w] /\ d = [c EXCEPT !.sought = TRUE]
  OBVIOUS
<1>1. c \in CallRecord /\ c.stage \in Reading /\ ~c.sought /\ Inside(c) /\ ChildrenLeft(w)
  BY CallType DEF IInv, Seek, Inside
<1>2. d \in CallRecord /\ call' = [call EXCEPT ![w] = d]
  BY <1>1 DEF CallRecord, Seek
<1>3. Others(w) /\ call'[w] = d
  BY <1>2, CallUpdate DEF IInv
<1>4. /\ d.sought /\ d.stage = c.stage /\ d.lba = c.lba /\ d.sizes = c.sizes /\ d.metas = c.metas
  BY <1>1 DEF CallRecord
<1> PICK n \in Nat :
            /\ n = Len(vol[c.lba].children)
            /\ c.stage = "child_len" => Len(c.sizes) \in 0 .. n
            /\ c.stage = "child_type" => Len(c.metas) \in 0 .. n
  BY <1>1, Reach
<1> HIDE DEF Shrinks
<1>5. StepsLeft(c) \in Nat \ {0}
  BY <1>1, StepsRemain DEF Running, Reading
<1>6. StepsLeft(d) = StepsLeft(c) - 1
  <2>1. CASE c.stage \in {"type", "len", "data"}
    <3>1. \/ StepsLeft(c) = 2 * (2 * n + 3) + 3 /\ StepsLeft(d) = 2 * (2 * n + 3) - 1 + 3
          \/ StepsLeft(c) = 2 * (2 * n + 2) + 3 /\ StepsLeft(d) = 2 * (2 * n + 2) - 1 + 3
          \/ StepsLeft(c) = 2 * (2 * n + 1) + 2 /\ StepsLeft(d) = 2 * (2 * n + 1) - 1 + 2
      BY <1>1, <1>4, <2>1 DEF StepsLeft
    <3>2. /\ 2 * (2 * n + 3) - 1 + 3 = (2 * (2 * n + 3) + 3) - 1
          /\ 2 * (2 * n + 2) - 1 + 3 = (2 * (2 * n + 2) + 3) - 1
          /\ 2 * (2 * n + 1) - 1 + 2 = (2 * (2 * n + 1) + 2) - 1
      BY SeekArithmetic
    <3> QED  BY <3>1, <3>2, Zenon
  <2>2. CASE c.stage = "child_len"
    <3> PICK k \in 0 .. n : k = Len(c.sizes)
      BY <2>2
    <3>1. StepsLeft(c) = 2 * (2 * n - k) + 2 /\ StepsLeft(d) = 2 * (2 * n - k) - 1 + 2
      BY <1>1, <1>4, <2>2 DEF StepsLeft
    <3>2. 2 * (2 * n - k) - 1 + 2 = (2 * (2 * n - k) + 2) - 1
      BY ReadsArithmetic
    <3> QED  BY <3>1, <3>2, Zenon
  <2>3. CASE c.stage = "child_type"
    <3> PICK k \in 0 .. n : k = Len(c.metas)
      BY <2>3
    <3>1. StepsLeft(c) = 2 * (n - k) + 1 /\ StepsLeft(d) = 2 * (n - k) - 1 + 1
      BY <1>1, <1>4, <2>3 DEF StepsLeft
    <3>2. 2 * (n - k) - 1 + 1 = (2 * (n - k) + 1) - 1
      BY ReadsArithmetic
    <3> QED  BY <3>1, <3>2, Zenon
  <2> QED  BY <1>1, <2>1, <2>2, <2>3 DEF Reading
<1> QED  BY <1>3, <1>5, <1>6 DEF Shrinks

\* A child whose length or type has been read is one child fewer to read.
LEMMA ChildShrinks ==
    ASSUME IInv, NEW w \in Workers, ReadChildLen(w) \/ ReadChildType(w)
    PROVE  Shrinks(w)
<1> PICK c : c = call[w]
  OBVIOUS
<1>1. /\ c \in CallRecord /\ c.sought /\ Inside(c)
      /\ c.stage \in {"child_len", "child_type"}
      /\ c.stage = "child_type" => c.metas \in Seq(FeMeta)
  <2>1. c.stage \in {"child_len", "child_type"} /\ c.sought
    BY DEF ReadChildLen, ReadChildType, ReadFails, ReadSucceeds
  <2>2. Inside(c) /\ c \in CallRecord
    BY <2>1, CallType DEF IInv, Inside, Reading
  <2>3. Progress(c)
    BY <2>2, Holding
  <2>4. c.stage = "child_type" => c.metas \in Seq(FeMeta)
    BY <2>3 DEF Progress, Listing
  <2> QED  BY <2>1, <2>2, <2>4
<1> PICK n \in Nat :
            /\ n = Len(vol[c.lba].children)
            /\ c.stage = "child_len" => Len(c.sizes) \in 0 .. n /\ Len(c.sizes) < n
            /\ c.stage = "child_type" => Len(c.metas) \in 0 .. n /\ Len(c.metas) < n
  BY <1>1, Reach
<1>2. CASE ReadChildLen(w)
  <2>1. PICK size : call' = [call EXCEPT ![w].sought = FALSE, ![w].sizes = Append(@, size)]
    BY <1>2 DEF ReadChildLen
  <2> PICK d : d = [c EXCEPT !.sought = FALSE, !.sizes = Append(@, size)]
    OBVIOUS
  <2>2. call'[w] = d /\ Others(w)
    BY <2>1 DEF IInv, Typed, CallRecord, Others
  <2>3. /\ d.stage = "child_len" /\ ~d.sought /\ d.lba = c.lba /\ d.sizes = Append(c.sizes, size)
        /\ c.stage = "child_len" /\ c.sizes \in Seq(Nat)
    BY <1>1, <1>2 DEF CallRecord, ReadChildLen
  <2> PICK k \in 0 .. n : k = Len(c.sizes) /\ k < n
    BY <2>3
  <2>4. Len(d.sizes) = k + 1
    BY <2>3
  <2>5. /\ StepsLeft(c) = 2 * (2 * n - k) - 1 + 2
        /\ StepsLeft(d) = 2 * (2 * n - (k + 1)) + 2
    BY <1>1, <2>3, <2>4 DEF StepsLeft
  <2>6. 2 * (2 * n - (k + 1)) + 2 \in 0 .. (2 * (2 * n - k) - 1 + 2) - 1
    BY ReadsArithmetic
  <2>7. StepsLeft(d) \in 0 .. StepsLeft(c) - 1
    BY <2>5, <2>6, Zenon
  <2> QED  BY <2>2, <2>7 DEF Shrinks
<1>3. CASE ReadChildType(w)
  <2>1. PICK m : call' = [call EXCEPT ![w].sought = FALSE, ![w].metas = Append(@, m)]
    BY <1>3 DEF ReadChildType
  <2> PICK d : d = [c EXCEPT !.sought = FALSE, !.metas = Append(@, m)]
    OBVIOUS
  <2>2. call'[w] = d /\ Others(w)
    BY <2>1 DEF IInv, Typed, CallRecord, Others
  <2>3. /\ d.stage = "child_type" /\ ~d.sought /\ d.lba = c.lba /\ d.metas = Append(c.metas, m)
        /\ c.stage = "child_type" /\ c.metas \in Seq(FeMeta)
    BY <1>1, <1>3 DEF CallRecord, ReadChildType
  <2> PICK k \in 0 .. n : k = Len(c.metas) /\ k < n
    BY <2>3
  <2>4. Len(d.metas) = k + 1
    BY <2>3
  <2>5. /\ StepsLeft(c) = 2 * (n - k) - 1 + 1
        /\ StepsLeft(d) = 2 * (n - (k + 1)) + 1
    BY <1>1, <2>3, <2>4 DEF StepsLeft
  <2>6. 2 * (n - (k + 1)) + 1 \in 0 .. (2 * (n - k) - 1 + 1) - 1
    BY ReadsArithmetic
  <2>7. StepsLeft(d) \in 0 .. StepsLeft(c) - 1
    BY <2>5, <2>6, Zenon
  <2> QED  BY <2>2, <2>7 DEF Shrinks
<1> QED  BY <1>2, <1>3

\* What a step of the call that neither answers nor reads a child does to it.
LEMMA StagesShrink ==
    ASSUME IInv, NEW w \in Workers,
           Resolve(w) \/ ReadType(w) \/ ReadLen(w) \/ Opened(w) \/ ReadData(w) \/ LengthsDone(w)
    PROVE  Shrinks(w)
<1> PICK c : c = call[w]
  OBVIOUS
<1>1. /\ c \in CallRecord /\ Inside(c) /\ Running(c) /\ Progress(c)
      /\ c.stage \in {"resolve", "type", "len", "opened", "data", "child_len"}
  <2>1. c.stage \in {"resolve", "type", "len", "opened", "data", "child_len"}
    BY DEF Resolve, ReadType, ReadLen, Opened, ReadData, LengthsDone
  <2> QED  BY <2>1, CallType, Holding DEF IInv, Inside, Reading, Running
<1>2. ASSUME NEW a, Answer(w, a) PROVE Shrinks(w)
  BY <1>1, <1>2, LeavingShrinks
<1>3. ASSUME NEW stage \in Stages, Goto(w, stage)
      PROVE  \E d : /\ call'[w] = d /\ Others(w) /\ d.lba = c.lba /\ ~d.sought /\ d.stage = stage
                    /\ d.metas = c.metas
  <2> PICK d : d = [c EXCEPT !.stage = stage, !.sought = FALSE]
    OBVIOUS
  <2>1. call'[w] = d /\ Others(w)
    BY <1>3, GotoType
  <2>2. d.lba = c.lba /\ ~d.sought /\ d.stage = stage /\ d.metas = c.metas
    BY <1>1 DEF CallRecord
  <2> QED  BY <2>1, <2>2
<1>4. CASE Resolve(w)
  <2>1. PICK stage \in {"opened", "type"} : Goto(w, stage)
    BY <1>4 DEF Resolve
  <2>2. stage \in Stages
    BY DEF Stages, Reading
  <2> QED  BY <1>1, <1>3, <1>4, <2>1, <2>2, GotoShrinks DEF Resolve
<1>5. CASE ReadType(w)
  <2>1. CASE call' = [call EXCEPT ![w].stage = "len", ![w].sought = FALSE,
                                  ![w].metas = <<vol[cursor].ft>>]
    <3> PICK d : d = [c EXCEPT !.stage = "len", !.sought = FALSE, !.metas = <<vol[cursor].ft>>]
      OBVIOUS
    <3>1. call'[w] = d /\ Others(w)
      BY <2>1 DEF IInv, Typed, CallRecord, Others
    <3>2. d.stage = "len" /\ ~d.sought /\ d.lba = c.lba
      BY <1>1 DEF CallRecord
    <3>3. c.stage = "type" /\ c.sought
      BY <1>5 DEF ReadType, ReadFails, ReadSucceeds
    <3> QED  BY <1>1, <3>1, <3>2, <3>3, GotoShrinks
  <2> QED  BY <1>2, <1>5, <2>1 DEF ReadType
<1>6. CASE ReadLen(w)
  <2>1. call' = [call EXCEPT ![w].stage = "opened", ![w].sought = FALSE, ![w].metas = << >>]
    BY <1>6 DEF ReadLen
  <2> PICK d : d = [c EXCEPT !.stage = "opened", !.sought = FALSE, !.metas = << >>]
    OBVIOUS
  <2>2. call'[w] = d /\ Others(w)
    BY <2>1 DEF IInv, Typed, CallRecord, Others
  <2>3. d.stage = "opened" /\ ~d.sought /\ d.lba = c.lba
    BY <1>1 DEF CallRecord
  <2>4. c.stage = "len" /\ c.sought
    BY <1>6 DEF ReadLen, ReadFails, ReadSucceeds
  <2> QED  BY <1>1, <2>2, <2>3, <2>4, GotoShrinks
<1>7. CASE Opened(w)
  <2>1. "data" \in Stages /\ c.stage = "opened"
    BY <1>7 DEF Stages, Reading, Opened
  <2>2. CASE Goto(w, "data")
    BY <1>1, <1>3, <2>1, <2>2, GotoShrinks
  <2> QED  BY <1>2, <1>7, <2>2 DEF Opened
<1>8. CASE ReadData(w)
  <2>1. CASE call' = [call EXCEPT ![w].stage = "child_len", ![w].sought = FALSE,
                                  ![w].kids = vol[cursor].children]
    <3> PICK d : d = [c EXCEPT !.stage = "child_len", !.sought = FALSE, !.kids = vol[cursor].children]
      OBVIOUS
    <3>1. call'[w] = d /\ Others(w)
      BY <2>1 DEF IInv, Typed, CallRecord, Others
    <3>2. c.stage = "data" /\ c.sought
      BY <1>8 DEF ReadData, ReadFails, ReadSucceeds
    <3>3. d.stage = "child_len" /\ ~d.sought /\ d.lba = c.lba /\ d.sizes = << >>
      BY <1>1, <3>2 DEF CallRecord, Progress
    <3> QED  BY <1>1, <3>1, <3>2, <3>3, GotoShrinks
  <2> QED  BY <1>2, <1>8, <2>1 DEF ReadData
<1>9. CASE LengthsDone(w)
  <2>1. "child_type" \in Stages /\ c.stage = "child_len" /\ ~ChildrenLeft(w) /\ c.metas = << >>
    BY <1>1, <1>9 DEF Stages, Reading, LengthsDone, Progress, Listing
  <2>2. ~c.sought
    BY <1>1, <2>1, Holding DEF AtTarget
  <2> QED  BY <1>1, <1>3, <1>9, <2>1, <2>2, GotoShrinks DEF LengthsDone
<1> QED  BY <1>4, <1>5, <1>6, <1>7, <1>8, <1>9

LEMMA StepShrinks == ASSUME IInv, NEW w \in Workers, Step(w) \/ ReaderPanics(w) PROVE Shrinks(w)
<1>1. CASE Refuse(w) \/ ReaderPanics(w)
  <2>1. Running(call[w])
    BY <1>1 DEF Refuse, ReaderPanics, Running, IInv, Outside, Inside, Reading
  <2> QED  BY <1>1, <2>1, LeavingShrinks
<1>2. CASE ChildrenDone(w)
  <2>1. Running(call[w]) /\ \E a : Answer(w, a)
    BY <1>2 DEF ChildrenDone, Running
  <2> QED  BY <2>1, LeavingShrinks
<1> QED  BY <1>1, <1>2, LockShrinks, SeekShrinks, StagesShrink, ChildShrinks DEF Step

\* Each call is over after a number of its own steps that only its directory
\* decides, whatever the other workers, the faults and the panics do.
THEOREM CallsBoundedAlways == Spec => CallsBounded
<1> DEFINE Bounded == \A w \in Workers :
                         call'[w] # call[w] /\ call[w].stage # "idle" =>
                             StepsLeft(call'[w]) \in 0 .. StepsLeft(call[w]) - 1
<1>1. IInv /\ [Next]_vars => [Bounded]_vars
  <2> SUFFICES ASSUME IInv, Next PROVE Bounded
    OBVIOUS
  <2>1. PICK v \in Workers : Call(v) \/ Step(v) \/ ReaderPanics(v)
    BY DEF Next
  <2>2. CASE Step(v) \/ ReaderPanics(v)
    BY <2>2, StepShrinks DEF Shrinks, Others
  <2>3. CASE Call(v)
    BY <2>3 DEF Call, IInv, Typed
  <2> QED  BY <2>1, <2>2, <2>3
<1> QED  BY <1>1, Inductive, PTL DEF Spec, CallsBounded

=============================================================================
