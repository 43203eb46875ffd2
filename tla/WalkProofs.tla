----------------------------- MODULE WalkProofs -----------------------------
(* Proofs about the analyzer's directory walk, for every set of addresses and
   every set of volumes. *)
EXTENDS Walk, TLAPS

-----------------------------------------------------------------------------
(* Sequences as work lists. *)

LEMMA AppendElements ==
    ASSUME NEW S, NEW s \in Seq(S), NEW e \in S
    PROVE  Elements(Append(s, e)) = Elements(s) \cup {e}
<1>1. DOMAIN Append(s, e) = 1 .. Len(s) + 1 /\ DOMAIN s = 1 .. Len(s)
  OBVIOUS
<1>2. \A j \in 1 .. Len(s) : Append(s, e)[j] = s[j]
  OBVIOUS
<1>3. Append(s, e)[Len(s) + 1] = e
  OBVIOUS
<1> QED  BY <1>1, <1>2, <1>3 DEF Elements

LEMMA PopElements ==
    ASSUME NEW S, NEW s \in Seq(S), s # << >>
    PROVE  /\ s[Len(s)] \in S
           /\ SubSeq(s, 1, Len(s) - 1) \in Seq(S)
           /\ Len(s) \in Nat \ {0} /\ Len(SubSeq(s, 1, Len(s) - 1)) = Len(s) - 1
           /\ Elements(s) = Elements(SubSeq(s, 1, Len(s) - 1)) \cup {s[Len(s)]}
<1> DEFINE f == SubSeq(s, 1, Len(s) - 1)
<1>1. Len(s) \in Nat \ {0} /\ DOMAIN s = 1 .. Len(s)
  OBVIOUS
<1>2. f \in Seq(S) /\ Len(f) = Len(s) - 1 /\ \A j \in 1 .. Len(s) - 1 : f[j] = s[j]
  BY <1>1
<1>3. DOMAIN f = 1 .. Len(s) - 1
  BY <1>2
<1>4. 1 .. Len(s) = (1 .. Len(s) - 1) \cup {Len(s)}
  BY <1>1
<1> HIDE DEF f
<1>5. Elements(s) = Elements(f) \cup {s[Len(s)]}
  BY <1>1, <1>2, <1>3, <1>4 DEF Elements
<1>6. s[Len(s)] \in S
  BY <1>1
<1> QED  BY <1>1, <1>2, <1>5, <1>6 DEF f

LEMMA HeadTailElements ==
    ASSUME NEW S, NEW s \in Seq(S), s # << >>
    PROVE  /\ Head(s) \in S /\ Tail(s) \in Seq(S)
           /\ Elements(s) = {Head(s)} \cup Elements(Tail(s))
<1>1. Len(s) \in Nat \ {0} /\ DOMAIN s = 1 .. Len(s) /\ Head(s) = s[1]
  OBVIOUS
<1>2. Tail(s) \in Seq(S) /\ Len(Tail(s)) = Len(s) - 1
  OBVIOUS
<1>3. DOMAIN Tail(s) = 1 .. Len(s) - 1 /\ \A j \in 1 .. Len(s) - 1 : Tail(s)[j] = s[j + 1]
  BY <1>2
<1>4. \A j \in 1 .. Len(s) : j = 1 \/ (j - 1 \in 1 .. Len(s) - 1 /\ s[j] = Tail(s)[j - 1])
  BY <1>1, <1>3
<1>5. \A j \in 1 .. Len(s) - 1 : j + 1 \in 1 .. Len(s)
  BY <1>1
<1>6. ASSUME NEW j \in 1 .. Len(s) PROVE s[j] \in {Head(s)} \cup Elements(Tail(s))
  <2>1. CASE j = 1
    BY <1>1, <2>1
  <2>2. CASE j # 1
    BY <1>3, <1>4, <2>2 DEF Elements
  <2> QED  BY <2>1, <2>2
<1>7. {Head(s)} \cup Elements(Tail(s)) \subseteq Elements(s)
  BY <1>1, <1>3, <1>5 DEF Elements
<1>8. Elements(s) \subseteq {Head(s)} \cup Elements(Tail(s))
  BY <1>1, <1>6 DEF Elements
<1>9. Head(s) \in S
  BY <1>1
<1> QED  BY <1>2, <1>7, <1>8, <1>9

LEMMA ElementsIn ==
    ASSUME NEW S, NEW s \in Seq(S)
    PROVE  Elements(s) \subseteq S
BY DEF Elements

-----------------------------------------------------------------------------
(* The walk never leaves its types. *)

LEMMA ListedIn ==
    ASSUME vol \in Volumes, NEW l \in Lba
    PROVE  /\ Listed(l) \subseteq Child
           /\ Subdirs(l) \subseteq Lba /\ Files(l) \subseteq Lba
           /\ vol[l] \in Node
           /\ vol[l].data = "ok" => vol[l].children \in Seq(Child)
<1>1. vol[l] \in Node /\ vol[l].children \in Seq(Child)
  BY VolumesAssumption DEF Node
<1>2. Elements(vol[l].children) \subseteq Child
  BY <1>1, ElementsIn
<1>3. Listed(l) \subseteq Child
  BY <1>2 DEF Listed
<1> QED  BY <1>1, <1>3 DEF Subdirs, Files, Child

LEMMA TypeInit == Init => TypeOK
BY RootAssumption DEF Init, TypeOK

LEMMA AuditType ==
    ASSUME TypeOK, NEW l \in Lba, NEW as \in {"dir", "file"}, NEW next,
           AuditFileEntry(l, as, next)
    PROVE  pc' \in {next, "err"} /\ audits' \in Seq([lba : Lba, as : {"dir", "file"}])
<1> DEFINE R == [lba : Lba, as : {"dir", "file"}]
           e == [lba |-> l, as |-> as]
<1>1. e \in R /\ audits \in Seq(R)
  BY DEF TypeOK
<1>2. pc' \in {next, "err"} /\ audits' \in {audits, Append(audits, e)}
  BY DEF AuditFileEntry
<1>3. audits' \in Seq(R)
  <2> HIDE DEF R, e
  <2> QED  BY <1>1, <1>2
<1> QED  BY <1>2, <1>3

\* The one-line helpers of the actions are expanded everywhere below.
USE DEF Seen, IsDirectory, Pushed, AfterUnlisted

LEMMA TypeStep == TypeOK /\ [Next]_vars => TypeOK'
<1> SUFFICES ASSUME TypeOK, [Next]_vars PROVE TypeOK'
  OBVIOUS
<1> USE DEF TypeOK
<1>1. CASE Pop
  <2>1. queue[Len(queue)] \in Lba /\ SubSeq(queue, 1, Len(queue) - 1) \in Seq(Lba)
    BY <1>1, PopElements DEF Pop
  <2> QED  BY <1>1, <2>1 DEF Pop
<1>2. CASE Finish
  BY <1>2 DEF Finish
<1>3. CASE AuditDirectory
  BY <1>3, AuditType DEF AuditDirectory
<1>4. CASE ListDirectory
  BY <1>4, ListedIn DEF ListDirectory
<1>5. CASE PushDirectory
  <2>1. Head(todo) \in Child /\ Tail(todo) \in Seq(Child)
    BY <1>5, HeadTailElements DEF PushDirectory
  <2>2. Head(todo).lba \in Lba
    BY <2>1 DEF Child
  <2> QED  BY <1>5, <2>1, <2>2 DEF PushDirectory
<1>6. CASE AuditFile
  <2>1. Head(todo) \in Child /\ Tail(todo) \in Seq(Child)
    BY <1>6, HeadTailElements DEF AuditFile
  <2>2. /\ pc' \in {"children", "err"}
        /\ audits' \in Seq([lba : Lba, as : {"dir", "file"}])
    BY <1>6, <2>1, AuditType DEF AuditFile, Child
  <2> QED  BY <1>6, <2>1, <2>2 DEF AuditFile
<1>7. CASE ChildrenDone
  BY <1>7 DEF ChildrenDone
<1>8. CASE UNCHANGED vars
  BY <1>8 DEF vars
<1> QED  BY <1>1, <1>2, <1>3, <1>4, <1>5, <1>6, <1>7, <1>8 DEF Next

\* The type invariant of the walk holds on every volume.
THEOREM TypeCorrect == Spec => []TypeOK
<1> QED  BY TypeInit, TypeStep, PTL DEF Spec

-----------------------------------------------------------------------------
(* The tree is the least closed set of directories that holds the root. *)

LEMMA TreeClosed ==
    ASSUME vol \in Volumes
    PROVE  Tree \subseteq Lba /\ Root \in Tree /\ Closed(Tree)
<1>1. Tree \subseteq Lba /\ Root \in Tree
  BY RootAssumption DEF Tree
<1>2. ASSUME NEW l \in Tree, NEW d \in Subdirs(l) PROVE d \in Tree
  <2>1. d \in Lba
    BY <1>1, <1>2, ListedIn
  <2>2. ASSUME NEW S \in SUBSET Lba, Root \in S, Closed(S) PROVE d \in S
    BY <1>2, <2>2 DEF Tree, Closed
  <2> QED  BY <2>1, <2>2 DEF Tree
<1> QED  BY <1>1, <1>2 DEF Closed

LEMMA TreeLeast ==
    ASSUME NEW S, S \subseteq Lba, Root \in S, Closed(S)
    PROVE  Tree \subseteq S
BY DEF Tree

-----------------------------------------------------------------------------
(* The inductive invariant.  Inside: whatever is on the work list came from a
   link of the tree.  Owed: what a visited directory lists has been dealt with,
   is on the work list, or belongs to the directory in hand. *)

InHand == pc \in {"audit", "list", "children"}

Inside ==
    /\ visited \subseteq Tree /\ Elements(queue) \subseteq Tree
    /\ InHand => dir \in visited
    /\ pc = "children" => vol[dir].data = "ok" /\ Elements(todo) \subseteq Listed(dir)
    /\ AuditedAs("dir") \subseteq visited
    /\ pc = "audit" => AuditedAs("dir") = visited \ {dir}
    /\ pc \notin {"audit", "err"} => AuditedAs("dir") = visited
    /\ AuditedAs("file") \subseteq UNION {Files(l) : l \in Tree}

Pending(l) ==
    IF l = dir /\ pc \in {"audit", "list"} THEN Listed(l)
    ELSE IF l = dir /\ pc = "children" THEN Elements(todo) ELSE {}

Owed ==
    /\ Root \in visited \cup Elements(queue)
    /\ pc # "err" => \A l \in visited : \A c \in Listed(l) :
          \/ c \in Pending(l)
          \/ IF c.is_dir THEN c.lba \in visited \cup Elements(queue)
                         ELSE c.lba \in AuditedAs("file")
    /\ pc = "ok" => queue = << >>

Readable ==
    /\ pc # "err" => \A a \in Elements(audits) : vol[a.lba].sector # "unreadable"
    /\ pc = "err" => \E l \in Tree \cup UNION {Files(x) : x \in Tree} : vol[l].sector = "unreadable"

IInv == TypeOK /\ Inside /\ Owed /\ Readable /\ DirectoriesAuditedOnce

LEMMA GraphUnchanged ==
    ASSUME vol' = vol
    PROVE  /\ Tree' = Tree
           /\ \A l : Listed(l)' = Listed(l) /\ Files(l)' = Files(l)
           /\ (UNION {Files(l) : l \in Tree})' = UNION {Files(l) : l \in Tree}
<1>1. \A l : Listed(l)' = Listed(l) /\ Files(l)' = Files(l) /\ Subdirs(l)' = Subdirs(l)
  BY DEF Listed, Files, Subdirs
<1>2. \A S : Closed(S)' = Closed(S)
  BY <1>1 DEF Closed
<1>3. Tree' = Tree
  BY <1>2 DEF Tree
<1> QED  BY <1>1, <1>3

LEMMA AuditsUnchanged ==
    ASSUME audits' = audits PROVE \A as : AuditedAs(as)' = AuditedAs(as)
BY DEF AuditedAs

LEMMA AuditsGrow ==
    ASSUME TypeOK, NEW l \in Lba, NEW as \in {"dir", "file"},
           audits' = Append(audits, [lba |-> l, as |-> as])
    PROVE  /\ AuditedAs(as)' = AuditedAs(as) \cup {l}
           /\ \A other : other # as => AuditedAs(other)' = AuditedAs(other)
           /\ Elements(audits') = Elements(audits) \cup {[lba |-> l, as |-> as]}
<1> DEFINE R == [lba : Lba, as : {"dir", "file"}]
           e == [lba |-> l, as |-> as]
<1>1. audits \in Seq(R) /\ e \in R
  BY DEF TypeOK
<1>2. Elements(audits') = Elements(audits) \cup {e}
  <2> HIDE DEF R, e
  <2>1. audits' = Append(audits, e)
    BY DEF e
  <2> QED  BY <1>1, <2>1, AppendElements
<1>3. e.lba = l /\ e.as = as
  OBVIOUS
<1>4. \A as2 : AuditedAs(as2)' = AuditedAs(as2) \cup (IF as2 = as THEN {l} ELSE {})
  <2> HIDE DEF e
  <2>1. ASSUME NEW as2
        PROVE  {x \in Elements(audits') : x.as = as2}
                 = {x \in Elements(audits) : x.as = as2} \cup (IF as2 = as THEN {e} ELSE {})
    BY <1>2, <1>3
  <2> TAKE as2
  <2>2. CASE as2 = as
    <3>1. {x \in Elements(audits') : x.as = as2} = {x \in Elements(audits) : x.as = as2} \cup {e}
      BY <2>1, <2>2
    <3>2. \A P : {a.lba : a \in P \cup {e}} = {a.lba : a \in P} \cup {l}
      BY <1>3
    <3> QED  BY <2>2, <3>1, <3>2 DEF AuditedAs
  <2>3. CASE as2 # as
    <3>1. {x \in Elements(audits') : x.as = as2} = {x \in Elements(audits) : x.as = as2}
      <4>1. \A P : P \cup {} = P
        OBVIOUS
      <4> QED  BY <2>1, <2>3, <4>1
    <3> QED  BY <2>3, <3>1 DEF AuditedAs
  <2> QED  BY <2>2, <2>3
<1> QED  BY <1>2, <1>4

LEMMA InvInit == Init => IInv
<1> SUFFICES ASSUME Init PROVE IInv
  OBVIOUS
<1>1. TypeOK
  BY TypeInit
<1>2. Elements(queue) = {Root} /\ Elements(audits) = {} /\ Elements(todo) = {}
  BY DEF Init, Elements
<1>3. AuditedAs("dir") = {} /\ AuditedAs("file") = {}
  BY <1>2 DEF AuditedAs
<1>4. Root \in Tree
  BY TreeClosed DEF Init
<1>5. Inside
  BY <1>2, <1>3, <1>4 DEF Init, Inside, InHand
<1>6. Owed
  BY <1>2 DEF Init, Owed
<1>7. Readable /\ DirectoriesAuditedOnce
  BY <1>2 DEF Init, Readable, DirectoriesAuditedOnce
<1> QED  BY <1>1, <1>5, <1>6, <1>7 DEF IInv

LEMMA InsideStep == TypeOK /\ Inside /\ [Next]_vars => Inside'
<1> SUFFICES ASSUME TypeOK, Inside, [Next]_vars PROVE Inside'
  OBVIOUS
<1>1. vol' = vol
  BY DEF Next, vars, Pop, Finish, AuditDirectory, ListDirectory, PushDirectory, AuditFile, ChildrenDone
<1>2. /\ Tree' = Tree
      /\ \A l : Listed(l)' = Listed(l)
      /\ (UNION {Files(l) : l \in Tree})' = UNION {Files(l) : l \in Tree}
  BY <1>1, GraphUnchanged
<1>3. CASE Pop
  <2>1. audits' = audits /\ todo' = todo /\ queue # << >>
    BY <1>3 DEF Pop
  <2>2. AuditedAs("dir")' = AuditedAs("dir") /\ AuditedAs("file")' = AuditedAs("file")
    BY <2>1, AuditsUnchanged
  <2>3. Elements(queue) = Elements(queue') \cup {queue[Len(queue)]}
    BY <1>3, <2>1, PopElements DEF Pop, TypeOK
  <2> QED  BY <1>1, <1>2, <1>3, <2>1, <2>2, <2>3 DEF Pop, Inside, InHand
<1>4. CASE Finish
  <2>1. AuditedAs("dir")' = AuditedAs("dir") /\ AuditedAs("file")' = AuditedAs("file")
    BY <1>4, AuditsUnchanged DEF Finish
  <2> QED  BY <1>1, <1>2, <1>4, <2>1 DEF Finish, Inside, InHand
<1>5. CASE AuditDirectory
  <2>1. CASE vol[dir].sector = "unreadable"
    <3>1. AuditedAs("dir")' = AuditedAs("dir") /\ AuditedAs("file")' = AuditedAs("file")
      BY <1>5, <2>1, AuditsUnchanged DEF AuditDirectory, AuditFileEntry
    <3> QED  BY <1>1, <1>2, <1>5, <2>1, <3>1 DEF AuditDirectory, AuditFileEntry, Inside, InHand
  <2>2. CASE vol[dir].sector # "unreadable"
    <3>1. AuditedAs("dir")' = AuditedAs("dir") \cup {dir} /\ AuditedAs("file")' = AuditedAs("file")
      BY <1>5, <2>2, AuditsGrow DEF AuditDirectory, AuditFileEntry, TypeOK
    <3> QED  BY <1>1, <1>2, <1>5, <2>2, <3>1 DEF AuditDirectory, AuditFileEntry, Inside, InHand
  <2> QED  BY <2>1, <2>2
<1>6. CASE ListDirectory
  <2>1. AuditedAs("dir")' = AuditedAs("dir") /\ AuditedAs("file")' = AuditedAs("file")
    BY <1>6, AuditsUnchanged DEF ListDirectory
  <2> QED  BY <1>1, <1>2, <1>6, <2>1 DEF ListDirectory, Inside, InHand, Listed
<1>7. CASE PushDirectory
  <2>1. AuditedAs("dir")' = AuditedAs("dir") /\ AuditedAs("file")' = AuditedAs("file")
    BY <1>7, AuditsUnchanged DEF PushDirectory
  <2>2. Head(todo) \in Child /\ Elements(todo) = {Head(todo)} \cup Elements(todo')
    BY <1>7, HeadTailElements DEF PushDirectory, TypeOK
  <2>3. Elements(queue') = Elements(queue) \cup {Head(todo).lba}
    BY <1>7, <2>2, AppendElements DEF PushDirectory, TypeOK, Child
  <2>4. Head(todo) \in Listed(dir) /\ dir \in Tree /\ pc' = pc
    BY <1>7, <2>2 DEF PushDirectory, Inside, InHand
  <2>5. Head(todo).lba \in Tree
    BY <1>7, <2>4, TreeClosed DEF PushDirectory, Closed, Subdirs, TypeOK
  <2> QED  BY <1>1, <1>2, <1>7, <2>1, <2>2, <2>3, <2>4, <2>5 DEF PushDirectory, Inside, InHand
<1>8. CASE AuditFile
  <2>1. Head(todo) \in Child /\ Elements(todo) = {Head(todo)} \cup Elements(todo')
    BY <1>8, HeadTailElements DEF AuditFile, TypeOK
  <2>2. Head(todo).lba \in UNION {Files(l) : l \in Tree}
    BY <1>8, <2>1 DEF AuditFile, Inside, InHand, Files
  <2>3. CASE vol[Head(todo).lba].sector = "unreadable"
    <3>1. AuditedAs("dir")' = AuditedAs("dir") /\ AuditedAs("file")' = AuditedAs("file")
      BY <1>8, <2>3, AuditsUnchanged DEF AuditFile, AuditFileEntry
    <3> QED  BY <1>1, <1>2, <1>8, <2>1, <2>3, <3>1 DEF AuditFile, AuditFileEntry, Inside, InHand
  <2>4. CASE vol[Head(todo).lba].sector # "unreadable"
    <3>1. /\ AuditedAs("file")' = AuditedAs("file") \cup {Head(todo).lba}
          /\ AuditedAs("dir")' = AuditedAs("dir")
      BY <1>8, <2>1, <2>4, AuditsGrow DEF AuditFile, AuditFileEntry, Child
    <3> QED  BY <1>1, <1>2, <1>8, <2>1, <2>2, <2>4, <3>1 DEF AuditFile, AuditFileEntry, Inside, InHand
  <2> QED  BY <2>3, <2>4
<1>9. CASE ChildrenDone
  <2>1. AuditedAs("dir")' = AuditedAs("dir") /\ AuditedAs("file")' = AuditedAs("file")
    BY <1>9, AuditsUnchanged DEF ChildrenDone
  <2> QED  BY <1>1, <1>2, <1>9, <2>1 DEF ChildrenDone, Inside, InHand
<1>10. CASE UNCHANGED vars
  <2>1. AuditedAs("dir")' = AuditedAs("dir") /\ AuditedAs("file")' = AuditedAs("file")
    BY <1>10, AuditsUnchanged DEF vars
  <2> QED  BY <1>1, <1>2, <1>10, <2>1 DEF vars, Inside, InHand
<1> QED  BY <1>3, <1>4, <1>5, <1>6, <1>7, <1>8, <1>9, <1>10 DEF Next

LEMMA OwedStep == TypeOK /\ Inside /\ Owed /\ [Next]_vars => Owed'
<1> SUFFICES ASSUME TypeOK, Inside, Owed, [Next]_vars PROVE Owed'
  OBVIOUS
<1>1. vol' = vol
  BY DEF Next, vars, Pop, Finish, AuditDirectory, ListDirectory, PushDirectory, AuditFile, ChildrenDone
<1>2. \A l : Listed(l)' = Listed(l)
  BY <1>1, GraphUnchanged
<1>3. CASE Pop
  <2>1. audits' = audits /\ pc = "pop" /\ queue # << >>
    BY <1>3 DEF Pop
  <2>2. AuditedAs("file")' = AuditedAs("file")
    BY <2>1, AuditsUnchanged
  <2>3. Elements(queue) = Elements(queue') \cup {queue[Len(queue)]}
    BY <1>3, <2>1, PopElements DEF Pop, TypeOK
  <2>4. queue[Len(queue)] \in visited'
    BY <1>3 DEF Pop
  <2>5. visited' \cup Elements(queue') = visited \cup Elements(queue)
    BY <1>3, <2>3, <2>4 DEF Pop
  <2>6. \A l : Pending(l) = {}
    BY <2>1 DEF Pending
  <2>7. ASSUME NEW l \in visited', l \notin visited PROVE Pending(l)' = Listed(l)'
    BY <1>3, <2>7 DEF Pop, Pending
  <2>8. pc' # "ok"
    BY <1>3 DEF Pop
  <2> QED  BY <1>2, <2>1, <2>2, <2>5, <2>6, <2>7, <2>8 DEF Owed
<1>4. CASE Finish
  <2>1. AuditedAs("file")' = AuditedAs("file")
    BY <1>4, AuditsUnchanged DEF Finish
  <2>2. \A l : Pending(l) = {}
    BY <1>4 DEF Pending, Finish
  <2> QED  BY <1>2, <1>4, <2>1, <2>2 DEF Finish, Owed
<1>5. CASE AuditDirectory
  <2>1. CASE vol[dir].sector = "unreadable"
    BY <1>5, <2>1 DEF AuditDirectory, AuditFileEntry, Owed
  <2>2. CASE vol[dir].sector # "unreadable"
    <3>1. AuditedAs("file")' = AuditedAs("file")
      BY <1>5, <2>2, AuditsGrow DEF AuditDirectory, AuditFileEntry, TypeOK
    <3>2. \A l : Pending(l)' = Pending(l)
      BY <1>2, <1>5, <2>2 DEF Pending, AuditDirectory, AuditFileEntry
    <3> QED  BY <1>2, <1>5, <2>2, <3>1, <3>2 DEF AuditDirectory, AuditFileEntry, Owed
  <2> QED  BY <2>1, <2>2
<1>6. CASE ListDirectory
  <2>1. AuditedAs("file")' = AuditedAs("file")
    BY <1>6, AuditsUnchanged DEF ListDirectory
  <2>2. CASE vol[dir].data = "ok"
    <3>1. \A l : Pending(l)' = Pending(l)
      BY <1>6, <2>2 DEF Pending, ListDirectory, Listed
    <3> QED  BY <1>2, <1>6, <2>1, <2>2, <3>1 DEF ListDirectory, Owed
  <2>3. CASE vol[dir].data # "ok"
    <3>1. \A l : Pending(l) = {}
      BY <1>6, <2>3 DEF Pending, ListDirectory, Listed
    <3> QED  BY <1>2, <1>6, <2>1, <2>3, <3>1 DEF ListDirectory, Owed
  <2> QED  BY <2>2, <2>3
<1>7. CASE PushDirectory
  <2>1. AuditedAs("file")' = AuditedAs("file")
    BY <1>7, AuditsUnchanged DEF PushDirectory
  <2>2. Head(todo) \in Child /\ Elements(todo) = {Head(todo)} \cup Elements(todo')
    BY <1>7, HeadTailElements DEF PushDirectory, TypeOK
  <2>3. Elements(queue') = Elements(queue) \cup {Head(todo).lba}
    BY <1>7, <2>2, AppendElements DEF PushDirectory, TypeOK, Child
  <2>4. \A l : \A c \in Pending(l) : c \in Pending(l)' \/ c = Head(todo)
    BY <1>7, <2>2 DEF Pending, PushDirectory
  <2> QED  BY <1>2, <1>7, <2>1, <2>3, <2>4 DEF PushDirectory, Owed
<1>8. CASE AuditFile
  <2>1. Head(todo) \in Child /\ Elements(todo) = {Head(todo)} \cup Elements(todo')
    BY <1>8, HeadTailElements DEF AuditFile, TypeOK
  <2>2. CASE vol[Head(todo).lba].sector = "unreadable"
    BY <1>8, <2>2 DEF AuditFile, AuditFileEntry, Owed
  <2>3. CASE vol[Head(todo).lba].sector # "unreadable"
    <3>1. AuditedAs("file")' = AuditedAs("file") \cup {Head(todo).lba}
      BY <1>8, <2>1, <2>3, AuditsGrow DEF AuditFile, AuditFileEntry, Child
    <3>2. \A l : \A c \in Pending(l) : c \in Pending(l)' \/ c = Head(todo)
      BY <1>8, <2>1, <2>3 DEF Pending, AuditFile, AuditFileEntry
    <3> QED  BY <1>2, <1>8, <2>3, <3>1, <3>2 DEF AuditFile, AuditFileEntry, Owed
  <2> QED  BY <2>2, <2>3
<1>9. CASE ChildrenDone
  <2>1. AuditedAs("file")' = AuditedAs("file")
    BY <1>9, AuditsUnchanged DEF ChildrenDone
  <2>2. \A l : Pending(l) = {}
    BY <1>9 DEF Pending, ChildrenDone, Elements
  <2> QED  BY <1>2, <1>9, <2>1, <2>2 DEF ChildrenDone, Owed
<1>10. CASE UNCHANGED vars
  <2>1. AuditedAs("file")' = AuditedAs("file")
    BY <1>10, AuditsUnchanged DEF vars
  <2>2. \A l : Pending(l)' = Pending(l)
    BY <1>2, <1>10 DEF Pending, vars
  <2> QED  BY <1>2, <1>10, <2>1, <2>2 DEF vars, Owed
<1> QED  BY <1>3, <1>4, <1>5, <1>6, <1>7, <1>8, <1>9, <1>10 DEF Next

LEMMA ReadableStep == TypeOK /\ Inside /\ Readable /\ [Next]_vars => Readable'
<1> SUFFICES ASSUME TypeOK, Inside, Readable, [Next]_vars PROVE Readable'
  OBVIOUS
<1> DEFINE Entries == Tree \cup UNION {Files(x) : x \in Tree}
<1>1. vol' = vol
  BY DEF Next, vars, Pop, Finish, AuditDirectory, ListDirectory, PushDirectory, AuditFile, ChildrenDone
<1>2. Entries' = Entries
  BY <1>1, GraphUnchanged
<1>3. ASSUME NEW l \in Lba, NEW as \in {"dir", "file"}, NEW next, next # "err",
             l \in Entries, AuditFileEntry(l, as, next), pc # "err"
      PROVE  Readable'
  <2>1. CASE vol[l].sector = "unreadable"
    BY <1>1, <1>2, <1>3, <2>1 DEF AuditFileEntry, Readable
  <2>2. CASE vol[l].sector # "unreadable"
    <3>1. Elements(audits') = Elements(audits) \cup {[lba |-> l, as |-> as]}
      BY <1>3, <2>2, AuditsGrow DEF AuditFileEntry
    <3>2. ASSUME NEW a \in Elements(audits') PROVE vol'[a.lba].sector # "unreadable"
      <4>1. CASE a \in Elements(audits)
        BY <1>1, <1>3, <4>1 DEF Readable
      <4>2. CASE a = [lba |-> l, as |-> as]
        BY <1>1, <2>2, <4>2
      <4> QED  BY <3>1, <4>1, <4>2
    <3>3. pc' = next
      BY <1>3, <2>2 DEF AuditFileEntry
    <3> QED  BY <1>3, <3>2, <3>3 DEF Readable
  <2> QED  BY <2>1, <2>2
<1>4. CASE AuditDirectory
  BY <1>3, <1>4 DEF AuditDirectory, Inside, InHand, TypeOK
<1>5. CASE AuditFile
  <2>1. Head(todo) \in Child /\ Head(todo) \in Elements(todo)
    BY <1>5, HeadTailElements DEF AuditFile, TypeOK
  <2>2. Head(todo).lba \in Lba /\ Head(todo).lba \in Entries
    BY <1>5, <2>1 DEF AuditFile, Inside, InHand, Files, Child
  <2> QED  BY <1>3, <1>5, <2>2 DEF AuditFile
<1>6. CASE Pop \/ Finish \/ ListDirectory \/ PushDirectory \/ ChildrenDone \/ UNCHANGED vars
  <2>1. audits' = audits /\ (pc' = "err" <=> pc = "err")
    BY <1>6 DEF Pop, Finish, ListDirectory, PushDirectory, ChildrenDone, vars
  <2> QED  BY <1>1, <1>2, <2>1 DEF Readable
<1> QED  BY <1>4, <1>5, <1>6 DEF Next

LEMMA OnceStep ==
    TypeOK /\ Inside /\ DirectoriesAuditedOnce /\ [Next]_vars => DirectoriesAuditedOnce'
<1> SUFFICES ASSUME TypeOK, Inside, DirectoriesAuditedOnce, [Next]_vars
             PROVE  DirectoriesAuditedOnce'
  OBVIOUS
<1>1. CASE audits' = audits
  BY <1>1 DEF DirectoriesAuditedOnce
<1>2. ASSUME NEW l, NEW as, audits' = Append(audits, [lba |-> l, as |-> as]),
             as = "dir" => l \notin AuditedAs("dir")
      PROVE  DirectoriesAuditedOnce'
  <2> DEFINE n == Len(audits)
  <2>1. n \in Nat /\ DOMAIN audits = 1 .. n /\ DOMAIN audits' = 1 .. n + 1
    BY <1>2 DEF TypeOK
  <2>2. /\ \A i \in 1 .. n : audits'[i] = audits[i]
        /\ audits'[n + 1] = [lba |-> l, as |-> as]
    BY <1>2 DEF TypeOK
  <2>3. \A i \in 1 .. n : audits[i].as = "dir" => audits[i] # [lba |-> l, as |-> as]
    <3> SUFFICES ASSUME NEW i \in 1 .. n, audits[i].as = "dir", audits[i] = [lba |-> l, as |-> as]
                 PROVE  FALSE
      OBVIOUS
    <3>1. audits[i] \in Elements(audits) /\ audits[i].lba = l
      BY <2>1 DEF Elements
    <3>2. l \in AuditedAs("dir")
      BY <3>1 DEF AuditedAs
    <3> QED  BY <1>2, <3>2
  <2>4. ASSUME NEW i \in 1 .. n + 1, NEW j \in 1 .. n + 1,
               audits'[i].as = "dir", audits'[j] = audits'[i]
        PROVE  i = j
    <3>1. CASE i \in 1 .. n /\ j \in 1 .. n
      BY <2>1, <2>2, <2>4, <3>1 DEF DirectoriesAuditedOnce
    <3>2. CASE i = n + 1 /\ j \in 1 .. n
      BY <2>2, <2>3, <2>4, <3>2
    <3>3. CASE i \in 1 .. n /\ j = n + 1
      BY <2>2, <2>3, <2>4, <3>3
    <3> QED  BY <2>1, <3>1, <3>2, <3>3
  <2> QED  BY <2>1, <2>4 DEF DirectoriesAuditedOnce
<1>3. CASE AuditDirectory
  BY <1>1, <1>2, <1>3 DEF AuditDirectory, AuditFileEntry, Inside
<1>4. CASE AuditFile
  BY <1>1, <1>2, <1>4 DEF AuditFile, AuditFileEntry
<1>5. CASE Pop \/ Finish \/ ListDirectory \/ PushDirectory \/ ChildrenDone \/ UNCHANGED vars
  BY <1>1, <1>5 DEF Pop, Finish, ListDirectory, PushDirectory, ChildrenDone, vars
<1> QED  BY <1>3, <1>4, <1>5 DEF Next

THEOREM Invariance == Spec => []IInv
<1>1. IInv /\ [Next]_vars => IInv'
  BY TypeStep, InsideStep, OwedStep, ReadableStep, OnceStep DEF IInv
<1> QED  BY InvInit, <1>1, PTL DEF Spec

-----------------------------------------------------------------------------
(* What the invariant gives. *)

\* On any volume whatever, with cycles, shared subtrees and links to itself,
\* the walk audits only entries that the volume's tree names.
THEOREM StaysInTreeAlways == Spec => []StaysInTree
<1>1. IInv => StaysInTree
  BY DEF IInv, Inside, StaysInTree
<1> QED  BY <1>1, Invariance, PTL

\* However many links lead to a directory, its own findings are reported once.
THEOREM DirectoriesAuditedOnceAlways == Spec => []DirectoriesAuditedOnce
<1>1. IInv => DirectoriesAuditedOnce
  BY DEF IInv
<1> QED  BY <1>1, Invariance, PTL

LEMMA OkIsComplete == IInv => OkCoversTree
<1> SUFFICES ASSUME IInv, pc = "ok" PROVE OkCoversTree
  BY DEF OkCoversTree
<1>1. Elements(queue) = {}
  BY DEF IInv, Owed, Elements
<1>2. \A l : Pending(l) = {}
  BY DEF Pending
<1>3. Root \in visited /\ visited \subseteq Tree /\ Tree \subseteq Lba
  BY <1>1, TreeClosed DEF IInv, Owed, Inside, TypeOK
<1>4. \A l \in visited : \A c \in Listed(l) :
        IF c.is_dir THEN c.lba \in visited ELSE c.lba \in AuditedAs("file")
  BY <1>1, <1>2 DEF IInv, Owed
<1>5. Closed(visited)
  BY <1>4 DEF Closed, Subdirs
<1>6. visited = Tree
  BY <1>3, <1>5, TreeLeast
<1>7. UNION {Files(l) : l \in Tree} \subseteq AuditedAs("file")
  BY <1>4, <1>6 DEF Files
<1> QED  BY <1>6, <1>7 DEF IInv, Inside, OkCoversTree

\* An analysis that returns Ok has visited and audited the whole tree and every
\* file in it, on every volume.
THEOREM OkCoversTreeAlways == Spec => []OkCoversTree
<1> QED  BY OkIsComplete, Invariance, PTL

\* Err and Ok tell a tree with an unreadable entry from one without.
THEOREM ErrIsUnreadableEntryAlways == Spec => []ErrIsUnreadableEntry
<1>1. IInv => ErrIsUnreadableEntry
  <2> SUFFICES ASSUME IInv PROVE ErrIsUnreadableEntry
    OBVIOUS
  <2> DEFINE entries == Tree \cup UNION {Files(l) : l \in Tree}
  <2>1. pc = "err" => \E l \in entries : vol[l].sector = "unreadable"
    BY DEF IInv, Readable
  <2>2. ASSUME pc = "ok", NEW l \in entries PROVE vol[l].sector # "unreadable"
    <3>1. l \in AuditedAs("dir") \cup AuditedAs("file")
      BY <2>2, OkIsComplete DEF OkCoversTree
    <3>2. \E a \in Elements(audits) : a.lba = l
      BY <3>1 DEF AuditedAs
    <3> QED  BY <2>2, <3>2 DEF IInv, Readable
  <2> QED  BY <2>1, <2>2 DEF ErrIsUnreadableEntry
<1> QED  BY <1>1, Invariance, PTL

-----------------------------------------------------------------------------
(* The walk implements TreeAudit.  What has been visited or waits to be visited
   is known there: an audited directory has listed it. *)

KnownDirs == {Root} \cup UNION {Subdirs(l) : l \in AuditedAs("dir")}

Known == visited \cup Elements(queue) \subseteq KnownDirs

LEMMA AuditSeesTheTree ==
    /\ \A l : Audit!Listed(l) = Listed(l)
    /\ Audit!KnownDirs = KnownDirs
    /\ Audit!KnownFiles = UNION {Files(l) : l \in AuditedAs("dir")}
<1>1. \A l : Audit!Listed(l) = Listed(l)
  BY DEF Audit!Listed, Listed, Elements
<1>2. \A l : {c.lba : c \in {x \in Audit!Listed(l) : x.is_dir}} = Subdirs(l)
  BY <1>1 DEF Subdirs
<1>3. \A l : {c.lba : c \in {x \in Audit!Listed(l) : ~x.is_dir}} = Files(l)
  BY <1>1 DEF Files
<1>4. Audit!KnownDirs = KnownDirs
  BY <1>2 DEF Audit!KnownDirs, KnownDirs
<1>5. Audit!KnownFiles = UNION {Files(l) : l \in AuditedAs("dir")}
  BY <1>3 DEF Audit!KnownFiles
<1> QED  BY <1>1, <1>4, <1>5

LEMMA KnownGrows ==
    ASSUME vol' = vol, AuditedAs("dir") \subseteq AuditedAs("dir")'
    PROVE  KnownDirs \subseteq KnownDirs'
<1>1. \A l : Subdirs(l)' = Subdirs(l)
  BY GraphUnchanged DEF Subdirs
<1> QED  BY <1>1 DEF KnownDirs

LEMMA KnownInit == Init => Known
BY DEF Init, Known, KnownDirs, Elements

LEMMA KnownStep == IInv /\ Known /\ [Next]_vars => Known'
<1> SUFFICES ASSUME IInv, Known, [Next]_vars PROVE Known'
  OBVIOUS
<1>1. vol' = vol
  BY DEF Next, vars, Pop, Finish, AuditDirectory, ListDirectory, PushDirectory, AuditFile, ChildrenDone
<1>2. ASSUME visited' \cup Elements(queue)' \subseteq visited \cup Elements(queue),
             AuditedAs("dir") \subseteq AuditedAs("dir")'
      PROVE  Known'
  BY <1>1, <1>2, KnownGrows DEF Known
<1>3. ASSUME audits' = audits PROVE AuditedAs("dir") = AuditedAs("dir")'
  BY <1>3, AuditsUnchanged
<1>4. CASE Pop
  <2>1. Elements(queue) = Elements(queue') \cup {queue[Len(queue)]}
    BY <1>4, PopElements DEF Pop, IInv, TypeOK
  <2>2. visited' \cup Elements(queue)' \subseteq visited \cup Elements(queue)
    BY <1>4, <2>1 DEF Pop
  <2> QED  BY <1>2, <1>3, <1>4, <2>2 DEF Pop
<1>5. CASE Finish \/ ListDirectory \/ ChildrenDone \/ UNCHANGED vars
  <2>1. audits' = audits /\ visited' = visited /\ queue' = queue
    BY <1>5 DEF Finish, ListDirectory, ChildrenDone, vars
  <2> QED  BY <1>2, <1>3, <2>1
<1>6. ASSUME NEW l \in Lba, NEW as \in {"dir", "file"}, NEW next,
             AuditFileEntry(l, as, next), UNCHANGED <<visited, queue>>
      PROVE  Known'
  <2>1. CASE audits' = audits
    BY <1>2, <1>3, <1>6, <2>1
  <2>2. CASE audits' = Append(audits, [lba |-> l, as |-> as])
    <3>1. AuditedAs("dir") \subseteq AuditedAs("dir")'
      BY <2>2, AuditsGrow DEF IInv
    <3> QED  BY <1>2, <1>6, <3>1
  <2> QED  BY <1>6, <2>1, <2>2 DEF AuditFileEntry
<1>7. CASE AuditDirectory
  BY <1>6, <1>7 DEF AuditDirectory, IInv, TypeOK
<1>8. CASE AuditFile
  <2>1. Head(todo) \in Child
    BY <1>8, HeadTailElements DEF AuditFile, IInv, TypeOK
  <2>2. Head(todo).lba \in Lba
    BY <2>1 DEF Child
  <2> QED  BY <1>6, <1>8, <2>2 DEF AuditFile
<1>9. CASE PushDirectory
  <2>1. Head(todo) \in Child /\ Head(todo) \in Elements(todo)
    BY <1>9, HeadTailElements DEF PushDirectory, IInv, TypeOK
  <2>2. Elements(queue') = Elements(queue) \cup {Head(todo).lba}
    BY <1>9, <2>1, AppendElements DEF PushDirectory, IInv, TypeOK, Child
  <2>3. Head(todo) \in Listed(dir) /\ dir \in AuditedAs("dir")
    BY <1>9, <2>1 DEF PushDirectory, IInv, Inside, InHand
  <2>4. Head(todo).lba \in KnownDirs
    BY <1>9, <2>3 DEF PushDirectory, KnownDirs, Subdirs
  <2>5. audits' = audits /\ visited' = visited
    BY <1>9 DEF PushDirectory
  <2>6. KnownDirs \subseteq KnownDirs'
    BY <1>1, <1>3, <2>5, KnownGrows
  <2> QED  BY <2>2, <2>4, <2>5, <2>6 DEF Known
<1> QED  BY <1>4, <1>5, <1>7, <1>8, <1>9 DEF Next

LEMMA AuditStutters ==
    ASSUME UNCHANGED <<vol, audits, Verdict>> PROVE UNCHANGED Audit!vars
BY AuditsUnchanged DEF Audit!vars

LEMMA FinishReturnsOk == IInv /\ Finish => Audit!Next
<1> SUFFICES ASSUME IInv, Finish PROVE Audit!Next
  OBVIOUS
<1>1. pc = "pop" /\ queue = << >> /\ Elements(queue) = {} /\ pc' = "ok" /\ UNCHANGED <<vol, audits>>
  BY DEF Finish, Elements
<1>2. AuditedAs("dir") = visited /\ \A l : Pending(l) = {}
  BY <1>1 DEF IInv, Inside, Pending
<1>3. /\ Root \in visited
      /\ \A l \in visited : \A c \in Listed(l) :
            IF c.is_dir THEN c.lba \in visited ELSE c.lba \in AuditedAs("file")
  BY <1>1, <1>2 DEF IInv, Owed
<1>4. KnownDirs \subseteq AuditedAs("dir")
  BY <1>2, <1>3 DEF KnownDirs, Subdirs
<1>5. UNION {Files(l) : l \in AuditedAs("dir")} \subseteq AuditedAs("file")
  BY <1>2, <1>3 DEF Files
<1>6. Verdict = "running" /\ Verdict' = "ok"
  BY <1>1 DEF Verdict
<1>7. AuditedAs("dir")' = AuditedAs("dir") /\ AuditedAs("file")' = AuditedAs("file")
  BY <1>1, AuditsUnchanged
<1>8. Audit!ReturnOk
  BY <1>1, <1>4, <1>5, <1>6, <1>7, AuditSeesTheTree DEF Audit!ReturnOk
<1> QED  BY <1>6, <1>8 DEF Audit!Next

LEMMA AuditDirectoryImplements == IInv /\ Known /\ AuditDirectory => Audit!Next
<1> SUFFICES ASSUME IInv, Known, AuditDirectory PROVE Audit!Next
  OBVIOUS
<1>1. /\ pc = "audit" /\ dir \in Lba /\ vol' = vol /\ AuditFileEntry(dir, "dir", "list")
      /\ dir \in KnownDirs /\ dir \notin AuditedAs("dir")
  BY DEF AuditDirectory, IInv, TypeOK, Inside, InHand, Known
<1>2. Verdict = "running" /\ dir \in Audit!KnownDirs
  BY <1>1, AuditSeesTheTree DEF Verdict
<1>3. CASE vol[dir].sector = "unreadable"
  <2>1. pc' = "err" /\ audits' = audits
    BY <1>1, <1>3 DEF AuditFileEntry
  <2>2. AuditedAs("dir")' = AuditedAs("dir") /\ AuditedAs("file")' = AuditedAs("file") /\ Verdict' = "err"
    BY <2>1, AuditsUnchanged DEF Verdict
  <2>3. Audit!ReturnErr
    BY <1>1, <1>2, <1>3, <2>2 DEF Audit!ReturnErr, Audit!Readable
  <2> QED  BY <1>2, <2>3 DEF Audit!Next
<1>4. CASE vol[dir].sector # "unreadable"
  <2>1. pc' = "list" /\ audits' = Append(audits, [lba |-> dir, as |-> "dir"])
    BY <1>1, <1>4 DEF AuditFileEntry
  <2>2. AuditedAs("dir")' = AuditedAs("dir") \cup {dir} /\ AuditedAs("file")' = AuditedAs("file")
    BY <1>1, <2>1, AuditsGrow DEF IInv
  <2>3. Verdict' = "running"
    BY <2>1 DEF Verdict
  <2>4. Audit!AuditDir(dir)
    BY <1>1, <1>2, <1>4, <2>2, <2>3 DEF Audit!AuditDir, Audit!Readable
  <2> QED  BY <1>1, <1>2, <2>4 DEF Audit!Next
<1> QED  BY <1>3, <1>4

LEMMA AuditFileImplements == IInv /\ AuditFile => Audit!Next
<1> SUFFICES ASSUME IInv, AuditFile PROVE Audit!Next
  OBVIOUS
<1> PICK l : l = Head(todo).lba
  OBVIOUS
<1>1. Head(todo) \in Child /\ Head(todo) \in Elements(todo)
  BY HeadTailElements DEF AuditFile, IInv, TypeOK
<1>2. /\ pc = "children" /\ l \in Lba /\ vol' = vol /\ AuditFileEntry(l, "file", "children")
      /\ Head(todo) \in Listed(dir) /\ dir \in AuditedAs("dir") /\ ~Head(todo).is_dir
  BY <1>1 DEF AuditFile, IInv, Inside, InHand, Child
<1>3. l \in UNION {Files(x) : x \in AuditedAs("dir")}
  BY <1>2 DEF Files
<1>4. Verdict = "running" /\ l \in Audit!KnownFiles
  BY <1>2, <1>3, AuditSeesTheTree DEF Verdict
<1>5. CASE vol[l].sector = "unreadable"
  <2>1. pc' = "err" /\ audits' = audits
    BY <1>2, <1>5 DEF AuditFileEntry
  <2>2. AuditedAs("dir")' = AuditedAs("dir") /\ AuditedAs("file")' = AuditedAs("file") /\ Verdict' = "err"
    BY <2>1, AuditsUnchanged DEF Verdict
  <2>3. Audit!ReturnErr
    BY <1>2, <1>4, <1>5, <2>2 DEF Audit!ReturnErr, Audit!Readable
  <2> QED  BY <1>4, <2>3 DEF Audit!Next
<1>6. CASE vol[l].sector # "unreadable"
  <2>1. pc' = "children" /\ audits' = Append(audits, [lba |-> l, as |-> "file"])
    BY <1>2, <1>6 DEF AuditFileEntry
  <2>2. AuditedAs("file")' = AuditedAs("file") \cup {l} /\ AuditedAs("dir")' = AuditedAs("dir")
    BY <1>2, <2>1, AuditsGrow DEF IInv
  <2>3. Verdict' = "running"
    BY <2>1 DEF Verdict
  <2>4. Audit!AuditFile(l)
    BY <1>2, <1>4, <1>6, <2>2, <2>3 DEF Audit!AuditFile, Audit!Readable
  <2> QED  BY <1>2, <1>4, <2>4 DEF Audit!Next
<1> QED  BY <1>5, <1>6

LEMMA AuditStep == IInv /\ Known /\ [Next]_vars => [Audit!Next]_(Audit!vars)
<1> SUFFICES ASSUME IInv, Known, [Next]_vars PROVE Audit!Next \/ UNCHANGED Audit!vars
  OBVIOUS
<1>1. CASE Pop \/ ListDirectory \/ PushDirectory \/ ChildrenDone \/ UNCHANGED vars
  <2>1. UNCHANGED <<vol, audits, Verdict>>
    BY <1>1 DEF Pop, ListDirectory, PushDirectory, ChildrenDone, vars, Verdict
  <2> QED  BY <2>1, AuditStutters
<1> QED  BY <1>1, FinishReturnsOk, AuditDirectoryImplements, AuditFileImplements DEF Next

\* The walk implements TreeAudit on every volume: whatever its work list holds,
\* its audits are those of a tree explored from the root, its verdict theirs.
THEOREM AuditsAlways == Spec => Audits
<1>1. Init => Audit!Init
  <2> SUFFICES ASSUME Init PROVE Audit!Init
    OBVIOUS
  <2>1. Elements(audits) = {}
    BY DEF Init, Elements
  <2>2. AuditedAs("dir") = {} /\ AuditedAs("file") = {} /\ Verdict = "running"
    BY <2>1 DEF AuditedAs, Init, Verdict
  <2> QED  BY <2>2 DEF Audit!Init, Init
<1> QED  BY <1>1, Invariance, KnownInit, KnownStep, AuditStep, PTL DEF Spec, Audits, Audit!Spec

-----------------------------------------------------------------------------
(* Every step of the walk is progress. *)

Progress ==
    \/ \E l \in Tree \ visited : visited' = visited \cup {l}
    \/ visited' = visited /\ Rank' < Rank
    \/ visited' = visited /\ Rank' = Rank /\ Work' \in 0 .. Work - 1

LEMMA PopProgress == IInv /\ Pop => Progress
<1> SUFFICES ASSUME IInv, Pop PROVE Progress
  OBVIOUS
<1> PICK last : last = queue[Len(queue)]
  OBVIOUS
<1>1. queue \in Seq(Lba) /\ queue # << >> /\ pc = "pop"
  BY DEF IInv, TypeOK, Pop
<1>2. last \in Tree
  BY <1>1, PopElements DEF IInv, Inside
<1>3. CASE last \in visited
  <2>1. pc' = "pop" /\ visited' = visited /\ queue' = SubSeq(queue, 1, Len(queue) - 1)
    BY <1>1, <1>3 DEF Pop
  <2>2. Len(queue) \in Nat /\ Len(queue') = Len(queue) - 1 /\ Len(queue) > 0
    BY <1>1, <2>1, PopElements
  <2>3. Rank' = Rank /\ Work = Len(queue) /\ Work' = Len(queue')
    BY <1>1, <2>1 DEF Rank, Work
  <2> QED  BY <2>1, <2>2, <2>3 DEF Progress
<1>4. CASE last \notin visited
  BY <1>2, <1>4 DEF Pop, Progress
<1> QED  BY <1>3, <1>4

LEMMA ChildProgress == IInv /\ (PushDirectory \/ AuditFile) => Progress
<1> SUFFICES ASSUME IInv, PushDirectory \/ AuditFile PROVE Progress
  OBVIOUS
<1>1. /\ pc = "children" /\ pc' \in {"children", "err"} /\ visited' = visited
      /\ todo \in Seq(Child) /\ todo # << >> /\ todo' = Tail(todo)
  BY DEF PushDirectory, AuditFile, AuditFileEntry, IInv, TypeOK
<1>2. Len(todo) \in Nat /\ Len(todo') = Len(todo) - 1 /\ Len(todo) > 0
  BY <1>1
<1>3. CASE pc' = "children"
  <2>1. Rank' = Rank /\ Work = Len(todo) /\ Work' = Len(todo')
    BY <1>1, <1>3 DEF Rank, Work
  <2> QED  BY <1>1, <1>2, <2>1 DEF Progress
<1>4. CASE pc' = "err"
  <2>1. Rank = 2 /\ Rank' = 0
    BY <1>1, <1>4 DEF Rank
  <2> QED  BY <1>1, <2>1 DEF Progress
<1> QED  BY <1>1, <1>3, <1>4

LEMMA TurnProgress == Finish \/ AuditDirectory \/ ListDirectory \/ ChildrenDone => Progress
<1>1. ASSUME Finish PROVE Rank = 1 /\ Rank' = 0 /\ visited' = visited
  BY <1>1 DEF Finish, Rank
<1>2. ASSUME AuditDirectory PROVE Rank = 4 /\ Rank' \in {3, 0} /\ visited' = visited
  BY <1>2 DEF AuditDirectory, AuditFileEntry, Rank
<1>3. ASSUME ListDirectory PROVE Rank = 3 /\ Rank' \in {2, 1} /\ visited' = visited
  BY <1>3 DEF ListDirectory, Rank
<1>4. ASSUME ChildrenDone PROVE Rank = 2 /\ Rank' = 1 /\ visited' = visited
  BY <1>4 DEF ChildrenDone, Rank
<1> QED  BY <1>1, <1>2, <1>3, <1>4 DEF Progress

\* On every volume each step visits a directory of the tree for the first time or
\* comes nearer to the next one: what the walk's return rests on.
THEOREM AdvancesAlways == Spec => Advances
<1>1. IInv /\ [Next]_vars => [Progress]_vars
  BY PopProgress, ChildProgress, TurnProgress DEF Next
<1> QED  BY <1>1, Invariance, PTL DEF Spec, Advances, Progress

=============================================================================
