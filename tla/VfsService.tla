----------------------------- MODULE VfsService -----------------------------
(***************************************************************************)
(* What the adapter promises its callers, without reader, mutex or cache:  *)
(* a call is answered in one step, from the volume alone.  Reads may fail; *)
(* hurt collects the addresses at which one did.  As long as none of the   *)
(* addresses a call is about is hurt and each is a File Entry, there is    *)
(* one answer to it, the same for every caller at any time; otherwise the  *)
(* answers allowed are the degraded ones listed here.                      *)
(***************************************************************************)
EXTENDS VfsVolume

CONSTANT Workers

VARIABLES
    vol,        \* the volume; constant through a behaviour
    asked,      \* each worker's request, or Idle, or Lost
    ans,        \* each worker's last answer, with its request
    hurt        \* addresses at which a read has failed

vars == <<vol, asked, ans, hurt>>

Idle == [op |-> "none"]
Lost == [op |-> "lost"]

Init ==
    /\ vol \in Volumes /\ hurt = {}
    /\ asked = [w \in Workers |-> Idle] /\ ans = [w \in Workers |-> Idle]

(* How a node may be classified: by its own File Entry; where that cannot be
   had, as what a parent's entry says of it, of no size; and the root, which
   nobody has listed yet, as the directory it was mounted as. *)
Whole(l, h) == vol[l].sector = "fe" /\ l \notin h
KindsOf(l, h) ==
    (IF vol[l].sector = "fe" THEN {vol[l].ft} ELSE {})
    \cup (IF Whole(l, h) THEN {} ELSE {"Dir", "Other"})
    \cup (IF l = Root THEN {"Dir"} ELSE {})
SizesOf(l, h) ==
    (IF vol[l].sector = "fe" THEN {vol[l].size} ELSE {})
    \cup (IF Whole(l, h) /\ l # Root THEN {} ELSE {0})

FidSays(c) == IF c.is_dir THEN "Dir" ELSE "Other"
ListedKinds(c, h) ==
    (IF vol[c.lba].sector = "fe" THEN {vol[c.lba].ft} ELSE {})
    \cup (IF Whole(c.lba, h) THEN {} ELSE {FidSays(c)})

HasData(l) == vol[l].sector = "fe" /\ vol[l].data = "ok"

Listings(l, h) ==
    LET cs == vol[l].children
    IN  {[n \in DOMAIN cs |-> <<cs[n].lba, k[n]>>] :
            k \in {f \in [DOMAIN cs -> Kind] : \A n \in DOMAIN cs : f[n] \in ListedKinds(cs[n], h)}}

Found(l, name) ==
    LET cs == vol[l].children
        hits == {n \in DOMAIN cs : cs[n].name = name}
    IN  IF hits = {} THEN << >>
        ELSE <<cs[CHOOSE n \in hits : \A m \in hits : n <= m].lba>>

\* The successful answers to a request.
Answers(r, h) ==
    LET l == r.lba
        Directory(listings) == IF HasData(l) /\ "Dir" \in KindsOf(l, h) THEN listings ELSE {}
    IN  CASE r.op = "meta" -> KindsOf(l, h) \X SizesOf(l, h)
          [] r.op = "extents" -> {IF s = 0 THEN << >> ELSE <<s>> : s \in SizesOf(l, h)}
          [] r.op = "read_dir" -> Directory(Listings(l, h))
          [] r.op = "lookup" -> Directory({Found(l, r.name)})
          [] r.op = "read_at" ->
                (IF HasData(l) /\ vol[l].size > 0 THEN {1} ELSE {0})
                \cup (IF Whole(l, h) THEN {} ELSE {0})
          [] r.op = "read_link" ->
                (IF KindsOf(l, h) = {"Symlink"} THEN {} ELSE {"empty"})
                \cup (IF HasData(l) /\ "Symlink" \in KindsOf(l, h) THEN {"target"} ELSE {})

\* The requests that may fail although they are legal.
MayFail(r, h) ==
    LET l == r.lba
    IN  \/ ~Whole(l, h) /\ (l = Root => r.op \in {"read_dir", "lookup", "read_link"})
        \/ r.op \in {"read_dir", "lookup"} /\ (~HasData(l) \/ vol[l].ft # "Dir")
        \/ r.op = "read_link" /\ ~HasData(l) /\ "Symlink" \in KindsOf(l, h)

Promised(r, h) ==
    IF r.lba = Foreign THEN {Refused}
    ELSE {Ok(v) : v \in Answers(r, h)} \cup (IF MayFail(r, h) THEN {Failed} ELSE {})

-----------------------------------------------------------------------------
Asking(w) == asked[w] \notin {Idle, Lost}

Ask(w) ==
    /\ asked[w] = Idle
    /\ \E r \in Request : asked' = [asked EXCEPT ![w] = r]
    /\ UNCHANGED <<vol, ans, hurt>>

\* A read fails, at whatever address; the answer given next may depend on it.
ReadFails == hurt' \in {hurt} \cup {hurt \cup {l} : l \in Lba}

Reply(w) ==
    /\ Asking(w) /\ ReadFails
    /\ \E a \in Promised(asked[w], hurt') :
          ans' = [ans EXCEPT ![w] = [asked |-> asked[w], res |-> a]]
    /\ asked' = [asked EXCEPT ![w] = Idle]
    /\ UNCHANGED vol

\* The worker is unwound by a panic of the reader.
Lose(w) ==
    /\ Asking(w)
    /\ asked' = [asked EXCEPT ![w] = Lost]
    /\ UNCHANGED <<vol, ans, hurt>>

Next ==
    \/ \E w \in Workers : Ask(w) \/ Reply(w) \/ Lose(w)
    \/ ReadFails /\ UNCHANGED <<vol, asked, ans>>

Spec == Init /\ [][Next]_vars

=============================================================================
