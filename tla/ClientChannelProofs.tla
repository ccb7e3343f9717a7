------------------------- MODULE ClientChannelProofs -------------------------
(***************************************************************************)
(* Proofs about ClientChannel, for any messages, any log length and any    *)
(* number of calls and lost connections: types, that nothing is shown      *)
(* twice, and that a handle with nothing to wait for shows what the server *)
(* holds.                                                                  *)
(***************************************************************************)
EXTENDS ClientChannel, FiniteSetTheorems, WellFoundedInduction, SequenceTheorems, TLAPS

Committed == 1 .. Len(log)

WireType ==
  /\ log \in Seq(Event) /\ floor \in 0 .. Len(log) /\ feed \in 0 .. Len(log) + 1
  /\ connected \in BOOLEAN /\ watching \in BOOLEAN
  /\ up \in Seq(0 .. Len(log)) /\ down \in Seq(0 .. Len(log))
  /\ requests \subseteq [call : Call, since : 0 .. Len(log)]
  /\ turns \in Nat

(* Retention spares the newest event.                                      *)
SparesNewest == floor > 0 => floor < Len(log)

(* What has become of a send, in the log and in the outbox.                *)
SendType ==
  /\ post \in [Own -> {"none", "sent", "stored", "abandoned", "over"}]
  /\ outbox \in [Own -> {"none", "sending", "failed"}]

Unsent == \A o \in Own : post[o] = "none" => outbox[o] = "none"

NotStored == \A o \in Own :
  post[o] \in {"none", "sent", "abandoned"} => \A i \in Committed : log[i].e # o

Stored == \A o \in Own : post[o] = "stored" => \E i \in Committed : log[i].e = o

CacheType ==
  /\ view \in [Entity -> 0 .. Len(log)] /\ lastSeq \in 0 .. Len(log)
  /\ base \in Nat /\ suspect \in BOOLEAN

(* What the cache shows of an entity is of that entity.                    *)
ViewReal == \A e \in Entity : view[e] # 0 => log[view[e]].e = e

Deleted(e) == \E g \in Committed : log[g].e = e /\ log[g].gone

(* No change up to the watermark is newer than what the cache shows, but   *)
(* for messages that a preview left out or that were deleted since.        *)
Covered(e) == \A i \in 1 .. lastSeq :
  log[i].e = e =>
    \/ i <= view[e]
    \/ e \in Message /\ view[e] = 0 /\ (i <= base \/ Deleted(e))

Covers == ~suspect => \A e \in Entity : Covered(e)

(* Where the events past the watermark are: the last subscribe frame under *)
(* way asks for them, or a resync is due, or they are in an unbroken run   *)
(* that ends the frames under way and goes on at the subscription.  A run  *)
(* that begins further on has an event to show for it.                     *)
Awake == connected /\ watching /\ ~suspect

Resuming == up[Len(up)] <= lastSeq

Resyncing ==
  \/ \E i \in 1 .. Len(down) : down[i] = 0
  \/ \E r \in requests : r.call = "resync"

Run(j, a) ==
  /\ feed = a + (Len(down) + 1 - j)
  /\ \A i \in j .. Len(down) : down[i] = a + (i - j)

Flowing == \E j \in 1 .. Len(down) + 1, a \in 1 .. feed :
  Run(j, a) /\ (a <= lastSeq + 1 \/ a <= Len(log))

Follows == Awake => IF up # <<>> THEN Resuming ELSE Resyncing \/ Flowing

SendInv == SendType /\ Unsent /\ NotStored /\ Stored /\ ShownOnce

ClientInv ==
  WireType /\ SparesNewest /\ SendInv /\ CacheType /\ ViewReal /\ Covers /\ Follows

-----------------------------------------------------------------------------
(* Sets of naturals below a bound have a greatest and a least element:     *)
(* the sets of elements above (below) each element are finite, and one of  *)
(* them is minimal under inclusion.                                        *)
LEMMA MinimalOfFinite ==
  ASSUME NEW n \in Nat, NEW T, \A t \in T : t \subseteq 0 .. n, T # {}
  PROVE  \E x \in T : \A y \in T : ~(y \subseteq x /\ y # x)
<1>1. IsFiniteSet(0 .. n)
  BY FS_Interval
<1>2. T \subseteq FiniteSubsetsOf(0 .. n)
  BY <1>1, FS_FiniteSubsetsOfFinite
<1>3. \E x \in T : \A y \in T : ~(<<y, x>> \in StrictSubsetOrdering(0 .. n))
  BY <1>2, FS_StrictSubsetOrderingWellFounded, WFMin, Zenon
<1>. QED
  BY <1>3 DEF StrictSubsetOrdering

LEMMA MaxGreatest ==
  ASSUME NEW n \in Nat, NEW S \in SUBSET (0 .. n), S # {}
  PROVE  Max(S) \in S /\ \A y \in S : y <= Max(S)
<1>. DEFINE Above(x) == {y \in S : y > x}
            T == {Above(x) : x \in S}
<1>1. T # {} /\ \A t \in T : t \subseteq 0 .. n
  OBVIOUS
<1>2. \E t \in T : \A u \in T : ~(u \subseteq t /\ u # t)
  <2>. HIDE DEF T
  <2>. QED
    BY <1>1, MinimalOfFinite
<1>3. PICK x \in S : \A u \in T : ~(u \subseteq Above(x) /\ u # Above(x))
  BY <1>2
<1>4. ASSUME NEW y \in S, y > x PROVE FALSE
  <2>. x \in Nat /\ y \in Nat
    OBVIOUS
  <2>1. y \in Above(x) /\ y \notin Above(y)
    BY <1>4
  <2>3. ASSUME NEW z \in S, z > y PROVE z > x
    BY <1>4, <2>3
  <2>2. Above(y) \in T
    OBVIOUS
  <2>4. Above(y) \subseteq Above(x) /\ Above(y) # Above(x)
    BY <2>1, <2>3
  <2>. QED
    BY <2>4, <2>2, <1>3
<1>5. \E z \in S : \A y \in S : z >= y
  BY <1>4
<1>. QED
  BY <1>5 DEF Max

LEMMA MinLeast ==
  ASSUME NEW n \in Nat, NEW S \in SUBSET (0 .. n), S # {}
  PROVE  Min(S) \in S /\ \A y \in S : Min(S) <= y
<1>. DEFINE Below(x) == {y \in S : y < x}
            T == {Below(x) : x \in S}
<1>1. T # {} /\ \A t \in T : t \subseteq 0 .. n
  OBVIOUS
<1>2. \E t \in T : \A u \in T : ~(u \subseteq t /\ u # t)
  <2>. HIDE DEF T
  <2>. QED
    BY <1>1, MinimalOfFinite
<1>3. PICK x \in S : \A u \in T : ~(u \subseteq Below(x) /\ u # Below(x))
  BY <1>2
<1>4. ASSUME NEW y \in S, y < x PROVE FALSE
  <2>. x \in Nat /\ y \in Nat
    OBVIOUS
  <2>1. y \in Below(x) /\ y \notin Below(y)
    BY <1>4
  <2>3. ASSUME NEW z \in S, z < y PROVE z < x
    BY <1>4, <2>3
  <2>2. Below(y) \in T
    OBVIOUS
  <2>4. Below(y) \subseteq Below(x) /\ Below(y) # Below(x)
    BY <2>1, <2>3
  <2>. QED
    BY <2>4, <2>2, <1>3
<1>5. \E z \in S : \A y \in S : z <= y
  BY <1>4
<1>. QED
  BY <1>5 DEF Min

-----------------------------------------------------------------------------
(* Versions.                                                               *)
LEMMA EntityIs ==
  /\ Meta \in Entity /\ Read \in Entity
  /\ Own \subseteq Message /\ Message \subseteq Entity
BY DEF Entity, Message

LEMMA LogEvent ==
  ASSUME WireType, NEW i \in Committed
  PROVE  log[i] \in Event /\ log[i].e \in Entity /\ log[i].gone \in BOOLEAN
<1>1. log[i] \in Event
  BY ElementOfSeq DEF WireType, Committed
<1>. QED
  BY <1>1 DEF Event

LEMMA VersionOf ==
  ASSUME WireType, NEW e \in Entity, NEW k \in 0 .. Len(log)
  PROVE  /\ Version(e, k) \in 0 .. k
         /\ Version(e, k) # 0 => log[Version(e, k)].e = e
         /\ \A i \in 1 .. k : log[i].e = e => i <= Version(e, k)
<1>1. k \in Nat
  BY DEF WireType
<1>2. Changes(e, k) \cup {0} \in SUBSET (0 .. k)
  BY <1>1 DEF Changes
<1>3. /\ Version(e, k) \in Changes(e, k) \cup {0}
      /\ \A i \in Changes(e, k) \cup {0} : i <= Version(e, k)
  BY <1>1, <1>2, MaxGreatest DEF Version
<1>. QED
  BY <1>1, <1>2, <1>3 DEF Changes

LEMMA SeqOfIs ==
  ASSUME WireType, NEW m \in Message, NEW i \in Committed, log[i].e = m
  PROVE  /\ SeqOf(m) \in Committed
         /\ log[SeqOf(m)].e = m
         /\ SeqOf(m) <= i
<1>1. Len(log) \in Nat
  BY DEF WireType
<1>2. Changes(m, Len(log)) \in SUBSET (0 .. Len(log)) /\ i \in Changes(m, Len(log))
  BY <1>1 DEF Changes, Committed
<1>3. /\ SeqOf(m) \in Changes(m, Len(log))
      /\ \A j \in Changes(m, Len(log)) : SeqOf(m) <= j
  BY <1>1, <1>2, MinLeast DEF SeqOf
<1>. QED
  BY <1>1, <1>2, <1>3 DEF Changes, Committed

LEMMA NewestBelow ==
  ASSUME WireType, NEW k \in 0 .. Len(log)
  PROVE  NewestSeq(k) \in 0 .. k
<1>. DEFINE S == {SeqOf(m) : m \in LiveAt(k)} \cup {0}
<1>1. k \in Nat /\ Len(log) \in Nat
  BY DEF WireType
<1>2. ASSUME NEW m \in LiveAt(k) PROVE SeqOf(m) \in 0 .. k
  <2>1. m \in Message /\ Changes(m, k) # {}
    BY DEF LiveAt
  <2>2. PICK i \in 1 .. k : log[i].e = m
    BY <2>1 DEF Changes
  <2>3. i \in Committed
    BY <1>1 DEF Committed
  <2>. QED
    BY <1>1, <2>1, <2>2, <2>3, SeqOfIs DEF Committed
<1>3. S \in SUBSET (0 .. k) /\ S # {}
  BY <1>1, <1>2
<1>. HIDE DEF S
<1>4. Max(S) \in S
  BY <1>1, <1>3, MaxGreatest
<1>5. NewestSeq(k) = Max(S)
  BY DEF NewestSeq, S
<1>. QED
  BY <1>3, <1>4, <1>5

LEMMA LoadedSeqIs ==
  ASSUME WireType, NEW head \in 0 .. Len(log), NEW page \in 0 .. Len(log)
  PROVE  LoadedSeq(head, page) \in Nat /\ LoadedSeq(head, page) <= head
         /\ LoadedSeq(head, page) <= page
<1>1. NewestSeq(page) \in 0 .. page /\ Len(log) \in Nat
  BY NewestBelow DEF WireType
<1>. DEFINE S == {head, NewestSeq(page)}
<1>2. S \in SUBSET (0 .. Len(log)) /\ S # {}
  BY <1>1
<1>3. Min(S) \in S /\ \A y \in S : Min(S) <= y
  <2>. HIDE DEF S
  <2>. QED
    BY <1>1, <1>2, MinLeast
<1>. QED
  BY <1>1, <1>3 DEF LoadedSeq

LEMMA MaxOfTwo ==
  ASSUME NEW a \in Nat, NEW b \in Nat
  PROVE  Max({a, b}) \in {a, b} /\ Max({a, b}) >= a /\ Max({a, b}) >= b
<1>1. \E n \in Nat : a <= n /\ b <= n
  BY a \in Nat, b \in Nat, a <= b \/ b <= a
<1>2. PICK n \in Nat : a <= n /\ b <= n
  BY <1>1
<1>3. {a, b} \in SUBSET (0 .. n) /\ {a, b} # {}
  BY <1>2
<1>4. Max({a, b}) \in {a, b} /\ \A y \in {a, b} : y <= Max({a, b})
  BY <1>2, <1>3, MaxGreatest
<1>. QED
  BY <1>4

-----------------------------------------------------------------------------
(* A commit.                                                               *)
Commits(ev) == ev \in Event /\ log' = Append(log, ev)

LEMMA Appended ==
  ASSUME WireType, NEW ev, Commits(ev)
  PROVE  /\ log' \in Seq(Event) /\ Len(log') = Len(log) + 1 /\ Len(log) \in Nat
         /\ \A i \in Committed : log'[i] = log[i]
         /\ log'[Len(log) + 1] = ev
BY DEF WireType, Commits, Committed

LEMMA SeqGrows ==
  ASSUME NEW n \in Nat, NEW s \in Seq(0 .. n)
  PROVE  s \in Seq(0 .. n + 1)
<1>. 0 .. n \subseteq 0 .. n + 1
  OBVIOUS
<1>. QED
  BY SeqMonotonic

-----------------------------------------------------------------------------
(* The cache.  One lemma per kind of step.                                 *)
CacheInv == CacheType /\ ViewReal /\ Covers

LEMMA CommitCache ==
  ASSUME WireType, CacheInv, NEW ev, Commits(ev), UNCHANGED cache
  PROVE  CacheInv'
<1>1. /\ Len(log') = Len(log) + 1 /\ Len(log) \in Nat
      /\ \A i \in Committed : log'[i] = log[i]
  BY Appended
<1>2. CacheType' /\ ViewReal'
  BY <1>1 DEF CacheInv, CacheType, ViewReal, cache, Committed
<1>3. ASSUME NEW e \in Entity, Deleted(e) PROVE Deleted(e)'
  BY <1>1, <1>3 DEF Deleted, Committed
<1>4. Covers'
  BY <1>1, <1>3 DEF CacheInv, CacheType, Covers, Covered, cache, Committed
<1>. QED
  BY <1>2, <1>4 DEF CacheInv

LEMMA FrameCache ==
  ASSUME CacheInv, UNCHANGED <<log, view, lastSeq, base>>, suspect' \in BOOLEAN,
         suspect => suspect'
  PROVE  CacheInv'
<1>1. \A e \in Entity : Deleted(e)' = Deleted(e)
  BY DEF Deleted, Committed
<1>. QED
  BY <1>1 DEF CacheInv, CacheType, ViewReal, Covers, Covered

LEMMA Watermark ==
  ASSUME WireType, CacheType, NEW s \in Committed, ApplyEvent(s)
  PROVE  /\ lastSeq' \in {lastSeq, s} /\ lastSeq' >= lastSeq /\ lastSeq' >= s
         /\ ~suspect' => ~suspect /\ s <= lastSeq + 1 /\ ~Outdated(log[s].e, s)
<1>1. Len(log) \in Nat /\ lastSeq \in Nat /\ s \in Nat /\ lastSeq' = Max({lastSeq, s})
  BY DEF WireType, CacheType, Committed, ApplyEvent
<1>2. ~suspect' => ~suspect /\ ~(s > lastSeq + 1) /\ ~Outdated(log[s].e, s)
  BY Zenon DEF ApplyEvent, OutOfTurn
<1>. QED
  BY <1>1, <1>2, MaxOfTwo

LEMMA ApplyCache ==
  ASSUME WireType, CacheInv, NEW s \in Committed, ApplyEvent(s), log' = log
  PROVE  CacheInv'
<1>. DEFINE x == log[s].e
<1>1. x \in Entity /\ Len(log) \in Nat /\ s \in Nat /\ lastSeq \in Nat
  BY LogEvent DEF WireType, CacheInv, CacheType, Committed
<1>2. /\ view' = [view EXCEPT ![x] = s] /\ base' = base
      /\ view'[x] = s /\ \A e \in Entity \ {x} : view'[e] = view[e]
  BY <1>1 DEF ApplyEvent, CacheInv, CacheType
<1>3. CacheType'
  <2>1. lastSeq' \in 0 .. Len(log)
    BY <1>1, Watermark DEF CacheInv, CacheType, Committed
  <2>2. suspect' \in BOOLEAN
    BY Zenon DEF ApplyEvent
  <2>. QED
    BY <1>1, <1>2, <2>1, <2>2 DEF CacheInv, CacheType, Committed
<1>4. ViewReal'
  BY <1>2 DEF CacheInv, ViewReal
<1>5. ASSUME ~suspect', NEW e \in Entity, NEW i \in 1 .. lastSeq', log[i].e = e
      PROVE  i <= view'[e] \/ (e \in Message /\ view'[e] = 0 /\ (i <= base \/ Deleted(e)))
  <2>1. lastSeq' \in {lastSeq, s} /\ ~suspect /\ s <= lastSeq + 1 /\ ~Outdated(x, s)
    BY <1>5, Watermark DEF CacheInv
  <2>2. CASE i <= lastSeq /\ e = x
    <3>1. ~(i > s)
      BY <2>1, <2>2, <1>5, <1>1 DEF Outdated, Changes
    <3>. QED
      BY <3>1, <2>2, <1>1, <1>2, <2>1
  <2>3. CASE i <= lastSeq /\ e # x
    BY <2>1, <2>3, <1>5, <1>1, <1>2 DEF CacheInv, Covers, Covered
  <2>4. CASE i > lastSeq
    <3>1. i = s /\ e = x
      BY <2>1, <2>4, <1>1, <1>5
    <3>. QED
      BY <3>1, <1>1, <1>2
  <2>. QED
    BY <2>2, <2>3, <2>4, <2>1, <1>1
<1>6. Covers'
  BY <1>5, <1>2 DEF Covers, Covered, Deleted, Committed
<1>. QED
  BY <1>3, <1>4, <1>6 DEF CacheInv

LEMMA ReadFromIs ==
  ASSUME WireType, CacheType, ViewReal, NEW k \in 0 .. Len(log)
  PROVE  /\ ReadFrom(k) \in 0 .. Len(log)
         /\ ReadFrom(k) # 0 => log[ReadFrom(k)].e = Read
         /\ ReadFrom(k) >= view[Read] /\ ReadFrom(k) >= Version(Read, k)
<1>1. /\ Read \in Entity /\ Len(log) \in Nat /\ k \in Nat
      /\ view[Read] \in 0 .. Len(log) /\ Version(Read, k) \in 0 .. k
  BY EntityIs, VersionOf DEF WireType, CacheType
<1>2. /\ ReadFrom(k) \in {view[Read], Version(Read, k)}
      /\ ReadFrom(k) >= view[Read] /\ ReadFrom(k) >= Version(Read, k)
  BY <1>1, MaxOfTwo DEF ReadFrom
<1>. QED
  BY <1>1, <1>2, VersionOf DEF ViewReal

(* A message that a snapshot of the messages leaves out has no version up  *)
(* to it, or was deleted.                                                  *)
LEMMA NotLive ==
  ASSUME WireType, NEW k \in 0 .. Len(log), NEW m \in Message \ LiveAt(k),
         NEW i \in 1 .. k, log[i].e = m
  PROVE  Deleted(m)
<1>1. k \in Nat /\ Len(log) \in Nat
  BY DEF WireType
<1>2. i \in Changes(m, k)
  BY DEF Changes
<1>3. PICK g \in Changes(m, k) : log[g].gone
  BY <1>2 DEF LiveAt, Gone
<1>. QED
  BY <1>1, <1>3 DEF Deleted, Changes, Committed

LEMMA LoadCache ==
  ASSUME ClientAssumption, WireType, CacheInv, NEW head \in 0 .. Len(log),
         NEW page \in 0 .. Len(log), LoadInitial(head, page), log' = log
  PROVE  CacheInv'
<1>1. /\ Len(log) \in Nat /\ head \in Nat /\ page \in Nat
      /\ lastSeq' \in Nat /\ lastSeq' <= head /\ lastSeq' <= page
      /\ base' = 0 /\ suspect' = FALSE
  BY LoadedSeqIs DEF WireType, LoadInitial
<1>2. /\ Meta # Read /\ Meta \notin Message /\ Read \notin Message
      /\ LiveAt(page) \subseteq Message /\ Entity = Message \cup {Meta, Read}
  BY DEF ClientAssumption, Message, Entity, LiveAt
<1>3. /\ view' = [e \in Entity |-> view'[e]]
      /\ view'[Meta] = Version(Meta, head) /\ view'[Read] = ReadFrom(head)
      /\ \A e \in LiveAt(page) : view'[e] = Version(e, page)
      /\ \A e \in Message \ LiveAt(page) : view'[e] = 0
  BY <1>2 DEF LoadInitial
<1>4. ASSUME NEW e \in Entity
      PROVE  /\ view'[e] \in 0 .. Len(log)
             /\ view'[e] # 0 => log[view'[e]].e = e
             /\ \A i \in 1 .. lastSeq' : log[i].e = e =>
                  i <= view'[e] \/ (e \in Message /\ view'[e] = 0 /\ Deleted(e))
  <2>1. CASE e = Meta
    BY <1>1, <1>3, <2>1, VersionOf
  <2>2. CASE e = Read
    <3>1. /\ ReadFrom(head) \in 0 .. Len(log)
          /\ ReadFrom(head) # 0 => log[ReadFrom(head)].e = Read
          /\ ReadFrom(head) >= Version(Read, head)
      BY ReadFromIs DEF CacheInv
    <3>2. \A i \in 1 .. head : log[i].e = Read => i <= Version(Read, head)
      BY <2>2, VersionOf
    <3>3. Version(Read, head) \in 0 .. head
      BY <2>2, VersionOf
    <3>. QED
      BY <1>1, <1>3, <2>2, <3>1, <3>2, <3>3
  <2>3. CASE e \in LiveAt(page)
    BY <1>1, <1>3, <2>3, VersionOf
  <2>4. CASE e \in Message \ LiveAt(page)
    <3>1. ASSUME NEW i \in 1 .. lastSeq', log[i].e = e PROVE Deleted(e)
      BY <1>1, <2>4, <3>1, NotLive
    <3>. QED
      BY <1>1, <1>3, <2>4, <3>1
  <2>. QED
    BY <1>2, <2>1, <2>2, <2>3, <2>4
<1>5. CacheType'
  <2>1. lastSeq' \in 0 .. Len(log)
    BY <1>1
  <2>2. view' \in [Entity -> 0 .. Len(log)]
    BY <1>3, <1>4
  <2>. QED
    BY <1>1, <2>1, <2>2 DEF CacheType
<1>6. ViewReal'
  BY <1>4 DEF ViewReal
<1>7. Covers'
  BY <1>4 DEF Covers, Covered, Deleted, Committed
<1>. QED
  BY <1>5, <1>6, <1>7 DEF CacheInv

LEMMA PreviewCache ==
  ASSUME ClientAssumption, WireType, CacheInv, NEW head \in 0 .. Len(log),
         NEW body \in head .. Len(log), HydratePreview(head, body), log' = log
  PROVE  CacheInv'
<1>1. /\ Len(log) \in Nat /\ head \in Nat /\ body \in Nat /\ head <= body
      /\ lastSeq' = head /\ base' = head /\ suspect' = FALSE
  BY DEF WireType, HydratePreview
<1>2. /\ Meta # Read /\ Meta \notin Message /\ Read \notin Message
      /\ Latest(body) \subseteq Message /\ Entity = Message \cup {Meta, Read}
  BY DEF ClientAssumption, Message, Entity, LiveAt, Latest
<1>3. /\ view' = [e \in Entity |-> view'[e]]
      /\ view'[Meta] = Version(Meta, head) /\ view'[Read] = ReadFrom(head)
      /\ \A e \in Latest(body) : view'[e] = Version(e, body)
      /\ \A e \in Message \ Latest(body) : view'[e] = 0
  BY <1>2 DEF HydratePreview
<1>4. ASSUME NEW e \in Entity
      PROVE  /\ view'[e] \in 0 .. Len(log)
             /\ view'[e] # 0 => log[view'[e]].e = e
             /\ \A i \in 1 .. head : log[i].e = e =>
                  i <= view'[e] \/ (e \in Message /\ view'[e] = 0)
  <2>1. CASE e = Meta
    BY <1>1, <1>3, <2>1, VersionOf
  <2>2. CASE e = Read
    <3>1. /\ ReadFrom(head) \in 0 .. Len(log)
          /\ ReadFrom(head) # 0 => log[ReadFrom(head)].e = Read
          /\ ReadFrom(head) >= Version(Read, head)
      BY ReadFromIs DEF CacheInv
    <3>2. \A i \in 1 .. head : log[i].e = Read => i <= Version(Read, head)
      BY <2>2, VersionOf
    <3>3. Version(Read, head) \in 0 .. head
      BY <2>2, VersionOf
    <3>. QED
      BY <1>1, <1>3, <2>2, <3>1, <3>2, <3>3
  <2>3. CASE e \in Latest(body)
    BY <1>1, <1>3, <2>3, VersionOf
  <2>4. CASE e \in Message \ Latest(body)
    BY <1>1, <1>3, <2>4
  <2>. QED
    BY <1>2, <2>1, <2>2, <2>3, <2>4
<1>5. CacheType'
  BY <1>1, <1>3, <1>4 DEF CacheType
<1>6. ViewReal'
  BY <1>4 DEF ViewReal
<1>7. Covers'
  BY <1>1, <1>4 DEF Covers, Covered
<1>. QED
  BY <1>5, <1>6, <1>7 DEF CacheInv

LEMMA WatchedCache ==
  ASSUME ClientAssumption, WireType, CacheInv, NEW head \in 0 .. Len(log),
         NEW body \in head .. Len(log), HydrateWatched(head, body), log' = log
  PROVE  CacheInv' /\ lastSeq' = lastSeq /\ (suspect => suspect')
<1>. DEFINE added == {m \in Latest(body) : view[m] = 0}
<1>1. /\ Len(log) \in Nat /\ head \in Nat /\ body \in Nat /\ head <= body
      /\ lastSeq' = lastSeq /\ base' = base /\ lastSeq \in 0 .. Len(log)
  BY DEF WireType, HydrateWatched, CacheInv, CacheType
<1>2. /\ Read \notin Message /\ Read \in Entity /\ added \subseteq Message
      /\ Message \subseteq Entity
  BY DEF ClientAssumption, Message, Entity, LiveAt, Latest
<1>3. /\ view' = [e \in Entity |-> view'[e]]
      /\ view'[Read] = ReadFrom(head)
      /\ \A e \in added : view'[e] = Version(e, body)
      /\ \A e \in Entity \ (added \cup {Read}) : view'[e] = view[e]
  BY <1>2 DEF HydrateWatched
<1>4. /\ suspect' \in BOOLEAN /\ (suspect => suspect')
      /\ ~suspect' => \A m \in added : ~Outdated(m, Version(m, body))
  BY Zenon DEF HydrateWatched
<1>5. ASSUME NEW e \in Entity
      PROVE  /\ view'[e] \in 0 .. Len(log)
             /\ view'[e] # 0 => log[view'[e]].e = e
  <2>1. CASE e = Read
    BY <1>1, <1>3, <2>1, ReadFromIs DEF CacheInv
  <2>2. CASE e \in added
    BY <1>1, <1>3, <2>2, VersionOf
  <2>3. CASE e \notin added \cup {Read}
    BY <1>1, <1>3, <2>3 DEF CacheInv, CacheType, ViewReal
  <2>. QED
    BY <2>1, <2>2, <2>3
<1>6. ASSUME ~suspect', NEW e \in Entity, NEW i \in 1 .. lastSeq, log[i].e = e
      PROVE  i <= view'[e] \/ (e \in Message /\ view'[e] = 0 /\ (i <= base \/ Deleted(e)))
  <2>1. i <= view[e] \/ (e \in Message /\ view[e] = 0 /\ (i <= base \/ Deleted(e)))
    BY <1>4, <1>6 DEF CacheInv, Covers, Covered
  <2>2. view[e] \in Nat /\ i \in Nat
    BY <1>1 DEF CacheInv, CacheType
  <2>3. CASE e = Read
    <3>1. ReadFrom(head) \in 0 .. Len(log) /\ ReadFrom(head) >= view[Read]
      BY ReadFromIs DEF CacheInv
    <3>2. i <= view[Read]
      BY <1>2, <2>1, <2>3
    <3>. QED
      BY <1>1, <1>2, <1>3, <2>2, <2>3, <3>1, <3>2
  <2>4. CASE e \in added
    <3>1. /\ ~Outdated(e, Version(e, body)) /\ Version(e, body) \in 0 .. body
          /\ view'[e] = Version(e, body)
      BY <1>1, <1>3, <1>4, <1>6, <2>4, VersionOf
    <3>2. ~(i > Version(e, body))
      BY <1>1, <1>6, <3>1 DEF Outdated, Changes
    <3>. QED
      BY <1>1, <2>2, <3>1, <3>2
  <2>5. CASE e \notin added \cup {Read}
    BY <1>3, <2>1, <2>5
  <2>. QED
    BY <2>3, <2>4, <2>5
<1>7. CacheType'
  BY <1>1, <1>3, <1>4, <1>5 DEF CacheInv, CacheType
<1>8. ViewReal'
  BY <1>5 DEF ViewReal
<1>9. Covers'
  BY <1>1, <1>6 DEF Covers, Covered, Deleted, Committed
<1>. QED
  BY <1>1, <1>4, <1>7, <1>8, <1>9 DEF CacheInv

LEMMA ReadsCache ==
  ASSUME WireType, CacheInv, NEW s \in Committed, ReadArrives(s)
  PROVE  CacheInv' /\ lastSeq' = lastSeq /\ (suspect => suspect')
<1>1. /\ Len(log) \in Nat /\ s \in Committed /\ log[s].e = Read /\ Read \in Entity
      /\ s \in Nat /\ lastSeq \in Nat
  BY EntityIs DEF WireType, Committed, CacheInv, CacheType, ReadArrives, Changes
<1>2. /\ view' = [view EXCEPT ![Read] = s] /\ base' = base /\ lastSeq' = lastSeq
      /\ log' = log /\ view'[Read] = s
      /\ \A e \in Entity \ {Read} : view'[e] = view[e]
  BY <1>1 DEF ReadArrives, CacheInv, CacheType, server
<1>3. /\ suspect' \in BOOLEAN /\ (suspect => suspect')
      /\ ~suspect' => ~Outdated(Read, s)
  BY Zenon DEF ReadArrives
<1>4. CacheType'
  BY <1>1, <1>2, <1>3 DEF CacheInv, CacheType, Committed
<1>5. ViewReal'
  BY <1>1, <1>2 DEF CacheInv, ViewReal
<1>6. ASSUME ~suspect', NEW e \in Entity, NEW i \in 1 .. lastSeq, log[i].e = e
      PROVE  i <= view'[e] \/ (e \in Message /\ view'[e] = 0 /\ (i <= base \/ Deleted(e)))
  <2>1. CASE e = Read
    <3>1. ~(i > s)
      BY <1>1, <1>3, <1>6, <2>1 DEF Outdated, Changes
    <3>. QED
      BY <1>1, <1>2, <2>1, <3>1
  <2>2. CASE e # Read
    BY <1>2, <1>3, <1>6, <2>2 DEF CacheInv, Covers, Covered
  <2>. QED
    BY <2>1, <2>2
<1>7. Covers'
  BY <1>2, <1>6 DEF Covers, Covered, Deleted, Committed
<1>. QED
  BY <1>2, <1>3, <1>4, <1>5, <1>7 DEF CacheInv

-----------------------------------------------------------------------------
(* The wires.                                                              *)
LEMMA SeqParts ==
  ASSUME NEW S, NEW q \in Seq(S)
  PROVE  /\ \A x \in S : Append(q, x) \in Seq(S) /\ <<x>> \in Seq(S)
         /\ <<>> \in Seq(S)
         /\ q # <<>> => Tail(q) \in Seq(S) /\ Head(q) \in S
OBVIOUS

LEMMA CommitWires ==
  ASSUME WireType, SparesNewest, NEW ev, Commits(ev),
         UNCHANGED <<floor, feed, wires, requests, watching, turns>>
  PROVE  WireType' /\ SparesNewest'
<1>1. /\ log' \in Seq(Event) /\ Len(log') = Len(log) + 1 /\ Len(log) \in Nat
      /\ \A i \in Committed : log'[i] = log[i]
      /\ log'[Len(log) + 1] = ev
  BY Appended
<1>2. up' \in Seq(0 .. Len(log')) /\ down' \in Seq(0 .. Len(log'))
  BY <1>1, SeqGrows DEF WireType, wires
<1>3. requests' \subseteq [call : Call, since : 0 .. Len(log')]
  BY <1>1 DEF WireType
<1>5. /\ floor' \in 0 .. Len(log') /\ feed' \in 0 .. Len(log') + 1
      /\ SparesNewest'
  BY <1>1 DEF WireType, SparesNewest
<1>6. connected' \in BOOLEAN /\ watching' \in BOOLEAN /\ turns' \in Nat
  BY DEF WireType, wires
<1>. QED
  BY <1>1, <1>2, <1>3, <1>5, <1>6 DEF WireType

LEMMA FrameWires ==
  ASSUME WireType, SparesNewest, UNCHANGED log,
         floor' = floor \/ floor' \in 0 .. (Len(log) - 1),
         feed' \in 0 .. Len(log) + 1,
         connected' \in BOOLEAN, watching' \in BOOLEAN, turns' \in Nat,
         up' \in Seq(0 .. Len(log)), down' \in Seq(0 .. Len(log)),
         \A r \in requests' : r \in requests \/ r \in [call : Call, since : 0 .. Len(log)]
  PROVE  WireType' /\ SparesNewest'
<1>1. Len(log) \in Nat /\ floor \in 0 .. Len(log)
  BY DEF WireType
<1>2. floor' \in 0 .. Len(log) /\ SparesNewest'
  BY <1>1 DEF SparesNewest
<1>3. requests' \subseteq [call : Call, since : 0 .. Len(log)]
  BY DEF WireType
<1>. QED
  BY <1>1, <1>2, <1>3 DEF WireType

(* A send confirmed, or one less, changes no wire.                         *)
SameWires == UNCHANGED <<log, floor, feed, wires, requests, watching, turns>>

LEMMA WiresStep ==
  ASSUME ClientAssumption, ClientInv, Next
  PROVE  WireType' /\ SparesNewest'
<1>. USE DEF ClientInv
<1>1. /\ Len(log) \in Nat /\ turns \in Nat /\ feed \in 0 .. Len(log) + 1
      /\ up \in Seq(0 .. Len(log)) /\ down \in Seq(0 .. Len(log))
      /\ connected \in BOOLEAN /\ watching \in BOOLEAN
      /\ lastSeq \in 0 .. Len(log)
  BY DEF WireType, CacheType
<1>2. ASSUME SameWires PROVE WireType' /\ SparesNewest'
  BY <1>1, <1>2, FrameWires DEF SameWires, wires
<1>3. CASE CommitOther
  <2>1. PICK ev \in Event : log' = Append(log, ev)
    BY <1>3 DEF CommitOther
  <2>. QED
    BY <1>3, <2>1, CommitWires DEF CommitOther, Commits
<1>5. CASE \E o \in Own : CommitOwn(o)
  <2>1. PICK o \in Own : CommitOwn(o)
    BY <1>5
  <2>2. [e |-> o, gone |-> FALSE] \in Event
    BY EntityIs DEF Event
  <2>. QED
    BY <2>1, <2>2, CommitWires DEF CommitOwn, Commits
<1>6. CASE Prune
  <2>1. PICK n \in (floor + 1) .. (Len(log) - 1) : floor' = n
    BY <1>6 DEF Prune
  <2>2. floor' \in 0 .. (Len(log) - 1)
    BY <1>1, <2>1 DEF WireType
  <2>. QED
    BY <1>1, <1>6, <2>2, FrameWires DEF Prune, wires
<1>7. CASE Subscribe
  <2>1. Head(up) \in 0 .. Len(log) /\ up' \in Seq(0 .. Len(log))
    BY <1>1, <1>7 DEF Subscribe
  <2>2. down' \in Seq(0 .. Len(log)) /\ feed' \in 0 .. Len(log) + 1
    <3>1. CASE down' = Append(down, 0) /\ feed' = Len(log) + 1
      BY <1>1, <3>1
    <3>2. CASE down' = down /\ feed' = Max({Head(up), floor}) + 1
      <4>1. /\ Head(up) \in Nat /\ floor \in Nat /\ Head(up) <= Len(log)
            /\ floor <= Len(log)
        BY <1>1, <2>1 DEF WireType
      <4>2. Max({Head(up), floor}) \in {Head(up), floor}
        BY <4>1, MaxOfTwo
      <4>3. feed' \in 0 .. Len(log) + 1
        BY <1>1, <3>2, <4>1, <4>2
      <4>. QED
        BY <1>1, <3>2, <4>3
    <3>. QED
      BY <1>7, <3>1, <3>2 DEF Subscribe
  <2>. QED
    BY <1>1, <1>7, <2>1, <2>2, FrameWires DEF Subscribe
<1>8. CASE Deliver
  <2>1. down' \in Seq(0 .. Len(log)) /\ feed' \in 0 .. Len(log) + 1
    BY <1>1, <1>8 DEF Deliver
  <2>. QED
    BY <1>1, <1>8, <2>1, FrameWires DEF Deliver
<1>9. CASE Hello
  <2>1. up' \in Seq(0 .. Len(log))
    <3>1. up' = <<lastSeq>> \/ up' = <<>>
      BY <1>9, Zenon DEF Hello
    <3>2. <<lastSeq>> \in Seq(0 .. Len(log)) /\ <<>> \in Seq(0 .. Len(log))
      BY <1>1, SeqParts
    <3>. QED
      BY <3>1, <3>2
  <2>. QED
    BY <1>1, <1>9, <2>1, FrameWires DEF Hello, server
<1>10. CASE Drop
  <2>1. connected' \in BOOLEAN
    BY <1>10, Zenon DEF Drop
  <2>2. /\ turns' \in Nat /\ feed' \in 0 .. Len(log) + 1
        /\ up' \in Seq(0 .. Len(log)) /\ down' \in Seq(0 .. Len(log))
    BY <1>1, <1>10 DEF Drop
  <2>3. UNCHANGED <<log, floor, watching, requests>>
    BY <1>10 DEF Drop
  <2>. QED
    BY <1>1, <2>1, <2>2, <2>3, FrameWires
<1>11. CASE HandleEvent
  <2>1. down' \in Seq(0 .. Len(log))
    BY <1>1, <1>11 DEF HandleEvent
  <2>. QED
    BY <1>1, <1>11, <2>1, FrameWires DEF HandleEvent, server
<1>12. CASE HandleResync
  <2>1. down' \in Seq(0 .. Len(log))
    BY <1>1, <1>12 DEF HandleResync
  <2>2. [call |-> "resync", since |-> Len(log)] \in [call : Call, since : 0 .. Len(log)]
    BY <1>1 DEF Call
  <2>. QED
    BY <1>1, <1>12, <2>1, <2>2, FrameWires DEF HandleResync, server
<1>13. CASE \E call \in Call : Ask(call)
  <2>1. PICK call \in Call : Ask(call)
    BY <1>13
  <2>2. [call |-> call, since |-> Len(log)] \in [call : Call, since : 0 .. Len(log)]
    BY <1>1
  <2>. QED
    BY <1>1, <2>1, <2>2, FrameWires DEF Ask, server, wires
<1>14. ASSUME NEW r \in requests, Load(r) \/ Hydrate(r), lastSeq' \in 0 .. Len(log)
       PROVE  WireType' /\ SparesNewest'
  <2>1. up' \in Seq(0 .. Len(log))
    <3>1. up' = up \/ up' = Append(up, lastSeq')
      BY <1>14, Zenon DEF Load, Hydrate, SubscribeFrom
    <3>2. Append(up, lastSeq') \in Seq(0 .. Len(log))
      BY <1>1, <1>14, SeqParts
    <3>. QED
      BY <1>1, <3>1, <3>2, Zenon
  <2>2. watching' \in BOOLEAN
    BY <1>14, Zenon DEF Load, Hydrate
  <2>. QED
    BY <1>1, <1>14, <2>1, <2>2, FrameWires DEF Load, Hydrate, server
<1>15. CASE \E r \in requests : RequestFails(r)
  <2>1. PICK r \in requests : RequestFails(r)
    BY <1>15
  <2>. QED
    BY <1>1, <2>1, FrameWires DEF RequestFails, server, wires
<1>16. CASE Unwatch
  <2>1. watching' \in BOOLEAN
    BY <1>16, Zenon DEF Unwatch
  <2>2. turns' \in Nat
    BY <1>1, <1>16 DEF Unwatch
  <2>3. UNCHANGED <<log, floor, feed, connected, up, down, requests>>
    BY <1>16 DEF Unwatch, server, wires
  <2>. QED
    BY <1>1, <2>1, <2>2, <2>3, FrameWires
<1>17. CASE \E s \in Committed : ReadArrives(s)
  <2>1. PICK s \in Committed : ReadArrives(s)
    BY <1>17
  <2>. QED
    BY <1>2, <2>1 DEF ReadArrives, server, SameWires
<1>18. CASE \E o \in Own : SendMessage(o) \/ SendAnswered(o) \/ SendFails(o)
  <2>1. PICK o \in Own : SendMessage(o) \/ SendAnswered(o) \/ SendFails(o)
    BY <1>18
  <2>. QED
    BY <1>2, <2>1 DEF SendMessage, SendAnswered, SendFails, server, SameWires
<1>19. CASE \E r \in requests : Load(r) \/ Hydrate(r)
  <2>1. PICK r \in requests : Load(r) \/ Hydrate(r)
    BY <1>19
  <2>2. r.since \in Nat
    BY <1>1 DEF WireType
  <2>3. CASE Load(r)
    <3>1. PICK head, page \in r.since .. Len(log) : LoadInitial(head, page)
      BY <2>3 DEF Load
    <3>2. head \in 0 .. Len(log) /\ page \in 0 .. Len(log)
      BY <1>1, <2>2
    <3>3. LoadedSeq(head, page) \in Nat /\ LoadedSeq(head, page) <= head
      BY <3>2, LoadedSeqIs
    <3>4. lastSeq' \in 0 .. Len(log)
      BY <1>1, <3>1, <3>2, <3>3 DEF LoadInitial
    <3>. QED
      BY <1>14, <2>3, <3>4
  <2>4. CASE Hydrate(r)
    <3>1. PICK head \in r.since .. Len(log), body \in r.since .. Len(log) :
            HydrateWatched(head, body) \/ HydratePreview(head, body)
      BY <1>1, <2>2, <2>4 DEF Hydrate
    <3>2. lastSeq' \in 0 .. Len(log)
      BY <1>1, <2>2, <3>1 DEF HydrateWatched, HydratePreview
    <3>. QED
      BY <1>14, <2>4, <3>2
  <2>. QED
    BY <2>1, <2>3, <2>4
<1>. QED
  BY <1>3, <1>5, <1>6, <1>7, <1>8, <1>9, <1>10, <1>11, <1>12, <1>13, <1>15,
     <1>16, <1>17, <1>18, <1>19 DEF Next, Receive, Committed

-----------------------------------------------------------------------------
(* Every step keeps the cache.                                             *)
LEMMA CacheStep ==
  ASSUME ClientAssumption, ClientInv, Next
  PROVE  CacheInv'
<1>. USE DEF ClientInv
<1>1. /\ WireType /\ CacheInv /\ Len(log) \in Nat
      /\ lastSeq \in Nat /\ suspect \in BOOLEAN
  BY DEF CacheInv, WireType, CacheType
<1>2. ASSUME UNCHANGED <<log, cache>> PROVE CacheInv'
  BY <1>1, <1>2, FrameCache DEF cache
<1>3. ASSUME NEW ev, Commits(ev), UNCHANGED cache PROVE CacheInv'
  BY <1>1, <1>3, CommitCache
<1>4. CASE CommitOther
  <2>1. PICK ev \in Event : log' = Append(log, ev)
    BY <1>4 DEF CommitOther
  <2>. QED
    BY <1>3, <1>4, <2>1 DEF CommitOther, Commits
<1>6. CASE \E o \in Own : CommitOwn(o)
  <2>1. PICK o \in Own : CommitOwn(o)
    BY <1>6
  <2>2. [e |-> o, gone |-> FALSE] \in Event
    BY EntityIs DEF Event
  <2>. QED
    BY <1>3, <2>1, <2>2 DEF CommitOwn, Commits
<1>7. CASE Prune \/ Subscribe \/ Deliver \/ Hello \/ Drop
  BY <1>2, <1>7 DEF Prune, Subscribe, Deliver, Hello, Drop, server, cache
<1>8. CASE HandleResync \/ Unwatch
  BY <1>2, <1>8 DEF HandleResync, Unwatch, server, cache
<1>9. CASE \E call \in Call : Ask(call)
  <2>1. PICK call \in Call : Ask(call)
    BY <1>9
  <2>. QED
    BY <1>2, <2>1 DEF Ask, server
<1>10. CASE HandleEvent
  <2>1. Head(down) \in Committed
    BY <1>1, <1>10 DEF HandleEvent, WireType, Committed
  <2>. QED
    BY <1>1, <1>10, <2>1, ApplyCache DEF HandleEvent, server
<1>11. CASE \E r \in requests : Load(r)
  <2>1. PICK r \in requests : Load(r)
    BY <1>11
  <2>2. PICK head, page \in r.since .. Len(log) : LoadInitial(head, page)
    BY <2>1 DEF Load
  <2>3. r.since \in Nat /\ log' = log
    BY <2>1 DEF WireType, Load, server
  <2>4. head \in 0 .. Len(log) /\ page \in 0 .. Len(log)
    BY <1>1, <2>3
  <2>. QED
    BY <1>1, <2>2, <2>3, <2>4, LoadCache
<1>12. CASE \E r \in requests : Hydrate(r)
  <2>1. PICK r \in requests : Hydrate(r)
    BY <1>12
  <2>2. PICK head \in r.since .. Len(log), body \in r.since .. Len(log) :
          head <= body /\ (HydrateWatched(head, body) \/ HydratePreview(head, body))
    <3>1. r.since \in Nat
      BY <1>1, <2>1 DEF WireType
    <3>. QED
      BY <1>1, <2>1, <3>1 DEF Hydrate
  <2>3. r.since \in Nat /\ log' = log
    BY <2>1 DEF WireType, Hydrate, server
  <2>4. head \in 0 .. Len(log) /\ body \in head .. Len(log)
    BY <1>1, <2>2, <2>3
  <2>. QED
    BY <1>1, <2>2, <2>3, <2>4, PreviewCache, WatchedCache
<1>13. CASE \E r \in requests : RequestFails(r)
  <2>1. PICK r \in requests : RequestFails(r)
    BY <1>13
  <2>2. suspect' \in BOOLEAN /\ (suspect => suspect')
    BY <2>1, Zenon DEF RequestFails
  <2>. QED
    BY <1>1, <2>1, <2>2, FrameCache DEF RequestFails, server
<1>14. CASE \E s \in Committed : ReadArrives(s)
  BY <1>1, <1>14, ReadsCache
<1>15. CASE \E o \in Own : SendMessage(o) \/ SendFails(o)
  <2>1. PICK o \in Own : SendMessage(o) \/ SendFails(o)
    BY <1>15
  <2>. QED
    BY <1>2, <2>1 DEF SendMessage, SendFails, server
<1>16. CASE \E o \in Own : SendAnswered(o)
  <2>1. PICK o \in Own : SendAnswered(o)
    BY <1>16
  <2>2. PICK i \in Committed : log[i].e = o
    BY <2>1 DEF SendInv, Stored, SendAnswered
  <2>3. SeqOf(o) \in Committed
    BY <1>1, <2>2, EntityIs, SeqOfIs
  <2>. QED
    BY <1>1, <2>1, <2>3, ApplyCache DEF SendAnswered, server
<1>. QED
  BY <1>4, <1>6, <1>7, <1>8, <1>9, <1>10, <1>11, <1>12, <1>13, <1>14, <1>15,
     <1>16 DEF Next, Receive, Committed

-----------------------------------------------------------------------------
(* Sends.                                                                  *)
LEMMA CommitSends ==
  ASSUME WireType, CacheType, SendInv, NEW ev, Commits(ev),
         UNCHANGED <<view, outbox>>, post' \in [Own -> {"none", "sent", "stored", "abandoned", "over"}],
         \A o \in Own : /\ ev.e = o => post'[o] \in {"stored", "over"}
                        /\ post'[o] = post[o] \/ ev.e = o
  PROVE  SendInv'
<1>1. /\ Len(log') = Len(log) + 1 /\ Len(log) \in Nat
      /\ \A i \in Committed : log'[i] = log[i]
      /\ log'[Len(log) + 1] = ev
  BY Appended
<1>2. Committed' = Committed \cup {Len(log) + 1}
  BY <1>1 DEF Committed
<1>3. SendType'
  BY DEF SendInv, SendType
<1>4. Unsent'
  BY DEF SendInv, Unsent
<1>5. NotStored'
  BY <1>1, <1>2 DEF SendInv, NotStored
<1>6. ASSUME NEW o \in Own, post'[o] = "stored" PROVE \E i \in Committed' : log'[i].e = o
  <2>1. CASE ev.e = o
    BY <1>1, <1>2, <2>1
  <2>2. CASE post[o] = "stored"
    BY <1>1, <1>2, <2>2 DEF SendInv, Stored
  <2>. QED
    BY <1>6, <2>1, <2>2
<1>7. ASSUME NEW o \in Own, outbox[o] # "none" PROVE view[o] = 0 \/ log'[view[o]].gone
  <2>1. view[o] \in 0 .. Len(log)
    BY EntityIs DEF CacheType
  <2>2. view[o] = 0 \/ log[view[o]].gone
    BY <1>7 DEF SendInv, ShownOnce
  <2>. QED
    BY <1>1, <2>1, <2>2 DEF Committed
<1>8. ShownOnce'
  BY <1>7 DEF ShownOnce
<1>. QED
  BY <1>3, <1>4, <1>5, <1>6, <1>8 DEF SendInv, Stored

(* A step that confirms sends, or none, and leaves the POSTs alone.        *)
LEMMA FrameSends ==
  ASSUME SendInv, UNCHANGED <<log, post>>, NEW ms, outbox' = Confirmed(ms) \/ outbox' = outbox,
         \A o \in Own : \/ view'[o] \in {view[o], 0}
                        \/ log[view'[o]].gone
                        \/ o \in ms /\ outbox' = Confirmed(ms)
  PROVE  SendInv'
<1>1. /\ outbox' \in [Own -> {"none", "sending", "failed"}]
      /\ \A o \in Own : /\ outbox'[o] # "none" => outbox[o] # "none"
                        /\ o \in ms /\ outbox' = Confirmed(ms) => outbox'[o] = "none"
  BY DEF SendInv, SendType, Confirmed
<1>2. SendType' /\ Unsent' /\ NotStored' /\ Stored'
  BY <1>1 DEF SendInv, SendType, Unsent, NotStored, Stored, Committed
<1>3. ShownOnce'
  BY <1>1 DEF SendInv, ShownOnce
<1>. QED
  BY <1>2, <1>3 DEF SendInv

LEMMA SendsStep ==
  ASSUME ClientAssumption, ClientInv, Next
  PROVE  SendInv'
<1>. USE DEF ClientInv
<1>1. Len(log) \in Nat /\ Own \subseteq Entity /\ Read \notin Own /\ Own \subseteq Message
  BY EntityIs DEF WireType, ClientAssumption
<1>2. post \in [Own -> {"none", "sent", "stored", "abandoned", "over"}]
  BY DEF SendInv, SendType
<1>3. ASSUME UNCHANGED <<log, post, view, outbox>> PROVE SendInv'
  BY <1>3, FrameSends
<1>4. CASE CommitOther
  <2>1. PICK ev \in Event : /\ log' = Append(log, ev)
                            /\ ev.e \in Own => Changes(ev.e, Len(log)) # {}
    BY <1>4 DEF CommitOther
  <2>2. \A o \in Own : ev.e = o => post[o] \in {"stored", "over"}
    BY <1>2, <2>1 DEF Changes, Committed, SendInv, NotStored
  <2>. QED
    BY <1>2, <1>4, <2>1, <2>2, CommitSends DEF CommitOther, Commits, cache
<1>6. CASE \E o \in Own : CommitOwn(o)
  <2>1. PICK o \in Own : CommitOwn(o)
    BY <1>6
  <2>. DEFINE ev == [e |-> o, gone |-> FALSE]
  <2>2. ev \in Event /\ ev.e = o /\ log' = Append(log, ev)
    BY <2>1, EntityIs DEF Event, CommitOwn
  <2>3. /\ post' = [post EXCEPT ![o] = IF @ = "sent" THEN "stored" ELSE "over"]
        /\ UNCHANGED <<view, outbox>>
    BY <2>1 DEF CommitOwn, cache
  <2>. HIDE DEF ev
  <2>. QED
    BY <1>2, <2>2, <2>3, CommitSends DEF Commits
<1>7. CASE Prune \/ Subscribe \/ Deliver \/ Hello \/ Drop
  BY <1>3, <1>7 DEF Prune, Subscribe, Deliver, Hello, Drop, server, cache
<1>8. CASE HandleResync \/ Unwatch
  BY <1>3, <1>8 DEF HandleResync, Unwatch, server, cache
<1>9. CASE \E call \in Call : Ask(call)
  <2>1. PICK call \in Call : Ask(call)
    BY <1>9
  <2>. QED
    BY <1>3, <2>1 DEF Ask, server, cache
<1>10. CASE \E r \in requests : RequestFails(r)
  <2>1. PICK r \in requests : RequestFails(r)
    BY <1>10
  <2>. QED
    BY <1>3, <2>1 DEF RequestFails, server
<1>11. CASE \E s \in Committed : ReadArrives(s)
  <2>1. PICK s \in Committed : ReadArrives(s)
    BY <1>11
  <2>2. \A o \in Own : view'[o] = view[o]
    BY <1>1, <2>1 DEF ReadArrives, CacheType
  <2>. QED
    BY <2>1, <2>2, FrameSends DEF ReadArrives, server
<1>12. CASE HandleEvent
  <2>. DEFINE s == Head(down)
              ms == IF log[s].gone THEN {} ELSE {log[s].e}
  <2>1. s \in Committed
    BY <1>1, <1>12 DEF HandleEvent, WireType, Committed
  <2>2. log[s].gone \in BOOLEAN /\ log[s].e \in Entity
    BY <2>1, LogEvent
  <2>3. outbox' = Confirmed(ms) /\ view' = [view EXCEPT ![log[s].e] = s]
        /\ UNCHANGED <<log, post>>
    BY <1>12 DEF HandleEvent, ApplyEvent, server
  <2>4. \A o \in Own : \/ view'[o] = view[o]
                       \/ log[view'[o]].gone
                       \/ o \in ms
    BY <1>1, <2>2, <2>3 DEF CacheType
  <2>. HIDE DEF ms
  <2>. QED
    BY <2>3, <2>4, FrameSends
<1>13. CASE \E r \in requests : Load(r)
  <2>1. PICK r \in requests : Load(r)
    BY <1>13
  <2>2. PICK head, page \in r.since .. Len(log) : LoadInitial(head, page)
    BY <2>1 DEF Load
  <2>3. \A o \in Own : view'[o] = 0 \/ o \in LiveAt(page)
    BY <1>1, <2>2 DEF LoadInitial, ClientAssumption
  <2>4. outbox' = Confirmed(LiveAt(page)) /\ UNCHANGED <<log, post>>
    BY <2>1, <2>2 DEF LoadInitial, Load, server
  <2>. QED
    BY <2>3, <2>4, FrameSends
<1>14. CASE \E r \in requests : Hydrate(r)
  <2>1. PICK r \in requests : Hydrate(r)
    BY <1>14
  <2>5. PICK head \in r.since .. Len(log) : \E body \in head .. Len(log) :
          /\ HydrateWatched(head, body) \/ HydratePreview(head, body)
          /\ outbox' = Confirmed(Latest(body))
    BY <2>1 DEF Hydrate
  <2>2. PICK body \in head .. Len(log) :
          /\ HydrateWatched(head, body) \/ HydratePreview(head, body)
          /\ outbox' = Confirmed(Latest(body))
    BY <2>5
  <2>3. \A o \in Own : view'[o] \in {view[o], 0} \/ o \in Latest(body)
    BY <1>1, <2>2 DEF HydrateWatched, HydratePreview, ClientAssumption
  <2>4. UNCHANGED <<log, post>>
    BY <2>1 DEF Hydrate, server
  <2>. QED
    BY <2>2, <2>3, <2>4, FrameSends
<1>15. CASE \E o \in Own : SendMessage(o)
  <2>1. PICK o \in Own : SendMessage(o)
    BY <1>15
  <2>2. /\ post[o] = "none" /\ post' = [post EXCEPT ![o] = "sent"]
        /\ outbox' = [outbox EXCEPT ![o] = "sending"]
        /\ UNCHANGED <<log, view>>
    BY <2>1 DEF SendMessage, server, cache
  <2>3. \A i \in Committed : log[i].e # o
    BY <2>2 DEF SendInv, NotStored
  <2>4. view[o] = 0
    BY <1>1, <2>3 DEF CacheType, ViewReal, Committed
  <2>5. SendType' /\ Unsent' /\ NotStored' /\ Stored'
    BY <2>2, <2>3 DEF SendInv, SendType, Unsent, NotStored, Stored, Committed
  <2>6. ShownOnce'
    BY <2>2, <2>4 DEF SendInv, SendType, ShownOnce
  <2>. QED
    BY <2>5, <2>6 DEF SendInv
<1>16. CASE \E o \in Own : SendFails(o)
  <2>1. PICK o \in Own : SendFails(o)
    BY <1>16
  <2>2. /\ post[o] \in {"sent", "stored"}
        /\ post' = [post EXCEPT ![o] = IF @ = "sent" THEN "abandoned" ELSE "over"]
        /\ outbox' = [outbox EXCEPT ![o] = IF @ = "none" THEN @ ELSE "failed"]
        /\ UNCHANGED <<log, view>>
    BY <2>1 DEF SendFails, server, cache
  <2>3. SendType' /\ Unsent' /\ NotStored' /\ Stored'
    BY <2>2 DEF SendInv, SendType, Unsent, NotStored, Stored, Committed
  <2>4. ShownOnce'
    BY <2>2 DEF SendInv, SendType, ShownOnce
  <2>. QED
    BY <2>3, <2>4 DEF SendInv
<1>17. CASE \E o \in Own : SendAnswered(o)
  <2>1. PICK o \in Own : SendAnswered(o)
    BY <1>17
  <2>2. /\ post[o] = "stored" /\ post' = [post EXCEPT ![o] = "over"]
        /\ outbox' = Confirmed({o}) /\ log' = log
        /\ view' = [view EXCEPT ![log[SeqOf(o)].e] = SeqOf(o)]
    BY <2>1 DEF SendAnswered, ApplyEvent, server
  <2>3. PICK i \in Committed : log[i].e = o
    BY <2>2 DEF SendInv, Stored
  <2>4. log[SeqOf(o)].e = o
    BY <1>1, <2>3, SeqOfIs
  <2>5. /\ outbox' \in [Own -> {"none", "sending", "failed"}] /\ outbox'[o] = "none"
        /\ \A m \in Own \ {o} : outbox'[m] = outbox[m] /\ view'[m] = view[m]
    BY <1>1, <2>2, <2>4 DEF SendInv, SendType, Confirmed, CacheType
  <2>8. /\ post' \in [Own -> {"none", "sent", "stored", "abandoned", "over"}]
        /\ post'[o] = "over" /\ \A m \in Own \ {o} : post'[m] = post[m]
    BY <1>2, <2>2
  <2>9. SendType' /\ Unsent'
    BY <2>5, <2>8 DEF SendInv, SendType, Unsent
  <2>10. NotStored' /\ Stored'
    BY <2>2, <2>8 DEF SendInv, NotStored, Stored, Committed
  <2>6. SendType' /\ Unsent' /\ NotStored' /\ Stored'
    BY <2>9, <2>10
  <2>7. ShownOnce'
    BY <2>2, <2>5 DEF SendInv, ShownOnce
  <2>. QED
    BY <2>6, <2>7 DEF SendInv
<1>. QED
  BY <1>4, <1>6, <1>7, <1>8, <1>9, <1>10, <1>11, <1>12, <1>13, <1>14, <1>15,
     <1>16, <1>17 DEF Next, Receive, Committed

-----------------------------------------------------------------------------
(* Where the missing events are.                                           *)
LEMMA UpTo ==
  ASSUME NEW a \in Nat, NEW b \in Nat, NEW c \in Nat, a <= b, c >= b
  PROVE  a <= c
OBVIOUS

LEMMA NextTo ==
  ASSUME NEW a \in Nat, NEW b \in Nat, NEW c \in Nat, a <= b + 1, c >= b
  PROVE  a <= c + 1
OBVIOUS

LEMMA FrameFollows ==
  ASSUME WireType, CacheType, Follows, UNCHANGED <<up, down, feed>>,
         Awake' => Awake, lastSeq' \in Nat, lastSeq' >= lastSeq,
         Len(log') \in Nat, Len(log') >= Len(log),
         \A r \in requests : r.call = "resync" => r \in requests'
  PROVE  Follows'
<1>1. /\ Len(log) \in Nat /\ lastSeq \in Nat /\ feed \in Nat
      /\ up \in Seq(0 .. Len(log)) /\ down \in Seq(0 .. Len(log))
  BY DEF WireType, CacheType
<1>2. SUFFICES ASSUME Awake, Awake' PROVE IF up # <<>> THEN Resuming' ELSE Resyncing' \/ Flowing'
  BY DEF Follows
<1>3. CASE up # <<>>
  <2>1. Resuming
    BY <1>2, <1>3 DEF Follows
  <2>2. up[Len(up)] \in Nat
    BY <1>1, <1>3
  <2>. QED
    BY <1>1, <1>3, <2>1, <2>2 DEF Resuming
<1>4. CASE up = <<>> /\ Resyncing
  BY <1>4 DEF Resyncing
<1>5. CASE up = <<>> /\ Flowing
  <2>1. PICK j \in 1 .. Len(down) + 1, a \in 1 .. feed :
          Run(j, a) /\ (a <= lastSeq + 1 \/ a <= Len(log))
    BY <1>5 DEF Flowing
  <2>2. down' = down /\ feed' = feed
    OBVIOUS
  <2>3. a <= lastSeq' + 1 \/ a <= Len(log')
    <3>1. a \in Nat
      BY <1>1, <2>1
    <3>2. CASE a <= lastSeq + 1
      BY <1>1, <3>1, <3>2, NextTo, Zenon
    <3>3. CASE a <= Len(log)
      BY <1>1, <3>1, <3>3, UpTo, Zenon
    <3>. QED
      BY <2>1, <3>2, <3>3
  <2>4. Flowing'
    BY <2>1, <2>2, <2>3 DEF Flowing, Run
  <2>. QED
    BY <1>5, <2>4
<1>. QED
  BY <1>2, <1>3, <1>4, <1>5 DEF Follows

LEMMA OneLeft ==
  ASSUME NEW S, NEW q \in Seq(S), q # <<>>
  PROVE  /\ Tail(q) = <<>> => Len(q) = 1
         /\ Head(q) = q[1] /\ q[1] \in S
<1>1. Len(Tail(q)) = Len(q) - 1 /\ Len(q) \in Nat /\ Len(<<>>) = 0
  BY HeadTailProperties, EmptySeq
<1>2. Tail(q) = <<>> => Len(Tail(q)) = 0
  BY <1>1, Zenon
<1>3. \A n \in Nat : n - 1 = 0 => n = 1
  OBVIOUS
<1>4. Head(q) = q[1] /\ q[1] \in S
  OBVIOUS
<1>. QED
  BY <1>1, <1>2, <1>3, <1>4, Zenon

LEMMA SubscribeFollows ==
  ASSUME WireType, SparesNewest, CacheType, Follows, Subscribe
  PROVE  Follows'
<1>1. /\ Len(log) \in Nat /\ lastSeq \in Nat /\ feed \in Nat /\ floor \in Nat
      /\ up \in Seq(0 .. Len(log)) /\ down \in Seq(0 .. Len(log))
      /\ floor <= Len(log)
  BY DEF WireType, CacheType
<1>2. /\ up # <<>> /\ up' = Tail(up)
      /\ UNCHANGED <<log, connected, requests, watching, lastSeq, suspect>>
  BY DEF Subscribe, cache
<1>3. Awake' => Awake
  BY <1>2 DEF Awake
<1>4. SUFFICES ASSUME Awake
      PROVE  (up' # <<>> => Resuming') /\ (up' = <<>> => Resyncing' \/ Flowing')
  BY <1>3 DEF Follows
<1>5. up[Len(up)] <= lastSeq
  BY <1>2, <1>4 DEF Follows, Resuming
<1>6. CASE up' # <<>>
  <2>1. /\ Len(up') = Len(up) - 1 /\ Len(up') >= 1 /\ Len(up) \in Nat
        /\ up'[Len(up')] = up[Len(up') + 1]
    BY <1>1, <1>2, <1>6
  <2>2. up'[Len(up')] = up[Len(up)]
    BY <2>1
  <2>3. up'[Len(up')] <= lastSeq'
    BY <1>2, <1>5, <2>2
  <2>4. Resuming'
    BY <2>3 DEF Resuming
  <2>. QED
    BY <1>6, <2>4
<1>7. CASE up' = <<>>
  <2>1. Len(up) = 1 /\ Head(up) \in Nat /\ Head(up) <= lastSeq /\ Head(up) <= Len(log)
    <3>2. Len(up) = 1 /\ Head(up) = up[1] /\ up[1] \in 0 .. Len(log)
      BY <1>1, <1>2, <1>7, OneLeft
    <3>. QED
      BY <1>1, <1>5, <3>2
  <2>2. CASE down' = Append(down, 0)
    <3>1. Len(down) + 1 \in 1 .. Len(down') /\ down'[Len(down) + 1] = 0
      BY <1>1, <2>2
    <3>. QED
      BY <1>7, <3>1 DEF Resyncing
  <2>3. CASE feed' = Max({Head(up), floor}) + 1 /\ down' = down
    <3>1. Max({Head(up), floor}) \in {Head(up), floor}
      BY <1>1, <2>1, MaxOfTwo
    <3>5. PICK a \in Nat : a = Max({Head(up), floor}) + 1
      BY <1>1, <2>1, <3>1
    <3>2. a \in 1 .. a /\ (a <= lastSeq + 1 \/ a <= Len(log))
      <4>1. CASE a = Head(up) + 1
        BY <1>1, <2>1, <4>1
      <4>2. CASE a = floor + 1 /\ floor > 0
        BY <1>1, <2>1, <4>2 DEF SparesNewest
      <4>3. CASE a = floor + 1 /\ floor = 0
        BY <1>1, <2>1, <4>3
      <4>. QED
        BY <1>1, <3>1, <3>5, <4>1, <4>2, <4>3
    <3>3. feed' = a /\ Len(down) + 1 \in 1 .. Len(down') + 1
          /\ feed' = a + (Len(down') + 1 - (Len(down) + 1))
          /\ (Len(down) + 1) .. Len(down') = {}
      BY <1>1, <2>3, <3>5
    <3>4. Flowing'
      BY <1>1, <1>2, <2>3, <3>2, <3>3 DEF Flowing, Run
    <3>. QED
      BY <1>7, <3>4
  <2>. QED
    BY <2>2, <2>3 DEF Subscribe
<1>. QED
  BY <1>6, <1>7

LEMMA DeliverFollows ==
  ASSUME WireType, CacheType, Follows, Deliver
  PROVE  Follows'
<1>1. /\ Len(log) \in Nat /\ lastSeq \in Nat /\ feed \in Nat
      /\ down \in Seq(0 .. Len(log))
  BY DEF WireType, CacheType
<1>2. /\ feed \in 1 .. Len(log) /\ down' = Append(down, feed) /\ feed' = feed + 1
      /\ UNCHANGED <<log, connected, up, requests, watching, lastSeq, suspect>>
  BY DEF Deliver, cache
<1>3. /\ Len(down') = Len(down) + 1 /\ down'[Len(down) + 1] = feed
      /\ \A i \in 1 .. Len(down) : down'[i] = down[i]
  BY <1>1, <1>2
<1>4. SUFFICES ASSUME Awake PROVE IF up # <<>> THEN Resuming' ELSE Resyncing' \/ Flowing'
  BY <1>2 DEF Follows, Awake
<1>5. CASE up # <<>>
  BY <1>2, <1>4, <1>5 DEF Follows, Resuming
<1>6. CASE up = <<>> /\ Resyncing
  BY <1>1, <1>2, <1>3, <1>6 DEF Resyncing
<1>7. CASE up = <<>> /\ Flowing
  <2>1. PICK j \in 1 .. Len(down) + 1, a \in 1 .. feed :
          Run(j, a) /\ (a <= lastSeq + 1 \/ a <= Len(log))
    BY <1>7 DEF Flowing
  <2>2. j \in 1 .. Len(down') + 1 /\ a \in 1 .. feed'
    BY <1>1, <1>2, <1>3, <2>1
  <2>3. feed' = a + (Len(down') + 1 - j)
    BY <1>1, <1>2, <1>3, <2>1 DEF Run
  <2>4. ASSUME NEW i \in j .. Len(down') PROVE down'[i] = a + (i - j)
    <3>1. CASE i = Len(down) + 1
      BY <1>1, <1>3, <2>1, <3>1 DEF Run
    <3>2. CASE i # Len(down) + 1
      BY <1>1, <1>3, <2>1, <3>2 DEF Run
    <3>. QED
      BY <3>1, <3>2
  <2>5. Flowing'
    BY <1>2, <2>1, <2>2, <2>3, <2>4 DEF Flowing, Run
  <2>. QED
    BY <1>7, <2>5
<1>. QED
  BY <1>2, <1>4, <1>5, <1>6, <1>7 DEF Follows

LEMMA HandleFollows ==
  ASSUME WireType, CacheType, Follows, HandleEvent
  PROVE  Follows'
<1>. DEFINE s == Head(down)
<1>1. /\ Len(log) \in Nat /\ lastSeq \in Nat /\ feed \in Nat
      /\ up \in Seq(0 .. Len(log)) /\ down \in Seq(0 .. Len(log))
  BY DEF WireType, CacheType
<1>2. /\ down # <<>> /\ s > 0 /\ down' = Tail(down) /\ ApplyEvent(s)
      /\ UNCHANGED <<log, feed, connected, up, requests, watching>>
  BY DEF HandleEvent, server
<1>3. /\ s \in Committed /\ s = down[1] /\ Len(down') = Len(down) - 1 /\ Len(down) >= 1
      /\ Len(down) \in Nat
      /\ \A i \in 1 .. Len(down') : down'[i] = down[i + 1]
  BY <1>1, <1>2 DEF Committed
<1>4. /\ lastSeq' \in Nat /\ lastSeq' >= lastSeq /\ lastSeq' >= s
      /\ ~suspect' => ~suspect
  <2>1. /\ lastSeq' \in {lastSeq, s} /\ lastSeq' >= lastSeq /\ lastSeq' >= s
        /\ ~suspect' => ~suspect
    BY <1>2, <1>3, Watermark
  <2>. QED
    BY <1>1, <1>3, <2>1 DEF Committed
<1>5. SUFFICES ASSUME Awake, Awake' PROVE IF up # <<>> THEN Resuming' ELSE Resyncing' \/ Flowing'
  BY <1>2, <1>4 DEF Follows, Awake
<1>6. CASE up # <<>>
  <2>1. up[Len(up)] <= lastSeq /\ up[Len(up)] \in Nat
    BY <1>1, <1>5, <1>6 DEF Follows, Resuming
  <2>. QED
    BY <1>1, <1>2, <1>4, <1>6, <2>1 DEF Resuming
<1>7. CASE up = <<>> /\ Resyncing
  <2>1. CASE \E r \in requests : r.call = "resync"
    BY <1>2, <1>7, <2>1 DEF Resyncing
  <2>2. CASE \E i \in 1 .. Len(down) : down[i] = 0
    <3>1. PICK i \in 1 .. Len(down) : down[i] = 0
      BY <2>2
    <3>2. i - 1 \in 1 .. Len(down') /\ down'[i - 1] = 0
      BY <1>2, <1>3, <3>1
    <3>. QED
      BY <1>7, <3>2 DEF Resyncing
  <2>. QED
    BY <1>7, <2>1, <2>2 DEF Resyncing
<1>8. CASE up = <<>> /\ Flowing
  <2>1. PICK j \in 1 .. Len(down) + 1, a \in 1 .. feed :
          Run(j, a) /\ (a <= lastSeq + 1 \/ a <= Len(log))
    BY <1>8 DEF Flowing
  <2>2. CASE j > 1
    <3>1. j - 1 \in 1 .. Len(down') + 1 /\ feed = a + (Len(down') + 1 - (j - 1))
      BY <1>1, <1>3, <2>1, <2>2 DEF Run
    <3>2. ASSUME NEW i \in (j - 1) .. Len(down') PROVE down'[i] = a + (i - (j - 1))
      <4>1. i + 1 \in j .. Len(down) /\ i \in 1 .. Len(down')
        BY <1>3, <2>1, <2>2
      <4>2. down[i + 1] = a + (i + 1 - j)
        BY <2>1, <4>1 DEF Run
      <4>. QED
        BY <1>3, <2>1, <4>1, <4>2
    <3>4. a <= lastSeq' + 1 \/ a <= Len(log)
      <4>1. a \in Nat
        BY <1>1, <2>1
      <4>2. CASE a <= lastSeq + 1
        BY <1>1, <1>4, <4>1, <4>2, NextTo, Zenon
      <4>. QED
        BY <2>1, <4>2
    <3>5. Flowing'
      BY <1>2, <2>1, <3>1, <3>2, <3>4 DEF Flowing, Run
    <3>. QED
      BY <1>8, <3>5
  <2>3. CASE j = 1
    <3>1. a = s /\ feed = a + Len(down) /\ a \in Nat
      BY <1>1, <1>3, <2>1, <2>3 DEF Run
    <3>2. /\ a + 1 \in 1 .. feed /\ 1 \in 1 .. Len(down') + 1
          /\ feed = (a + 1) + (Len(down') + 1 - 1)
          /\ a + 1 <= lastSeq' + 1
      <4>1. a + 1 \in 1 .. feed
        BY <1>3, <3>1
      <4>2. \A n \in Nat : n >= 1 =>
              1 \in 1 .. (n - 1) + 1 /\ a + n = (a + 1) + ((n - 1) + 1 - 1)
        BY <3>1
      <4>3. \A c \in Nat : c >= a => a + 1 <= c + 1
        BY <3>1
      <4>4. lastSeq' >= a
        BY <1>4, <3>1, Zenon
      <4>. QED
        BY <1>3, <1>4, <3>1, <4>1, <4>2, <4>3, <4>4, Zenon
    <3>3. ASSUME NEW i \in 1 .. Len(down') PROVE down'[i] = (a + 1) + (i - 1)
      <4>1. i + 1 \in 1 .. Len(down) /\ i \in Nat
        BY <1>3
      <4>2. down[i + 1] = a + (i + 1 - 1)
        BY <2>1, <2>3, <4>1 DEF Run
      <4>. QED
        BY <1>3, <3>1, <4>1, <4>2
    <3>5. Flowing'
      BY <1>2, <3>2, <3>3 DEF Flowing, Run
    <3>. QED
      BY <1>8, <3>5
  <2>. QED
    BY <1>3, <2>1, <2>2, <2>3
<1>. QED
  BY <1>2, <1>5, <1>6, <1>7, <1>8 DEF Follows

(* A subscribe frame that asks from the watermark on is the last one.      *)
LEMMA AskedFollows ==
  ASSUME WireType, lastSeq' \in Nat, Awake' => up' = Append(up, lastSeq')
  PROVE  Follows'
<1>1. up \in Seq(0 .. Len(log))
  BY DEF WireType
<1>2. ASSUME Awake' PROVE up' # <<>> /\ Resuming'
  BY <1>1, <1>2 DEF Resuming
<1>. QED
  BY <1>2 DEF Follows

LEMMA FollowsStep ==
  ASSUME ClientAssumption, ClientInv, WireType', CacheInv', Next
  PROVE  Follows'
<1>. USE DEF ClientInv
<1>1. /\ Len(log) \in Nat /\ Len(log') \in Nat /\ lastSeq \in Nat /\ lastSeq' \in Nat
      /\ CacheInv
  <2>1. Len(log) \in Nat /\ lastSeq \in Nat
    BY DEF WireType, CacheType
  <2>2. Len(log') \in Nat
    BY DEF WireType
  <2>3. lastSeq' \in Nat
    BY <2>2 DEF CacheInv, CacheType
  <2>4. CacheInv
    BY DEF CacheInv
  <2>. QED
    BY <2>1, <2>2, <2>3, <2>4
<1>2. ASSUME UNCHANGED <<wires, feed, watching, lastSeq, requests>>, Len(log') >= Len(log),
             suspect => suspect'
      PROVE  Follows'
  <2>1. Awake' => Awake
    BY <1>2 DEF Awake, wires
  <2>. QED
    BY <1>1, <1>2, <2>1, FrameFollows DEF wires
<1>3. CASE CommitOther
  <2>1. PICK ev \in Event : log' = Append(log, ev)
    BY <1>3 DEF CommitOther
  <2>2. Len(log') >= Len(log)
    BY <1>1, <2>1, Appended DEF Commits
  <2>. QED
    BY <1>2, <1>3, <2>2 DEF CommitOther, cache
<1>5. CASE \E o \in Own : CommitOwn(o)
  <2>1. PICK o \in Own : CommitOwn(o)
    BY <1>5
  <2>2. [e |-> o, gone |-> FALSE] \in Event
    BY EntityIs DEF Event
  <2>3. Len(log') >= Len(log)
    BY <1>1, <2>1, <2>2, Appended DEF Commits, CommitOwn
  <2>. QED
    BY <1>2, <2>1, <2>3 DEF CommitOwn, cache
<1>6. CASE Prune
  BY <1>1, <1>2, <1>6 DEF Prune, cache
<1>7. CASE Subscribe
  BY <1>7, SubscribeFollows
<1>8. CASE Deliver
  BY <1>8, DeliverFollows
<1>9. CASE Hello
  <2>1. ASSUME Awake' PROVE up' = <<lastSeq>> /\ lastSeq' = lastSeq
    BY <1>9, <2>1 DEF Hello, Awake, cache
  <2>2. ASSUME Awake' PROVE up' # <<>> /\ Resuming'
    <3>1. Len(up') = 1 /\ up'[1] = lastSeq /\ up' # <<>>
      BY <2>1, <2>2
    <3>. QED
      BY <1>1, <2>1, <2>2, <3>1 DEF Resuming
  <2>. QED
    BY <2>2 DEF Follows
<1>10. CASE Drop \/ Unwatch
  <2>1. ~Awake'
    BY <1>10, Zenon DEF Drop, Unwatch, Awake
  <2>. QED
    BY <2>1 DEF Follows
<1>11. CASE HandleEvent
  BY <1>11, HandleFollows
<1>12. CASE HandleResync
  <2>1. /\ UNCHANGED <<log, feed, connected, up, watching, lastSeq, suspect>>
        /\ [call |-> "resync", since |-> Len(log)] \in requests'
    BY <1>12 DEF HandleResync, server, cache
  <2>2. Resyncing'
    BY <2>1 DEF Resyncing
  <2>3. (Awake' => Awake) /\ (up # <<>> /\ Resuming => Resuming')
    BY <2>1 DEF Awake, Resuming
  <2>. QED
    BY <2>1, <2>2, <2>3 DEF Follows
<1>13. CASE \E call \in Call : Ask(call)
  <2>1. PICK call \in Call : Ask(call)
    BY <1>13
  <2>2. Awake' => Awake
    BY <2>1 DEF Ask, Awake, wires, cache
  <2>. QED
    BY <1>1, <2>1, <2>2, FrameFollows DEF Ask, server, wires, cache
<1>14. CASE \E r \in requests : Load(r)
  <2>1. PICK r \in requests : Load(r)
    BY <1>14
  <2>2. Awake' => up' = Append(up, lastSeq')
    BY <2>1, Zenon DEF Load, SubscribeFrom, Awake
  <2>. QED
    BY <1>1, <2>2, AskedFollows
<1>15. CASE \E r \in requests : Hydrate(r)
  <2>1. PICK r \in requests : Hydrate(r)
    BY <1>15
  <2>2. CASE r.call = "hydrateAndWatch"
    <3>1. Awake' => up' = Append(up, lastSeq')
      BY <2>1, <2>2, Zenon DEF Hydrate, SubscribeFrom, Awake
    <3>. QED
      BY <1>1, <3>1, AskedFollows
  <2>3. CASE r.call # "hydrateAndWatch" /\ watching
    <3>1. PICK head \in r.since .. Len(log) : \E body \in head .. Len(log) :
            HydrateWatched(head, body)
      BY <2>1, <2>3 DEF Hydrate
    <3>2. lastSeq' = lastSeq /\ (suspect => suspect')
      BY <3>1, Zenon DEF HydrateWatched
    <3>3. /\ UNCHANGED <<log, feed, connected, up, down>> /\ requests' = requests \ {r}
          /\ r.call # "resync"
      BY <2>1, <2>3 DEF Hydrate, server
    <3>4. Awake' => Awake
      BY <2>3, <3>2, <3>3, Zenon DEF Awake
    <3>. QED
      BY <1>1, <3>2, <3>3, <3>4, FrameFollows
  <2>4. CASE r.call # "hydrateAndWatch" /\ ~watching
    <3>1. ~Awake'
      BY <2>1, <2>4, Zenon DEF Hydrate, Awake
    <3>. QED
      BY <3>1 DEF Follows
  <2>. QED
    BY <2>2, <2>3, <2>4
<1>16. CASE \E r \in requests : RequestFails(r)
  <2>1. PICK r \in requests : RequestFails(r)
    BY <1>16
  <2>2. /\ UNCHANGED <<log, feed, connected, up, down, watching, lastSeq>>
        /\ requests' = requests \ {r}
    BY <2>1 DEF RequestFails, server, wires
  <2>5. ~suspect' => ~suspect /\ r.call # "resync"
    BY <2>1, Zenon DEF RequestFails
  <2>3. Awake' => Awake /\ r.call # "resync"
    BY <2>2, <2>5 DEF Awake
  <2>4. CASE Awake'
    BY <1>1, <2>2, <2>3, <2>4, FrameFollows
  <2>. QED
    BY <2>4 DEF Follows
<1>17. CASE \E s \in Committed : ReadArrives(s)
  <2>1. PICK s \in Committed : ReadArrives(s)
    BY <1>17
  <2>2. suspect => suspect'
    BY <2>1, Zenon DEF ReadArrives
  <2>. QED
    BY <1>1, <1>2, <2>1, <2>2 DEF ReadArrives, server
<1>18. CASE \E o \in Own : SendMessage(o) \/ SendFails(o)
  <2>1. PICK o \in Own : SendMessage(o) \/ SendFails(o)
    BY <1>18
  <2>. QED
    BY <1>1, <1>2, <2>1 DEF SendMessage, SendFails, server, cache
<1>19. CASE \E o \in Own : SendAnswered(o)
  <2>1. PICK o \in Own : SendAnswered(o)
    BY <1>19
  <2>2. PICK i \in Committed : log[i].e = o
    BY <2>1 DEF SendInv, Stored, SendAnswered
  <2>3. SeqOf(o) \in Committed /\ ApplyEvent(SeqOf(o))
    BY <2>1, <2>2, EntityIs, SeqOfIs DEF SendAnswered
  <2>4. lastSeq' >= lastSeq /\ (~suspect' => ~suspect)
    BY <2>3, Watermark
  <2>5. UNCHANGED <<log, feed, connected, up, down, watching, requests>>
    BY <2>1 DEF SendAnswered, server, wires
  <2>6. Awake' => Awake
    BY <2>4, <2>5, Zenon DEF Awake
  <2>. QED
    BY <1>1, <2>4, <2>5, <2>6, FrameFollows
<1>. QED
  BY <1>3, <1>5, <1>6, <1>7, <1>8, <1>9, <1>10, <1>11, <1>12, <1>13, <1>14,
     <1>15, <1>16, <1>17, <1>18, <1>19 DEF Next, Receive, Committed

-----------------------------------------------------------------------------
LEMMA InitInv == ASSUME ClientAssumption, Init PROVE ClientInv
<1>1. WireType
  <2>1. log = <<>> /\ up = <<>> /\ down = <<>> /\ floor = 0 /\ feed = 0 /\ turns = 0
    BY DEF Init
  <2>2. requests = {}
    BY DEF Init
  <2>3. connected \in BOOLEAN /\ watching \in BOOLEAN
    BY Zenon DEF Init
  <2>4. Len(log) = 0 /\ log \in Seq(Event)
    BY <2>1
  <2>5. up \in Seq(0 .. Len(log)) /\ down \in Seq(0 .. Len(log))
    BY <2>1
  <2>. QED
    BY <2>1, <2>2, <2>3, <2>4, <2>5 DEF WireType, Committed
<1>2. SparesNewest /\ SendInv
  BY DEF Init, SparesNewest, SendInv, SendType, Unsent, NotStored, Stored, ShownOnce, Committed
<1>3. CacheType
  <2>1. suspect \in BOOLEAN
    BY Zenon DEF Init
  <2>. QED
    BY <2>1 DEF Init, CacheType
<1>4. ViewReal /\ Covers
  BY DEF Init, ViewReal, Covers, Covered
<1>5. Follows
  BY DEF Init, Follows, Awake
<1>. QED
  BY <1>1, <1>2, <1>3, <1>4, <1>5 DEF ClientInv

LEMMA StepInv == ASSUME ClientAssumption, ClientInv, [Next]_vars PROVE ClientInv'
<1>1. CASE Next
  <2>1. WireType' /\ SparesNewest' /\ SendInv' /\ CacheInv'
    BY <1>1, WiresStep, SendsStep, CacheStep
  <2>2. Follows'
    BY <1>1, <2>1, FollowsStep
  <2>. QED
    BY <2>1, <2>2 DEF ClientInv, CacheInv
<1>2. CASE UNCHANGED vars
  <2>1. /\ UNCHANGED <<log, floor, feed, connected, up, down, requests, post>>
        /\ UNCHANGED <<view, lastSeq, base, suspect, watching, outbox, turns>>
    BY <1>2 DEF vars, server, wires, cache
  <2>2. WireType' /\ SparesNewest'
    BY <2>1 DEF ClientInv, WireType, SparesNewest, Committed
  <2>3. SendInv'
    BY <2>1 DEF ClientInv, SendInv, SendType, Unsent, NotStored, Stored, ShownOnce, Committed
  <2>4. CacheInv'
    BY <2>1, FrameCache DEF ClientInv, CacheInv, CacheType
  <2>5. Follows'
    BY <2>1 DEF ClientInv, Follows, Awake, Resuming, Resyncing, Flowing, Run
  <2>. QED
    BY <2>2, <2>3, <2>4, <2>5 DEF ClientInv, CacheInv
<1>. QED
  BY <1>1, <1>2

LEMMA Reached == Spec => []ClientInv
<1>1. Init => ClientInv
  BY ClientAssumption, InitInv
<1>2. ClientInv /\ [Next]_vars => ClientInv'
  BY ClientAssumption, StepInv
<1>. QED
  BY <1>1, <1>2, PTL DEF Spec

(* Nothing the handle keeps, and no frame, request or resume point, ever   *)
(* refers to an event the server has not committed.                        *)
THEOREM ClientTypeCorrect == Spec => []TypeOK
<1>1. ClientInv => TypeOK
  BY DEF ClientInv, WireType, SendInv, SendType, CacheType, Committed, TypeOK
<1>. QED
  BY <1>1, Reached, PTL

(* sendMessage, handleEvent and the snapshots, in whatever order the       *)
(* answers and events come: a message is shown as confirmed or as          *)
(* optimistic, never as both, unless it is deleted.                        *)
THEOREM SentShownOnce == Spec => []ShownOnce
<1>1. ClientInv => ShownOnce
  BY DEF ClientInv, SendInv
<1>. QED
  BY <1>1, Reached, PTL

(* The events past the watermark are still to come, or there are none.     *)
LEMMA NothingToCome ==
  ASSUME ClientInv, Settled, ~suspect
  PROVE  lastSeq = Len(log)
<1>1. /\ Len(log) \in Nat /\ lastSeq \in 0 .. Len(log) /\ feed \in Nat
      /\ Len(down) = 0 /\ requests = {} /\ up = <<>>
  BY DEF ClientInv, WireType, CacheType, Settled
<1>2. Awake
  BY DEF Settled, Awake
<1>3. Resyncing \/ Flowing
  BY <1>1, <1>2 DEF ClientInv, Follows
<1>4. ~Resyncing
  BY <1>1 DEF Resyncing
<1>5. PICK j \in 1 .. 1, a \in 1 .. feed :
        feed = a + (0 + 1 - j) /\ (a <= lastSeq + 1 \/ a <= Len(log))
  BY <1>1, <1>3, <1>4 DEF Flowing, Run
<1>6. feed = a /\ feed \notin 1 .. Len(log)
  BY <1>1, <1>5 DEF Settled
<1>. QED
  BY <1>1, <1>5, <1>6

LEMMA NothingOld ==
  ASSUME ClientInv, ~suspect, lastSeq = Len(log)
  PROVE  Exact
<1>. USE DEF ClientInv
<1>1. /\ Len(log) \in Nat /\ Len(log) \in 0 .. Len(log) /\ WireType
      /\ view \in [Entity -> 0 .. Len(log)] /\ base \in Nat
  BY DEF WireType, CacheType
<1>2. SUFFICES ASSUME NEW e \in Entity
      PROVE  \/ view[e] = Version(e, Len(log))
             \/ view[e] = 0 /\ (Version(e, Len(log)) <= base \/ Gone(e, Len(log)))
  BY DEF Exact
<1>. DEFINE newest == Version(e, Len(log))
<1>3. /\ newest \in 0 .. Len(log)
      /\ newest # 0 => log[newest].e = e
      /\ \A i \in Committed : log[i].e = e => i <= newest
  BY <1>1, VersionOf DEF Committed
<1>4. view[e] <= newest
  BY <1>1, <1>3 DEF ViewReal, Committed
<1>5. CASE newest = 0
  BY <1>1, <1>3, <1>4, <1>5
<1>6. CASE newest # 0
  <2>1. newest \in 1 .. lastSeq /\ log[newest].e = e
    BY <1>1, <1>3, <1>6
  <2>2. newest <= view[e] \/ (view[e] = 0 /\ (newest <= base \/ Deleted(e)))
    BY <2>1 DEF Covers, Covered
  <2>3. Deleted(e) => Gone(e, Len(log))
    BY DEF Deleted, Gone, Changes, Committed
  <2>. QED
    BY <1>1, <1>3, <1>4, <2>2, <2>3
<1>. QED
  BY <1>5, <1>6

(* Whatever calls, snapshots, events, sends, read states, failures and     *)
(* reconnections came in which order, a watched and connected handle with  *)
(* nothing on its way shows what the server holds and resumes at its end,  *)
(* unless one of the three things that "suspect" records has happened      *)
(* since the cache was loaded.                                             *)
THEOREM CacheConverges == Spec => []Converges
<1>1. ClientInv => Converges
  BY NothingToCome, NothingOld DEF Converges
<1>. QED
  BY <1>1, Reached, PTL
=============================================================================
