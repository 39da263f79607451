---------------------------- MODULE HidppProofs ----------------------------
(***************************************************************************)
(* Proofs about one HID++ transport on a shared node, for any calls, any    *)
(* number of software ids, any sizes of the queue and the stash, and any    *)
(* order in which a device answers: a request ends with its own answer or   *)
(* error, and notifications are drained in order and none is lost unseen.   *)
(* Then about the calls made of several requests: what they report is done, *)
(* and the devices behind one node are kept apart.                          *)
(***************************************************************************)
EXTENDS HidppTransport, HidppCalls, FiniteSetTheorems, TLAPS

-----------------------------------------------------------------------------
(* The inductive invariant *)

Frame ==
  {Answer(r, "long") : r \in Req} \cup {Answer(r, "short") : r \in Req}
  \cup {Error(r) : r \in Req} \cup {Notification(n) : n \in Nat}

Stashed == [n : Nat, epoch : Nat]

\* What the type invariant of the module leaves open.
Types ==
  /\ TypeOK
  /\ count \in [req : 0..MaxReq, notif : Nat, event : 0..MaxEvents]
  /\ obj \in 0..count.event /\ epoch \in Nat
  /\ rx \in Seq(Frame) /\ stash \in Seq(Stashed) /\ drained \in Seq(Nat)
  /\ excused \in BOOLEAN

\* The requests whose answer may still be read.
Sent == owed \cup {rx[i].of : i \in {j \in DOMAIN rx : rx[j].type # "notif"}}

\* A request of this object that carries a software id.
Mine(q) == q.by = "me" /\ q.obj = obj /\ HasSwId(q.kind)

\* How many ids have been given away since a, at least, when s is next: from 1
\* to SwMax.
Behind(a, s) == IF s > a THEN s - a ELSE s + SwMax - a

\* The running request is the newest, and its id was the last one given away.
ReqInv ==
  req # Idle =>
    /\ req.by = "me" /\ req.obj = obj /\ req.id = count.req
    /\ HasSwId(req.kind) => req.sw \in 1..SwMax /\ Behind(req.sw, swid) <= 1
    /\ ~HasSwId(req.kind) => req.sw = 0 /\ req.sub \in Regs

\* As many requests have been made since an earlier one as ids were given away.
AgeInv ==
  \A q \in Sent : q.by = "me" =>
    /\ q.obj <= obj /\ q.id <= count.req
    /\ ~HasSwId(q.kind) => q.sw = 0
    /\ Mine(q) => q.sw \in 1..SwMax /\ count.req + 1 - q.id >= Behind(q.sw, swid)

\* The id of the running request is not that of a recent one.
Apart(r, q) == q.sw = r.sw => q.id = r.id \/ r.id - q.id >= SwMax
ApartInv ==
  req # Idle /\ HasSwId(req.kind) => \A q \in Sent : Mine(q) => Apart(req, q)

\* A notification: it is in the queue, the stash or drained, in this order of age.
Waiting == {i \in DOMAIN rx : is_notification(rx[i])}
OrderInv ==
  /\ \A i, j \in DOMAIN drained : i < j => drained[i] < drained[j]
  /\ \A i, j \in DOMAIN stash : i < j => stash[i].n < stash[j].n
  /\ \A i, j \in Waiting : i < j => rx[i].of < rx[j].of
  /\ \A i \in DOMAIN drained, j \in DOMAIN stash : drained[i] < stash[j].n
  /\ \A i \in DOMAIN drained, j \in Waiting : drained[i] < rx[j].of
  /\ \A i \in DOMAIN stash, j \in Waiting : stash[i].n < rx[j].of
  /\ \A i \in DOMAIN drained : drained[i] <= count.notif
  /\ \A i \in DOMAIN stash : stash[i].n <= count.notif
  /\ \A i \in Waiting : rx[i].of <= count.notif

IdInv == ReqInv /\ AgeInv /\ ApartInv
NotesInv == OrderInv /\ StashIsCurrent /\ NotificationsKept

-----------------------------------------------------------------------------
(* Lemmas about the operators *)

LEMMA Constants ==
  /\ SwMax \in Nat /\ SwMax >= 1 /\ SwFirst \in 1..SwMax
  /\ StashCap \in Nat /\ DrainMax \in Nat /\ RxCap \in Nat /\ MaxReq \in Nat /\ MaxEvents \in Nat
  /\ \A c \in Requests : c.kind \in DOMAIN Sizes /\ (HasSwId(c.kind) \/ c.sub \in Regs)
  /\ "ping" \in Regs /\ EventSub \notin Regs
BY TransportAssumption

\* What a frame tells of the request it belongs to.
LEMMA FrameFacts ==
  ASSUME NEW f \in Frame
  PROVE  /\ f.type \in {"answer", "error", "notif"}
         /\ f.type = "answer" => f.of \in Req /\ f.sw = f.of.sw /\ f.slot = f.of.slot
         /\ f.type = "error" => f.of \in Req /\ (HasSwId(f.of.kind) => f.sw = f.of.sw)
         /\ f.type = "notif" => f.of \in Nat /\ f.sw = 0
<1>1. CASE \E r \in Req : f = Answer(r, "long") \/ f = Answer(r, "short")
  BY <1>1 DEF Answer
<1>2. CASE \E r \in Req : f = Error(r)
  BY <1>2 DEF Error, Byte3
<1>3. CASE \E n \in Nat : f = Notification(n)
  BY <1>3 DEF Notification
<1>. QED
  BY <1>1, <1>2, <1>3 DEF Frame

\* The frames of the device.
LEMMA FrameMade ==
  /\ \A r \in Req, size \in {"short", "long"} :
       Answer(r, size) \in Frame /\ Answer(r, size).type = "answer" /\ Answer(r, size).of = r
  /\ \A r \in Req : Error(r) \in Frame /\ Error(r).type = "error" /\ Error(r).of = r
  /\ \A n \in Nat : /\ Notification(n) \in Frame
                    /\ Notification(n).type = "notif" /\ Notification(n).of = n
BY DEF Frame, Answer, Error, Notification

LEMMA EventFacts ==
  ASSUME Types, NEW n \in Nat, Event(n)
  PROVE  /\ count' \in [req : 0..MaxReq, notif : Nat, event : 0..MaxEvents]
         /\ count'.req = count.req /\ count'.notif = count.notif + n
         /\ count'.event = count.event + 1
<1>1. count \in [req : 0..MaxReq, notif : Nat, event : 0..MaxEvents] /\ MaxEvents \in Nat
  BY Constants DEF Types
<1>2. count.event < MaxEvents /\ count' = [count EXCEPT !.event = @ + 1, !.notif = @ + n]
  BY DEF Event
<1>3. count.event \in 0..MaxEvents /\ count.req \in 0..MaxReq /\ count.notif \in Nat
  BY <1>1
<1>4. count.event + 1 \in 0..MaxEvents /\ count.notif + n \in Nat
  BY <1>1, <1>2, <1>3
<1>5. count' = [req |-> count.req, notif |-> count.notif + n, event |-> count.event + 1]
  BY <1>1, <1>2
<1>. QED
  BY <1>3, <1>4, <1>5

\* The first report of the queue and the rest of it.
LEMMA TailFacts ==
  ASSUME NEW S, NEW s \in Seq(S), s # << >>
  PROVE  /\ Tail(s) \in Seq(S) /\ Head(s) \in S /\ Head(s) = s[1] /\ Len(Tail(s)) = Len(s) - 1
         /\ Len(s) \in Nat /\ Len(s) >= 1 /\ 1 \in DOMAIN s
         /\ DOMAIN Tail(s) = 1..(Len(s) - 1) /\ DOMAIN s = 1..Len(s)
         /\ \A i \in 1..(Len(s) - 1) : Tail(s)[i] = s[i + 1]
OBVIOUS

\* What is left of a sequence without its first k elements.
LEMMA RestFacts ==
  ASSUME NEW S, NEW s \in Seq(S), NEW k \in 0..Len(s)
  PROVE  /\ SubSeq(s, k + 1, Len(s)) \in Seq(S) /\ Len(SubSeq(s, k + 1, Len(s))) = Len(s) - k
         /\ Len(s) \in Nat /\ DOMAIN s = 1..Len(s)
         /\ DOMAIN SubSeq(s, k + 1, Len(s)) = 1..(Len(s) - k)
         /\ \A i \in 1..(Len(s) - k) : SubSeq(s, k + 1, Len(s))[i] = s[i + k]
OBVIOUS

\* One more element.
LEMMA AppendFacts ==
  ASSUME NEW S, NEW s \in Seq(S), NEW x \in S
  PROVE  /\ Append(s, x) \in Seq(S) /\ Len(Append(s, x)) = Len(s) + 1
         /\ Len(s) \in Nat /\ DOMAIN s = 1..Len(s) /\ DOMAIN Append(s, x) = 1..(Len(s) + 1)
         /\ \A i \in 1..Len(s) : Append(s, x)[i] = s[i]
         /\ Append(s, x)[Len(s) + 1] = x
OBVIOUS

-----------------------------------------------------------------------------
(* Types *)

\* A new request of this transport.
New(asked) ==
  [at |-> "lock", by |-> "me", id |-> count.req + 1, obj |-> obj,
   kind |-> asked.kind, dev |-> asked.dev, sub |-> asked.sub,
   slot |-> asked.slot, sw |-> IF HasSwId(asked.kind) THEN swid ELSE 0]

LEMMA NewFacts ==
  ASSUME Types, NEW c \in Requests, count.req < MaxReq
  PROVE  /\ New(c) \in Req /\ New(c).at = "lock" /\ New(c).by = "me" /\ New(c).obj = obj
         /\ New(c).id = count.req + 1 /\ New(c).kind = c.kind
         /\ HasSwId(c.kind) => New(c).sw = swid
         /\ ~HasSwId(c.kind) => New(c).sw = 0 /\ New(c).sub \in Regs
<1>1. obj \in 0..MaxEvents /\ count.req + 1 \in 0..MaxReq /\ swid \in 0..SwMax /\ 0 \in 0..SwMax
  BY Constants DEF Types, TypeOK
<1>2. c.kind \in DOMAIN Sizes /\ (HasSwId(c.kind) \/ c.sub \in Regs)
  BY Constants
<1>. QED
  BY <1>1, <1>2 DEF New, Req

\* What write_packet makes of a request that has the locks it needs.
LEMMA WriteTypes ==
  ASSUME Types, NEW r \in Req, r.at = "lock", flock # "me",
         r.kind = "feature" => flock # "other",
         Write(r)
  PROVE  /\ req' = Idle \/ req' \in Req
         /\ owed' \subseteq Req
         /\ flock' \in {"free", "me", "other"}
         /\ flock' = "me" <=> req'.at = "wait" /\ req'.kind = "feature"
<1>1. Idle.at = "idle" /\ Idle \notin Req
  BY DEF Idle, Req
<1>2. [r EXCEPT !.at = "wait"] \in Req /\ [r EXCEPT !.at = "wait"].at = "wait"
      /\ [r EXCEPT !.at = "wait"].kind = r.kind
  BY DEF Req
<1>3. CASE Ends(r, NoFrame) /\ UNCHANGED owed
  BY <1>1, <1>3 DEF Ends, Types, TypeOK
<1>4. CASE /\ req' = [r EXCEPT !.at = "wait"]
           /\ owed' = owed \cup {r}
           /\ flock' = IF r.kind = "feature" THEN "me" ELSE flock
  BY <1>2, <1>4 DEF Types, TypeOK
<1>. QED
  BY <1>3, <1>4 DEF Write

LEMMA TypesInit == Init => Types
<1>. SUFFICES ASSUME Init PROVE Types
  OBVIOUS
<1>1. Idle.at = "idle"
  BY DEF Idle
<1>2. << >> \in Seq(Frame) /\ << >> \in Seq(Stashed) /\ << >> \in Seq(Nat) /\ Len(<< >>) = 0
  OBVIOUS
<1>3. /\ count \in [req : 0..MaxReq, notif : Nat, event : 0..MaxEvents]
      /\ count.event = 0 /\ swid \in 1..SwMax /\ 0 <= RxCap /\ 0 <= StashCap
  BY Constants DEF Init
<1>4. excused \in BOOLEAN /\ open \in BOOLEAN
  BY Zenon DEF Init
<1>5. TypeOK
  BY <1>1, <1>2, <1>3, <1>4 DEF Init, TypeOK
<1>. QED
  BY <1>2, <1>3, <1>4, <1>5 DEF Init, Types

\* A request begins or gets the lock of the node.
LEMMA TypesBegin ==
  ASSUME Types, (\E c \in Requests : Begin(c)) \/ TakeLock
  PROVE  Types'
<1>1. ASSUME NEW c \in Requests, Begin(c) PROVE Types'
  <2>1. count.req < MaxReq /\ req = Idle /\ UNCHANGED <<object, rx, stash, history>>
    BY <1>1 DEF Begin
  <2>2. /\ count' \in [req : 0..MaxReq, notif : Nat, event : 0..MaxEvents]
        /\ count'.event = count.event
    <3>1. count \in [req : 0..MaxReq, notif : Nat, event : 0..MaxEvents] /\ MaxReq \in Nat
      BY Constants DEF Types
    <3>2. count' = [count EXCEPT !.req = @ + 1]
      BY <1>1 DEF Begin
    <3>. QED
      BY <2>1, <3>1, <3>2
  <2>3. swid' \in 1..SwMax
    <3>1. swid \in 1..SwMax /\ SwMax \in Nat
      BY Constants DEF Types, TypeOK
    <3>2. swid' = swid \/ swid' = next_sw_id(swid)
      BY <1>1 DEF Begin
    <3>. QED
      BY <3>1, <3>2 DEF next_sw_id
  <2>4. flock # "me" /\ req.at = "idle"
    BY <2>1 DEF Types, TypeOK, Idle
  <2>5. New(c) \in Req /\ New(c).at = "lock" /\ New(c).kind = c.kind
    BY <2>1, NewFacts
  <2>6. /\ c.kind = "feature" => req' = New(c) /\ UNCHANGED <<owed, flock>>
        /\ c.kind # "feature" => Write(New(c))
    BY <1>1 DEF Begin, New
  <2>7. /\ req' = Idle \/ req' \in Req
        /\ owed' \subseteq Req
        /\ flock' \in {"free", "me", "other"}
        /\ flock' = "me" <=> req'.at = "wait" /\ req'.kind = "feature"
    <3>1. CASE c.kind = "feature"
      BY <3>1, <2>4, <2>5, <2>6 DEF Types, TypeOK
    <3>2. CASE c.kind # "feature"
      BY <3>2, <2>4, <2>5, <2>6, WriteTypes
    <3>. QED
      BY <3>1, <3>2
  <2>. QED
    BY <2>1, <2>2, <2>3, <2>7 DEF Types, TypeOK, object, history
<1>2. ASSUME TakeLock PROVE Types'
  <2>1. req.at = "lock" /\ req \in Req /\ flock # "me" /\ flock # "other" /\ Write(req)
    BY <1>2 DEF TakeLock, Types, TypeOK, Idle
  <2>2. /\ req' = Idle \/ req' \in Req
        /\ owed' \subseteq Req
        /\ flock' \in {"free", "me", "other"}
        /\ flock' = "me" <=> req'.at = "wait" /\ req'.kind = "feature"
    BY <2>1, WriteTypes
  <2>. QED
    BY <1>2, <2>2 DEF TakeLock, Types, TypeOK, object, history
<1>. QED
  BY <1>1, <1>2

\* The end of a request, with or without a frame.
LEMMA EndsTypes ==
  ASSUME Types, NEW r, NEW f, Ends(r, f)
  PROVE  /\ req' = Idle /\ flock' \in {"free", "other"}
         /\ ~(req'.at = "wait" /\ req'.kind = "feature")
BY DEF Ends, Types, TypeOK, Idle

\* Only a notification goes to the stash.
LEMMA StashedIsNote ==
  ASSUME NEW r \in Req, NEW f, Verdict(r, f) = "stash"
  PROVE  is_notification(f)
<1>1. r.kind \in {"feature", "short", "long", "verylong", "register", "ping"}
  <2>1. DOMAIN Sizes = {"feature", "short", "long", "verylong", "register", "ping"}
    BY DEF Sizes
  <2>. QED
    BY <2>1 DEF Req
<1>2. CASE HasSwId(r.kind)
  BY <1>2 DEF Verdict, FeatureVerdict, HasSwId
<1>3. CASE r.kind = "register"
  BY <1>3 DEF Verdict, RegisterVerdict, HasSwId
<1>4. CASE r.kind = "ping"
  BY <1>4 DEF Verdict, HasSwId
<1>. QED
  BY <1>1, <1>2, <1>3, <1>4 DEF HasSwId

LEMMA TypesWait ==
  ASSUME Types, ReadFrame \/ Deadline \/ ReadFails
  PROVE  Types'
<1>1. ASSUME ReadFrame PROVE Types'
  <2>1. /\ rx # << >> /\ rx' = Tail(rx) /\ rx \in Seq(Frame)
        /\ UNCHANGED <<object, swid, owed, drained, count>>
    BY <1>1 DEF ReadFrame, Types
  <2>2. rx' \in Seq(Frame) /\ Len(rx') <= RxCap /\ Head(rx) \in Frame
    BY <2>1, TailFacts, Constants DEF Types, TypeOK
  <2>3. \/ UNCHANGED <<req, flock>>
        \/ Ends(req, Head(rx))
    BY <1>1 DEF ReadFrame
  <2>4. /\ req' = Idle \/ req' \in Req
        /\ flock' \in {"free", "me", "other"}
        /\ flock' = "me" <=> req'.at = "wait" /\ req'.kind = "feature"
    BY <2>3, EndsTypes DEF Types, TypeOK
  <2>5. excused' \in BOOLEAN
    BY <1>1 DEF ReadFrame, Types
  <2>6. stash' \in Seq(Stashed) /\ Len(stash') <= StashCap
    <3>1. \/ stash' = stash
          \/ /\ Verdict(req, Head(rx)) = "stash" /\ Len(stash) < StashCap
             /\ stash' = Append(stash, [n |-> Head(rx).of, epoch |-> epoch])
      BY <1>1 DEF ReadFrame
    <3>2. ASSUME Verdict(req, Head(rx)) = "stash" PROVE Head(rx).type = "notif"
      <4>1. req \in Req
        BY <1>1 DEF ReadFrame, Types, TypeOK, Idle
      <4>. QED
        BY <3>2, <4>1, StashedIsNote DEF is_notification
    <3>3. CASE stash' = stash
      BY <3>3 DEF Types, TypeOK
    <3>4. CASE /\ Verdict(req, Head(rx)) = "stash" /\ Len(stash) < StashCap
               /\ stash' = Append(stash, [n |-> Head(rx).of, epoch |-> epoch])
      <4>1. Head(rx).of \in Nat /\ epoch \in Nat /\ stash \in Seq(Stashed)
        BY <2>2, <3>2, <3>4, FrameFacts DEF Types
      <4>2. [n |-> Head(rx).of, epoch |-> epoch] \in Stashed
        BY <4>1 DEF Stashed
      <4>. QED
        BY <3>4, <4>1, <4>2, AppendFacts, Constants
    <3>. QED
      BY <3>1, <3>3, <3>4
  <2>. QED
    BY <2>1, <2>2, <2>4, <2>5, <2>6 DEF Types, TypeOK, object
<1>2. ASSUME Deadline PROVE Types'
  BY <1>2, EndsTypes DEF Deadline, Types, TypeOK, object, history
<1>3. ASSUME ReadFails PROVE Types'
  <2>1. Ends(req, NoFrame) /\ Event(0)
    BY <1>3 DEF ReadFails
  <2>2. /\ req' = Idle /\ flock' \in {"free", "other"}
        /\ ~(req'.at = "wait" /\ req'.kind = "feature")
    BY <2>1, EndsTypes
  <2>3. /\ count' \in [req : 0..MaxReq, notif : Nat, event : 0..MaxEvents]
        /\ obj' \in 0..count'.event
    BY <1>3, <2>1, EventFacts DEF ReadFails, Types
  <2>. QED
    BY <1>3, <2>2, <2>3 DEF ReadFails, Types, TypeOK
<1>. QED
  BY <1>1, <1>2, <1>3

-----------------------------------------------------------------------------
(* drain_notifications *)

\* The places of the notifications among the first k reports are all there, in
\* their order.
LEMMA PlacesFacts ==
  ASSUME Types, NEW k \in 0..Len(rx), NEW live \in Places(k)
  PROVE  /\ live \in Seq(Nat) /\ Len(live) \in Nat /\ DOMAIN live = 1..Len(live)
         /\ \A i \in 1..Len(live) : live[i] \in Waiting /\ live[i] <= k
         /\ \A i, j \in 1..Len(live) : i < j => live[i] < live[j]
         /\ \A w \in Waiting : w <= k => \E i \in 1..Len(live) : live[i] = w
<1>. DEFINE S == {i \in 1..k : is_notification(rx[i])}
            m == Cardinality(S)
<1>1. k \in Nat /\ k <= Len(rx) /\ Len(rx) \in Nat /\ DOMAIN rx = 1..Len(rx)
  BY DEF Types
<1>2. IsFiniteSet(S)
  <2>1. IsFiniteSet(1..k)
    BY <1>1, FS_Interval
  <2>. QED
    BY <2>1, FS_Subset
<1>3. m \in Nat /\ IsFiniteSet(1..m) /\ Cardinality(1..m) = m
  <2>1. m \in Nat
    BY <1>2, FS_CardinalityType
  <2>. HIDE DEF m
  <2>. QED
    BY <2>1, FS_Interval
<1>4. live \in [1..m -> S] /\ \A i, j \in 1..m : i < j => live[i] < live[j]
  BY DEF Places
<1>5. \A w \in S : w \in Waiting /\ w \in Nat /\ w <= k
  BY <1>1 DEF Waiting
<1>6. \A w \in Waiting : w <= k => w \in S
  BY <1>1 DEF Waiting
<1>. HIDE DEF S
<1>7. live \in Injection(1..m, S)
  <2>1. ASSUME NEW i \in 1..m, NEW j \in 1..m, i # j PROVE live[i] # live[j]
    <3>1. live[i] \in Nat /\ live[j] \in Nat
      BY <1>4, <1>5
    <3>2. i < j \/ j < i
      BY <1>3, <2>1
    <3>. QED
      BY <1>4, <3>1, <3>2
  <2>. QED
    BY <1>4, <2>1 DEF Injection, IsInjective
<1>8. live \in Surjection(1..m, S)
  <2>1. Cardinality(1..m) = Cardinality(S)
    BY <1>3
  <2>. HIDE DEF m
  <2>. QED
    BY <1>2, <1>3, <1>7, <2>1, FS_Injection
<1>9. \A w \in S : \E i \in 1..m : live[i] = w
  BY <1>8 DEF Surjection
<1>. HIDE DEF m
<1>10. live \in [1..m -> Nat]
  BY <1>4, <1>5
<1>11. live \in Seq(Nat) /\ Len(live) = m
  BY <1>3, <1>10
<1>. QED
  BY <1>3, <1>4, <1>5, <1>6, <1>9, <1>11

\* Three sequences in a row.
LEMMA ThreeInARow ==
  \A a, b, c \in Seq(Nat) :
    /\ (a \o b) \o c \in Seq(Nat)
    /\ DOMAIN ((a \o b) \o c) = 1..(Len(a) + Len(b) + Len(c))
    /\ \A i \in 1..Len(a) : ((a \o b) \o c)[i] = a[i]
    /\ \A i \in 1..Len(b) : ((a \o b) \o c)[Len(a) + i] = b[i]
    /\ \A i \in 1..Len(c) : ((a \o b) \o c)[Len(a) + Len(b) + i] = c[i]
OBVIOUS

\* What is stashed has a number.
LEMMA StashFacts ==
  ASSUME Types
  PROVE  \A i \in DOMAIN stash : stash[i].n \in Nat /\ stash[i].epoch \in Nat
<1>1. stash \in Seq(Stashed)
  BY DEF Types
<1>2. \A i \in DOMAIN stash : stash[i] \in Stashed
  BY <1>1
<1>. QED
  BY <1>2 DEF Stashed

\* What drain_notifications takes: t from the stash, k reports from the queue.
Takes(t, k, live) ==
  /\ t \in 0..Len(stash) /\ k \in 0..Len(rx) /\ live \in Places(k)
  /\ t < Len(stash) => k = 0
  /\ stash' = SubSeq(stash, t + 1, Len(stash)) /\ rx' = SubSeq(rx, k + 1, Len(rx))
  /\ drained' = (drained \o [i \in 1..t |-> stash[i].n]) \o [i \in DOMAIN live |-> rx[live[i]].of]

LEMMA DrainTakes ==
  ASSUME Types, drain_notifications
  PROVE  \E t, k, live : Takes(t, k, live)
<1>. DEFINE t == IF Len(stash) < DrainMax THEN Len(stash) ELSE DrainMax
<1>1. Len(stash) \in Nat /\ DrainMax \in Nat
  BY Constants DEF Types
<1>2. t \in 0..Len(stash) /\ (t < Len(stash) => t = DrainMax)
  BY <1>1
<1>3. PICK k \in 0..Len(rx) : \E live \in Places(k) :
        /\ t = DrainMax => k = 0
        /\ drained' = drained \o [i \in 1..t |-> stash[i].n] \o [i \in DOMAIN live |-> rx[live[i]].of]
        /\ stash' = SubSeq(stash, t + 1, Len(stash))
        /\ rx' = SubSeq(rx, k + 1, Len(rx))
  BY DEF drain_notifications
<1>4. PICK live \in Places(k) :
        /\ t = DrainMax => k = 0
        /\ drained' = drained \o [i \in 1..t |-> stash[i].n] \o [i \in DOMAIN live |-> rx[live[i]].of]
        /\ stash' = SubSeq(stash, t + 1, Len(stash))
        /\ rx' = SubSeq(rx, k + 1, Len(rx))
  BY <1>3
<1>. HIDE DEF t
<1>5. Takes(t, k, live)
  BY <1>2, <1>4 DEF Takes
<1>. QED
  BY <1>5

\* The drained numbers: those from before, those of the stash, those of the queue.
LEMMA TakesFacts ==
  ASSUME Types, NEW t, NEW k, NEW live, Takes(t, k, live)
  PROVE  LET a == Len(drained)  m == Len(live) IN
         /\ a \in Nat /\ m \in Nat /\ t \in Nat /\ t <= Len(stash) /\ DOMAIN drained = 1..a
         /\ drained' \in Seq(Nat) /\ DOMAIN drained' = 1..(a + t + m)
         /\ \A i \in 1..a : drained'[i] = drained[i]
         /\ \A i \in 1..t : i \in DOMAIN stash /\ drained'[a + i] = stash[i].n
         /\ \A i \in 1..m : live[i] \in Waiting /\ drained'[a + t + i] = rx[live[i]].of
<1>. DEFINE b == [i \in 1..t |-> stash[i].n]
            c == [i \in DOMAIN live |-> rx[live[i]].of]
<1>1. /\ t \in Nat /\ t <= Len(stash) /\ Len(stash) \in Nat /\ DOMAIN stash = 1..Len(stash)
      /\ drained \in Seq(Nat) /\ Len(drained) \in Nat /\ DOMAIN drained = 1..Len(drained)
  BY DEF Types, Takes
<1>2. \A i \in DOMAIN stash : stash[i].n \in Nat
  BY StashFacts
<1>3. b \in [1..t -> Nat]
  BY <1>1, <1>2
<1>4. b \in Seq(Nat) /\ Len(b) = t
  BY <1>1, <1>3
<1>5. /\ Len(live) \in Nat /\ DOMAIN live = 1..Len(live)
      /\ \A i \in 1..Len(live) : live[i] \in Waiting
  BY PlacesFacts DEF Takes
<1>6. \A w \in Waiting : rx[w].of \in Nat
  BY FrameFacts DEF Waiting, is_notification, Types
<1>7. c \in [1..Len(live) -> Nat]
  BY <1>5, <1>6
<1>8. c \in Seq(Nat) /\ Len(c) = Len(live)
  BY <1>5, <1>7
<1>9. drained' = (drained \o b) \o c
  BY DEF Takes
<1>10. /\ \A i \in 1..t : i \in DOMAIN stash /\ b[i] = stash[i].n
       /\ \A i \in 1..Len(live) : c[i] = rx[live[i]].of
  BY <1>1, <1>5
<1>. HIDE DEF b, c
<1>11. /\ drained' \in Seq(Nat) /\ DOMAIN drained' = 1..(Len(drained) + t + Len(live))
       /\ \A i \in 1..Len(drained) : drained'[i] = drained[i]
       /\ \A i \in 1..t : drained'[Len(drained) + i] = b[i]
       /\ \A i \in 1..Len(live) : drained'[Len(drained) + t + i] = c[i]
  <2>1. drained \in Seq(Nat) /\ b \in Seq(Nat) /\ c \in Seq(Nat)
    BY <1>1, <1>4, <1>8
  <2>2. /\ (drained \o b) \o c \in Seq(Nat)
        /\ DOMAIN ((drained \o b) \o c) = 1..(Len(drained) + Len(b) + Len(c))
        /\ \A i \in 1..Len(drained) : ((drained \o b) \o c)[i] = drained[i]
        /\ \A i \in 1..Len(b) : ((drained \o b) \o c)[Len(drained) + i] = b[i]
        /\ \A i \in 1..Len(c) : ((drained \o b) \o c)[Len(drained) + Len(b) + i] = c[i]
    BY ONLY <2>1, ThreeInARow, Zenon
  <2>. QED
    BY <2>2, <1>4, <1>8, <1>9
<1>. QED
  BY <1>1, <1>5, <1>10, <1>11

\* The rest of the stash and the queue.
LEMMA TakesRest ==
  ASSUME Types, NEW t, NEW k, NEW live, Takes(t, k, live)
  PROVE  /\ t \in 0..Len(stash) /\ k \in 0..Len(rx) /\ Len(stash) \in Nat /\ Len(rx) \in Nat
         /\ stash' \in Seq(Stashed) /\ Len(stash') = Len(stash) - t
         /\ DOMAIN stash = 1..Len(stash) /\ DOMAIN stash' = 1..(Len(stash) - t)
         /\ \A i \in 1..(Len(stash) - t) : stash'[i] = stash[i + t]
         /\ rx' \in Seq(Frame) /\ Len(rx') = Len(rx) - k
         /\ DOMAIN rx = 1..Len(rx) /\ DOMAIN rx' = 1..(Len(rx) - k)
         /\ \A i \in 1..(Len(rx) - k) : rx'[i] = rx[i + k]
BY SMTT(30), RestFacts DEF Takes, Types

-----------------------------------------------------------------------------
(* Types of the other steps *)

LEMMA TypesBetween ==
  ASSUME Types,
         \/ write_register \/ set_device_index \/ clear_feature_cache \/ NewTransport
         \/ drain_notifications \/ receive_notification
  PROVE  Types'
<1>1. /\ Event(0) /\ UNCHANGED <<req, flock, owed>>
  BY DEF write_register, set_device_index, clear_feature_cache, NewTransport,
         drain_notifications, receive_notification
<1>2. /\ count' \in [req : 0..MaxReq, notif : Nat, event : 0..MaxEvents]
      /\ count'.event = count.event + 1 /\ obj \in 0..count.event /\ count.event \in Nat
  BY <1>1, EventFacts DEF Types
<1>3. obj \in 0..count'.event /\ obj + 1 \in 0..count'.event
  BY <1>2
<1>4. << >> \in Seq(Frame) /\ << >> \in Seq(Stashed) /\ Len(<< >>) = 0
  OBVIOUS
<1>5. CASE write_register
  BY <1>1, <1>2, <1>3, <1>5 DEF write_register, Types, TypeOK, object, history
<1>6. CASE set_device_index
  <2>1. excused' \in BOOLEAN
    BY <1>6, Zenon DEF set_device_index
  <2>2. epoch' \in Nat
    BY <1>6 DEF set_device_index, Types
  <2>. QED
    BY <1>1, <1>2, <1>3, <1>4, <1>6, <2>1, <2>2, Constants DEF set_device_index, Types, TypeOK
<1>7. CASE NewTransport
  <2>1. open' \in BOOLEAN /\ excused' \in BOOLEAN
    BY <1>7, Zenon DEF NewTransport
  <2>2. swid' \in 1..SwMax /\ 0 <= RxCap /\ 0 <= StashCap
    BY <1>7, Constants DEF NewTransport
  <2>. QED
    BY <1>1, <1>2, <1>3, <1>4, <1>7, <2>1, <2>2 DEF NewTransport, Types, TypeOK
<1>8. CASE drain_notifications
  <2>1. PICK t, k, live : Takes(t, k, live)
    BY <1>8, DrainTakes
  <2>2. /\ stash' \in Seq(Stashed) /\ Len(stash') <= StashCap
        /\ rx' \in Seq(Frame) /\ Len(rx') <= RxCap
    <3>1. Len(rx) <= RxCap /\ Len(stash) <= StashCap /\ RxCap \in Nat /\ StashCap \in Nat
      BY Constants DEF Types, TypeOK
    <3>2. /\ stash' \in Seq(Stashed) /\ Len(stash') = Len(stash) - t
          /\ rx' \in Seq(Frame) /\ Len(rx') = Len(rx) - k
          /\ t \in 0..Len(stash) /\ k \in 0..Len(rx) /\ Len(stash) \in Nat /\ Len(rx) \in Nat
      BY <2>1, TakesRest
    <3>. QED
      BY <3>1, <3>2
  <2>3. drained' \in Seq(Nat)
    BY <2>1, TakesFacts
  <2>. QED
    BY <1>1, <1>2, <1>3, <1>8, <2>2, <2>3 DEF drain_notifications, Types, TypeOK, object
<1>9. CASE receive_notification
  <2>1. PICK k \in 0..Len(rx) : rx' = SubSeq(rx, k + 1, Len(rx))
    BY <1>9 DEF receive_notification
  <2>2. rx' \in Seq(Frame) /\ Len(rx') <= RxCap
    <3>1. rx \in Seq(Frame) /\ Len(rx) \in Nat /\ Len(rx) <= RxCap /\ RxCap \in Nat
      BY Constants DEF Types, TypeOK
    <3>2. rx' \in Seq(Frame) /\ Len(rx') = Len(rx) - k
      BY ONLY <2>1, <3>1, k \in 0..Len(rx), RestFacts
    <3>. QED
      BY ONLY <3>1, <3>2, k \in 0..Len(rx)
  <2>3. excused' \in BOOLEAN
    BY <1>9, Zenon DEF receive_notification
  <2>. QED
    BY <1>1, <1>2, <1>3, <1>9, <2>2, <2>3 DEF receive_notification, Types, TypeOK, object
<1>. QED
  BY <1>5, <1>6, <1>7, <1>8, <1>9 DEF clear_feature_cache

LEMMA DeliverTypes ==
  ASSUME Types, NEW f \in Frame, Deliver(f)
  PROVE  /\ rx' \in Seq(Frame) /\ Len(rx') <= RxCap /\ excused' \in BOOLEAN
         /\ UNCHANGED <<open, obj, epoch, swid, req, stash, flock, drained>>
<1>1. rx' = rx \/ (rx' = Append(rx, f) /\ Len(rx) < RxCap)
  BY DEF Deliver
<1>2. rx \in Seq(Frame) /\ Len(rx) <= RxCap /\ RxCap \in Nat
  BY Constants DEF Types, TypeOK
<1>3. rx' \in Seq(Frame) /\ Len(rx') <= RxCap
  BY <1>1, <1>2, AppendFacts
<1>4. excused' \in BOOLEAN
  BY Zenon DEF Deliver
<1>. QED
  BY <1>3, <1>4 DEF Deliver, object

LEMMA TypesOutside ==
  ASSUME Types, OtherLocks \/ OtherEnds \/ DeviceAnswers \/ DeviceNotifies
  PROVE  Types'
<1>1. CASE OtherLocks
  <2>1. /\ count' \in [req : 0..MaxReq, notif : Nat, event : 0..MaxEvents]
        /\ obj \in 0..count'.event
    <3>1. Event(0)
      BY <1>1 DEF OtherLocks
    <3>. QED
      BY <3>1, EventFacts DEF Types
  <2>2. owed' \subseteq Req
    <3>1. PICK c \in {d \in Requests : d.kind = "feature"}, sw \in 1..SwMax :
            owed' = owed \cup {[at |-> "lock", by |-> "other", id |-> 0, obj |-> 0,
                                kind |-> c.kind, dev |-> c.dev, sub |-> c.sub,
                                slot |-> 0, sw |-> sw]}
      BY <1>1 DEF OtherLocks
    <3>2. c.kind \in DOMAIN Sizes /\ 0 \in 0..MaxReq /\ 0 \in 0..MaxEvents /\ sw \in 0..SwMax
      BY Constants
    <3>3. [at |-> "lock", by |-> "other", id |-> 0, obj |-> 0, kind |-> c.kind, dev |-> c.dev,
           sub |-> c.sub, slot |-> 0, sw |-> sw] \in Req
      BY <3>2 DEF Req
    <3>. QED
      BY <3>1, <3>3 DEF Types, TypeOK
  <2>. QED
    BY <1>1, <2>1, <2>2 DEF OtherLocks, Types, TypeOK, object, history
<1>2. CASE OtherEnds
  BY <1>2 DEF OtherEnds, Types, TypeOK, object, history
<1>3. CASE DeviceAnswers
  <2>1. PICK r \in owed : \E f \in {Answer(r, "long"), Error(r), Answer(r, "short")} :
          owed' = owed \ {r} /\ Deliver(f) /\ UNCHANGED count
    BY <1>3 DEF DeviceAnswers
  <2>2. PICK f \in Frame : Deliver(f)
    BY <2>1, FrameMade DEF Types, TypeOK
  <2>. QED
    BY <2>1, <2>2, DeliverTypes DEF Types, TypeOK
<1>4. CASE DeviceNotifies
  <2>1. Event(1) /\ Deliver(Notification(count.notif + 1)) /\ UNCHANGED owed
    BY <1>4 DEF DeviceNotifies
  <2>2. count.notif + 1 \in Nat
    BY DEF Types
  <2>3. Notification(count.notif + 1) \in Frame
    BY <2>2, FrameMade
  <2>4. /\ count' \in [req : 0..MaxReq, notif : Nat, event : 0..MaxEvents]
        /\ obj \in 0..count'.event
    BY <2>1, EventFacts DEF Types
  <2>. QED
    BY <2>1, <2>3, <2>4, DeliverTypes DEF Types, TypeOK
<1>. QED
  BY <1>1, <1>2, <1>3, <1>4

LEMMA TypesStep == Types /\ [Next]_vars => Types'
<1>1. ASSUME Types, Next PROVE Types'
  BY <1>1, TypesBegin, TypesWait, TypesBetween, TypesOutside DEF Next
<1>2. ASSUME Types, UNCHANGED vars PROVE Types'
  BY <1>2 DEF Types, TypeOK, vars
<1>. QED
  BY <1>1, <1>2

-----------------------------------------------------------------------------
(* Whose answer may come *)

LEMMA SentTypes ==
  ASSUME Types
  PROVE  Sent \subseteq Req
<1>1. \A i \in DOMAIN rx : rx[i] \in Frame
  BY DEF Types
<1>2. \A i \in DOMAIN rx : rx[i].type # "notif" => rx[i].of \in Req
  BY <1>1, FrameFacts
<1>. QED
  BY <1>2 DEF Sent, Types, TypeOK

\* Reports leave the queue, or one of a request that was sent joins it.
LEMMA SentStays ==
  ASSUME NEW X, owed' \subseteq owed \cup X,
         \A i \in DOMAIN rx' : rx'[i].type # "notif" => rx'[i].of \in Sent \cup X
  PROVE  Sent' \subseteq Sent \cup X
<1>1. Sent' = owed' \cup {rx'[i].of : i \in {j \in DOMAIN rx' : rx'[j].type # "notif"}}
  BY DEF Sent
<1>2. owed \subseteq Sent
  BY DEF Sent
<1>. QED
  BY <1>1, <1>2

\* The queue is what is left of it without its first k reports.
LEMMA SentShrinks ==
  ASSUME Types, NEW k \in 0..Len(rx), rx' = SubSeq(rx, k + 1, Len(rx)), owed' \subseteq owed
  PROVE  Sent' \subseteq Sent
<1>1. /\ DOMAIN rx = 1..Len(rx) /\ DOMAIN rx' = 1..(Len(rx) - k) /\ Len(rx) \in Nat
      /\ \A i \in 1..(Len(rx) - k) : rx'[i] = rx[i + k]
  <2>1. rx \in Seq(Frame)
    BY DEF Types
  <2>. QED
    BY ONLY <2>1, k \in 0..Len(rx), rx' = SubSeq(rx, k + 1, Len(rx)), RestFacts
<1>2. \A i \in DOMAIN rx' : i + k \in DOMAIN rx /\ rx'[i] = rx[i + k]
  BY <1>1
<1>3. \A i \in DOMAIN rx' : rx'[i].type # "notif" => rx'[i].of \in Sent \cup {}
  BY <1>2 DEF Sent
<1>4. Sent' \subseteq Sent \cup {}
  BY <1>3, SentStays
<1>. QED
  BY <1>4

\* A frame of f.of joins the queue, or there is no room.
LEMMA SentDelivered ==
  ASSUME Types, NEW f \in Frame, Deliver(f), f.type # "notif" => f.of \in owed, owed' \subseteq owed
  PROVE  Sent' \subseteq Sent
<1>1. rx' = rx \/ rx' = Append(rx, f)
  BY DEF Deliver
<1>2. rx \in Seq(Frame)
  BY DEF Types
<1>3. \A i \in DOMAIN rx' : (i \in DOMAIN rx /\ rx'[i] = rx[i]) \/ rx'[i] = f
  BY <1>1, <1>2, AppendFacts
<1>4. \A i \in DOMAIN rx' : rx'[i].type # "notif" => rx'[i].of \in Sent \cup {}
  BY <1>3 DEF Sent
<1>5. Sent' \subseteq Sent \cup {}
  BY <1>4, SentStays
<1>. QED
  BY <1>5

-----------------------------------------------------------------------------
(* The steps, as far as software ids go *)

Foreign == {q \in Req : q.by = "other"}

\* No request begins or is written.
Quiet ==
  /\ UNCHANGED <<obj, swid>> /\ count'.req = count.req
  /\ req' = req \/ req' = Idle
  /\ Sent' \subseteq Sent \cup Foreign

\* The running request is written, or the write fails.
Writes ==
  /\ UNCHANGED <<obj, swid, count>> /\ req \in Req
  /\ req' = [req EXCEPT !.at = "wait"] \/ req' = Idle
  /\ Sent' \subseteq Sent \cup {req}

\* A request begins.
Begins(r) ==
  /\ obj' = obj /\ count'.req = count.req + 1
  /\ r \in Req /\ r.by = "me" /\ r.obj = obj /\ r.id = count.req + 1
  /\ HasSwId(r.kind) => r.sw = swid /\ swid' = next_sw_id(swid)
  /\ ~HasSwId(r.kind) => r.sw = 0 /\ r.sub \in Regs /\ swid' = swid
  /\ req' = r \/ req' = [r EXCEPT !.at = "wait"] \/ req' = Idle
  /\ Sent' \subseteq Sent \cup {r}

\* There is a new object.
Restarts ==
  /\ obj' = obj + 1 /\ swid' = 1 /\ count'.req = count.req /\ req' = Idle /\ Sent' \subseteq Sent

LEMMA StepKinds ==
  ASSUME Types, [Next]_vars
  PROVE  Quiet \/ Writes \/ (\E r : Begins(r)) \/ Restarts
<1>1. ASSUME NEW c \in Requests, Begin(c) PROVE Begins(New(c))
  <2>1. /\ count.req < MaxReq /\ count' = [count EXCEPT !.req = @ + 1]
        /\ swid' = IF HasSwId(c.kind) THEN next_sw_id(swid) ELSE swid
        /\ UNCHANGED <<obj, rx>>
    BY <1>1 DEF Begin, object
  <2>2. \/ req' = New(c) /\ UNCHANGED owed
        \/ Write(New(c))
    BY <1>1 DEF Begin, New
  <2>3. /\ req' = New(c) \/ req' = [New(c) EXCEPT !.at = "wait"] \/ req' = Idle
        /\ owed' \subseteq owed \cup {New(c)}
    BY <2>2 DEF Write, Ends
  <2>4. Sent' \subseteq Sent \cup {New(c)}
    BY <2>1, <2>3 DEF Sent
  <2>5. count'.req = count.req + 1
    BY <2>1 DEF Types
  <2>6. /\ New(c) \in Req /\ New(c).by = "me" /\ New(c).obj = obj
        /\ New(c).id = count.req + 1 /\ New(c).kind = c.kind
        /\ HasSwId(c.kind) => New(c).sw = swid
        /\ ~HasSwId(c.kind) => New(c).sw = 0 /\ New(c).sub \in Regs
    BY <2>1, NewFacts
  <2>. QED
    BY <2>1, <2>3, <2>4, <2>5, <2>6 DEF Begins
<1>2. ASSUME TakeLock PROVE Writes
  <2>1. req \in Req /\ Write(req) /\ UNCHANGED <<obj, swid, count, rx>>
    BY <1>2 DEF TakeLock, Types, TypeOK, Idle, object
  <2>2. /\ req' = [req EXCEPT !.at = "wait"] \/ req' = Idle
        /\ owed' \subseteq owed \cup {req}
    BY <2>1 DEF Write, Ends
  <2>3. Sent' \subseteq Sent \cup {req}
    BY <2>1, <2>2 DEF Sent
  <2>. QED
    BY <2>1, <2>2, <2>3 DEF Writes
<1>3. ASSUME ReadFrame PROVE Quiet
  <2>1. /\ rx # << >> /\ rx' = Tail(rx) /\ UNCHANGED <<obj, swid, owed, count>>
        /\ req' = req \/ req' = Idle
    BY <1>3 DEF ReadFrame, object, Ends
  <2>2. \A i \in DOMAIN rx' : i + 1 \in DOMAIN rx /\ rx'[i] = rx[i + 1]
    BY <2>1, TailFacts DEF Types
  <2>3. \A i \in DOMAIN rx' : rx'[i].type # "notif" => rx'[i].of \in Sent \cup Foreign
    BY <2>2 DEF Sent
  <2>4. Sent' \subseteq Sent \cup Foreign
    BY <2>1, <2>3, SentStays
  <2>. QED
    BY <2>1, <2>4 DEF Quiet
<1>4. ASSUME Deadline \/ OtherEnds \/ UNCHANGED vars PROVE Quiet
  <2>1. UNCHANGED <<obj, swid, owed, rx, count>> /\ (req' = req \/ req' = Idle)
    BY <1>4 DEF Deadline, OtherEnds, Ends, vars, object
  <2>. QED
    BY <2>1 DEF Quiet, Sent
<1>5. ASSUME ReadFails \/ write_register \/ set_device_index \/ clear_feature_cache PROVE Quiet
  <2>1. /\ UNCHANGED <<obj, swid, rx>> /\ (req' = req \/ req' = Idle) /\ owed' \subseteq owed /\ Event(0)
    BY <1>5 DEF ReadFails, write_register, set_device_index, clear_feature_cache, Ends, object
  <2>2. count'.req = count.req
    BY <2>1, EventFacts
  <2>. QED
    BY <2>1, <2>2 DEF Quiet, Sent
<1>6. ASSUME NewTransport PROVE Restarts
  <2>1. obj' = obj + 1 /\ swid' = 1 /\ req' = Idle /\ rx' = << >> /\ owed' = owed /\ Event(0)
    BY <1>6 DEF NewTransport
  <2>2. count'.req = count.req
    BY <2>1, EventFacts
  <2>3. Sent' \subseteq Sent
    BY <2>1 DEF Sent
  <2>. QED
    BY <2>1, <2>2, <2>3 DEF Restarts
<1>7. ASSUME drain_notifications \/ receive_notification PROVE Quiet
  <2>1. UNCHANGED <<obj, swid, req, owed>> /\ Event(0)
    BY <1>7 DEF drain_notifications, receive_notification, object
  <2>2. \E k \in 0..Len(rx) : rx' = SubSeq(rx, k + 1, Len(rx))
    BY <1>7, DrainTakes DEF receive_notification, Takes
  <2>3. Sent' \subseteq Sent
    BY <2>1, <2>2, SentShrinks
  <2>4. count'.req = count.req
    BY <2>1, EventFacts
  <2>. QED
    BY <2>1, <2>3, <2>4 DEF Quiet
<1>8. ASSUME OtherLocks PROVE Quiet
  <2>1. UNCHANGED <<obj, swid, req, rx>> /\ Event(0)
    BY <1>8 DEF OtherLocks, object
  <2>2. count'.req = count.req
    BY <2>1, EventFacts
  <2>3. owed' \subseteq Req
    BY <1>8, TypesOutside DEF Types, TypeOK
  <2>4. \A q \in owed' : q \in owed \/ q.by = "other"
    BY <1>8 DEF OtherLocks
  <2>5. owed' \subseteq owed \cup Foreign
    BY <2>3, <2>4 DEF Foreign
  <2>. QED
    BY <2>1, <2>2, <2>5 DEF Quiet, Sent
<1>9. ASSUME DeviceAnswers PROVE Quiet
  <2>1. PICK r \in owed : \E f \in {Answer(r, "long"), Error(r), Answer(r, "short")} :
          owed' = owed \ {r} /\ Deliver(f) /\ UNCHANGED count
    BY <1>9 DEF DeviceAnswers
  <2>2. r \in Req
    BY DEF Types, TypeOK
  <2>3. PICK f \in Frame : f.of = r /\ Deliver(f)
    BY <2>1, <2>2, FrameMade
  <2>4. Sent' \subseteq Sent
    BY <2>1, <2>3, SentDelivered
  <2>. QED
    BY <2>1, <2>3, <2>4 DEF Quiet, Deliver, object
<1>10. ASSUME DeviceNotifies PROVE Quiet
  <2>1. Event(1) /\ Deliver(Notification(count.notif + 1)) /\ UNCHANGED owed
    BY <1>10 DEF DeviceNotifies
  <2>2. count.notif + 1 \in Nat
    BY DEF Types
  <2>3. Sent' \subseteq Sent
    BY <2>1, <2>2, FrameMade, SentDelivered
  <2>4. count'.req = count.req
    BY <2>1, EventFacts
  <2>. QED
    BY <2>1, <2>3, <2>4 DEF Quiet, Deliver, object
<1>. QED
  BY <1>1, <1>2, <1>3, <1>4, <1>5, <1>6, <1>7, <1>8, <1>9, <1>10 DEF Next

-----------------------------------------------------------------------------
(* A software id comes back only after SwMax requests *)

LEMMA IdInit == Init => IdInv
BY DEF Init, IdInv, ReqInv, AgeInv, ApartInv, Sent

\* The ids a request is behind grow by at most one with each request.
LEMMA BehindFacts ==
  ASSUME NEW s \in 1..SwMax
  PROVE  /\ SwMax \in Nat /\ next_sw_id(s) \in 1..SwMax
         /\ Behind(s, s) = SwMax /\ Behind(s, next_sw_id(s)) <= 1
         /\ \A a \in 1..SwMax : /\ Behind(a, s) \in 1..SwMax
                               /\ Behind(a, next_sw_id(s)) \in 1..SwMax
                               /\ Behind(a, next_sw_id(s)) <= Behind(a, s) + 1
<1>1. SwMax \in Nat
  BY Constants
<1>. QED
  BY <1>1 DEF Behind, next_sw_id

LEMMA IdStep ==
  ASSUME Types, IdInv, [Next]_vars
  PROVE  IdInv'
<1>1. /\ swid \in 1..SwMax /\ SwMax \in Nat /\ obj \in Nat /\ count.req \in Nat
      /\ Sent \subseteq Req /\ (req = Idle \/ req \in Req) /\ Idle \notin Req
  <2>1. Idle \notin Req
    BY DEF Idle, Req
  <2>2. swid \in 1..SwMax /\ SwMax \in Nat /\ (req = Idle \/ req \in Req)
    BY Constants DEF Types, TypeOK
  <2>3. obj \in Nat /\ count.req \in Nat
    BY DEF Types
  <2>. QED
    BY <2>1, <2>2, <2>3, SentTypes
<1>2. \A q \in Req : /\ q.id \in Nat /\ q.obj \in Nat /\ q.sw \in Nat /\ q.by \in {"me", "other"}
                     /\ LET w == [q EXCEPT !.at = "wait"] IN
                        /\ w \in Req /\ w.by = q.by /\ w.id = q.id /\ w.obj = q.obj
                        /\ w.kind = q.kind /\ w.sw = q.sw /\ w.sub = q.sub
  BY Constants DEF Req
<1>3. CASE Quiet
  <2>1. ReqInv'
    BY <1>3 DEF Quiet, IdInv, ReqInv
  <2>2. \A q \in Sent' : q.by = "me" => q \in Sent
    BY <1>3 DEF Quiet, Foreign
  <2>3. AgeInv'
    BY <1>3, <2>2 DEF Quiet, IdInv, AgeInv, Mine
  <2>4. ApartInv'
    BY <1>3, <2>2 DEF Quiet, IdInv, ApartInv, Mine, Apart
  <2>. QED
    BY <2>1, <2>3, <2>4 DEF IdInv
<1>4. CASE Writes
  <2>2. req # Idle /\ req \in Req
    BY <1>1, <1>4 DEF Writes
  <2>1. ReqInv'
    <3>1. /\ req.by = "me" /\ req.obj = obj /\ req.id = count.req
          /\ HasSwId(req.kind) => req.sw \in 1..SwMax /\ Behind(req.sw, swid) <= 1
          /\ ~HasSwId(req.kind) => req.sw = 0 /\ req.sub \in Regs
      BY <2>2 DEF IdInv, ReqInv
    <3>2. \/ req' = Idle
          \/ /\ req'.by = req.by /\ req'.id = req.id /\ req'.obj = req.obj
             /\ req'.kind = req.kind /\ req'.sw = req.sw /\ req'.sub = req.sub
      BY <1>2, <1>4, <2>2 DEF Writes
    <3>3. UNCHANGED <<obj, swid, count>>
      BY <1>4 DEF Writes
    <3>. QED
      BY <3>1, <3>2, <3>3 DEF ReqInv
  <2>3. AgeInv'
    <3>. SUFFICES ASSUME NEW q \in Sent', q.by = "me"
                  PROVE  /\ q.obj <= obj /\ q.id <= count.req
                         /\ ~HasSwId(q.kind) => q.sw = 0
                         /\ q.obj = obj /\ HasSwId(q.kind) =>
                              q.sw \in 1..SwMax /\ count.req + 1 - q.id >= Behind(q.sw, swid)
      BY <1>4 DEF Writes, AgeInv, Mine
    <3>1. CASE q \in Sent
      BY <3>1 DEF IdInv, AgeInv, Mine
    <3>2. CASE q = req
      <4>1. /\ req.obj = obj /\ req.id = count.req
            /\ HasSwId(req.kind) => req.sw \in 1..SwMax /\ Behind(req.sw, swid) <= 1
            /\ ~HasSwId(req.kind) => req.sw = 0
        BY <2>2 DEF IdInv, ReqInv
      <4>2. \A a \in 1..SwMax : Behind(a, swid) \in 1..SwMax
        BY <1>1, BehindFacts
      <4>. QED
        BY <1>1, <3>2, <4>1, <4>2
    <3>. QED
      BY <1>4, <3>1, <3>2 DEF Writes
  <2>4. ApartInv'
    BY ZenonT(40), <1>1, <1>2, <1>4, <2>2 DEF Writes, IdInv, ApartInv, Mine, Apart
  <2>. QED
    BY <2>1, <2>3, <2>4 DEF IdInv
<1>5. ASSUME NEW r, Begins(r) PROVE IdInv'
  <2>1. r \in Req /\ count'.req = count.req + 1 /\ obj' = obj
    BY <1>5 DEF Begins
  <2>2. ReqInv'
    BY <1>1, <1>2, <1>5, <2>1, BehindFacts DEF Begins, ReqInv
  <2>3. AgeInv'
    <3>. SUFFICES ASSUME NEW q \in Sent', q.by = "me"
                  PROVE  /\ q.obj <= obj /\ q.id <= count.req + 1
                         /\ ~HasSwId(q.kind) => q.sw = 0
                         /\ q.obj = obj /\ HasSwId(q.kind) =>
                              q.sw \in 1..SwMax /\ (count.req + 1) + 1 - q.id >= Behind(q.sw, swid')
      BY <1>1, <2>1 DEF AgeInv, Mine
    <3>1. CASE q = r
      BY <1>1, <1>2, <1>5, <3>1, BehindFacts DEF Begins
    <3>2. CASE q \in Sent
      <4>1. /\ q.obj <= obj /\ q.id <= count.req /\ q.id \in Nat
            /\ ~HasSwId(q.kind) => q.sw = 0
            /\ q.obj = obj /\ HasSwId(q.kind) =>
                 q.sw \in 1..SwMax /\ count.req + 1 - q.id >= Behind(q.sw, swid)
        BY <1>1, <1>2, <3>2 DEF IdInv, AgeInv, Mine
      <4>2. \A a \in 1..SwMax : /\ Behind(a, swid) \in 1..SwMax
                                 /\ Behind(a, swid') \in 1..SwMax
                                 /\ Behind(a, swid') <= Behind(a, swid) + 1
        BY <1>1, <1>5, BehindFacts DEF Begins
      <4>3. ASSUME q.obj = obj, HasSwId(q.kind)
            PROVE  (count.req + 1) + 1 - q.id >= Behind(q.sw, swid')
        <5>1. /\ Behind(q.sw, swid) \in 1..SwMax /\ Behind(q.sw, swid') \in 1..SwMax
              /\ Behind(q.sw, swid') <= Behind(q.sw, swid) + 1
              /\ count.req + 1 - q.id >= Behind(q.sw, swid)
          BY <4>1, <4>2, <4>3
        <5>. QED
          BY <1>1, <4>1, <5>1
      <4>. QED
        BY <1>1, <4>1, <4>3
    <3>. QED
      BY <1>5, <3>1, <3>2 DEF Begins
  <2>4. ApartInv'
    <3>. SUFFICES ASSUME req' # Idle, HasSwId(req'.kind), NEW q \in Sent', q.by = "me",
                         q.obj = obj, HasSwId(q.kind), q.sw = req'.sw
                  PROVE  q.id = req'.id \/ req'.id - q.id >= SwMax
      BY <2>1 DEF ApartInv, Mine, Apart
    <3>1. req'.kind = r.kind /\ req'.sw = r.sw /\ req'.id = r.id /\ HasSwId(r.kind)
      BY <1>2, <1>5, <2>1 DEF Begins
    <3>2. r.sw = swid /\ r.id = count.req + 1
      BY <1>5, <3>1 DEF Begins
    <3>3. CASE q \in Sent
      <4>1. count.req + 1 - q.id >= Behind(q.sw, swid) /\ q.id \in Nat
        BY <1>1, <1>2, <3>3 DEF IdInv, AgeInv, Mine
      <4>2. Behind(q.sw, swid) = SwMax
        BY <1>1, <3>1, <3>2, BehindFacts
      <4>3. req'.id = count.req + 1
        BY <3>1, <3>2
      <4>. QED
        BY <1>1, <4>1, <4>2, <4>3
    <3>. QED
      BY <1>5, <3>1, <3>3 DEF Begins
  <2>. QED
    BY <2>2, <2>3, <2>4 DEF IdInv
<1>6. CASE Restarts
  <2>1. ReqInv' /\ ApartInv'
    BY <1>6 DEF Restarts, ReqInv, ApartInv
  <2>2. \A q \in Sent' : q.by = "me" =>
          q \in Req /\ q.obj <= obj /\ q.id <= count.req /\ (~HasSwId(q.kind) => q.sw = 0)
    BY <1>1, <1>6 DEF Restarts, IdInv, AgeInv
  <2>3. \A q \in Sent' : q.by = "me" => q.obj <= obj' /\ q.obj # obj'
    <3>. SUFFICES ASSUME NEW q \in Sent', q.by = "me" PROVE q.obj <= obj' /\ q.obj # obj'
      OBVIOUS
    <3>1. q.obj \in Nat /\ q.obj <= obj
      BY <1>2, <2>2
    <3>. QED
      BY <1>1, <1>6, <3>1 DEF Restarts
  <2>4. AgeInv'
    BY <1>6, <2>2, <2>3 DEF Restarts, AgeInv, Mine
  <2>. QED
    BY <2>1, <2>4 DEF IdInv
<1>. QED
  BY <1>3, <1>4, <1>5, <1>6, StepKinds

-----------------------------------------------------------------------------
(* Whose answer a request gets *)

\* Only the wait loop ends a request with a frame.
LEMMA GotFrame ==
  ASSUME Types, Next
  PROVE  \/ got'.frame = NoFrame
         \/ /\ ReadFrame /\ req \in Req /\ rx # << >> /\ got' = [req |-> req, frame |-> Head(rx)]
            /\ Verdict(req, Head(rx)) \in {"take", "fail"}
<1>1. Nothing.frame = NoFrame
  BY DEF Nothing
<1>2. CASE ReadFrame
  <2>1. req \in Req /\ rx # << >>
    BY <1>2 DEF ReadFrame, Types, TypeOK, Idle
  <2>. QED
    BY <1>1, <1>2, <2>1 DEF ReadFrame, Ends
<1>3. CASE (\E c \in Requests : Begin(c)) \/ TakeLock
  <2>1. \A r : Write(r) => got'.frame = NoFrame
    BY <1>1 DEF Write, Ends
  <2>2. got' = Nothing \/ \E r : Write(r)
    BY <1>3 DEF Begin, TakeLock
  <2>. QED
    BY <1>1, <2>1, <2>2
<1>4. CASE Deadline \/ ReadFails
  BY <1>4 DEF Deadline, ReadFails, Ends
<1>5. CASE \/ write_register \/ set_device_index \/ clear_feature_cache \/ NewTransport
           \/ drain_notifications \/ receive_notification \/ OtherLocks \/ OtherEnds
  BY <1>1, <1>5 DEF write_register, set_device_index, clear_feature_cache, NewTransport,
                    drain_notifications, receive_notification, OtherLocks, OtherEnds
<1>6. CASE DeviceAnswers \/ DeviceNotifies
  BY <1>1, <1>6 DEF DeviceAnswers, DeviceNotifies, Deliver
<1>. QED
  BY <1>2, <1>3, <1>4, <1>5, <1>6 DEF Next

LEMMA OwnStep ==
  ASSUME Types, IdInv, OwnAnswer, OwnError, SlotAnswer, [Next]_vars
  PROVE  OwnAnswer' /\ OwnError' /\ SlotAnswer'
<1>1. CASE UNCHANGED vars
  BY <1>1 DEF vars, OwnAnswer, OwnError, SlotAnswer
<1>2. CASE got'.frame = NoFrame
  <2>1. got'.frame.type = "none"
    BY <1>2 DEF NoFrame
  <2>. QED
    BY <2>1 DEF OwnAnswer, OwnError, SlotAnswer
<1>3. CASE /\ ReadFrame /\ req \in Req /\ rx # << >> /\ got' = [req |-> req, frame |-> Head(rx)]
           /\ Verdict(req, Head(rx)) \in {"take", "fail"}
  <2>. DEFINE f == Head(rx)
  <2>1. f \in Frame /\ f = rx[1] /\ 1 \in DOMAIN rx
    BY <1>3, TailFacts DEF Types
  <2>2. got'.req = req /\ got'.frame = f
    BY <1>3
  <2>. HIDE DEF f
  <2>3. /\ f.type \in {"answer", "error", "notif"}
        /\ f.type = "answer" => f.of \in Req /\ f.sw = f.of.sw /\ f.slot = f.of.slot
        /\ f.type = "error" => f.of \in Req /\ (HasSwId(f.of.kind) => f.sw = f.of.sw)
        /\ f.type = "notif" => f.of \in Nat /\ f.sw = 0
    BY <2>1, FrameFacts
  <2>4. f.type # "notif" => f.of \in Sent
    BY <2>1 DEF Sent
  <2>5. req # Idle /\ req.obj = obj /\ (HasSwId(req.kind) => req.sw \in 1..SwMax /\ req.sw # 0)
    <3>1. req # Idle
      BY <1>3 DEF Idle, Req
    <3>. QED
      BY <3>1, Constants DEF IdInv, ReqInv
  <2>6. HasSwId(req.kind) =>
          /\ f.type = "error" => f.sw = req.sw
          /\ f.type # "error" => f.sw = req.sw
    <3>1. ASSUME HasSwId(req.kind) PROVE FeatureVerdict(req, f) \in {"take", "fail"}
      BY <1>3, <3>1 DEF Verdict, HasSwId, f
    <3>. QED
      BY <3>1 DEF FeatureVerdict, is_hidpp_error, ErrorMatches, Matches
  <2>7. ASSUME HasSwId(req.kind), f.type # "notif", f.of.by = "me", f.of.obj = req.obj,
               HasSwId(f.of.kind)
        PROVE  f.of.id = req.id \/ req.id - f.of.id >= SwMax
    <3>1. f.of.sw = req.sw /\ Mine(f.of) /\ f.of \in Sent
      BY <2>3, <2>4, <2>5, <2>6, <2>7 DEF Mine
    <3>. QED
      BY <2>5, <2>7, <3>1 DEF IdInv, ApartInv, Apart
  <2>8. ASSUME HasSwId(req.kind), f.type = "answer", f.of.by = "me", f.of.obj = req.obj
        PROVE  HasSwId(f.of.kind)
    BY <2>3, <2>4, <2>5, <2>6, <2>8 DEF IdInv, AgeInv
  <2>9. OwnAnswer'
    <3>1. HasSwId(req.kind) => f.type # "notif"
      BY <2>3, <2>5, <2>6
    <3>. QED
      BY <2>2, <2>3, <2>7, <2>8, <3>1 DEF OwnAnswer
  <2>10. OwnError'
    BY <2>2, <2>7 DEF OwnError
  <2>11. SlotAnswer'
    <3>1. ASSUME f.type = "answer", req.kind = "register", req.slot # 0 PROVE f.slot = req.slot
      <4>1. RegisterVerdict(req, f) \in {"take", "fail"}
        BY <1>3, <3>1 DEF Verdict, HasSwId, f
      <4>. QED
        BY <3>1, <4>1 DEF RegisterVerdict, is_hidpp_error, RegisterMatches
    <3>. QED
      BY <2>2, <2>3, <3>1 DEF SlotAnswer
  <2>. QED
    BY <2>9, <2>10, <2>11
<1>. QED
  BY <1>1, <1>2, <1>3, GotFrame

LEMMA IdsAlways == Spec => [](Types /\ IdInv)
<1>1. Types /\ IdInv /\ [Next]_vars => Types' /\ IdInv'
  BY TypesStep, IdStep
<1>. QED
  BY TypesInit, IdInit, <1>1, PTL DEF Spec

\* send_feature_request, send_short, send_long, send_very_long, read_register:
\* however late the device answers, whatever another process asks on the same
\* node, and however often the software ids have come round, a request with an id
\* ends with its own answer or error or with one from at least SwMax requests ago,
\* and a slot register is answered for its slot; a feature request waits with the
\* lock of the node in hand, and the queues keep their bounds.
THEOREM AnswersAreAlwaysOwn == Spec => []AnswersAreOwn
<1>1. Init => OwnAnswer /\ OwnError /\ SlotAnswer
  BY DEF Init, Nothing, NoFrame, OwnAnswer, OwnError, SlotAnswer
<1>2. Types /\ IdInv /\ OwnAnswer /\ OwnError /\ SlotAnswer /\ [Next]_vars
        => OwnAnswer' /\ OwnError' /\ SlotAnswer'
  BY OwnStep
<1>3. Types /\ OwnAnswer /\ OwnError /\ SlotAnswer => AnswersAreOwn
  BY DEF Types, AnswersAreOwn
<1>. QED
  BY <1>1, <1>2, <1>3, IdsAlways, PTL DEF Spec

-----------------------------------------------------------------------------
(* Notifications *)

LEMMA NotesInit == Init => NotesInv
BY DEF Init, NotesInv, OrderInv, StashIsCurrent, NotificationsKept, Waiting

\* The numbers are numbers.
LEMMA NoteTypes ==
  ASSUME Types
  PROVE  /\ \A i \in DOMAIN drained : drained[i] \in Nat
         /\ \A i \in DOMAIN stash : stash[i].n \in Nat
         /\ \A i \in Waiting : i \in Nat /\ i \in DOMAIN rx /\ rx[i].of \in Nat
         /\ count.notif \in Nat
         /\ DOMAIN rx = 1..Len(rx) /\ Len(rx) \in Nat /\ DOMAIN stash = 1..Len(stash) /\ Len(stash) \in Nat
         /\ DOMAIN drained = 1..Len(drained) /\ Len(drained) \in Nat
<1>1. rx \in Seq(Frame) /\ stash \in Seq(Stashed) /\ drained \in Seq(Nat) /\ count.notif \in Nat
  BY DEF Types
<1>2. \A i \in DOMAIN stash : stash[i].n \in Nat
  BY StashFacts
<1>3. /\ DOMAIN rx = 1..Len(rx) /\ Len(rx) \in Nat /\ DOMAIN stash = 1..Len(stash) /\ Len(stash) \in Nat
      /\ DOMAIN drained = 1..Len(drained) /\ Len(drained) \in Nat
  BY <1>1
<1>4. \A i \in Waiting : i \in Nat /\ i \in DOMAIN rx /\ rx[i].of \in Nat
  BY <1>1, <1>3, FrameFacts DEF Waiting, is_notification
<1>. QED
  BY <1>1, <1>2, <1>3, <1>4

\* A step that touches no notification.
LEMMA NotesUntouched ==
  ASSUME NotesInv, UNCHANGED <<rx, stash, drained, epoch>>, count'.notif = count.notif,
         excused => excused'
  PROVE  NotesInv'
BY DEF NotesInv, OrderInv, StashIsCurrent, NotificationsKept, Waiting, is_notification

\* A notification is neither the answer nor the error of a request.
LEMMA NoteIsNoAnswer ==
  ASSUME Types, IdInv, req \in Req, NEW f \in Frame, is_notification(f)
  PROVE  /\ Verdict(req, f) \notin {"take", "fail"}
         /\ HasSwId(req.kind) => Verdict(req, f) = "stash"
<1>1. f.type = "notif" /\ f.sw = 0 /\ f.sub = EventSub
  <2>1. PICK n \in Nat : f = Notification(n)
    BY DEF Frame, is_notification, Answer, Error
  <2>. QED
    BY <2>1 DEF Notification
<1>2. /\ HasSwId(req.kind) => req.sw # 0
      /\ ~HasSwId(req.kind) => req.sub \in Regs
  <2>1. req # Idle
    BY DEF Idle, Req
  <2>. QED
    BY <2>1, Constants DEF IdInv, ReqInv
<1>3. req.kind \in {"feature", "short", "long", "verylong", "register", "ping"}
  <2>1. DOMAIN Sizes = {"feature", "short", "long", "verylong", "register", "ping"}
    BY DEF Sizes
  <2>. QED
    BY <2>1 DEF Req
<1>4. CASE HasSwId(req.kind)
  BY <1>1, <1>2, <1>4 DEF Verdict, FeatureVerdict, HasSwId, is_notification, is_hidpp_error, Matches
<1>5. CASE req.kind = "register"
  <2>1. ~HasSwId(req.kind)
    BY <1>5 DEF HasSwId
  <2>2. f.sub # req.sub
    BY <1>1, <1>2, <2>1, Constants
  <2>. QED
    BY <1>1, <1>5, <2>1, <2>2 DEF Verdict, RegisterVerdict, is_hidpp_error, RegisterMatches
<1>6. CASE req.kind = "ping"
  <2>1. ~HasSwId(req.kind)
    BY <1>6 DEF HasSwId
  <2>2. f.sub # "ping"
    BY <1>1, Constants
  <2>. QED
    BY <1>1, <1>6, <2>1, <2>2 DEF Verdict, is_hidpp_error, PingMatches
<1>. QED
  BY <1>3, <1>4, <1>5, <1>6 DEF HasSwId

\* The queue loses its first k reports and nothing else happens to notifications:
\* the order stays, and what is given up is written down.
LEMMA NotesCut ==
  ASSUME Types, NotesInv, NEW k \in 0..Len(rx), rx' = SubSeq(rx, k + 1, Len(rx)),
         UNCHANGED <<stash, drained, epoch>>, count'.notif = count.notif,
         excused => excused', (\E i \in 1..k : is_notification(rx[i])) => excused'
  PROVE  NotesInv'
<1>1. /\ DOMAIN rx = 1..Len(rx) /\ DOMAIN rx' = 1..(Len(rx) - k) /\ Len(rx) \in Nat /\ k \in Nat
      /\ \A i \in 1..(Len(rx) - k) : rx'[i] = rx[i + k]
  <2>1. rx \in Seq(Frame)
    BY DEF Types
  <2>. QED
    BY ONLY <2>1, k \in 0..Len(rx), rx' = SubSeq(rx, k + 1, Len(rx)), RestFacts
<1>2. \A i \in Waiting' : i \in Nat /\ i + k \in Waiting /\ rx'[i] = rx[i + k]
  BY <1>1 DEF Waiting, is_notification
<1>3. \A i, j \in Waiting' : i < j => i + k < j + k
  BY <1>1, <1>2
<1>4. OrderInv'
  BY <1>2, <1>3 DEF NotesInv, OrderInv
<1>5. NotificationsKept'
  <2>. SUFFICES ASSUME ~excused', NEW n \in 1..count.notif
                PROVE  \/ \E i \in DOMAIN rx' : is_notification(rx'[i]) /\ rx'[i].of = n
                       \/ \E i \in DOMAIN stash : stash[i].n = n
                       \/ n \in Range(drained)
    BY DEF NotificationsKept, is_notification
  <2>1. \/ \E i \in DOMAIN rx : is_notification(rx[i]) /\ rx[i].of = n
        \/ \E i \in DOMAIN stash : stash[i].n = n
        \/ n \in Range(drained)
    BY DEF NotesInv, NotificationsKept
  <2>2. ASSUME NEW i \in DOMAIN rx, is_notification(rx[i])
        PROVE  i - k \in DOMAIN rx' /\ rx'[i - k] = rx[i]
    <3>1. ~(i \in 1..k)
      BY <2>2
    <3>2. i - k \in 1..(Len(rx) - k) /\ (i - k) + k = i
      BY <1>1, <3>1
    <3>. QED
      BY <1>1, <3>2
  <2>. QED
    BY <2>1, <2>2
<1>. QED
  BY <1>4, <1>5 DEF NotesInv, StashIsCurrent

\* The first report leaves the queue; a notification goes to the stash, or it is
\* written down that it was given up.
LEMMA NotesRead ==
  ASSUME Types, IdInv, NotesInv, ReadFrame
  PROVE  NotesInv'
<1>. DEFINE f == Head(rx)
            x == [n |-> f.of, epoch |-> epoch]
<1>1. /\ rx # << >> /\ rx' = Tail(rx) /\ UNCHANGED <<drained, epoch, count>> /\ req \in Req
  BY DEF ReadFrame, object, Types, TypeOK, Idle
<1>2. /\ f = rx[1] /\ f \in Frame /\ Len(rx) \in Nat /\ Len(rx) >= 1 /\ 1 \in 0..Len(rx)
      /\ DOMAIN rx = 1..Len(rx) /\ DOMAIN rx' = 1..(Len(rx) - 1)
      /\ \A i \in 1..(Len(rx) - 1) : rx'[i] = rx[i + 1]
  BY <1>1, TailFacts DEF Types
<1>3. rx' = SubSeq(rx, 1 + 1, Len(rx))
  BY <1>1 DEF Types
<1>4. \/ stash' = stash /\ (excused => excused') /\ (is_notification(f) => excused')
      \/ is_notification(f) /\ stash' = Append(stash, x) /\ (excused => excused')
  <2>1. \/ Verdict(req, f) \in {"take", "fail"} /\ UNCHANGED <<stash, excused>>
        \/ /\ Verdict(req, f) \in {"skip", "stash"}
           /\ stash' = IF Verdict(req, f) = "stash" /\ Len(stash) < StashCap
                       THEN Append(stash, x) ELSE stash
           /\ excused' = (excused \/ (is_notification(f)
                                        /\ (~HasSwId(req.kind) \/ ~(Len(stash) < StashCap))))
    BY DEF ReadFrame
  <2>2. is_notification(f) => /\ Verdict(req, f) \notin {"take", "fail"}
                              /\ HasSwId(req.kind) => Verdict(req, f) = "stash"
    BY <1>1, <1>2, NoteIsNoAnswer
  <2>3. Verdict(req, f) = "stash" => is_notification(f)
    BY <1>1, <1>2, StashedIsNote
  <2>. HIDE DEF f, x
  <2>. QED
    BY <2>1, <2>2, <2>3
<1>5. CASE stash' = stash /\ (excused => excused') /\ (is_notification(f) => excused')
  <2>1. (\E i \in 1..1 : is_notification(rx[i])) => excused'
    BY <1>2, <1>5
  <2>. QED
    BY <1>1, <1>2, <1>3, <1>5, <2>1, NotesCut
<1>6. CASE is_notification(f) /\ stash' = Append(stash, x) /\ (excused => excused')
  <2>1. 1 \in Waiting /\ rx[1] = f /\ f.of \in Nat
    BY SMTT(30), <1>2, <1>6, NoteTypes DEF Waiting
  <2>2. x \in Stashed /\ x.n = rx[1].of /\ x.epoch = epoch
    BY <2>1 DEF Stashed, Types
  <2>. HIDE DEF f, x
  <2>3. /\ DOMAIN stash = 1..Len(stash) /\ Len(stash) \in Nat /\ DOMAIN stash' = 1..(Len(stash) + 1)
        /\ \A i \in 1..Len(stash) : stash'[i] = stash[i]
        /\ stash'[Len(stash) + 1] = x
    BY <1>6, <2>2, AppendFacts DEF Types
  <2>4. \A i \in DOMAIN stash' : \/ i \in DOMAIN stash /\ stash'[i] = stash[i] /\ i # Len(stash) + 1
                                 \/ i = Len(stash) + 1 /\ stash'[i].n = rx[1].of /\ stash'[i].epoch = epoch
    BY <2>2, <2>3
  <2>5. \A i \in Waiting' : i \in Nat /\ i + 1 \in Waiting /\ 1 < i + 1 /\ rx'[i] = rx[i + 1]
    BY <1>2 DEF Waiting, is_notification
  <2>6. \A i, j \in Waiting' : i < j => i + 1 < j + 1
    BY <2>5
  <2>7. \A i, j \in DOMAIN stash' : i < j => i \in DOMAIN stash /\ stash'[i] = stash[i] 
    BY <2>3, <2>4
  <2>8. OrderInv'
    <3>1. \A i, j \in DOMAIN stash' : i < j => stash'[i].n < stash'[j].n
      BY <2>1, <2>4, <2>7 DEF NotesInv, OrderInv
    <3>2. \A i, j \in Waiting' : i < j => rx'[i].of < rx'[j].of
      BY <2>5, <2>6 DEF NotesInv, OrderInv
    <3>3. \A i \in DOMAIN drained, j \in DOMAIN stash' : drained[i] < stash'[j].n
      BY <2>1, <2>4 DEF NotesInv, OrderInv
    <3>4. \A i \in DOMAIN stash', j \in Waiting' : stash'[i].n < rx'[j].of
      BY <2>1, <2>4, <2>5 DEF NotesInv, OrderInv
    <3>5. \A i \in DOMAIN stash' : stash'[i].n <= count.notif
      BY <2>1, <2>4 DEF NotesInv, OrderInv
    <3>6. /\ \A i \in DOMAIN drained, j \in Waiting' : drained[i] < rx'[j].of
          /\ \A i \in Waiting' : rx'[i].of <= count.notif
      BY <2>5 DEF NotesInv, OrderInv
    <3>. QED
      BY <1>1, <3>1, <3>2, <3>3, <3>4, <3>5, <3>6 DEF NotesInv, OrderInv
  <2>9. StashIsCurrent'
    BY <1>1, <2>4 DEF NotesInv, StashIsCurrent
  <2>10. NotificationsKept'
    <3>. SUFFICES ASSUME ~excused, NEW n \in 1..count.notif
                  PROVE  \/ \E i \in DOMAIN rx' : is_notification(rx'[i]) /\ rx'[i].of = n
                         \/ \E i \in DOMAIN stash' : stash'[i].n = n
                         \/ n \in Range(drained)
      BY <1>1, <1>6 DEF NotificationsKept, is_notification
    <3>1. \/ \E i \in DOMAIN rx : is_notification(rx[i]) /\ rx[i].of = n
          \/ \E i \in DOMAIN stash : stash[i].n = n
          \/ n \in Range(drained)
      BY DEF NotesInv, NotificationsKept
    <3>2. ASSUME NEW i \in DOMAIN rx, is_notification(rx[i]), rx[i].of = n
          PROVE  \/ \E j \in DOMAIN rx' : is_notification(rx'[j]) /\ rx'[j].of = n
                 \/ \E j \in DOMAIN stash' : stash'[j].n = n
      <4>1. CASE i = 1
        <5>1. Len(stash) + 1 \in DOMAIN stash' /\ stash'[Len(stash) + 1].n = n
          BY <2>2, <2>3, <3>2, <4>1
        <5>. QED
          BY <5>1
      <4>2. CASE i # 1
        <5>1. i - 1 \in 1..(Len(rx) - 1) /\ (i - 1) + 1 = i
          BY <1>2, <4>2
        <5>2. i - 1 \in DOMAIN rx' /\ rx'[i - 1] = rx[i]
          BY <1>2, <5>1
        <5>. QED
          BY <3>2, <5>2
      <4>. QED
        BY <4>1, <4>2
    <3>3. ASSUME NEW i \in DOMAIN stash, stash[i].n = n PROVE \E j \in DOMAIN stash' : stash'[j].n = n
      <4>1. i \in DOMAIN stash' /\ stash'[i] = stash[i]
        BY <2>3
      <4>. QED
        BY <3>3, <4>1
    <3>. QED
      BY <3>1, <3>2, <3>3
  <2>. QED
    BY <2>8, <2>9, <2>10 DEF NotesInv
<1>. QED
  BY <1>4, <1>5, <1>6

\* The stash and, with the object, the queue are thrown away.
LEMMA NotesDropped ==
  ASSUME Types, NotesInv, set_device_index \/ NewTransport
  PROVE  NotesInv'
<1>1. stash' = << >> /\ drained' = drained /\ Event(0) /\ (rx' = rx \/ rx' = << >>)
  BY DEF set_device_index, NewTransport
<1>2. count'.notif = count.notif
  BY <1>1, EventFacts DEF Types
<1>3. DOMAIN stash' = {} /\ DOMAIN << >> = {}
  BY <1>1
<1>4. \A i \in Waiting' : i \in Waiting /\ rx'[i] = rx[i]
  BY <1>1, <1>3 DEF Waiting, is_notification
<1>5. OrderInv'
  BY <1>1, <1>2, <1>3, <1>4 DEF NotesInv, OrderInv
<1>6. StashIsCurrent'
  BY <1>3 DEF StashIsCurrent
<1>7. NotificationsKept'
  <2>1. CASE excused'
    BY <2>1 DEF NotificationsKept
  <2>2. CASE ~excused'
    <3>1. set_device_index /\ stash = << >> /\ ~excused /\ rx' = rx
      BY <2>2 DEF set_device_index, NewTransport
    <3>. QED
      BY <1>1, <1>2, <1>3, <3>1 DEF NotesInv, NotificationsKept, is_notification
  <2>. QED
    BY <2>1, <2>2
<1>. QED
  BY <1>5, <1>6, <1>7 DEF NotesInv

\* An answer joins the queue, or the next notification does, or there is no room.
LEMMA NotesDelivered ==
  ASSUME Types, NotesInv, NEW f \in Frame, Deliver(f),
         \/ ~is_notification(f) /\ count'.notif = count.notif
         \/ is_notification(f) /\ f.of = count.notif + 1 /\ count'.notif = count.notif + 1
  PROVE  NotesInv'
<1>1. UNCHANGED <<stash, drained, epoch>> /\ (excused => excused')
  BY DEF Deliver, object
<1>2. /\ count.notif \in Nat /\ count'.notif \in Nat /\ count.notif <= count'.notif
      /\ \A n \in Nat : n <= count.notif => n <= count'.notif
  <2>1. count.notif \in Nat
    BY NoteTypes
  <2>. QED
    BY <2>1
<1>3. CASE rx' = Append(rx, f)
  <2>1. /\ DOMAIN rx = 1..Len(rx) /\ Len(rx) \in Nat /\ DOMAIN rx' = 1..(Len(rx) + 1)
        /\ \A i \in 1..Len(rx) : rx'[i] = rx[i]
        /\ rx'[Len(rx) + 1] = f
    BY <1>3, AppendFacts DEF Types
  <2>2. \A i \in Waiting' :
          \/ i \in Waiting /\ rx'[i] = rx[i] /\ rx[i].of \in Nat /\ rx[i].of <= count.notif
          \/ /\ i = Len(rx) + 1 /\ is_notification(f) /\ rx'[i].of = count.notif + 1
             /\ count'.notif = count.notif + 1
    <3>. SUFFICES ASSUME NEW i \in Waiting', ~(i = Len(rx) + 1 /\ is_notification(f))
                  PROVE  i \in Waiting /\ rx'[i] = rx[i] /\ rx[i].of \in Nat /\ rx[i].of <= count.notif
      BY <2>1
    <3>1. i \in DOMAIN rx' /\ is_notification(rx'[i])
      BY DEF Waiting, is_notification
    <3>2. i \in 1..Len(rx)
      BY <2>1, <3>1
    <3>3. i \in Waiting /\ rx'[i] = rx[i]
      BY <2>1, <3>1, <3>2 DEF Waiting
    <3>. QED
      BY <3>3, NoteTypes DEF NotesInv, OrderInv
  <2>3. \A i, j \in Waiting' : i < j => i \in Waiting /\ rx'[i] = rx[i] /\ rx[i].of \in Nat /\ rx[i].of <= count.notif
    <3>. SUFFICES ASSUME NEW i \in Waiting', NEW j \in Waiting', i < j PROVE i # Len(rx) + 1
      BY <2>2
    <3>1. j \in 1..(Len(rx) + 1)
      BY <2>1 DEF Waiting
    <3>. QED
      BY <2>1, <3>1
  <2>4. OrderInv'
    <3>1. \A i, j \in Waiting' : i < j => rx'[i].of < rx'[j].of
      BY <1>2, <2>2, <2>3 DEF NotesInv, OrderInv
    <3>2. \A i \in DOMAIN drained, j \in Waiting' : drained[i] < rx'[j].of
      BY <1>2, <2>2, NoteTypes DEF NotesInv, OrderInv
    <3>3. \A i \in DOMAIN stash, j \in Waiting' : stash[i].n < rx'[j].of
      BY <1>2, <2>2, NoteTypes DEF NotesInv, OrderInv
    <3>4. /\ \A i \in DOMAIN drained : drained[i] <= count'.notif
          /\ \A i \in DOMAIN stash : stash[i].n <= count'.notif
      BY <1>2, NoteTypes DEF NotesInv, OrderInv
    <3>5. \A i \in Waiting' : rx'[i].of <= count'.notif
      BY <1>2, <2>2
    <3>. QED
      BY <1>1, <3>1, <3>2, <3>3, <3>4, <3>5 DEF NotesInv, OrderInv
  <2>5. NotificationsKept'
    <3>. SUFFICES ASSUME ~excused, NEW n \in 1..count'.notif
                  PROVE  \/ \E i \in DOMAIN rx' : is_notification(rx'[i]) /\ rx'[i].of = n
                         \/ \E i \in DOMAIN stash : stash[i].n = n
                         \/ n \in Range(drained)
      BY <1>1 DEF NotificationsKept, is_notification
    <3>1. CASE n \in 1..count.notif
      <4>1. \A i \in DOMAIN rx : i \in DOMAIN rx' /\ rx'[i] = rx[i]
        BY <2>1
      <4>. QED
        BY <3>1, <4>1 DEF NotesInv, NotificationsKept
    <3>2. CASE n \notin 1..count.notif
      <4>1. is_notification(f) /\ f.of = count.notif + 1 /\ n = count.notif + 1
        BY <1>2, <3>2
      <4>2. Len(rx) + 1 \in DOMAIN rx' /\ rx'[Len(rx) + 1] = f
        BY <2>1
      <4>. QED
        BY <4>1, <4>2
    <3>. QED
      BY <3>1, <3>2
  <2>. QED
    BY <1>1, <2>4, <2>5 DEF NotesInv, StashIsCurrent
<1>4. CASE rx' = rx /\ (is_notification(f) => excused')
  <2>1. Waiting' = Waiting
    BY <1>4 DEF Waiting, is_notification
  <2>2. OrderInv'
    BY <1>1, <1>2, <1>4, <2>1, NoteTypes DEF NotesInv, OrderInv
  <2>3. NotificationsKept'
    BY <1>1, <1>4 DEF NotesInv, NotificationsKept, is_notification
  <2>. QED
    BY <1>1, <2>2, <2>3 DEF NotesInv, StashIsCurrent
<1>. QED
  BY <1>3, <1>4 DEF Deliver

\* drain_notifications: the stash first, and the queue only after the whole stash.
LEMMA NotesDrained ==
  ASSUME Types, NotesInv, drain_notifications
  PROVE  NotesInv'
<1>1. PICK t, k, live : Takes(t, k, live)
  BY DrainTakes
<1>2. epoch' = epoch /\ excused' = excused /\ Event(0)
  BY DEF drain_notifications, object
<1>3. count'.notif = count.notif
  BY <1>2, EventFacts DEF Types
<1>. DEFINE a == Len(drained)
            m == Len(live)
<1>4. /\ a \in Nat /\ m \in Nat /\ t \in Nat /\ t <= Len(stash) /\ DOMAIN drained = 1..a
      /\ DOMAIN drained' = 1..(a + t + m)
      /\ \A i \in 1..a : drained'[i] = drained[i]
      /\ \A i \in 1..t : i \in DOMAIN stash /\ drained'[a + i] = stash[i].n
      /\ \A i \in 1..m : live[i] \in Waiting /\ drained'[a + t + i] = rx[live[i]].of
  <2>1. LET b == Len(drained)  n == Len(live) IN
        /\ b \in Nat /\ n \in Nat /\ t \in Nat /\ t <= Len(stash) /\ DOMAIN drained = 1..b
        /\ drained' \in Seq(Nat) /\ DOMAIN drained' = 1..(b + t + n)
        /\ \A i \in 1..b : drained'[i] = drained[i]
        /\ \A i \in 1..t : i \in DOMAIN stash /\ drained'[b + i] = stash[i].n
        /\ \A i \in 1..n : live[i] \in Waiting /\ drained'[b + t + i] = rx[live[i]].of
    BY ONLY <1>1, Types, TakesFacts
  <2>. QED
    BY <2>1
<1>5. /\ t \in 0..Len(stash) /\ k \in 0..Len(rx) /\ Len(stash) \in Nat /\ Len(rx) \in Nat
      /\ DOMAIN stash = 1..Len(stash) /\ DOMAIN stash' = 1..(Len(stash) - t)
      /\ \A i \in 1..(Len(stash) - t) : stash'[i] = stash[i + t]
      /\ DOMAIN rx = 1..Len(rx) /\ DOMAIN rx' = 1..(Len(rx) - k)
      /\ \A i \in 1..(Len(rx) - k) : rx'[i] = rx[i + k]
  BY ONLY <1>1, Types, TakesRest, Zenon
<1>6. /\ \A i \in 1..m : live[i] \in Waiting /\ live[i] <= k /\ live[i] \in Nat
      /\ \A i, j \in 1..m : i < j => live[i] < live[j]
      /\ \A w \in Waiting : w <= k => \E i \in 1..m : live[i] = w
  BY <1>1, PlacesFacts, NoteTypes DEF Takes
<1>7. t < Len(stash) => k = 0
  BY <1>1 DEF Takes
<1>. HIDE DEF a, m
<1>8. \A i \in Waiting' : i \in Nat /\ i + k \in Waiting /\ k < i + k /\ rx'[i] = rx[i + k]
  BY <1>5 DEF Waiting, is_notification
<1>9. \A i \in DOMAIN stash' : i \in Nat /\ i + t \in DOMAIN stash /\ t < i + t /\ stash'[i] = stash[i + t]
  BY <1>4, <1>5
<1>10. DOMAIN stash' # {} => m = 0
  <2>. SUFFICES ASSUME DOMAIN stash' # {}, m # 0 PROVE FALSE
    OBVIOUS
  <2>1. k = 0
    BY <1>4, <1>5, <1>7
  <2>2. 1 \in 1..m
    BY <1>4
  <2>3. live[1] \in Waiting /\ live[1] <= k
    BY <1>6, <2>2
  <2>. QED
    BY <1>5, <2>1, <2>3 DEF Waiting
\* Where the drained numbers come from.
<1>11. \A i \in DOMAIN drained' :
         \/ i \in 1..a /\ i \in DOMAIN drained /\ drained'[i] = drained[i]
         \/ i - a \in 1..t /\ i - a \in DOMAIN stash /\ drained'[i] = stash[i - a].n
         \/ i - a - t \in 1..m /\ live[i - a - t] \in Waiting /\ drained'[i] = rx[live[i - a - t]].of
  <2>. SUFFICES ASSUME NEW i \in DOMAIN drained', ~(i \in 1..a), ~(i - a \in 1..t)
                PROVE  i - a - t \in 1..m /\ live[i - a - t] \in Waiting /\ drained'[i] = rx[live[i - a - t]].of
    <3>1. \A j \in DOMAIN drained' : j - a \in 1..t => a + (j - a) = j
      BY <1>4
    <3>. QED
      BY <1>4, <3>1
  <2>1. i - a - t \in 1..m /\ a + t + (i - a - t) = i
    BY <1>4
  <2>. QED
    BY <1>4, <2>1
<1>. DEFINE Old(i) == i \in 1..a /\ i \in DOMAIN drained /\ drained'[i] = drained[i]
            FromStash(i) == i - a \in 1..t /\ i - a \in DOMAIN stash /\ drained'[i] = stash[i - a].n
            FromQueue(i) == /\ i - a - t \in 1..m /\ live[i - a - t] \in Waiting
                            /\ drained'[i] = rx[live[i - a - t]].of
<1>12. \A i, j \in DOMAIN drained' : i < j => drained'[i] < drained'[j]
  <2>. SUFFICES ASSUME NEW i \in DOMAIN drained', NEW j \in DOMAIN drained', i < j
                PROVE  drained'[i] < drained'[j]
    OBVIOUS
  <2>1. i \in Nat /\ j \in Nat /\ (Old(i) \/ FromStash(i) \/ FromQueue(i)) /\ (Old(j) \/ FromStash(j) \/ FromQueue(j))
    BY <1>4, <1>11
  <2>2. CASE Old(i)
    <3>1. CASE Old(j)
      BY <2>2, <3>1 DEF NotesInv, OrderInv
    <3>2. CASE FromStash(j)
      BY <2>2, <3>2 DEF NotesInv, OrderInv
    <3>3. CASE FromQueue(j)
      BY <2>2, <3>3 DEF NotesInv, OrderInv
    <3>. QED
      BY <2>1, <3>1, <3>2, <3>3
  <2>3. CASE FromStash(i)
    <3>1. CASE Old(j)
      BY <1>4, <2>1, <2>3, <3>1
    <3>2. CASE FromStash(j)
      <4>1. i - a < j - a
        BY <1>4, <2>1
      <4>. QED
        BY <2>3, <3>2, <4>1 DEF NotesInv, OrderInv
    <3>3. CASE FromQueue(j)
      BY <2>3, <3>3 DEF NotesInv, OrderInv
    <3>. QED
      BY <2>1, <3>1, <3>2, <3>3
  <2>4. CASE FromQueue(i)
    <3>1. CASE Old(j) \/ FromStash(j)
      BY <1>4, <2>1, <2>4, <3>1
    <3>2. CASE FromQueue(j)
      <4>1. i - a - t < j - a - t
        BY <1>4, <2>1
      <4>2. live[i - a - t] < live[j - a - t]
        BY <1>6, <2>4, <3>2, <4>1
      <4>. QED
        BY <2>4, <3>2, <4>2 DEF NotesInv, OrderInv
    <3>. QED
      BY <2>1, <3>1, <3>2
  <2>. QED
    BY <2>1, <2>2, <2>3, <2>4
<1>13. \A i \in DOMAIN drained', j \in DOMAIN stash' : drained'[i] < stash'[j].n
  <2>. SUFFICES ASSUME NEW i \in DOMAIN drained', NEW j \in DOMAIN stash' PROVE drained'[i] < stash'[j].n
    OBVIOUS
  <2>1. j + t \in DOMAIN stash /\ t < j + t /\ stash'[j] = stash[j + t] /\ m = 0
    BY <1>9, <1>10
  <2>2. CASE Old(i)
    BY <2>1, <2>2 DEF NotesInv, OrderInv
  <2>3. CASE FromStash(i)
    <3>1. i - a < j + t
      BY <1>4, <1>9, <2>1, <2>3
    <3>. QED
      BY <2>1, <2>3, <3>1 DEF NotesInv, OrderInv
  <2>. QED
    BY <1>11, <2>1, <2>2, <2>3
<1>14. \A i \in DOMAIN drained', j \in Waiting' : drained'[i] < rx'[j].of
  <2>. SUFFICES ASSUME NEW i \in DOMAIN drained', NEW j \in Waiting' PROVE drained'[i] < rx'[j].of
    OBVIOUS
  <2>1. j + k \in Waiting /\ k < j + k /\ rx'[j] = rx[j + k] /\ j \in Nat
    BY <1>8
  <2>2. CASE Old(i)
    BY <2>1, <2>2 DEF NotesInv, OrderInv
  <2>3. CASE FromStash(i)
    BY <2>1, <2>3 DEF NotesInv, OrderInv
  <2>4. CASE FromQueue(i)
    <3>1. live[i - a - t] < j + k
      BY <1>5, <1>6, <2>1, <2>4
    <3>. QED
      BY <2>1, <2>4, <3>1 DEF NotesInv, OrderInv
  <2>. QED
    BY <1>11, <2>2, <2>3, <2>4
<1>15. OrderInv'
  <2>1. \A i, j \in DOMAIN stash' : i < j => stash'[i].n < stash'[j].n
    <3>1. \A i, j \in DOMAIN stash' : i < j => i + t < j + t
      BY <1>4, <1>9
    <3>. QED
      BY <1>9, <3>1 DEF NotesInv, OrderInv
  <2>2. \A i, j \in Waiting' : i < j => rx'[i].of < rx'[j].of
    <3>1. \A i, j \in Waiting' : i < j => i + k < j + k
      BY <1>5, <1>8
    <3>. QED
      BY <1>8, <3>1 DEF NotesInv, OrderInv
  <2>3. \A i \in DOMAIN stash', j \in Waiting' : stash'[i].n < rx'[j].of
    BY <1>8, <1>9 DEF NotesInv, OrderInv
  <2>4. \A i \in DOMAIN drained' : drained'[i] <= count.notif
    BY <1>11 DEF NotesInv, OrderInv
  <2>5. /\ \A i \in DOMAIN stash' : stash'[i].n <= count.notif
        /\ \A i \in Waiting' : rx'[i].of <= count.notif
    BY <1>8, <1>9 DEF NotesInv, OrderInv
  <2>. QED
    BY <1>3, <1>12, <1>13, <1>14, <2>1, <2>2, <2>3, <2>4, <2>5 DEF OrderInv
<1>16. StashIsCurrent'
  BY <1>2, <1>9 DEF NotesInv, StashIsCurrent
<1>17. NotificationsKept'
  <2>. SUFFICES ASSUME ~excused, NEW n \in 1..count.notif
                PROVE  \/ \E i \in DOMAIN rx' : is_notification(rx'[i]) /\ rx'[i].of = n
                       \/ \E i \in DOMAIN stash' : stash'[i].n = n
                       \/ n \in {drained'[i] : i \in DOMAIN drained'}
    BY <1>2, <1>3 DEF NotificationsKept, Range, is_notification
  <2>1. \/ \E i \in DOMAIN rx : is_notification(rx[i]) /\ rx[i].of = n
        \/ \E i \in DOMAIN stash : stash[i].n = n
        \/ n \in {drained[i] : i \in DOMAIN drained}
    BY DEF NotesInv, NotificationsKept, Range
  <2>2. ASSUME NEW w \in DOMAIN rx, is_notification(rx[w]), rx[w].of = n
        PROVE  \/ \E i \in DOMAIN rx' : is_notification(rx'[i]) /\ rx'[i].of = n
               \/ \E i \in DOMAIN drained' : drained'[i] = n
    <3>1. CASE w <= k
      <4>1. PICK i \in 1..m : live[i] = w
        BY <1>6, <2>2, <3>1 DEF Waiting
      <4>2. a + t + i \in DOMAIN drained' /\ drained'[a + t + i] = n
        BY <1>4, <2>2, <4>1
      <4>. QED
        BY <4>2
    <3>2. CASE ~(w <= k)
      <4>1. w - k \in 1..(Len(rx) - k) /\ (w - k) + k = w
        BY <1>5, <3>2
      <4>2. w - k \in DOMAIN rx' /\ rx'[w - k] = rx[w]
        BY <1>5, <4>1
      <4>. QED
        BY <2>2, <4>2
    <3>. QED
      BY <3>1, <3>2
  <2>3. ASSUME NEW w \in DOMAIN stash, stash[w].n = n
        PROVE  \/ \E i \in DOMAIN stash' : stash'[i].n = n
               \/ \E i \in DOMAIN drained' : drained'[i] = n
    <3>1. CASE w <= t
      <4>1. a + w \in DOMAIN drained' /\ drained'[a + w] = n
        BY <1>4, <1>5, <2>3, <3>1
      <4>. QED
        BY <4>1
    <3>2. CASE ~(w <= t)
      <4>1. w - t \in 1..(Len(stash) - t) /\ (w - t) + t = w
        BY <1>5, <3>2
      <4>2. w - t \in DOMAIN stash' /\ stash'[w - t] = stash[w]
        BY <1>5, <4>1
      <4>. QED
        BY <2>3, <4>2
    <3>. QED
      BY <3>1, <3>2
  <2>4. \A i \in DOMAIN drained : i \in DOMAIN drained' /\ drained'[i] = drained[i]
    BY <1>4
  <2>. QED
    BY <2>1, <2>2, <2>3, <2>4
<1>. QED
  BY <1>15, <1>16, <1>17 DEF NotesInv

LEMMA NotesStep ==
  ASSUME Types, IdInv, NotesInv, [Next]_vars
  PROVE  NotesInv'
<1>1. CASE (\E c \in Requests : Begin(c)) \/ TakeLock \/ Deadline \/ OtherEnds \/ UNCHANGED vars
  <2>1. UNCHANGED <<rx, stash, drained, epoch, excused>> /\ (count' = count \/ \E c \in Requests : Begin(c))
    BY <1>1 DEF Begin, TakeLock, Deadline, OtherEnds, vars, object, history
  <2>2. count'.notif = count.notif
    BY <2>1 DEF Begin, Types
  <2>. QED
    BY <2>1, <2>2, NotesUntouched
<1>2. CASE ReadFails \/ write_register \/ OtherLocks
  <2>1. UNCHANGED <<rx, stash, drained, epoch>> /\ (excused => excused') /\ Event(0)
    BY <1>2 DEF ReadFails, write_register, OtherLocks, object, history
  <2>2. count'.notif = count.notif
    BY <2>1, EventFacts DEF Types
  <2>. QED
    BY <2>1, <2>2, NotesUntouched
<1>3. CASE receive_notification
  <2>1. UNCHANGED <<stash, drained, epoch>> /\ Event(0)
    BY <1>3 DEF receive_notification, object
  <2>2. count'.notif = count.notif
    BY <2>1, EventFacts DEF Types
  <2>3. PICK k \in 0..Len(rx) : /\ rx' = SubSeq(rx, k + 1, Len(rx))
                                /\ excused' = (excused \/ \E i \in 1..k : is_notification(rx[i]))
    BY <1>3 DEF receive_notification
  <2>. QED
    BY <2>1, <2>2, <2>3, NotesCut
<1>4. CASE DeviceAnswers
  <2>1. PICK r \in owed : \E f \in {Answer(r, "long"), Error(r), Answer(r, "short")} :
          Deliver(f) /\ UNCHANGED count
    BY <1>4 DEF DeviceAnswers
  <2>2. r \in Req
    BY DEF Types, TypeOK
  <2>3. PICK f \in Frame : Deliver(f) /\ ~is_notification(f) /\ UNCHANGED count
    BY <2>1, <2>2, FrameMade DEF is_notification
  <2>. QED
    BY <2>3, NotesDelivered
<1>5. CASE DeviceNotifies
  <2>. DEFINE f == Notification(count.notif + 1)
  <2>1. Event(1) /\ Deliver(f)
    BY <1>5 DEF DeviceNotifies
  <2>2. count.notif + 1 \in Nat
    BY DEF Types
  <2>3. f \in Frame /\ is_notification(f) /\ f.of = count.notif + 1
    BY <2>2, FrameMade DEF is_notification
  <2>4. count'.notif = count.notif + 1
    BY <2>1, EventFacts
  <2>. HIDE DEF f
  <2>. QED
    BY <2>1, <2>3, <2>4, NotesDelivered
<1>. QED
  BY <1>1, <1>2, <1>3, <1>4, <1>5, NotesRead, NotesDropped, NotesDrained
  DEF Next, clear_feature_cache

LEMMA NotesAlways == Spec => []NotesInv
<1>1. Types /\ IdInv /\ NotesInv /\ [Next]_vars => NotesInv'
  BY NotesStep
<1>. QED
  BY NotesInit, <1>1, IdsAlways, PTL DEF Spec

\* drain_notifications: for any sizes of the stash, the queue and one drain, and
\* wherever the deadline cuts a drain off, the notifications come out in the order
\* the device sent them, each once, and none that was stashed for another target.
THEOREM DrainedAlwaysInOrder == Spec => []DrainedInOrder
<1>1. NotesInv => DrainedInOrder
  BY DEF NotesInv, OrderInv, DrainedInOrder
<1>. QED
  BY <1>1, NotesAlways, PTL

\* The wait loops of the feature requests never lose a notification: whatever is
\* asked and answered meanwhile, it waits in the queue or the stash until it is
\* drained, unless the code gave it up on purpose.
THEOREM NotificationsAlwaysKept == Spec => []NotificationsKept
<1>1. NotesInv => NotificationsKept
  BY DEF NotesInv
<1>. QED
  BY <1>1, NotesAlways, PTL

(***************************************************************************)
(* The calls: their inductive invariant.  It is needed because what a call *)
(* reports when it returns depends on what it has read and written before:  *)
(* each part says at which stage which of this is already known.            *)
(***************************************************************************)
Running == call # NoCall
Fields == {"op", "tgt", "val", "pc", "i", "sub", "miss", "t", "dl", "sweep", "cand",
           "found", "out", "info", "id", "then", "res", "at", "before"}
Vals == {c.val : c \in Calls}
Axes == Levels \cup Vals
Settings == [mode : {"onboard", "host"}, x : Axes, y : Axes, lod : 1..3,
             rate : Vals \cup {1000}]
InfosOf(f) == [ext : {f = "extdpi"}, x : Axes, y : Axes, lod : 1..3, got : SUBSET DOMAIN ListChunks[f]]
Infos == InfosOf("extdpi") \cup InfosOf("dpi")

\* The calls that can be at a stage.
DpiOps == {"dpi_info", "set_dpi", "set_lod"}
SetOps == {"set_dpi", "set_lod", "set_rate"}
EnumOps == {"features", "battery", "identify"}
FsStages == {"features", "fs_count", "fs_each", "fs_done"}
DpiStages == {"caps", "current", "legacy", "list", "dpi_done"}
Single == {"restore", "sector", "headers", "read_sector", "reprog", "host", "led"}
StageOf(pc, op) ==
  \/ pc \in FsStages /\ op \in EnumOps
  \/ pc = "battery" /\ op = "battery"
  \/ pc \in {"pair_info", "pairing", "pair_name", "pair_serial"} /\ op = "pairing"
  \/ pc \in {"mode", "disable"} /\ op \in SetOps
  \/ pc \in DpiStages /\ op \in DpiOps
  \/ pc = "write" /\ op \in {"set_dpi", "set_lod"}
  \/ pc \in {"rate", "xrate", "rateset", "xrateset"} /\ op = "set_rate"
  \/ pc \in {"xlive", "live"} /\ op = "get_rate"
  \/ pc \in Single /\ op = pc
  \/ pc \in {"sweep", "identified", "info", "ping"} /\ op = "identify"
  \/ pc = "ret" /\ op \in Ops

\* Where a call goes after the feature set.
ThenOf(op) == IF op = "features" THEN "ret" ELSE IF op = "battery" THEN "battery" ELSE "identified"

\* What the stages change of the call, apart from its time and results.
Flow ==
  /\ StageOf(call.pc, call.op)
  /\ call.i \in Nat \ {0} /\ call.sub \in Nat /\ call.dl \in Nat
  /\ call.miss \in 0..Streak
  /\ call.info \in Infos \cup {NoInfo}
  /\ call.pc \in FsStages => call.then = ThenOf(call.op)

CallTypes ==
  /\ call = [k \in Fields |-> call[k]]
  /\ call.tgt \in Targets /\ call.val \in Vals
  /\ call.op = "identify" => call.tgt = Node
  /\ call.op # "identify" => devidx = Node
  /\ call.t \in Nat /\ call.at \in Nat /\ call.at <= trouble
  /\ call.before \in [Targets -> Settings]
  /\ Flow

Typed ==
  /\ FeatureAt \in Topologies /\ slow \in BOOLEAN /\ touched \in BOOLEAN /\ flag \in BOOLEAN
  /\ hw \in [Targets -> Settings]
  /\ devidx \in Targets /\ trouble \in 0..MaxTrouble
  /\ off \subseteq Targets
  /\ call = NoCall => devidx = Node
  /\ Running => CallTypes

\* The caches, what an enumeration has found, and the profiles.
Cached ==
  /\ CacheIsTrue
  /\ \A t \in off : "onboard" \in Features(t)
  /\ Running =>
       /\ call.pc = "disable" => <<Tgt, "onboard">> \in idx
       /\ call.pc \in {"fs_each", "fs_done", "battery", "identified", "info"}
          => call.found \subseteq Features(Tgt)

Kept ==
  OneKeeper =>
    /\ FlagTells
    /\ \A t \in off : <<t, "onboard">> \in idx
    /\ Running /\ call.op = "identify" => ~flag

\* What a call that reports success has done.
Did(op, tgt, val, res) ==
  /\ op = "set_dpi" /\ res = TRUE /\ ~touched => hw[tgt].x = val /\ hw[tgt].y = val
  /\ op = "set_rate" /\ res = TRUE => hw[tgt].rate = val
  /\ op = "set_lod" /\ res = TRUE => hw[tgt].lod = val
  /\ op = "restore" /\ res = TRUE /\ OneKeeper => tgt \notin off

\* What a call has left alone.
Left(op, tgt, before) ==
  /\ ~touched => \A t \in Targets : (t # tgt \/ op = "identify") => hw[t] = before[t]
  /\ op = "set_lod" /\ ~touched => hw[tgt].x = before[tgt].x /\ hw[tgt].y = before[tgt].y
  /\ op = "set_dpi" => hw[tgt].lod = before[tgt].lod

\* Both axes of every device, and what they may be: what is listed, or what they were.
AxesOf(h) == {h.x, h.y}
Listable(h, before) == \A t \in Targets : AxesOf(h[t]) \subseteq Levels \cup AxesOf(before[t])

\* What a DPI write goes by.
WriteReady ==
  /\ call.pc = "list" => call.info \in Infos
  /\ call.pc = "write" => /\ call.info \in Infos
                          /\ call.op = "set_dpi" =>
                               call.val \in LevelsRead[ListOf(call.info)][call.info.got]
                          /\ call.op = "set_lod" => call.val \in 1..3
  /\ call.info \in Infos =>
       /\ call.op = "set_lod" /\ ~touched =>
            call.info.x = call.before[call.tgt].x /\ call.info.y = call.before[call.tgt].y
       /\ call.op = "set_lod" =>
            AxesOf(call.info) \subseteq Levels \cup AxesOf(call.before[call.tgt])
       /\ call.op = "set_dpi" => call.info.lod = call.before[call.tgt].lod

Worked ==
  /\ Running => /\ call.pc = "ret" => Did(call.op, call.tgt, call.val, call.res)
                /\ Left(call.op, call.tgt, call.before)
                /\ WriteReady
                /\ (call.pc = "ret" /\ call.op = "set_dpi" => Gapless(call.info.got)) =>
                     Listable(hw, call.before)
  /\ call = NoCall /\ last.pc = "ret" =>
       /\ last.tgt \in Targets
       /\ last.op # "identify" => Did(last.op, last.tgt, last.val, last.res)
       /\ Left(last.op, last.tgt, last.before)
       /\ (last.op = "set_dpi" => Gapless(last.got)) => Listable(hw, last.before)

\* A run of misses ends an enumeration.
Missed ==
  Running =>
    /\ call.pc \in {"fs_each", "pairing", "list"} /\ call.miss = Streak => call.i > ChunkMax
    /\ call.pc \in {"pair_name", "pair_serial"} => call.miss = 0
    /\ call.pc \in {"pairing", "pair_name", "pair_serial"} => call.sub <= ChunkMax

\* No request of the call was late, refused or lost, and nothing takes time.
Clean == trouble = call.at /\ ~slow

\* The battery of a target: the source, and those before it.
ReadFrom(t, clean, s) ==
  /\ s \in Features(t) \cup RegistersOf[t] \cup {"none"}
  /\ clean /\ fset[t] = Features(t) => s = Preferred(t)

BatteryPart ==
  /\ Running /\ call.op = "battery" =>
       /\ call.pc = "features" => call.i = 1
       /\ call.pc = "battery" =>
            /\ call.i \in 1..7 /\ call.found = fset[Tgt]
            /\ Clean /\ call.found = Features(Tgt) => \A j \in 1..(call.i - 1) : ~Has(Tgt, j)
       /\ call.pc = "ret" => ReadFrom(Tgt, Clean, call.res)
  /\ Returned("battery") => ReadFrom(last.tgt, last.clean, last.res)

\* A device identify lists, and what it has to have listed.
Named(t) == Features(t) \cap {"name", "fw"} # {}
IsId(id) == id = [serial |-> id.serial, model |-> id.model]
Honest(id, t) == \A part \in {"serial", "model"} : id[part] \in {"", Told(t)[part]}
Once(out) ==
  /\ \A u, v \in out : u.id = v.id => u = v
  /\ \A u \in out : Honest(u.id, u.tgt)
Exact(out) == \A u \in out : u.tgt \in Targets /\ Named(u.tgt) /\ u.id = Told(u.tgt)
ListsUpTo(out, n) ==
  Exact(out) /\ \A j \in 1..n : Named(Candidates[j]) => Listed(out, Told(Candidates[j]))
ListsAll(out) == Exact(out) /\ \A t \in Targets : Named(t) => Listed(out, Told(t))

\* What has been told when the sections before the i-th, and the first request of the
\* i-th unless sub = 0, are answered: the firmware is the fourth, the unit id the fifth.
Complete(id, i, sub) ==
  LET F == Features(devidx) IN
  /\ "fw" \in F /\ (i > 4 \/ (i = 4 /\ sub > 0)) => id = Told(devidx)
  /\ "unit" \in F /\ (i > 5 \/ (i = 5 /\ sub > 0)) => id.serial = Told(devidx).serial
Inner == {"features", "fs_count", "fs_each", "fs_done", "identified", "info"}

Sweeping(c, known, clean) ==
  /\ c.cand \in 1..(Len(Candidates) + 1) /\ c.sweep = Budget /\ Once(c.out)
  /\ clean => c.t = 0
  /\ c.pc = "sweep" /\ clean => ListsUpTo(c.out, c.cand - 1)
  /\ c.pc \in Inner =>
       /\ c.cand > 1 /\ devidx = Candidates[c.cand - 1]
       /\ clean => ListsUpTo(c.out, c.cand - 2)
  /\ c.pc = "features" => known = << >>
  /\ c.pc = "fs_each" /\ clean =>
       /\ c.dl > 0
       /\ \A j \in 1..Len(FeatureAt[devidx]) : j < c.i => FeatureAt[devidx][j] \in c.found
  /\ c.pc \in {"fs_done", "identified", "info"} /\ clean => c.found = Features(devidx)
  /\ c.pc = "info" =>
       /\ Named(devidx) /\ IsId(c.id) /\ Honest(c.id, devidx)
       /\ clean => Complete(c.id, c.i, c.sub)
  /\ c.pc = "ping" /\ clean => \A t \in Targets : ~Named(t)
  /\ c.pc = "ret" => Once(c.res) /\ (clean /\ (\E t \in Targets : Named(t)) => ListsAll(c.res))

IdentifyPart ==
  /\ Running /\ call.op = "identify" => Sweeping(call, fset, Clean)
  /\ Returned("identify") =>
       Once(last.res) /\ (last.clean /\ (\E t \in Targets : Named(t)) => ListsAll(last.res))

CallsInv == Typed /\ Cached /\ Kept /\ Worked /\ Missed /\ BatteryPart /\ IdentifyPart

-----------------------------------------------------------------------------
(* What a step does to the call: the fields outside S are kept. *)
Keeps(S) ==
  /\ call' = [k \in Fields |-> call'[k]]
  /\ call'.op = call.op /\ call'.tgt = call.tgt /\ call'.val = call.val /\ call'.sweep = call.sweep
  /\ call'.at = call.at /\ call'.before = call.before
  /\ "i" \in S \/ call'.i = call.i
  /\ "sub" \in S \/ call'.sub = call.sub
  /\ "miss" \in S \/ call'.miss = call.miss
  /\ "dl" \in S \/ call'.dl = call.dl
  /\ "cand" \in S \/ call'.cand = call.cand
  /\ "found" \in S \/ call'.found = call.found
  /\ "out" \in S \/ call'.out = call.out
  /\ "info" \in S \/ call'.info = call.info
  /\ "id" \in S \/ call'.id = call.id
  /\ "then" \in S \/ call'.then = call.then
  /\ "res" \in S \/ call'.res = call.res

\* A request with its outcome, and a step without one.
Asked(can, o) ==
  /\ o \in {"ok", "err", "lost", "late"} /\ (o \in {"ok", "late"} => can)
  /\ trouble' \in 0..MaxTrouble
  /\ trouble' = trouble \/ trouble' = trouble + 1
  /\ trouble' = trouble => o = "ok" \/ (o = "err" /\ ~can)
  /\ call'.t \in {call.t, call.t + Timeout}
  /\ trouble' = trouble /\ ~slow => call'.t = call.t
  /\ UNCHANGED <<FeatureAt, slow, devidx, last, touched>>

Unasked ==
  /\ call'.t = call.t
  /\ UNCHANGED <<FeatureAt, slow, devidx, last, touched, trouble>>

LEMMA Numbers ==
  /\ Timeout \in Nat /\ Budget \in Nat \ {0} /\ Streak \in Nat \ {0}
  /\ ChunkMax \in Nat /\ Slots \in Nat /\ Slots <= ChunkMax /\ Sectors \in Nat /\ Controls \in Nat
  /\ MaxCalls \in Nat /\ MaxTrouble \in Nat /\ MaxButtons \in Nat
  /\ NameChunks \in Nat /\ FwRecords \in Nat
  BY CallsAssumption

\* A request changes the call to c and takes its time.
LEMMA AsksEffect ==
  ASSUME Typed, NEW c, c = [k \in Fields |-> c[k]], c.t = call.t, call.t \in Nat,
         NEW can \in BOOLEAN, NEW o, Asks(can, o, c)
  PROVE  /\ Asked(can, o)
         /\ call' = [k \in Fields |-> call'[k]]
         /\ \A k \in Fields \ {"t"} : call'[k] = c[k]
<1>1. call' = [c EXCEPT !.t = c.t + Cost(o)]
  BY DEF Asks
<1>2. call' = [k \in Fields |-> call'[k]]
  BY <1>1 DEF Fields
<1>3. \A k \in Fields \ {"t"} : call'[k] = c[k]
  BY <1>1 DEF Fields
<1>4. call'.t = call.t + Cost(o)
  BY <1>1 DEF Fields
<1>5. Cost(o) \in {0, Timeout} /\ (o \in {"ok", "err"} /\ ~slow => Cost(o) = 0)
  BY DEF Cost
<1>6. UNCHANGED <<FeatureAt, slow, devidx, last, touched>>
  BY DEF Asks, plugged, callHistory
<1>7. /\ o \in {"ok", "err", "lost", "late"} /\ (o \in {"ok", "late"} => can)
      /\ trouble' \in 0..MaxTrouble
      /\ trouble' = trouble \/ trouble' = trouble + 1
      /\ trouble' = trouble => o = "ok" \/ (o = "err" /\ ~can)
  <2>1. o \in Outcomes(can) /\ trouble' <= MaxTrouble
        /\ trouble' = IF o = "ok" \/ (o = "err" /\ ~can) THEN trouble ELSE trouble + 1
    BY DEF Asks
  <2>2. trouble \in 0..MaxTrouble
    BY DEF Typed
  <2>3. CASE can BY ONLY <2>1, <2>2, <2>3, Numbers DEF Outcomes
  <2>4. CASE ~can BY ONLY <2>1, <2>2, <2>4, Numbers DEF Outcomes
  <2>5. QED BY <2>3, <2>4
<1>8. QED BY <1>2, <1>3, <1>4, <1>5, <1>6, <1>7, Numbers DEF Asked

\* c is the running call with the fields of S changed.
Like(c, S) ==
  /\ c = [k \in Fields |-> c[k]] /\ c.t = call.t
  /\ c.op = call.op /\ c.tgt = call.tgt /\ c.val = call.val /\ c.sweep = call.sweep
  /\ c.at = call.at /\ c.before = call.before
  /\ "i" \in S \/ c.i = call.i
  /\ "sub" \in S \/ c.sub = call.sub
  /\ "miss" \in S \/ c.miss = call.miss
  /\ "dl" \in S \/ c.dl = call.dl
  /\ "cand" \in S \/ c.cand = call.cand
  /\ "found" \in S \/ c.found = call.found
  /\ "out" \in S \/ c.out = call.out
  /\ "info" \in S \/ c.info = call.info
  /\ "id" \in S \/ c.id = call.id
  /\ "then" \in S \/ c.then = call.then
  /\ "res" \in S \/ c.res = call.res
\* The call has become c, apart from the time.
Becomes(c) ==
  /\ call'.pc = c.pc /\ call'.i = c.i /\ call'.sub = c.sub /\ call'.miss = c.miss /\ call'.dl = c.dl
  /\ call'.cand = c.cand /\ call'.found = c.found /\ call'.out = c.out /\ call'.info = c.info
  /\ call'.id = c.id /\ call'.then = c.then /\ call'.res = c.res

LEMMA AsksKeeps ==
  ASSUME Typed, Running, NEW c, NEW S, Like(c, S), NEW can \in BOOLEAN, NEW o, Asks(can, o, c)
  PROVE  Asked(can, o) /\ Keeps(S) /\ Becomes(c)
<1>1. call.t \in Nat
  BY DEF Typed, CallTypes
<1>2. Asked(can, o) /\ call' = [k \in Fields |-> call'[k]] /\ \A k \in Fields \ {"t"} : call'[k] = c[k]
  BY <1>1, AsksEffect DEF Like
<1>3. QED BY <1>2 DEF Like, Keeps, Becomes, Fields

LEMMA SkipsKeeps ==
  ASSUME NEW c, NEW S, Like(c, S), NEW o, Skips(o, c)
  PROVE  Unasked /\ o = "ok" /\ Keeps(S) /\ Becomes(c)
  BY DEF Skips, Unasked, Like, Keeps, Becomes, plugged, callHistory

LEMMA FeatureRootEffect ==
  ASSUME Typed, Running, NEW o, FeatureRoot(o)
  PROVE  /\ Asked(FeatureAt[Tgt] # << >>, o)
         /\ Keeps({"found", "i", "miss", "dl"})
         /\ UNCHANGED <<hw, idx, fset, flag, off>>
         /\ call.pc \in {"features", "fs_count"}
         /\ o # "ok" => call'.pc = "fs_done" /\ call'.found = {} /\ call'.i = call.i
            /\ call'.miss = call.miss
                        /\ call'.dl = call.dl
         /\ o = "ok" /\ call.pc = "features" => call'.pc = "fs_count" /\ call'.i = call.i
            /\ call'.miss = call.miss
                        /\ call'.dl = call.dl
         /\ o = "ok" /\ call.pc = "fs_count" =>
              /\ call'.pc = "fs_each" /\ call'.i = 1 /\ call'.miss = 0 /\ call'.found = {}
              /\ call'.dl = call.t + Budget + Cost(o)
<1> DEFINE c == IF ~Answered(o) THEN [Goto("fs_done") EXCEPT !.found = {}]
          ELSE IF At("features") THEN Goto("fs_count")
          ELSE [Loop("fs_each") EXCEPT !.found = {}, !.dl = @ + Cost(o)]
<1>1. Asks(FeatureAt[Tgt] # << >>, o, c) /\ UNCHANGED <<hw, idx, fset, flag, off>>
      /\ call.pc \in {"features", "fs_count"}
  BY DEF FeatureRoot, caches, At
<1>2. call = [k \in Fields |-> call[k]]
  BY DEF Typed, CallTypes
<1>3. Like(c, {"found", "i", "miss", "dl"})
      /\ (o # "ok" => c.pc = "fs_done" /\ c.found = {} /\ c.i = call.i /\ c.miss = call.miss
         /\ c.dl = call.dl)
      /\ (o = "ok" /\ call.pc = "features" => c.pc = "fs_count" /\ c.i = call.i /\ c.miss = call.miss
         /\ c.dl = call.dl)
      /\ (o = "ok" /\ call.pc = "fs_count" => 
              /\ c.pc = "fs_each" /\ c.i = 1 /\ c.miss = 0 /\ c.found = {}
              /\ c.dl = call.t + Budget + Cost(o))
  BY ONLY ZenonT(40), <1>1, <1>2 DEF Like, Goto, Loop, At, Answered, Fields
<1> HIDE DEF c
<1>4. QED BY <1>1, <1>3, AsksKeeps DEF Becomes

\* What a stage p that has no index leads to; d is the call after it.
NoIndexLeads(p, d) ==
  /\ p = "mode" => d.pc = (IF call.op = "set_rate" THEN "rate" ELSE "caps")
  /\ p = "restore" => d.pc = "ret" /\ d.res = TRUE
  /\ p = "caps" => d.pc = "legacy"
  /\ p = "legacy" => d.pc = "dpi_done" /\ d.info = NoInfo
  /\ p = "rate" => d.pc = "xrate"
  /\ p = "xlive" => d.pc = "live"
  /\ p \notin {"mode", "restore", "caps", "legacy", "rate", "xlive"} => d.pc = "ret" /\ d.res = FALSE
  /\ p # "legacy" => d.info = call.info

\* Where a stage goes that has no index.
LEMMA NoIndexEffect ==
  ASSUME call = [k \in Fields |-> call[k]], NEW p
  PROVE  Like(NoIndex(p), {"info", "res"}) /\ NoIndexLeads(p, NoIndex(p))
<1>1. CASE p = "mode" BY <1>1 DEF NoIndex, NoIndexLeads, AfterMode, Like, Goto, Ret, Fields
<1>2. CASE p = "restore" BY <1>2 DEF NoIndex, NoIndexLeads, Like, Goto, Ret, Fields
<1>3. CASE p = "caps" BY <1>3 DEF NoIndex, NoIndexLeads, Like, Goto, Ret, Fields
<1>4. CASE p = "legacy" BY <1>4 DEF NoIndex, NoIndexLeads, Like, Goto, Ret, Fields
<1>5. CASE p = "rate" BY <1>5 DEF NoIndex, NoIndexLeads, Like, Goto, Ret, Fields
<1>6. CASE p = "xlive" BY <1>6 DEF NoIndex, NoIndexLeads, Like, Goto, Ret, Fields
<1>7. CASE p \notin {"mode", "restore", "caps", "legacy", "rate", "xlive"}
  <2>1. NoIndex(p) = Ret(FALSE) BY <1>7 DEF NoIndex
  <2>2. QED BY <1>7, <2>1 DEF NoIndexLeads, Like, Ret, Fields
<1>8. QED BY <1>1, <1>2, <1>3, <1>4, <1>5, <1>6, <1>7

\* The bookkeeping of an enumeration; d is the call after it.
Counted(ok, d) ==
  /\ ok => d.i = call.i + 1 /\ d.miss = 0
  /\ ~ok => d.miss = call.miss + 1
  /\ ~ok /\ call.miss + 1 >= Streak => d.i = ChunkMax + 1
  /\ ~ok /\ ~(call.miss + 1 >= Streak) => d.i = call.i + 1
  /\ d.pc = call.pc

LEMMA AgainEffect ==
  ASSUME call = [k \in Fields |-> call[k]], NEW ok \in BOOLEAN
  PROVE  Like(Again(ok), {"i", "miss"}) /\ Counted(ok, Again(ok))
<1>1. CASE ok BY <1>1 DEF Again, Counted, Like, Fields
<1>2. CASE ~ok /\ call.miss + 1 >= Streak BY <1>2 DEF Again, Counted, Like, Fields
<1>3. CASE ~ok /\ ~(call.miss + 1 >= Streak) BY <1>3 DEF Again, Counted, Like, Fields
<1>4. QED BY <1>1, <1>2, <1>3

-----------------------------------------------------------------------------
(* What each step does, as far as the invariant goes *)

LEMMA ResolveEffect ==
  ASSUME Typed, Running, NEW o, resolve_feature_index(o)
  PROVE  /\ Asked(Need[call.pc] \in Features(Tgt), o)
         /\ Keeps({"info", "res"})
         /\ UNCHANGED <<hw, fset, flag, off>>
         /\ call.pc \in DOMAIN Need
         /\ <<Tgt, Need[call.pc]>> \notin idx
         /\ idx' = IF o = "ok" THEN idx \cup {<<Tgt, Need[call.pc]>>} ELSE idx
         /\ o = "ok" => call'.pc = call.pc /\ call'.info = call.info /\ call'.res = call.res
         /\ o # "ok" => NoIndexLeads(call.pc, call')
<1> DEFINE c == IF Answered(o) THEN call ELSE NoIndex(call.pc)
<1>1. /\ Asks(Need[call.pc] \in Features(Tgt), o, c)
      /\ UNCHANGED <<hw, fset, flag, off>>
      /\ call.pc \in DOMAIN Need
      /\ <<Tgt, Need[call.pc]>> \notin idx
      /\ idx' = IF o = "ok" THEN idx \cup {<<Tgt, Need[call.pc]>>} ELSE idx
  BY DEF resolve_feature_index, caches, At, KnownAs, Answered
<1>2. call = [k \in Fields |-> call[k]]
  BY DEF Typed, CallTypes
<1>3. /\ Like(c, {"info", "res"})
      /\ o = "ok" => c.pc = call.pc /\ c.info = call.info /\ c.res = call.res
      /\ o # "ok" => NoIndexLeads(call.pc, c)
  BY ONLY <1>1, <1>2, NoIndexEffect DEF Like, Goto, Loop, Ret, At, Answered, Fields
<1> HIDE DEF c
<1>4. (Need[call.pc] \in Features(Tgt)) \in BOOLEAN
  BY SMT
<1>5. Asked(Need[call.pc] \in Features(Tgt), o) /\ Keeps({"info", "res"}) /\ Becomes(c)
  BY ONLY Typed, Running, <1>1, <1>3, <1>4, AsksKeeps
<1>6. QED BY <1>1, <1>3, <1>5 DEF Becomes, NoIndexLeads

LEMMA PairingDetailEffect ==
  ASSUME Typed, Running, NEW o, PairingDetail(o)
  PROVE  /\ Asked(TRUE, o)
         /\ Keeps({"i"})
         /\ UNCHANGED <<hw, idx, fset, flag, off>>
         /\ call.pc \in {"pair_name", "pair_serial"}
         /\ call.pc = "pair_name" => call'.pc = "pair_serial" /\ call'.i = call.i
         /\ call.pc = "pair_serial" => call'.pc = "pairing" /\ call'.i = call.i + 1
<1> DEFINE c == IF At("pair_name") THEN Goto("pair_serial") ELSE [Goto("pairing") EXCEPT !.i = @ + 1]
<1>1. /\ Asks(TRUE, o, c)
      /\ UNCHANGED <<hw, idx, fset, flag, off>>
      /\ call.pc \in {"pair_name", "pair_serial"}
  BY DEF PairingDetail, caches, At
<1>2. call = [k \in Fields |-> call[k]]
  BY DEF Typed, CallTypes
<1>3. /\ Like(c, {"i"})
      /\ call.pc = "pair_name" => c.pc = "pair_serial" /\ c.i = call.i
      /\ call.pc = "pair_serial" => c.pc = "pairing" /\ c.i = call.i + 1
  BY ONLY <1>1, <1>2 DEF Like, Goto, Loop, Ret, At, Answered, Fields
<1> HIDE DEF c
<1>4. (TRUE) \in BOOLEAN
  BY SMT
<1>5. Asked(TRUE, o) /\ Keeps({"i"}) /\ Becomes(c)
  BY ONLY Typed, Running, <1>1, <1>3, <1>4, AsksKeeps
<1>6. QED BY <1>1, <1>3, <1>5 DEF Becomes

LEMMA ReadModeEffect ==
  ASSUME Typed, Running, NEW o, ReadMode(o)
  PROVE  /\ Asked(TRUE, o)
         /\ Keeps({})
         /\ UNCHANGED <<hw, idx, fset, flag, off>>
         /\ call.pc = "mode"
         /\ <<Tgt, "onboard">> \in idx
         /\ call'.pc = "disable" \/ call'.pc = (IF call.op = "set_rate" THEN "rate" ELSE "caps")
<1> DEFINE c == IF Answered(o) /\ hw[Tgt].mode = "host" THEN AfterMode ELSE Goto("disable")
<1>1. /\ Asks(TRUE, o, c)
      /\ UNCHANGED <<hw, idx, fset, flag, off>>
      /\ call.pc = "mode"
      /\ <<Tgt, "onboard">> \in idx
  BY DEF ReadMode, caches, At, With, KnownAs, Need
<1>2. call = [k \in Fields |-> call[k]]
  BY DEF Typed, CallTypes
<1>3. /\ Like(c, {})
      /\ c.pc = "disable" \/ c.pc = (IF call.op = "set_rate" THEN "rate" ELSE "caps")
  BY ONLY <1>1, <1>2 DEF Like, Goto, Loop, Ret, At, Answered, Fields, AfterMode
<1> HIDE DEF c
<1>4. (TRUE) \in BOOLEAN
  BY SMT
<1>5. Asked(TRUE, o) /\ Keeps({}) /\ Becomes(c)
  BY ONLY Typed, Running, <1>1, <1>3, <1>4, AsksKeeps
<1>6. QED BY <1>1, <1>3, <1>5 DEF Becomes

LEMMA DisableEffect ==
  ASSUME Typed, Running, NEW o, disable_onboard_profiles_for_write(o)
  PROVE  /\ Asked(TRUE, o)
         /\ Keeps({})
         /\ UNCHANGED <<idx, fset>>
         /\ call.pc = "disable"
         /\ hw' = IF Executed(o) THEN [hw EXCEPT ![Tgt].mode = "host"] ELSE hw
         /\ flag' = (flag \/ o = "ok")
         /\ off' = IF o = "ok" THEN off \cup {Tgt} ELSE off
         /\ call'.pc = (IF call.op = "set_rate" THEN "rate" ELSE "caps")
<1> DEFINE c == AfterMode
<1>1. /\ Asks(TRUE, o, c)
      /\ UNCHANGED <<idx, fset>>
      /\ call.pc = "disable"
      /\ hw' = IF Executed(o) THEN [hw EXCEPT ![Tgt].mode = "host"] ELSE hw
      /\ flag' = (flag \/ o = "ok")
      /\ off' = IF o = "ok" THEN off \cup {Tgt} ELSE off
  BY DEF disable_onboard_profiles_for_write, caches, At, SetMode, Answered
<1>2. call = [k \in Fields |-> call[k]]
  BY DEF Typed, CallTypes
<1>3. /\ Like(c, {})
      /\ c.pc = (IF call.op = "set_rate" THEN "rate" ELSE "caps")
  BY ONLY <1>1, <1>2 DEF Like, Goto, Loop, Ret, At, Answered, Fields, AfterMode
<1> HIDE DEF c
<1>4. (TRUE) \in BOOLEAN
  BY SMT
<1>5. Asked(TRUE, o) /\ Keeps({}) /\ Becomes(c)
  BY ONLY Typed, Running, <1>1, <1>3, <1>4, AsksKeeps
<1>6. QED BY <1>1, <1>3, <1>5 DEF Becomes

LEMMA RestoreEffect ==
  ASSUME Typed, Running, NEW o, restore_onboard_profiles(o)
  PROVE  /\ Asked(TRUE, o)
         /\ Keeps({"res"})
         /\ UNCHANGED <<idx, fset>>
         /\ call.pc = "restore"
         /\ flag
         /\ <<Tgt, "onboard">> \in idx
         /\ hw' = IF Executed(o) THEN [hw EXCEPT ![Tgt].mode = "onboard"] ELSE hw
         /\ flag' = (o # "ok")
         /\ off' = IF Executed(o) THEN off \ {Tgt} ELSE off
         /\ call'.pc = "ret" /\ call'.res = (o = "ok")
<1> DEFINE c == Ret(Answered(o))
<1>1. /\ Asks(TRUE, o, c)
      /\ UNCHANGED <<idx, fset>>
      /\ call.pc = "restore"
      /\ flag
      /\ <<Tgt, "onboard">> \in idx
      /\ hw' = IF Executed(o) THEN [hw EXCEPT ![Tgt].mode = "onboard"] ELSE hw
      /\ flag' = (o # "ok")
      /\ off' = IF Executed(o) THEN off \ {Tgt} ELSE off
  BY DEF restore_onboard_profiles, caches, At, With, KnownAs, Need, SetMode, Answered
<1>2. call = [k \in Fields |-> call[k]]
  BY DEF Typed, CallTypes
<1>3. /\ Like(c, {"res"})
      /\ c.pc = "ret" /\ c.res = (o = "ok")
  BY ONLY <1>1, <1>2 DEF Like, Goto, Loop, Ret, At, Answered, Fields
<1> HIDE DEF c
<1>4. (TRUE) \in BOOLEAN
  BY SMT
<1>5. Asked(TRUE, o) /\ Keeps({"res"}) /\ Becomes(c)
  BY ONLY Typed, Running, <1>1, <1>3, <1>4, AsksKeeps
<1>6. QED BY <1>1, <1>3, <1>5 DEF Becomes

LEMMA DpiCapsEffect ==
  ASSUME Typed, Running, NEW o, DpiCaps(o)
  PROVE  /\ Asked(TRUE, o)
         /\ Keeps({})
         /\ UNCHANGED <<hw, idx, fset, flag, off>>
         /\ call.pc = "caps"
         /\ call'.pc \in {"current", "legacy"}
<1> DEFINE c == Goto(IF Answered(o) THEN "current" ELSE "legacy")
<1>1. /\ Asks(TRUE, o, c)
      /\ UNCHANGED <<hw, idx, fset, flag, off>>
      /\ call.pc = "caps"
  BY DEF DpiCaps, caches, At, With
<1>2. call = [k \in Fields |-> call[k]]
  BY DEF Typed, CallTypes
<1>3. /\ Like(c, {})
      /\ c.pc \in {"current", "legacy"}
  BY ONLY <1>1, <1>2 DEF Like, Goto, Loop, Ret, At, Answered, Fields
<1> HIDE DEF c
<1>4. (TRUE) \in BOOLEAN
  BY SMT
<1>5. Asked(TRUE, o) /\ Keeps({}) /\ Becomes(c)
  BY ONLY Typed, Running, <1>1, <1>3, <1>4, AsksKeeps
<1>6. QED BY <1>1, <1>3, <1>5 DEF Becomes

LEMMA DpiCurrentEffect ==
  ASSUME Typed, Running, NEW o, DpiCurrent(o)
  PROVE  /\ Asked(TRUE, o)
         /\ Keeps({"info", "res", "i", "miss", "dl"})
         /\ UNCHANGED <<hw, idx, fset, flag, off>>
         /\ call.pc \in {"current", "legacy"}
         /\ o = "ok" => call'.pc = "list" /\ call'.i = 1 /\ call'.miss = 0
            /\ call'.dl = call.t + Budget + Cost(o)
              /\ call'.info = [ext |-> call.pc = "current", x |-> hw[Tgt].x, y |-> hw[Tgt].y,
                 lod |-> hw[Tgt].lod, got |-> {}]
         /\ o # "ok" => call'.i = call.i /\ call'.miss = call.miss /\ call'.dl = call.dl
         /\ o # "ok" /\ call.pc = "current" => call'.pc = "legacy" /\ call'.info = call.info
         /\ o # "ok" /\ call.pc = "legacy" => call'.pc = "dpi_done" /\ call'.info = NoInfo
<1> DEFINE c == IF Answered(o) THEN [Loop("list") EXCEPT !.info = [ext |-> At("current"),
     x |-> hw[Tgt].x, y |-> hw[Tgt].y, lod |-> hw[Tgt].lod, got |-> {}], !.dl = @ + Cost(o)]
                      ELSE IF At("current") THEN Goto("legacy") ELSE NoIndex("legacy")
<1>1. /\ Asks(TRUE, o, c)
      /\ UNCHANGED <<hw, idx, fset, flag, off>>
      /\ call.pc \in {"current", "legacy"}
  BY DEF DpiCurrent, caches, At, With
<1>2. call = [k \in Fields |-> call[k]]
  BY DEF Typed, CallTypes
<1>3. ASSUME o = "ok"
      PROVE  /\ Like(c, {"info", "res", "i", "miss", "dl"})
             /\ c.pc = "list" /\ c.i = 1 /\ c.miss = 0 /\ c.dl = call.t + Budget + Cost(o)
             /\ c.info = [ext |-> call.pc = "current", x |-> hw[Tgt].x, y |-> hw[Tgt].y,
                  lod |-> hw[Tgt].lod, got |-> {}]
  <2> DEFINE d == [Loop("list") EXCEPT !.info = [ext |-> At("current"),
       x |-> hw[Tgt].x, y |-> hw[Tgt].y, lod |-> hw[Tgt].lod, got |-> {}], !.dl = @ + Cost(o)]
  <2>1. c = d
    BY ONLY <1>3 DEF Answered
  <2>2. /\ Like(d, {"info", "res", "i", "miss", "dl"})
        /\ d.pc = "list" /\ d.i = 1 /\ d.miss = 0 /\ d.dl = call.t + Budget + Cost(o)
        /\ d.info = [ext |-> call.pc = "current", x |-> hw[Tgt].x, y |-> hw[Tgt].y,
                 lod |-> hw[Tgt].lod, got |-> {}]
    BY ONLY ZenonT(40), <1>2 DEF Like, Loop, At, Fields
  <2> QED BY ONLY <2>1, <2>2
<1>4. ASSUME o # "ok", call.pc = "current"
      PROVE  /\ Like(c, {"info", "res", "i", "miss", "dl"})
             /\ c.i = call.i /\ c.miss = call.miss /\ c.dl = call.dl
             /\ c.pc = "legacy" /\ c.info = call.info
  <2>1. c = Goto("legacy")
    BY ONLY <1>4 DEF Answered, At
  <2>2. LET d == Goto("legacy")
        IN  /\ Like(d, {"info", "res", "i", "miss", "dl"})
            /\ d.i = call.i /\ d.miss = call.miss /\ d.dl = call.dl
            /\ d.pc = "legacy" /\ d.info = call.info
    BY ONLY <1>2 DEF Like, Goto, Fields
  <2> QED BY ONLY <2>1, <2>2
<1>5. ASSUME o # "ok", call.pc = "legacy"
      PROVE  /\ Like(c, {"info", "res", "i", "miss", "dl"})
             /\ c.i = call.i /\ c.miss = call.miss /\ c.dl = call.dl
             /\ c.pc = "dpi_done" /\ c.info = NoInfo
  <2>1. c = NoIndex("legacy")
    BY ONLY <1>5 DEF Answered, At
  <2>2. LET d == NoIndex("legacy")
        IN  /\ Like(d, {"info", "res", "i", "miss", "dl"})
            /\ d.i = call.i /\ d.miss = call.miss /\ d.dl = call.dl
            /\ d.pc = "dpi_done" /\ d.info = NoInfo
    BY ONLY <1>2 DEF Like, Goto, Fields, NoIndex
  <2> QED BY ONLY <2>1, <2>2
<1>6. /\ Like(c, {"info", "res", "i", "miss", "dl"})
      /\ o = "ok" => c.pc = "list" /\ c.i = 1 /\ c.miss = 0 /\ c.dl = call.t + Budget + Cost(o)
              /\ c.info = [ext |-> call.pc = "current", x |-> hw[Tgt].x, y |-> hw[Tgt].y,
                 lod |-> hw[Tgt].lod, got |-> {}]
      /\ o # "ok" => c.i = call.i /\ c.miss = call.miss /\ c.dl = call.dl
      /\ o # "ok" /\ call.pc = "current" => c.pc = "legacy" /\ c.info = call.info
      /\ o # "ok" /\ call.pc = "legacy" => c.pc = "dpi_done" /\ c.info = NoInfo
  <2> HIDE DEF c
  <2> QED BY ONLY <1>1, <1>3, <1>4, <1>5
<1>7. (TRUE) \in BOOLEAN
  BY SMT
<1>8. Asked(TRUE, o) /\ Keeps({"info", "res", "i", "miss", "dl"}) /\ Becomes(c)
  BY ONLY Typed, Running, <1>1, <1>6, <1>7, AsksKeeps
<1>9. QED BY <1>1, <1>6, <1>8 DEF Becomes

LEMMA DpiWriteEffect ==
  ASSUME Typed, Running, NEW o, DpiWrite(o)
  PROVE  /\ Asked(Writable(Tgt), o)
         /\ Keeps({"res"})
         /\ UNCHANGED <<idx, fset, flag, off>>
         /\ call.pc = "write"
         /\ hw' = IF Executed(o) THEN [hw EXCEPT ![Tgt] = NewDpi(hw[Tgt])] ELSE hw
         /\ call'.pc = "ret" /\ call'.res = (o = "ok")
<1> DEFINE c == Ret(Answered(o))
<1>1. /\ Asks(Writable(Tgt), o, c)
      /\ UNCHANGED <<idx, fset, flag, off>>
      /\ call.pc = "write"
      /\ hw' = IF Executed(o) THEN [hw EXCEPT ![Tgt] = NewDpi(hw[Tgt])] ELSE hw
  BY DEF DpiWrite, caches, At
<1>2. call = [k \in Fields |-> call[k]]
  BY DEF Typed, CallTypes
<1>3. /\ Like(c, {"res"})
      /\ c.pc = "ret" /\ c.res = (o = "ok")
  BY ONLY <1>1, <1>2 DEF Like, Goto, Loop, Ret, At, Answered, Fields
<1> HIDE DEF c
<1>4. (Writable(Tgt)) \in BOOLEAN
  BY Zenon DEF Writable
<1>5. Asked(Writable(Tgt), o) /\ Keeps({"res"}) /\ Becomes(c)
  BY ONLY Typed, Running, <1>1, <1>3, <1>4, AsksKeeps
<1>6. QED BY <1>1, <1>3, <1>5 DEF Becomes

LEMMA RateWriteEffect ==
  ASSUME Typed, Running, NEW o, RateWrite(o)
  PROVE  /\ Asked(Writable(Tgt), o)
         /\ Keeps({"res"})
         /\ UNCHANGED <<idx, fset, flag, off>>
         /\ call.pc \in {"rateset", "xrateset"}
         /\ hw' = IF Executed(o) THEN [hw EXCEPT ![Tgt].rate = call.val] ELSE hw
         /\ o = "ok" => call'.pc = "ret"
         /\ o # "ok" => call'.pc = "xrate" \/ (call'.pc = "ret" /\ call'.res = FALSE)
<1> DEFINE c == IF Answered(o) THEN Ret(TRUE) ELSE IF At("rateset") THEN Goto("xrate") ELSE Ret(FALSE)
<1>1. /\ Asks(Writable(Tgt), o, c)
      /\ UNCHANGED <<idx, fset, flag, off>>
      /\ call.pc \in {"rateset", "xrateset"}
      /\ hw' = IF Executed(o) THEN [hw EXCEPT ![Tgt].rate = call.val] ELSE hw
  BY DEF RateWrite, caches, At
<1>2. call = [k \in Fields |-> call[k]]
  BY DEF Typed, CallTypes
<1>3. /\ Like(c, {"res"})
      /\ o = "ok" => c.pc = "ret"
      /\ o # "ok" => c.pc = "xrate" \/ (c.pc = "ret" /\ c.res = FALSE)
  BY ONLY <1>1, <1>2 DEF Like, Goto, Loop, Ret, At, Answered, Fields
<1> HIDE DEF c
<1>4. (Writable(Tgt)) \in BOOLEAN
  BY Zenon DEF Writable
<1>5. Asked(Writable(Tgt), o) /\ Keeps({"res"}) /\ Becomes(c)
  BY ONLY Typed, Running, <1>1, <1>3, <1>4, AsksKeeps
<1>6. QED BY <1>1, <1>3, <1>5 DEF Becomes

LEMMA SectorWriteEffect ==
  ASSUME Typed, Running, NEW o, SectorWrite(o)
  PROVE  /\ Asked(TRUE, o)
         /\ Keeps({"i", "res"})
         /\ UNCHANGED <<hw, idx, fset, flag, off>>
         /\ call.pc = "sector"
         /\ call'.pc \in {"ret", "sector"}
         /\ call'.i \in {call.i, call.i + 1}
<1> DEFINE c == IF ~Answered(o) THEN Ret(FALSE) ELSE IF call.i = Sectors THEN Ret(TRUE)
ELSE [call EXCEPT !.i = @ + 1]
<1>1. /\ Asks(TRUE, o, c)
      /\ UNCHANGED <<hw, idx, fset, flag, off>>
      /\ call.pc = "sector"
  BY DEF SectorWrite, caches, At, With
<1>2. call = [k \in Fields |-> call[k]]
  BY DEF Typed, CallTypes
<1>3. /\ Like(c, {"i", "res"})
      /\ c.pc \in {"ret", "sector"}
      /\ c.i \in {call.i, call.i + 1}
  BY ONLY <1>1, <1>2 DEF Like, Goto, Loop, Ret, At, Answered, Fields
<1> HIDE DEF c
<1>4. (TRUE) \in BOOLEAN
  BY SMT
<1>5. Asked(TRUE, o) /\ Keeps({"i", "res"}) /\ Becomes(c)
  BY ONLY Typed, Running, <1>1, <1>3, <1>4, AsksKeeps
<1>6. QED BY <1>1, <1>3, <1>5 DEF Becomes

LEMMA PingEffect ==
  ASSUME Typed, Running, NEW o, Ping(o)
  PROVE  /\ Asked(Candidates[call.sub + 1] \in Legacy, o)
         /\ Keeps({"sub", "res"})
         /\ UNCHANGED <<hw, idx, fset, flag, off>>
         /\ call.pc = "ping"
         /\ call'.pc = "ping" \/ (call'.pc = "ret" /\ call'.res \in {{}, {[tgt |-> Candidates[call.sub + 1], id |-> NoId]}})
         /\ call'.sub \in {call.sub, 1}
<1> DEFINE c == IF Answered(o) THEN Ret({[tgt |-> Candidates[call.sub + 1], id |-> NoId]})
ELSE IF call.sub = 0
THEN [call EXCEPT !.sub = 1] ELSE Ret({})
<1>1. /\ Asks(Candidates[call.sub + 1] \in Legacy, o, c)
      /\ UNCHANGED <<hw, idx, fset, flag, off>>
      /\ call.pc = "ping"
  BY DEF Ping, caches, At
<1>2. call = [k \in Fields |-> call[k]]
  BY DEF Typed, CallTypes
<1>3. /\ Like(c, {"sub", "res"})
      /\ c.pc = "ping" \/ (c.pc = "ret" /\ c.res \in {{}, {[tgt |-> Candidates[call.sub + 1], id |-> NoId]}})
      /\ c.sub \in {call.sub, 1}
  BY ONLY <1>1, <1>2 DEF Like, Goto, Loop, Ret, At, Answered, Fields
<1> HIDE DEF c
<1>4. (Candidates[call.sub + 1] \in Legacy) \in BOOLEAN
  BY SMT
<1>5. Asked(Candidates[call.sub + 1] \in Legacy, o) /\ Keeps({"sub", "res"}) /\ Becomes(c)
  BY ONLY Typed, Running, <1>1, <1>3, <1>4, AsksKeeps
<1>6. QED BY <1>1, <1>3, <1>5 DEF Becomes

LEMMA FeaturesDoneEffect ==
  ASSUME Typed, Running, FeaturesDone
  PROVE  /\ Unasked
         /\ Keeps({"i"})
         /\ UNCHANGED <<hw, idx, flag, off>>
         /\ call.pc = "fs_done"
         /\ fset' = [t \in DOMAIN fset \cup {Tgt} |-> IF t = Tgt THEN call.found ELSE fset[t]]
         /\ call'.pc = call.then /\ call'.i = 1
<1> DEFINE c == [Goto(call.then) EXCEPT !.i = 1]
<1>1. /\ call' = c
      /\ UNCHANGED <<plugged, devidx, trouble, callHistory>>
      /\ UNCHANGED <<hw, idx, flag, off>>
      /\ call.pc = "fs_done"
      /\ fset' = [t \in DOMAIN fset \cup {Tgt} |-> IF t = Tgt THEN call.found ELSE fset[t]]
  BY DEF FeaturesDone, caches, At
<1>2. call = [k \in Fields |-> call[k]]
  BY DEF Typed, CallTypes
<1>3. /\ Like(c, {"i"})
      /\ c.pc = call.then /\ c.i = 1
  BY ONLY <1>1, <1>2 DEF Like, Goto, Loop, Ret, At, Answered, Fields
<1> HIDE DEF c
<1>4. Skips("ok", c) BY ONLY <1>1 DEF Skips
<1>5. QED BY <1>1, <1>3, <1>4, SkipsKeeps DEF Becomes

LEMMA FeaturesKnownEffect ==
  ASSUME Typed, Running, FeaturesKnown
  PROVE  /\ Unasked
         /\ Keeps({"found"})
         /\ UNCHANGED <<hw, idx, fset, flag, off>>
         /\ call.pc = "features"
         /\ Tgt \in DOMAIN fset
         /\ call'.pc = call.then /\ call'.found = fset[Tgt]
<1> DEFINE c == [Goto(call.then) EXCEPT !.found = fset[Tgt]]
<1>1. /\ call' = c
      /\ UNCHANGED <<plugged, devidx, trouble, callHistory>>
      /\ UNCHANGED <<hw, idx, fset, flag, off>>
      /\ call.pc = "features"
      /\ Tgt \in DOMAIN fset
  BY DEF FeaturesKnown, caches, At
<1>2. call = [k \in Fields |-> call[k]]
  BY DEF Typed, CallTypes
<1>3. /\ Like(c, {"found"})
      /\ c.pc = call.then /\ c.found = fset[Tgt]
  BY ONLY <1>1, <1>2 DEF Like, Goto, Loop, Ret, At, Answered, Fields
<1> HIDE DEF c
<1>4. Skips("ok", c) BY ONLY <1>1 DEF Skips
<1>5. QED BY <1>1, <1>3, <1>4, SkipsKeeps DEF Becomes

LEMMA RestoreUnneededEffect ==
  ASSUME Typed, Running, RestoreUnneeded
  PROVE  /\ Unasked
         /\ Keeps({"res"})
         /\ UNCHANGED <<hw, idx, fset, flag, off>>
         /\ call.pc = "restore"
         /\ ~flag
         /\ call'.pc = "ret" /\ call'.res = TRUE
<1> DEFINE c == Ret(TRUE)
<1>1. /\ call' = c
      /\ UNCHANGED <<plugged, devidx, trouble, callHistory>>
      /\ UNCHANGED <<hw, idx, fset, flag, off>>
      /\ call.pc = "restore"
      /\ ~flag
  BY DEF RestoreUnneeded, caches, At
<1>2. call = [k \in Fields |-> call[k]]
  BY DEF Typed, CallTypes
<1>3. /\ Like(c, {"res"})
      /\ c.pc = "ret" /\ c.res = TRUE
  BY ONLY <1>1, <1>2 DEF Like, Goto, Loop, Ret, At, Answered, Fields
<1> HIDE DEF c
<1>4. Skips("ok", c) BY ONLY <1>1 DEF Skips
<1>5. QED BY <1>1, <1>3, <1>4, SkipsKeeps DEF Becomes

LEMMA IdentifiedEffect ==
  ASSUME Typed, Running, Identified
  PROVE  /\ Unasked
         /\ Keeps({"i", "miss", "id"})
         /\ UNCHANGED <<hw, idx, fset, flag, off>>
         /\ call.pc = "identified"
         /\ call.found \cap {"name", "fw"} = {} => call'.pc = "sweep" /\ call'.i = call.i
            /\ call'.miss = call.miss
         /\ call.found \cap {"name", "fw"} # {} => call'.pc = "info" /\ call'.i = 1 /\ call'.miss = 0
            /\ call'.id = NoId
<1> DEFINE c == IF call.found \cap {"name",
     "fw"} = {} THEN Goto("sweep") ELSE [Goto("info") EXCEPT !.i = 1, !.miss = 0, !.id = NoId]
<1>1. /\ call' = c
      /\ UNCHANGED <<plugged, devidx, trouble, callHistory>>
      /\ UNCHANGED <<hw, idx, fset, flag, off>>
      /\ call.pc = "identified"
  BY DEF Identified, caches, At
<1>2. call = [k \in Fields |-> call[k]]
  BY DEF Typed, CallTypes
<1>3. /\ Like(c, {"i", "miss", "id"})
      /\ call.found \cap {"name", "fw"} = {} => c.pc = "sweep" /\ c.i = call.i /\ c.miss = call.miss
      /\ call.found \cap {"name", "fw"} # {} => c.pc = "info" /\ c.i = 1 /\ c.miss = 0 /\ c.id = NoId
  BY ONLY <1>1, <1>2 DEF Like, Goto, Loop, Ret, At, Answered, Fields
<1> HIDE DEF c
<1>4. Skips("ok", c) BY ONLY <1>1 DEF Skips
<1>5. QED BY <1>1, <1>3, <1>4, SkipsKeeps DEF Becomes

LEMMA FeatureEachOver ==
  ASSUME Typed, Running, NEW o, FeatureEach(o), Over(Len(FeatureAt[Tgt]))
  PROVE  /\ Unasked
         /\ Keeps({})
         /\ UNCHANGED <<hw, idx, fset, flag, off>>
         /\ call.pc = "fs_each"
         /\ call'.pc = "fs_done"
<1> DEFINE c == Goto("fs_done")
<1>1. /\ call' = c
      /\ UNCHANGED <<plugged, devidx, trouble, callHistory>>
      /\ UNCHANGED <<hw, idx, fset, flag, off>>
      /\ call.pc = "fs_each"
  BY DEF FeatureEach, caches, At, Skips
<1>2. call = [k \in Fields |-> call[k]]
  BY DEF Typed, CallTypes
<1>3. /\ Like(c, {})
      /\ c.pc = "fs_done"
  BY ONLY <1>1, <1>2 DEF Like, Goto, Loop, Ret, At, Answered, Fields
<1> HIDE DEF c
<1>4. Skips("ok", c) BY ONLY <1>1 DEF Skips
<1>5. QED BY <1>1, <1>3, <1>4, SkipsKeeps DEF Becomes

LEMMA FeatureEachAsks ==
  ASSUME Typed, Running, NEW o, FeatureEach(o), ~Over(Len(FeatureAt[Tgt]))
  PROVE  /\ Asked(TRUE, o)
         /\ Keeps({"i", "miss", "found"})
         /\ UNCHANGED <<hw, fset, flag, off>>
         /\ call.pc = "fs_each"
         /\ idx' = IF o = "ok" THEN idx \cup {<<Tgt, FeatureAt[Tgt][call.i]>>} ELSE idx
         /\ Counted(o = "ok", call')
         /\ call'.found = IF o = "ok" THEN call.found \cup {FeatureAt[Tgt][call.i]} ELSE call.found
<1> DEFINE c == [Again(Answered(o)) EXCEPT !.found = IF Answered(o) THEN @
\cup {FeatureAt[Tgt][call.i]} ELSE @]
<1>1. /\ Asks(TRUE, o, c)
      /\ UNCHANGED <<hw, fset, flag, off>>
      /\ call.pc = "fs_each"
      /\ idx' = IF o = "ok" THEN idx \cup {<<Tgt, FeatureAt[Tgt][call.i]>>} ELSE idx
  BY DEF FeatureEach, caches, At, Answered, KnownAs
<1>2. call = [k \in Fields |-> call[k]]
  BY DEF Typed, CallTypes
<1>3. /\ Like(c, {"i", "miss", "found"})
      /\ Counted(o = "ok", c)
      /\ c.found = IF o = "ok" THEN call.found \cup {FeatureAt[Tgt][call.i]} ELSE call.found
  BY ONLY <1>1, <1>2, AgainEffect DEF Like, Goto, Loop, Ret, At, Answered, Fields, Counted
<1> HIDE DEF c
<1>4. (TRUE) \in BOOLEAN
  BY SMT
<1>5. Asked(TRUE, o) /\ Keeps({"i", "miss", "found"}) /\ Becomes(c)
  BY ONLY Typed, Running, <1>1, <1>3, <1>4, AsksKeeps
<1>6. QED BY <1>1, <1>3, <1>5 DEF Becomes, Counted

LEMMA BatteryNone ==
  ASSUME Typed, Running, NEW o, get_battery_status(o), call.i > Len(Sources)
  PROVE  /\ Unasked
         /\ Keeps({"res"})
         /\ UNCHANGED <<hw, idx, fset, flag, off>>
         /\ call.pc = "battery"
         /\ call'.pc = "ret" /\ call'.res = "none"
<1> DEFINE c == Ret("none")
<1>1. /\ call' = c
      /\ UNCHANGED <<plugged, devidx, trouble, callHistory>>
      /\ UNCHANGED <<hw, idx, fset, flag, off>>
      /\ call.pc = "battery"
  BY DEF get_battery_status, caches, At, Skips
<1>2. call = [k \in Fields |-> call[k]]
  BY DEF Typed, CallTypes
<1>3. /\ Like(c, {"res"})
      /\ c.pc = "ret" /\ c.res = "none"
  BY ONLY <1>1, <1>2 DEF Like, Goto, Loop, Ret, At, Answered, Fields
<1> HIDE DEF c
<1>4. Skips("ok", c) BY ONLY <1>1 DEF Skips
<1>5. QED BY <1>1, <1>3, <1>4, SkipsKeeps DEF Becomes

LEMMA BatterySkips ==
  ASSUME Typed, Running, NEW o, get_battery_status(o), ~(call.i > Len(Sources)),
         call.i <= Len(BatteryOrder) /\ Sources[call.i] \notin call.found
  PROVE  /\ Unasked
         /\ Keeps({"i"})
         /\ UNCHANGED <<hw, idx, fset, flag, off>>
         /\ call.pc = "battery"
         /\ call'.pc = "battery" /\ call'.i = call.i + 1
<1> DEFINE c == [call EXCEPT !.i = @ + 1]
<1>1. /\ call' = c
      /\ UNCHANGED <<plugged, devidx, trouble, callHistory>>
      /\ UNCHANGED <<hw, idx, fset, flag, off>>
      /\ call.pc = "battery"
  BY DEF get_battery_status, caches, At, Skips
<1>2. call = [k \in Fields |-> call[k]]
  BY DEF Typed, CallTypes
<1>3. /\ Like(c, {"i"})
      /\ c.pc = "battery" /\ c.i = call.i + 1
  BY ONLY <1>1, <1>2 DEF Like, Goto, Loop, Ret, At, Answered, Fields
<1> HIDE DEF c
<1>4. Skips("ok", c) BY ONLY <1>1 DEF Skips
<1>5. QED BY <1>1, <1>3, <1>4, SkipsKeeps DEF Becomes

LEMMA BatteryAsks ==
  ASSUME Typed, Running, NEW o, get_battery_status(o), ~(call.i > Len(Sources)),
         ~(call.i <= Len(BatteryOrder) /\ Sources[call.i] \notin call.found)
  PROVE  /\ Asked(Sources[call.i] \in Features(Tgt) \cup RegistersOf[Tgt], o)
         /\ Keeps({"i", "res"})
         /\ UNCHANGED <<hw, idx, fset, flag, off>>
         /\ call.pc = "battery"
         /\ o = "ok" => call'.pc = "ret" /\ call'.res = Sources[call.i]
         /\ o # "ok" => call'.pc = "battery"
         /\ call'.i \in {call.i, call.i + 1}
         /\ o # "ok" => call'.i = call.i + 1
<1> DEFINE c == IF Answered(o) THEN Ret(Sources[call.i]) ELSE [call EXCEPT !.i = @ + 1]
<1>1. /\ Asks(Sources[call.i] \in Features(Tgt) \cup RegistersOf[Tgt], o, c)
      /\ UNCHANGED <<hw, idx, fset, flag, off>>
      /\ call.pc = "battery"
  BY DEF get_battery_status, caches, At
<1>2. call = [k \in Fields |-> call[k]]
  BY DEF Typed, CallTypes
<1>3. /\ Like(c, {"i", "res"})
      /\ o = "ok" => c.pc = "ret" /\ c.res = Sources[call.i]
      /\ o # "ok" => c.pc = "battery"
      /\ c.i \in {call.i, call.i + 1}
      /\ o # "ok" => c.i = call.i + 1
  BY ONLY <1>1, <1>2 DEF Like, Goto, Loop, Ret, At, Answered, Fields
<1> HIDE DEF c
<1>4. (Sources[call.i] \in Features(Tgt) \cup RegistersOf[Tgt]) \in BOOLEAN
  BY SMT
<1>5. Asked(Sources[call.i] \in Features(Tgt) \cup RegistersOf[Tgt], o) /\ Keeps({"i", "res"})
      /\ Becomes(c)
  BY ONLY Typed, Running, <1>1, <1>3, <1>4, AsksKeeps
<1>6. QED BY <1>1, <1>3, <1>5 DEF Becomes

LEMMA PairingCountEffect ==
  ASSUME Typed, Running, NEW o, PairingCount(o)
  PROVE  /\ Asked(TRUE, o) \/ Unasked
         /\ Keeps({"i", "sub", "miss", "dl", "res"})
         /\ UNCHANGED <<hw, idx, fset, flag, off>>
         /\ call.pc = "pair_info"
         /\ \/ call'.pc = "ret" /\ call'.i = call.i /\ call'.miss = call.miss
               /\ call'.sub = call.sub /\ call'.dl = call.dl
            \/ call'.pc = "pairing" /\ call'.i = 1 /\ call'.miss = 0
               /\ call'.sub \in {Slots, TableSlots[FeatureAt]}
               /\ call'.dl \in {call.t + Budget, call.t + Budget + Cost(o)}
<1> DEFINE c == [Loop("pairing") EXCEPT !.sub = TableSlots[FeatureAt]]
           d == [Loop("pairing") EXCEPT !.sub = IF Answered(o) THEN Slots ELSE TableSlots[FeatureAt],
                                        !.dl = @ + Cost(o)]
<1>1. /\ UNCHANGED <<hw, idx, fset, flag, off>> /\ call.pc = "pair_info"
      /\ Skips(o, Ret({})) \/ Skips(o, c) \/ Asks(TRUE, o, d)
  BY DEF PairingCount, caches, At
<1>2. call = [k \in Fields |-> call[k]]
  BY DEF Typed, CallTypes
<1>3. CASE Skips(o, Ret({}))
  <2>1. Like(Ret({}), {"i", "sub", "miss", "dl", "res"}) /\ Ret({}).pc = "ret" /\ Ret({}).i = call.i
        /\ Ret({}).miss = call.miss /\ Ret({}).sub = call.sub /\ Ret({}).dl = call.dl
    BY ONLY <1>2 DEF Like, Ret, Fields
  <2>2. QED BY ONLY <1>1, <1>3, <2>1, SkipsKeeps DEF Becomes
<1>4. CASE Skips(o, c)
  <2>1. Like(c, {"i", "sub", "miss", "dl", "res"}) /\ c.pc = "pairing" /\ c.i = 1
        /\ c.miss = 0 /\ c.sub = TableSlots[FeatureAt] /\ c.dl = call.t + Budget
    BY ONLY <1>2 DEF Like, Loop, Fields
  <2> HIDE DEF c
  <2>2. QED BY ONLY <1>1, <1>4, <2>1, SkipsKeeps DEF Becomes
<1>5. CASE Asks(TRUE, o, d)
  <2>1. Like(d, {"i", "sub", "miss", "dl", "res"}) /\ d.pc = "pairing" /\ d.i = 1
        /\ d.miss = 0 /\ d.sub \in {Slots, TableSlots[FeatureAt]} /\ d.dl = call.t + Budget + Cost(o)
    BY ONLY ZenonT(40), <1>2 DEF Like, Loop, Fields
  <2> HIDE DEF d
  <2>2. TRUE \in BOOLEAN
    OBVIOUS
  <2>3. Asked(TRUE, o) /\ Keeps({"i", "sub", "miss", "dl", "res"}) /\ Becomes(d)
    BY ONLY Typed, Running, <1>5, <2>1, <2>2, AsksKeeps
  <2>4. QED BY ONLY <1>1, <2>1, <2>3 DEF Becomes
<1>6. QED BY ONLY <1>1, <1>3, <1>4, <1>5

LEMMA PairingOver ==
  ASSUME Typed, Running, NEW o, get_pairing_info(o), Over(call.sub)
  PROVE  /\ Unasked
         /\ Keeps({"res"})
         /\ UNCHANGED <<hw, idx, fset, flag, off>>
         /\ call.pc = "pairing"
         /\ call'.pc = "ret"
<1> DEFINE c == Ret(call.found)
<1>1. /\ call' = c
      /\ UNCHANGED <<plugged, devidx, trouble, callHistory>>
      /\ UNCHANGED <<hw, idx, fset, flag, off>>
      /\ call.pc = "pairing"
  BY DEF get_pairing_info, caches, At, Skips
<1>2. call = [k \in Fields |-> call[k]]
  BY DEF Typed, CallTypes
<1>3. /\ Like(c, {"res"})
      /\ c.pc = "ret"
  BY ONLY <1>1, <1>2 DEF Like, Goto, Loop, Ret, At, Answered, Fields
<1> HIDE DEF c
<1>4. Skips("ok", c) BY ONLY <1>1 DEF Skips
<1>5. QED BY <1>1, <1>3, <1>4, SkipsKeeps DEF Becomes

LEMMA PairingAsks ==
  ASSUME Typed, Running, NEW o, get_pairing_info(o), ~Over(call.sub)
  PROVE  /\ Asked(TRUE, o)
         /\ Keeps({"i", "miss", "found"})
         /\ UNCHANGED <<hw, idx, fset, flag, off>>
         /\ call.pc = "pairing"
         /\ o = "ok" => \/ call'.pc = "pair_name" /\ call'.miss = 0 /\ call'.i = call.i
                        \/ Counted(TRUE, call')
         /\ o # "ok" => Counted(FALSE, call')
<1> DEFINE c == IF ~Answered(o) THEN Again(FALSE)
ELSE IF call.i \in Occupied /\ FeatureAt \notin Bolts
THEN [Goto("pair_name") EXCEPT !.found = @ \cup {call.i}, !.miss = 0]
ELSE [Again(TRUE) EXCEPT !.found = @ \cup {call.i}]
<1>1. /\ Asks(TRUE, o, c)
      /\ UNCHANGED <<hw, idx, fset, flag, off>>
      /\ call.pc = "pairing"
  BY DEF get_pairing_info, caches, At
<1>2. call = [k \in Fields |-> call[k]]
  BY DEF Typed, CallTypes
<1>3. /\ Like(c, {"i", "miss", "found"})
      /\ o = "ok" => (c.pc = "pair_name" /\ c.miss = 0 /\ c.i = call.i) \/ Counted(TRUE, c)
      /\ o # "ok" => Counted(FALSE, c)
  BY ONLY <1>1, <1>2, AgainEffect DEF Like, Goto, Loop, Ret, At, Answered, Fields, Counted
<1> HIDE DEF c
<1>4. (TRUE) \in BOOLEAN
  BY SMT
<1>5. Asked(TRUE, o) /\ Keeps({"i", "miss", "found"}) /\ Becomes(c)
  BY ONLY Typed, Running, <1>1, <1>3, <1>4, AsksKeeps
<1>6. QED BY <1>1, <1>3, <1>5 DEF Becomes, Counted

LEMMA DpiListOver ==
  ASSUME Typed, Running, NEW o, DpiList(o), Over(ChunkMax)
  PROVE  /\ Unasked
         /\ Keeps({})
         /\ UNCHANGED <<hw, idx, fset, flag, off>>
         /\ call.pc = "list"
         /\ call'.pc = "dpi_done"
<1> DEFINE c == Goto("dpi_done")
<1>1. /\ call' = c
      /\ UNCHANGED <<plugged, devidx, trouble, callHistory>>
      /\ UNCHANGED <<hw, idx, fset, flag, off>>
      /\ call.pc = "list"
  BY DEF DpiList, caches, At, Skips
<1>2. call = [k \in Fields |-> call[k]]
  BY DEF Typed, CallTypes
<1>3. /\ Like(c, {})
      /\ c.pc = "dpi_done"
  BY ONLY <1>1, <1>2 DEF Like, Goto, Loop, Ret, At, Answered, Fields
<1> HIDE DEF c
<1>4. Skips("ok", c) BY ONLY <1>1 DEF Skips
<1>5. QED BY <1>1, <1>3, <1>4, SkipsKeeps DEF Becomes

LEMMA DpiListAsks ==
  ASSUME Typed, Running, NEW o, DpiList(o), ~Over(ChunkMax)
  PROVE  /\ Asked(call.i \in DOMAIN ListChunks[ListOf(call.info)], o)
         /\ Keeps({"i", "miss", "info"})
         /\ UNCHANGED <<hw, idx, fset, flag, off>>
         /\ call.pc = "list"
         /\ call'.pc \in {"list", "dpi_done"}
         /\ Counted(o = "ok", [call' EXCEPT !.pc = "list"])
         /\ call'.info = IF o = "ok" THEN [call.info EXCEPT !.got = @ \cup {call.i}] ELSE call.info
<1> DEFINE f == ListOf(call.info)
           came == call.info.got \cup {call.i}
           over == EndsInZeros(Bytes(f, came))
           c == IF ~Answered(o) THEN Again(FALSE)
                ELSE [Again(TRUE) EXCEPT !.info.got = came, !.pc = IF over THEN "dpi_done" ELSE @]
<1>1. /\ Asks(call.i \in DOMAIN ListChunks[f], o, c)
      /\ UNCHANGED <<hw, idx, fset, flag, off>>
      /\ call.pc = "list"
  BY DEF DpiList, caches, At
<1>2. call = [k \in Fields |-> call[k]]
  BY DEF Typed, CallTypes
<1>3. /\ Like(c, {"i", "miss", "info"})
      /\ c.pc \in {"list", "dpi_done"}
      /\ Counted(o = "ok", [c EXCEPT !.pc = "list"])
      /\ c.info = IF o = "ok" THEN [call.info EXCEPT !.got = @ \cup {call.i}] ELSE call.info
  <2> HIDE DEF over
  <2>1. CASE o = "ok"
    <3>1. c = [Again(TRUE) EXCEPT !.info.got = came, !.pc = IF over THEN "dpi_done" ELSE @]
      BY ONLY <2>1 DEF Answered
    <3>2. Like(Again(TRUE), {"i", "miss"}) /\ Counted(TRUE, Again(TRUE))
      BY ONLY <1>2, AgainEffect
    <3>4. c = [k \in Fields |-> IF k = "info" THEN [call.info EXCEPT !.got = came]
                               ELSE IF k = "pc" THEN IF over THEN "dpi_done" ELSE call.pc
                               ELSE Again(TRUE)[k]]
      <4>1. Again(TRUE) = [k \in Fields |-> Again(TRUE)[k]]
            /\ Again(TRUE).info = call.info /\ Again(TRUE).pc = call.pc
        BY ONLY <3>2 DEF Like, Counted
      <4>2. DEFINE d == Again(TRUE)
      <4> HIDE DEF d, came
      <4>3. QED BY ONLY <3>1, <4>1 DEF Fields, d
    <3> HIDE DEF c
    <3>5. c.info = [call.info EXCEPT !.got = @ \cup {call.i}]
      BY ONLY <3>4 DEF Fields
    <3>6. c.pc \in {"list", "dpi_done"}
      BY ONLY <3>4, <1>1 DEF Fields
    <3>7. Like(c, {"i", "miss", "info"})
      BY ONLY <3>2, <3>4 DEF Like, Fields
    <3>8. Counted(TRUE, [c EXCEPT !.pc = "list"])
      BY ONLY <3>2, <3>4, <1>1 DEF Counted, Fields
    <3>3. QED BY ONLY <2>1, <3>5, <3>6, <3>7, <3>8
  <2>2. CASE o # "ok"
    <3>1. c = Again(FALSE)
      BY ONLY <2>2 DEF Answered
    <3>2. Like(Again(FALSE), {"i", "miss"}) /\ Counted(FALSE, Again(FALSE))
      BY ONLY <1>2, AgainEffect
    <3>3. QED BY ONLY <2>2, <3>1, <3>2, <1>1 DEF Like, Fields, Counted
  <2>3. QED BY ONLY <2>1, <2>2
<1> HIDE DEF c
<1>4. (call.i \in DOMAIN ListChunks[f]) \in BOOLEAN
  OBVIOUS
<1>5. Asked(call.i \in DOMAIN ListChunks[f], o) /\ Keeps({"i", "miss", "info"}) /\ Becomes(c)
  BY ONLY Typed, Running, <1>1, <1>3, <1>4, AsksKeeps
<1>6. QED BY <1>1, <1>3, <1>5 DEF Becomes, Counted

LEMMA LegacyRateEffect ==
  ASSUME Typed, Running, NEW o, RateSupported(o), call.pc = "rate"
  PROVE  /\ Asked(TRUE, o)
         /\ Keeps({"info", "res"})
         /\ UNCHANGED <<hw, idx, fset, flag, off>>
         /\ call'.pc = "rateset" \/ NoIndexLeads("rate", call')
         /\ call'.info = call.info
<1> DEFINE c == IF Answered(o) /\ call.val \in Rates[Need["rate"]] THEN Goto("rateset")
ELSE NoIndex("rate")
<1>1. /\ Asks(TRUE, o, c)
      /\ UNCHANGED <<hw, idx, fset, flag, off>>
  BY DEF RateSupported, caches, At, With
<1>2. call = [k \in Fields |-> call[k]]
  BY DEF Typed, CallTypes
<1>3. /\ Like(c, {"info", "res"})
      /\ c.pc = "rateset" \/ NoIndexLeads("rate", c)
      /\ c.info = call.info
  BY ONLY <1>1, <1>2 DEF Like, Goto, Loop, Ret, At, Answered, Fields, NoIndexLeads, NoIndex
<1> HIDE DEF c
<1>4. (TRUE) \in BOOLEAN
  BY SMT
<1>5. Asked(TRUE, o) /\ Keeps({"info", "res"}) /\ Becomes(c)
  BY ONLY Typed, Running, <1>1, <1>3, <1>4, AsksKeeps
<1>6. QED BY <1>1, <1>3, <1>5 DEF Becomes, NoIndexLeads

LEMMA LegacyNoCodeEffect ==
  ASSUME Typed, Running, RateNoCode, call.pc = "rate"
  PROVE  /\ Unasked
         /\ Keeps({"info", "res"})
         /\ UNCHANGED <<hw, idx, fset, flag, off>>
         /\ NoIndexLeads("rate", call')
         /\ call'.info = call.info
<1> DEFINE c == NoIndex("rate")
<1>1. /\ call' = c
      /\ UNCHANGED <<plugged, devidx, trouble, callHistory>>
      /\ UNCHANGED <<hw, idx, fset, flag, off>>
  BY DEF RateNoCode, caches, At, plugged, callHistory
<1>2. call = [k \in Fields |-> call[k]]
  BY DEF Typed, CallTypes
<1>3. /\ Like(c, {"info", "res"})
      /\ NoIndexLeads("rate", c)
      /\ c.info = call.info
  BY ONLY <1>1, <1>2 DEF Like, Goto, Loop, Ret, At, Answered, Fields, NoIndexLeads, NoIndex
<1> HIDE DEF c
<1>4. Skips("ok", c) BY ONLY <1>1 DEF Skips
<1>5. QED BY <1>1, <1>3, <1>4, SkipsKeeps DEF Becomes, NoIndexLeads

LEMMA ExtendedRateEffect ==
  ASSUME Typed, Running, NEW o, RateSupported(o), call.pc = "xrate"
  PROVE  /\ Asked(TRUE, o)
         /\ Keeps({"info", "res"})
         /\ UNCHANGED <<hw, idx, fset, flag, off>>
         /\ call'.pc = "xrateset" \/ NoIndexLeads("xrate", call')
         /\ call'.info = call.info
<1> DEFINE c == IF Answered(o) /\ call.val \in Rates[Need["xrate"]] THEN Goto("xrateset")
ELSE NoIndex("xrate")
<1>1. /\ Asks(TRUE, o, c)
      /\ UNCHANGED <<hw, idx, fset, flag, off>>
  BY DEF RateSupported, caches, At, With
<1>2. call = [k \in Fields |-> call[k]]
  BY DEF Typed, CallTypes
<1>3. /\ Like(c, {"info", "res"})
      /\ c.pc = "xrateset" \/ NoIndexLeads("xrate", c)
      /\ c.info = call.info
  BY ONLY <1>1, <1>2 DEF Like, Goto, Loop, Ret, At, Answered, Fields, NoIndexLeads, NoIndex
<1> HIDE DEF c
<1>4. (TRUE) \in BOOLEAN
  BY SMT
<1>5. Asked(TRUE, o) /\ Keeps({"info", "res"}) /\ Becomes(c)
  BY ONLY Typed, Running, <1>1, <1>3, <1>4, AsksKeeps
<1>6. QED BY <1>1, <1>3, <1>5 DEF Becomes, NoIndexLeads

LEMMA ExtendedNoCodeEffect ==
  ASSUME Typed, Running, RateNoCode, call.pc = "xrate"
  PROVE  /\ Unasked
         /\ Keeps({"info", "res"})
         /\ UNCHANGED <<hw, idx, fset, flag, off>>
         /\ NoIndexLeads("xrate", call')
         /\ call'.info = call.info
<1> DEFINE c == NoIndex("xrate")
<1>1. /\ call' = c
      /\ UNCHANGED <<plugged, devidx, trouble, callHistory>>
      /\ UNCHANGED <<hw, idx, fset, flag, off>>
  BY DEF RateNoCode, caches, At, plugged, callHistory
<1>2. call = [k \in Fields |-> call[k]]
  BY DEF Typed, CallTypes
<1>3. /\ Like(c, {"info", "res"})
      /\ NoIndexLeads("xrate", c)
      /\ c.info = call.info
  BY ONLY <1>1, <1>2 DEF Like, Goto, Loop, Ret, At, Answered, Fields, NoIndexLeads, NoIndex
<1> HIDE DEF c
<1>4. Skips("ok", c) BY ONLY <1>1 DEF Skips
<1>5. QED BY <1>1, <1>3, <1>4, SkipsKeeps DEF Becomes, NoIndexLeads

LEMMA DpiDoneEffect ==
  ASSUME Typed, Running, DpiDone
  PROVE  /\ Unasked
         /\ Keeps({"res"})
         /\ UNCHANGED <<hw, idx, fset, flag, off>>
         /\ call.pc = "dpi_done"
         /\ call.op \in DpiOps
         /\ call.op = "dpi_info" => call'.pc = "ret"
         /\ call.op = "set_dpi" =>
            (/\ call.info # NoInfo /\ call.val \in LevelsRead[ListOf(call.info)][call.info.got]
             /\ call'.pc = "write")
            \/ (call'.pc = "ret" /\ call'.res = FALSE)
         /\ call.op = "set_lod" => (call.info.ext /\ call.val \in 1..3 /\ call'.pc = "write")
            \/ (call'.pc = "ret" /\ call'.res = FALSE)
<1> DEFINE c == CASE call.op = "dpi_info" -> Ret(call.info # NoInfo)
[] call.op = "set_dpi" -> IF /\ call.info # NoInfo /\ call.val # 0
                                 /\ call.val \in LevelsRead[ListOf(call.info)][call.info.got]
   THEN Goto("write") ELSE Ret(FALSE)
[] call.op = "set_lod" -> IF call.info.ext /\ call.val \in 1..3 THEN Goto("write") ELSE Ret(FALSE)
<1>1. /\ call' = c
      /\ UNCHANGED <<plugged, devidx, trouble, callHistory>>
      /\ UNCHANGED <<hw, idx, fset, flag, off>>
      /\ call.pc = "dpi_done"
      /\ call.op \in DpiOps
  BY DEF DpiDone, caches, At, Typed, CallTypes, Flow, StageOf, FsStages, DpiStages, Single, DpiOps
<1>2. call = [k \in Fields |-> call[k]]
  BY DEF Typed, CallTypes
<1>3. /\ Like(c, {"res"})
      /\ call.op = "dpi_info" => c.pc = "ret"
      /\ call.op = "set_dpi" =>
         (/\ call.info # NoInfo /\ call.val \in LevelsRead[ListOf(call.info)][call.info.got]
          /\ c.pc = "write")
         \/ (c.pc = "ret" /\ c.res = FALSE)
      /\ call.op = "set_lod" => (call.info.ext /\ call.val \in 1..3 /\ c.pc = "write") \/ (c.pc = "ret"
         /\ c.res = FALSE)
  BY ONLY ZenonT(40), <1>1, <1>2 DEF Like, Goto, Loop, Ret, At, Answered, Fields, DpiOps
<1> HIDE DEF c
<1>4. Skips("ok", c) BY ONLY <1>1 DEF Skips
<1>5. QED BY <1>1, <1>3, <1>4, SkipsKeeps DEF Becomes

LEMMA ReadChainEffect ==
  ASSUME Typed, Running, NEW o, ReadChain(o)
  PROVE  /\ Asked(TRUE, o)
         /\ Keeps({"i", "info", "res"})
         /\ UNCHANGED <<hw, idx, fset, flag, off>>
         /\ call.pc \in DOMAIN Chain
         /\ call'.pc \in {"ret", call.pc} \/ NoIndexLeads(call.pc, call')
         /\ call'.info = call.info
         /\ call'.i \in {1, call.i, call.i + 1, call.i + 2}
<1> DEFINE c(k) == IF ~Answered(o) /\ (call.i = 1 \/ ~Chain[call.pc].skip)
THEN [NoIndex(call.pc) EXCEPT !.i = 1]
                   ELSE IF call.i + k > Chain[call.pc].n THEN Ret(TRUE)
                   ELSE [call EXCEPT !.i = @ + k]
<1>1. /\ UNCHANGED <<hw, idx, fset, flag, off>>
      /\ call.pc \in DOMAIN Chain
      /\ \E k \in {1, 2} : Asks(TRUE, o, c(k))
  BY DEF ReadChain, caches
<1>2. PICK k \in {1, 2} : Asks(TRUE, o, c(k))
  BY <1>1
<1>3. call = [f \in Fields |-> call[f]]
  BY DEF Typed, CallTypes
<1>4. call.pc # "legacy"
  BY <1>1 DEF Chain
<1>5. /\ Like(c(k), {"i", "info", "res"})
      /\ c(k).pc \in {"ret", call.pc} \/ NoIndexLeads(call.pc, c(k))
      /\ c(k).info = call.info
      /\ c(k).i \in {1, call.i, call.i + 1, call.i + 2}
  <2>1. Like(NoIndex(call.pc), {"info", "res"}) /\ NoIndexLeads(call.pc, NoIndex(call.pc))
    BY <1>3, NoIndexEffect
  <2>2. QED BY ONLY ZenonT(40), <1>3, <1>4, <2>1 DEF Like, Ret, Fields, NoIndexLeads
<1> HIDE DEF c
<1>6. Asked(TRUE, o) /\ Keeps({"i", "info", "res"}) /\ Becomes(c(k))
  BY ONLY Typed, Running, <1>2, <1>5, AsksKeeps
<1>7. QED BY ONLY <1>1, <1>5, <1>6 DEF Becomes, NoIndexLeads

LEMMA DeviceInfoEnds ==
  ASSUME Typed, Running, NEW o, DeviceInfo(o), call.i > Len(InfoSections)
  PROVE  /\ Unasked
         /\ Keeps({"out"})
         /\ UNCHANGED <<hw, idx, fset, flag, off>>
         /\ call.pc = "info"
         /\ call'.pc = "sweep"
         /\ call'.out = IF Listed(call.out, call.id) THEN call.out
                       ELSE call.out \cup {[tgt |-> devidx, id |-> call.id]}
<1> DEFINE c == [Goto("sweep") EXCEPT !.out = IF Listed(@, call.id) THEN @
                                             ELSE @ \cup {[tgt |-> devidx, id |-> call.id]}]
<1>1. /\ call' = c
      /\ UNCHANGED <<plugged, devidx, trouble, callHistory>>
      /\ UNCHANGED <<hw, idx, fset, flag, off>>
      /\ call.pc = "info"
  BY DEF DeviceInfo, caches, At, Skips
<1>2. call = [k \in Fields |-> call[k]]
  BY DEF Typed, CallTypes
<1>3. /\ Like(c, {"out"})
      /\ c.pc = "sweep"
      /\ c.out = IF Listed(call.out, call.id) THEN call.out
                 ELSE call.out \cup {[tgt |-> devidx, id |-> call.id]}
  BY ONLY <1>1, <1>2 DEF Like, Goto, Loop, Ret, At, Answered, Fields
<1> HIDE DEF c
<1>4. Skips("ok", c) BY ONLY <1>1 DEF Skips
<1>5. QED BY <1>1, <1>3, <1>4, SkipsKeeps DEF Becomes

LEMMA DeviceInfoSkips ==
  ASSUME Typed, Running, NEW o, DeviceInfo(o), ~(call.i > Len(InfoSections)),
     InfoSections[call.i].f \notin call.found
  PROVE  /\ Unasked
         /\ Keeps({"i", "sub", "miss"})
         /\ UNCHANGED <<hw, idx, fset, flag, off>>
         /\ call.pc = "info"
         /\ call'.pc = "info" /\ call'.i = call.i + 1 /\ call'.sub = 0 /\ call'.miss = 0
<1> DEFINE c == [call EXCEPT !.i = @ + 1, !.sub = 0, !.miss = 0]
<1>1. /\ call' = c
      /\ UNCHANGED <<plugged, devidx, trouble, callHistory>>
      /\ UNCHANGED <<hw, idx, fset, flag, off>>
      /\ call.pc = "info"
  BY DEF DeviceInfo, caches, At, Skips
<1>2. call = [k \in Fields |-> call[k]]
  BY DEF Typed, CallTypes
<1>3. /\ Like(c, {"i", "sub", "miss"})
      /\ c.pc = "info" /\ c.i = call.i + 1 /\ c.sub = 0 /\ c.miss = 0
  BY ONLY <1>1, <1>2 DEF Like, Goto, Loop, Ret, At, Answered, Fields
<1> HIDE DEF c
<1>4. Skips("ok", c) BY ONLY <1>1 DEF Skips
<1>5. QED BY <1>1, <1>3, <1>4, SkipsKeeps DEF Becomes

LEMMA DeviceInfoAsks ==
  ASSUME Typed, Running, NEW o, DeviceInfo(o), ~(call.i > Len(InfoSections)),
     InfoSections[call.i].f \in call.found
  PROVE  /\ Asked(TRUE, o)
         /\ Keeps({"i", "sub", "miss", "id"})
         /\ UNCHANGED <<hw, idx, fset, flag, off>>
         /\ call.pc = "info"
         /\ call'.pc = "info"
         /\ (call'.i = call.i + 1 /\ call'.sub = 0) \/ (call'.i = call.i /\ call'.sub = call.sub + 1)
         /\ call'.miss = 0 \/ (call'.miss = call.miss + 1
            /\ ~(call.miss + 1 >= InfoSections[call.i].tol))
         /\ call'.id = IF call.sub = 0 /\ o = "ok" THEN Learnt(call.id, InfoSections[call.i].f) ELSE call.id
<1> DEFINE d == IF (~Answered(o) /\ (call.sub = 0 \/ call.miss + 1 >= InfoSections[call.i].tol))
\/ call.sub = InfoSections[call.i].n THEN [call EXCEPT !.i = @ + 1, !.sub = 0, !.miss = 0]
ELSE [call EXCEPT !.sub = @ + 1, !.miss = IF Answered(o) THEN 0 ELSE @ + 1]
           known == IF call.sub = 0 /\ Answered(o) THEN Learnt(call.id, InfoSections[call.i].f) ELSE call.id
           c == [d EXCEPT !.id = known]
<1>1. /\ Asks(TRUE, o, c)
      /\ UNCHANGED <<hw, idx, fset, flag, off>>
      /\ call.pc = "info"
  BY DEF DeviceInfo, caches, At
<1>2. call = [k \in Fields |-> call[k]]
  BY DEF Typed, CallTypes
<1>3. /\ Like(c, {"i", "sub", "miss", "id"})
      /\ c.pc = "info"
      /\ (c.i = call.i + 1 /\ c.sub = 0) \/ (c.i = call.i /\ c.sub = call.sub + 1)
      /\ c.miss = 0 \/ (c.miss = call.miss + 1 /\ ~(call.miss + 1 >= InfoSections[call.i].tol))
      /\ c.id = known
  <2>1. /\ Like(d, {"i", "sub", "miss"})
        /\ d.pc = "info"
        /\ (d.i = call.i + 1 /\ d.sub = 0) \/ (d.i = call.i /\ d.sub = call.sub + 1)
        /\ d.miss = 0 \/ (d.miss = call.miss + 1 /\ ~(call.miss + 1 >= InfoSections[call.i].tol))
    BY ONLY <1>1, <1>2 DEF Like, Answered, Fields
  <2> HIDE DEF d, known
  <2>2. QED BY ONLY <2>1 DEF Like, Fields
<1>x. known = IF call.sub = 0 /\ o = "ok" THEN Learnt(call.id, InfoSections[call.i].f) ELSE call.id
  BY ONLY DEF Answered
<1> HIDE DEF c, known
<1>4. (TRUE) \in BOOLEAN
  BY SMT
<1>5. Asked(TRUE, o) /\ Keeps({"i", "sub", "miss", "id"}) /\ Becomes(c)
  BY ONLY Typed, Running, <1>1, <1>3, <1>4, AsksKeeps
<1>6. QED BY ONLY <1>1, <1>3, <1>5, <1>x DEF Becomes

(* The types *)

\* The state stays typed, and the call goes on.
Onward ==
  /\ Typed' /\ Running' /\ Tgt' = Tgt /\ Tgt \in Targets
  /\ UNCHANGED <<FeatureAt, slow, devidx, touched, last>>
  /\ call'.op = call.op /\ call'.tgt = call.tgt /\ call'.val = call.val /\ call'.before = call.before
  /\ call'.sweep = call.sweep
  /\ Clean' => Clean /\ trouble' = trouble

LEMMA NextTyped ==
  ASSUME Typed, Running, NEW S, Keeps(S), UNCHANGED <<FeatureAt, slow, devidx, touched, last>>,
         hw' \in [Targets -> Settings], off' \subseteq Targets, flag' \in BOOLEAN,
         trouble' \in 0..MaxTrouble, trouble' >= trouble, call'.t \in Nat, Flow'
  PROVE  Onward
<1>1. Running'
  BY DEF Running, NoCall, Flow, StageOf, FsStages, DpiStages, Single
<1>2. Tgt' = Tgt /\ Tgt \in Targets
  BY DEF Tgt, Keeps, Typed, CallTypes
<1>3. CallTypes'
  BY Numbers DEF Typed, CallTypes, Keeps
<1>4. Typed'
  BY <1>1, <1>2, <1>3 DEF Typed, Running
<1>5. Clean' => Clean /\ trouble' = trouble
  <2>1. call.at \in Nat /\ call.at <= trouble /\ trouble \in Nat /\ trouble' \in Nat
        /\ trouble' >= trouble
        /\ call'.at = call.at /\ slow' = slow
    BY Numbers DEF Typed, CallTypes, Keeps
  <2>2. QED BY ONLY <2>1 DEF Clean
<1>6. QED BY ONLY <1>1, <1>2, <1>4, <1>5, Keeps(S), UNCHANGED <<FeatureAt, slow, devidx, touched,
     last>> DEF Onward, Keeps

\* What a request, or a step without one, does to the rest of the state.
LEMMA AskedRest ==
  ASSUME Typed, Running, NEW can, NEW o, Asked(can, o)
  PROVE  /\ UNCHANGED <<FeatureAt, slow, devidx, touched, last>> /\ call'.t \in Nat
         /\ trouble' \in 0..MaxTrouble /\ trouble' >= trouble
  BY Numbers DEF Typed, CallTypes, Asked

LEMMA UnaskedRest ==
  ASSUME Typed, Running, Unasked
  PROVE  /\ UNCHANGED <<FeatureAt, slow, devidx, touched, last>> /\ call'.t \in Nat
         /\ trouble' \in 0..MaxTrouble /\ trouble' >= trouble
  BY Numbers DEF Typed, CallTypes, Unasked

\* A device has no more features than chunks are asked for.
LEMMA FewFeatures ==
  ASSUME Typed, Running
  PROVE  Len(FeatureAt[Tgt]) <= ChunkMax /\ Len(FeatureAt[Tgt]) \in Nat
         /\ FeatureAt[Tgt] \in Seq(Features(Tgt))
<1>1. FeatureAt \in Topologies /\ Tgt \in Targets
  BY DEF Tgt, Typed, CallTypes
<1>2. QED BY <1>1, CallsAssumption DEF Features

\* Writes keep the settings of the devices well formed.
LEMMA HwTyped ==
  ASSUME hw \in [Targets -> Settings], NEW t \in Targets
  PROVE  /\ \A m \in {"onboard", "host"} : [hw EXCEPT ![t].mode = m] \in [Targets -> Settings]
         /\ \A v \in Vals : [hw EXCEPT ![t].rate = v] \in [Targets -> Settings]
<1>1. ASSUME NEW m \in {"onboard", "host"} PROVE [hw EXCEPT ![t].mode = m] \in [Targets -> Settings]
  <2>1. [hw[t] EXCEPT !.mode = m] \in Settings BY DEF Settings
  <2>2. QED BY <2>1
<1>2. ASSUME NEW v \in Vals PROVE [hw EXCEPT ![t].rate = v] \in [Targets -> Settings]
  <2>1. [hw[t] EXCEPT !.rate = v] \in Settings BY DEF Settings
  <2>2. QED BY <2>1
<1>3. QED BY <1>1, <1>2

\* The requests of get_device_info give up after Streak misses at the latest.
LEMMA InfoTol ==
  ASSUME call.i \in Nat \ {0}, ~(call.i > Len(InfoSections))
  PROVE  InfoSections[call.i].tol <= Streak /\ InfoSections[call.i].tol \in Nat
<1>1. Len(InfoSections) = 5 /\ call.i \in 1..5
  BY DEF InfoSections
<1>2. QED BY <1>1, Numbers DEF InfoSections

-----------------------------------------------------------------------------
(* Each step keeps the call well formed *)

LEMMA ResolveTyped ==
  ASSUME Typed, Missed, Running, NEW o, resolve_feature_index(o)
  PROVE  Onward
<1>1. Flow'
  <2>1. call.i \in Nat \ {0} /\ call.sub \in Nat /\ call.dl \in Nat /\ call.miss \in 0..Streak
        /\ call.t \in Nat
    BY DEF Typed, CallTypes, Flow
  <2>2. call'.i \in Nat \ {0} /\ call'.sub \in Nat /\ call'.dl \in Nat /\ call'.miss \in 0..Streak
    BY ONLY ResolveEffect, Typed, Missed, Running, resolve_feature_index(o), <2>1, Numbers
       DEF Keeps, Need, NoIndexLeads
  <2>3. StageOf(call'.pc, call'.op) /\ (call'.pc \in FsStages => call'.then = ThenOf(call'.op))
    BY ONLY ZenonT(40), ResolveEffect, Typed, Missed, Running, resolve_feature_index(o)
       DEF Typed, CallTypes, Flow, Keeps, StageOf, FsStages, DpiStages, Single, DpiOps, SetOps,
          EnumOps, Ops, Need, NoIndexLeads
  <2>4. call'.info \in Infos \cup {NoInfo}
    BY ONLY ResolveEffect, Typed, Missed, Running, resolve_feature_index(o)
       DEF Typed, CallTypes, Flow, Keeps, Need, NoIndexLeads
  <2>5. QED BY ONLY <2>2, <2>3, <2>4 DEF Flow
<1>2. hw' \in [Targets -> Settings] /\ off' \subseteq Targets /\ flag' \in BOOLEAN
  BY ONLY ResolveEffect, Typed, Running, resolve_feature_index(o) DEF Typed
<1>3. QED BY ONLY Typed, Running, resolve_feature_index(o), ResolveEffect, <1>1, <1>2, AskedRest,
     NextTyped

LEMMA FeatureRootTyped ==
  ASSUME Typed, Missed, Running, NEW o, FeatureRoot(o)
  PROVE  Onward
<1>1. Flow'
  <2>1. call.i \in Nat \ {0} /\ call.sub \in Nat /\ call.dl \in Nat /\ call.miss \in 0..Streak
        /\ call.t \in Nat
    BY DEF Typed, CallTypes, Flow
  <2>a. (call'.i = call.i \/ call'.i = 1) /\ (call'.miss = call.miss \/ call'.miss = 0)
        /\ call'.sub = call.sub
        /\ (call'.dl = call.dl \/ call'.dl = call.t + Budget + Cost(o))
    BY ONLY FeatureRootEffect, Typed, Missed, Running, FeatureRoot(o)
       DEF Keeps, ThenOf
  <2>2. call'.i \in Nat \ {0} /\ call'.sub \in Nat /\ call'.dl \in Nat /\ call'.miss \in 0..Streak
    BY ONLY <2>1, <2>a, Numbers DEF Cost
  <2>3. StageOf(call'.pc, call'.op) /\ (call'.pc \in FsStages => call'.then = ThenOf(call'.op))
    BY ONLY FeatureRootEffect, Typed, Missed, Running, FeatureRoot(o)
       DEF Typed, CallTypes, Flow, Keeps, StageOf, FsStages, DpiStages, Single, DpiOps, SetOps,
          EnumOps, Ops, ThenOf
  <2>4. call'.info \in Infos \cup {NoInfo}
    BY ONLY FeatureRootEffect, Typed, Missed, Running, FeatureRoot(o)
       DEF Typed, CallTypes, Flow, Keeps, ThenOf
  <2>5. QED BY ONLY <2>2, <2>3, <2>4 DEF Flow
<1>2. hw' \in [Targets -> Settings] /\ off' \subseteq Targets /\ flag' \in BOOLEAN
  BY ONLY FeatureRootEffect, Typed, Running, FeatureRoot(o) DEF Typed
<1>3. QED BY ONLY Typed, Running, FeatureRoot(o), FeatureRootEffect, <1>1, <1>2, AskedRest, NextTyped

LEMMA FeatureEachOverTyped ==
  ASSUME Typed, Missed, Running, NEW o, FeatureEach(o), Over(Len(FeatureAt[Tgt]))
  PROVE  Onward
<1>1. Flow'
  <2>1. call.i \in Nat \ {0} /\ call.sub \in Nat /\ call.dl \in Nat /\ call.miss \in 0..Streak
        /\ call.t \in Nat
    BY DEF Typed, CallTypes, Flow
  <2>2. call'.i \in Nat \ {0} /\ call'.sub \in Nat /\ call'.dl \in Nat /\ call'.miss \in 0..Streak
    BY ONLY FeatureEachOver, Typed, Missed, Running, FeatureEach(o), Over(Len(FeatureAt[Tgt])), <2>1,
       Numbers
       DEF Keeps
  <2>3. StageOf(call'.pc, call'.op) /\ (call'.pc \in FsStages => call'.then = ThenOf(call'.op))
    BY ONLY FeatureEachOver, Typed, Missed, Running, FeatureEach(o), Over(Len(FeatureAt[Tgt]))
       DEF Typed, CallTypes, Flow, Keeps, StageOf, FsStages, DpiStages, Single, DpiOps, SetOps,
          EnumOps, Ops
  <2>4. call'.info \in Infos \cup {NoInfo}
    BY ONLY FeatureEachOver, Typed, Missed, Running, FeatureEach(o), Over(Len(FeatureAt[Tgt]))
       DEF Typed, CallTypes, Flow, Keeps
  <2>5. QED BY ONLY <2>2, <2>3, <2>4 DEF Flow
<1>2. hw' \in [Targets -> Settings] /\ off' \subseteq Targets /\ flag' \in BOOLEAN
  BY ONLY FeatureEachOver, Typed, Running, FeatureEach(o), Over(Len(FeatureAt[Tgt])) DEF Typed
<1>3. QED BY ONLY Typed, Running, FeatureEach(o), Over(Len(FeatureAt[Tgt])), FeatureEachOver, <1>1,
     <1>2, UnaskedRest, NextTyped

LEMMA FeatureEachAsksTyped ==
  ASSUME Typed, Missed, Running, NEW o, FeatureEach(o), ~Over(Len(FeatureAt[Tgt]))
  PROVE  Onward
<1>1. Flow'
  <2>1. call.i \in Nat \ {0} /\ call.sub \in Nat /\ call.dl \in Nat /\ call.miss \in 0..Streak
        /\ call.t \in Nat
    BY DEF Typed, CallTypes, Flow
  <2>q. call.pc = "fs_each"
    BY ONLY Typed, Running, FeatureEach(o), ~Over(Len(FeatureAt[Tgt])), FeatureEachAsks
  <2>l. Len(FeatureAt[Tgt]) <= ChunkMax /\ Len(FeatureAt[Tgt]) \in Nat
    BY ONLY Typed, Running, Numbers, FewFeatures
  <2>p. call.miss # Streak
    BY ONLY <2>1, <2>q, <2>l, Missed, Running, Numbers, ~Over(Len(FeatureAt[Tgt])) DEF Missed, Over
  <2>a. (call'.i = call.i \/ call'.i = call.i + 1 \/ call'.i = ChunkMax + 1) /\ (call'.miss = 0
        \/ call'.miss = call.miss + 1)
        /\ call'.sub = call.sub /\ call'.dl = call.dl
    BY ONLY FeatureEachAsks, Typed, Missed, Running, FeatureEach(o), ~Over(Len(FeatureAt[Tgt]))
       DEF Keeps, Counted, Over, Missed
  <2>2. call'.i \in Nat \ {0} /\ call'.sub \in Nat /\ call'.dl \in Nat /\ call'.miss \in 0..Streak
    BY ONLY <2>1, <2>a, Numbers, <2>p
  <2>3. StageOf(call'.pc, call'.op) /\ (call'.pc \in FsStages => call'.then = ThenOf(call'.op))
    BY ONLY FeatureEachAsks, Typed, Missed, Running, FeatureEach(o), ~Over(Len(FeatureAt[Tgt]))
       DEF Typed, CallTypes, Flow, Keeps, StageOf, FsStages, DpiStages, Single, DpiOps, SetOps,
          EnumOps, Ops, Counted, Over, Missed
  <2>4. call'.info \in Infos \cup {NoInfo}
    BY ONLY FeatureEachAsks, Typed, Missed, Running, FeatureEach(o), ~Over(Len(FeatureAt[Tgt]))
       DEF Typed, CallTypes, Flow, Keeps, Counted, Over, Missed
  <2>5. QED BY ONLY <2>2, <2>3, <2>4 DEF Flow
<1>2. hw' \in [Targets -> Settings] /\ off' \subseteq Targets /\ flag' \in BOOLEAN
  BY ONLY FeatureEachAsks, Typed, Running, FeatureEach(o), ~Over(Len(FeatureAt[Tgt])) DEF Typed
<1>3. QED BY ONLY Typed, Running, FeatureEach(o), ~Over(Len(FeatureAt[Tgt])), FeatureEachAsks, <1>1,
     <1>2, AskedRest, NextTyped

LEMMA BatteryNoneTyped ==
  ASSUME Typed, Missed, Running, NEW o, get_battery_status(o), call.i > Len(Sources)
  PROVE  Onward
<1>1. Flow'
  <2>1. call.i \in Nat \ {0} /\ call.sub \in Nat /\ call.dl \in Nat /\ call.miss \in 0..Streak
        /\ call.t \in Nat
    BY DEF Typed, CallTypes, Flow
  <2>2. call'.i \in Nat \ {0} /\ call'.sub \in Nat /\ call'.dl \in Nat /\ call'.miss \in 0..Streak
    BY ONLY BatteryNone, Typed, Missed, Running, get_battery_status(o), call.i > Len(Sources), <2>1,
       Numbers
       DEF Keeps
  <2>3. StageOf(call'.pc, call'.op) /\ (call'.pc \in FsStages => call'.then = ThenOf(call'.op))
    BY ONLY BatteryNone, Typed, Missed, Running, get_battery_status(o), call.i > Len(Sources)
       DEF Typed, CallTypes, Flow, Keeps, StageOf, FsStages, DpiStages, Single, DpiOps, SetOps,
          EnumOps, Ops
  <2>4. call'.info \in Infos \cup {NoInfo}
    BY ONLY BatteryNone, Typed, Missed, Running, get_battery_status(o), call.i > Len(Sources)
       DEF Typed, CallTypes, Flow, Keeps
  <2>5. QED BY ONLY <2>2, <2>3, <2>4 DEF Flow
<1>2. hw' \in [Targets -> Settings] /\ off' \subseteq Targets /\ flag' \in BOOLEAN
  BY ONLY BatteryNone, Typed, Running, get_battery_status(o), call.i > Len(Sources) DEF Typed
<1>3. QED BY ONLY Typed, Running, get_battery_status(o), call.i > Len(Sources), BatteryNone, <1>1,
     <1>2, UnaskedRest, NextTyped

LEMMA BatterySkipsTyped ==
  ASSUME Typed, Missed, Running, NEW o, get_battery_status(o), ~(call.i > Len(Sources)),
         call.i <= Len(BatteryOrder) /\ Sources[call.i] \notin call.found
  PROVE  Onward
<1>1. Flow'
  <2>1. call.i \in Nat \ {0} /\ call.sub \in Nat /\ call.dl \in Nat /\ call.miss \in 0..Streak
        /\ call.t \in Nat
    BY DEF Typed, CallTypes, Flow
  <2>a. (call'.i = call.i \/ call'.i = call.i + 1) /\ call'.miss = call.miss /\ call'.sub = call.sub
        /\ call'.dl = call.dl
    BY ONLY BatterySkips, Typed, Missed, Running, get_battery_status(o), ~(call.i > Len(Sources)),
       call.i <= Len(BatteryOrder) /\ Sources[call.i] \notin call.found
       DEF Keeps
  <2>2. call'.i \in Nat \ {0} /\ call'.sub \in Nat /\ call'.dl \in Nat /\ call'.miss \in 0..Streak
    BY ONLY <2>1, <2>a, Numbers
  <2>3. StageOf(call'.pc, call'.op) /\ (call'.pc \in FsStages => call'.then = ThenOf(call'.op))
    BY ONLY BatterySkips, Typed, Missed, Running, get_battery_status(o), ~(call.i > Len(Sources)),
       call.i <= Len(BatteryOrder) /\ Sources[call.i] \notin call.found
       DEF Typed, CallTypes, Flow, Keeps, StageOf, FsStages, DpiStages, Single, DpiOps, SetOps,
          EnumOps, Ops
  <2>4. call'.info \in Infos \cup {NoInfo}
    BY ONLY BatterySkips, Typed, Missed, Running, get_battery_status(o), ~(call.i > Len(Sources)),
       call.i <= Len(BatteryOrder) /\ Sources[call.i] \notin call.found
       DEF Typed, CallTypes, Flow, Keeps
  <2>5. QED BY ONLY <2>2, <2>3, <2>4 DEF Flow
<1>2. hw' \in [Targets -> Settings] /\ off' \subseteq Targets /\ flag' \in BOOLEAN
  BY ONLY BatterySkips, Typed, Running, get_battery_status(o), ~(call.i > Len(Sources)),
     call.i <= Len(BatteryOrder) /\ Sources[call.i] \notin call.found DEF Typed
<1>3. QED BY ONLY Typed, Running, get_battery_status(o), ~(call.i > Len(Sources)),
     call.i <= Len(BatteryOrder) /\ Sources[call.i] \notin call.found, BatterySkips, <1>1, <1>2,
        UnaskedRest, NextTyped

LEMMA BatteryAsksTyped ==
  ASSUME Typed, Missed, Running, NEW o, get_battery_status(o), ~(call.i > Len(Sources)),
         ~(call.i <= Len(BatteryOrder) /\ Sources[call.i] \notin call.found)
  PROVE  Onward
<1>1. Flow'
  <2>1. call.i \in Nat \ {0} /\ call.sub \in Nat /\ call.dl \in Nat /\ call.miss \in 0..Streak
        /\ call.t \in Nat
    BY DEF Typed, CallTypes, Flow
  <2>a. (call'.i = call.i \/ call'.i = call.i + 1) /\ call'.miss = call.miss /\ call'.sub = call.sub
        /\ call'.dl = call.dl
    BY ONLY BatteryAsks, Typed, Missed, Running, get_battery_status(o), ~(call.i > Len(Sources)),
       ~(call.i <= Len(BatteryOrder) /\ Sources[call.i] \notin call.found)
       DEF Keeps
  <2>2. call'.i \in Nat \ {0} /\ call'.sub \in Nat /\ call'.dl \in Nat /\ call'.miss \in 0..Streak
    BY ONLY <2>1, <2>a, Numbers
  <2>3. StageOf(call'.pc, call'.op) /\ (call'.pc \in FsStages => call'.then = ThenOf(call'.op))
    BY ONLY BatteryAsks, Typed, Missed, Running, get_battery_status(o), ~(call.i > Len(Sources)),
       ~(call.i <= Len(BatteryOrder) /\ Sources[call.i] \notin call.found)
       DEF Typed, CallTypes, Flow, Keeps, StageOf, FsStages, DpiStages, Single, DpiOps, SetOps,
          EnumOps, Ops
  <2>4. call'.info \in Infos \cup {NoInfo}
    BY ONLY BatteryAsks, Typed, Missed, Running, get_battery_status(o), ~(call.i > Len(Sources)),
       ~(call.i <= Len(BatteryOrder) /\ Sources[call.i] \notin call.found)
       DEF Typed, CallTypes, Flow, Keeps
  <2>5. QED BY ONLY <2>2, <2>3, <2>4 DEF Flow
<1>2. hw' \in [Targets -> Settings] /\ off' \subseteq Targets /\ flag' \in BOOLEAN
  BY ONLY BatteryAsks, Typed, Running, get_battery_status(o), ~(call.i > Len(Sources)),
     ~(call.i <= Len(BatteryOrder) /\ Sources[call.i] \notin call.found) DEF Typed
<1>3. QED BY ONLY Typed, Running, get_battery_status(o), ~(call.i > Len(Sources)),
     ~(call.i <= Len(BatteryOrder) /\ Sources[call.i] \notin call.found), BatteryAsks, <1>1, <1>2,
        AskedRest, NextTyped

\* A receiver has no more slots than chunks are asked for.
LEMMA FewSlots ==
  ASSUME Typed
  PROVE  TableSlots[FeatureAt] \in Nat /\ TableSlots[FeatureAt] <= ChunkMax
<1>1. TableSlots[FeatureAt] \in 0..ChunkMax
  BY CallsAssumption DEF Typed
<1>2. QED BY <1>1, Numbers

LEMMA PairingCountTyped ==
  ASSUME Typed, Missed, Running, NEW o, PairingCount(o)
  PROVE  Onward
<1>1. Flow'
  <2>1. call.i \in Nat \ {0} /\ call.sub \in Nat /\ call.dl \in Nat /\ call.miss \in 0..Streak
        /\ call.t \in Nat
    BY DEF Typed, CallTypes, Flow
  <2>c. Cost(o) \in Nat
    BY Numbers DEF Cost
  <2>s. TableSlots[FeatureAt] \in Nat
    BY ONLY Typed, FewSlots
  <2>a. \/ call'.i = call.i /\ call'.miss = call.miss /\ call'.sub = call.sub /\ call'.dl = call.dl
        \/ call'.i = 1 /\ call'.miss = 0 /\ call'.sub \in {Slots, TableSlots[FeatureAt]}
           /\ call'.dl \in {call.t + Budget, call.t + Budget + Cost(o)}
    BY ONLY PairingCountEffect, Typed, Running, PairingCount(o)
  <2>2. call'.i \in Nat \ {0} /\ call'.sub \in Nat /\ call'.dl \in Nat /\ call'.miss \in 0..Streak
    BY ONLY <2>1, <2>a, <2>c, <2>s, Numbers
  <2>3. StageOf(call'.pc, call'.op) /\ (call'.pc \in FsStages => call'.then = ThenOf(call'.op))
    BY ONLY PairingCountEffect, Typed, Missed, Running, PairingCount(o)
       DEF Typed, CallTypes, Flow, Keeps, StageOf, FsStages, DpiStages, Single, DpiOps, SetOps,
          EnumOps, Ops
  <2>4. call'.info \in Infos \cup {NoInfo}
    BY ONLY PairingCountEffect, Typed, Missed, Running, PairingCount(o)
       DEF Typed, CallTypes, Flow, Keeps
  <2>5. QED BY ONLY <2>2, <2>3, <2>4 DEF Flow
<1>2. hw' \in [Targets -> Settings] /\ off' \subseteq Targets /\ flag' \in BOOLEAN
  BY ONLY PairingCountEffect, Typed, Running, PairingCount(o) DEF Typed
<1>3. Asked(TRUE, o) \/ Unasked
  BY PairingCountEffect
<1>4. QED BY ONLY Typed, Running, PairingCount(o), PairingCountEffect, <1>1, <1>2, <1>3, AskedRest,
     UnaskedRest, NextTyped

LEMMA PairingOverTyped ==
  ASSUME Typed, Missed, Running, NEW o, get_pairing_info(o), Over(call.sub)
  PROVE  Onward
<1>1. Flow'
  <2>1. call.i \in Nat \ {0} /\ call.sub \in Nat /\ call.dl \in Nat /\ call.miss \in 0..Streak
        /\ call.t \in Nat
    BY DEF Typed, CallTypes, Flow
  <2>2. call'.i \in Nat \ {0} /\ call'.sub \in Nat /\ call'.dl \in Nat /\ call'.miss \in 0..Streak
    BY ONLY PairingOver, Typed, Missed, Running, get_pairing_info(o), Over(call.sub), <2>1, Numbers
       DEF Keeps
  <2>3. StageOf(call'.pc, call'.op) /\ (call'.pc \in FsStages => call'.then = ThenOf(call'.op))
    BY ONLY PairingOver, Typed, Missed, Running, get_pairing_info(o), Over(call.sub)
       DEF Typed, CallTypes, Flow, Keeps, StageOf, FsStages, DpiStages, Single, DpiOps, SetOps,
          EnumOps, Ops
  <2>4. call'.info \in Infos \cup {NoInfo}
    BY ONLY PairingOver, Typed, Missed, Running, get_pairing_info(o), Over(call.sub)
       DEF Typed, CallTypes, Flow, Keeps
  <2>5. QED BY ONLY <2>2, <2>3, <2>4 DEF Flow
<1>2. hw' \in [Targets -> Settings] /\ off' \subseteq Targets /\ flag' \in BOOLEAN
  BY ONLY PairingOver, Typed, Running, get_pairing_info(o), Over(call.sub) DEF Typed
<1>3. QED BY ONLY Typed, Running, get_pairing_info(o), Over(call.sub), PairingOver, <1>1, <1>2,
     UnaskedRest, NextTyped

LEMMA PairingAsksTyped ==
  ASSUME Typed, Missed, Running, NEW o, get_pairing_info(o), ~Over(call.sub)
  PROVE  Onward
<1>1. Flow'
  <2>1. call.i \in Nat \ {0} /\ call.sub \in Nat /\ call.dl \in Nat /\ call.miss \in 0..Streak
        /\ call.t \in Nat
    BY DEF Typed, CallTypes, Flow
  <2>q. call.pc = "pairing"
    BY ONLY Typed, Running, get_pairing_info(o), ~Over(call.sub), PairingAsks
  <2>l. call.sub <= ChunkMax
    BY ONLY <2>q, Missed, Running DEF Missed
  <2>p. call.miss # Streak
    BY ONLY <2>1, <2>q, <2>l, Missed, Running, Numbers, ~Over(call.sub) DEF Missed, Over
  <2>a. (call'.i = call.i \/ call'.i = call.i + 1 \/ call'.i = ChunkMax + 1) /\ (call'.miss = 0
        \/ call'.miss = call.miss + 1)
        /\ call'.sub = call.sub /\ call'.dl = call.dl
    BY ONLY PairingAsks, Typed, Missed, Running, get_pairing_info(o), ~Over(call.sub)
       DEF Keeps, Counted, Over, Missed
  <2>2. call'.i \in Nat \ {0} /\ call'.sub \in Nat /\ call'.dl \in Nat /\ call'.miss \in 0..Streak
    BY ONLY <2>1, <2>a, Numbers, <2>p
  <2>3. StageOf(call'.pc, call'.op) /\ (call'.pc \in FsStages => call'.then = ThenOf(call'.op))
    BY ONLY PairingAsks, Typed, Missed, Running, get_pairing_info(o), ~Over(call.sub)
       DEF Typed, CallTypes, Flow, Keeps, StageOf, FsStages, DpiStages, Single, DpiOps, SetOps,
          EnumOps, Ops, Counted, Over, Missed
  <2>4. call'.info \in Infos \cup {NoInfo}
    BY ONLY PairingAsks, Typed, Missed, Running, get_pairing_info(o), ~Over(call.sub)
       DEF Typed, CallTypes, Flow, Keeps, Counted, Over, Missed
  <2>5. QED BY ONLY <2>2, <2>3, <2>4 DEF Flow
<1>2. hw' \in [Targets -> Settings] /\ off' \subseteq Targets /\ flag' \in BOOLEAN
  BY ONLY PairingAsks, Typed, Running, get_pairing_info(o), ~Over(call.sub) DEF Typed
<1>3. QED BY ONLY Typed, Running, get_pairing_info(o), ~Over(call.sub), PairingAsks, <1>1, <1>2,
     AskedRest, NextTyped

LEMMA PairingDetailTyped ==
  ASSUME Typed, Missed, Running, NEW o, PairingDetail(o)
  PROVE  Onward
<1>1. Flow'
  <2>1. call.i \in Nat \ {0} /\ call.sub \in Nat /\ call.dl \in Nat /\ call.miss \in 0..Streak
        /\ call.t \in Nat
    BY DEF Typed, CallTypes, Flow
  <2>a. (call'.i = call.i \/ call'.i = call.i + 1) /\ call'.miss = call.miss /\ call'.sub = call.sub
        /\ call'.dl = call.dl
    BY ONLY PairingDetailEffect, Typed, Missed, Running, PairingDetail(o)
       DEF Keeps
  <2>2. call'.i \in Nat \ {0} /\ call'.sub \in Nat /\ call'.dl \in Nat /\ call'.miss \in 0..Streak
    BY ONLY <2>1, <2>a, Numbers
  <2>3. StageOf(call'.pc, call'.op) /\ (call'.pc \in FsStages => call'.then = ThenOf(call'.op))
    BY ONLY PairingDetailEffect, Typed, Missed, Running, PairingDetail(o)
       DEF Typed, CallTypes, Flow, Keeps, StageOf, FsStages, DpiStages, Single, DpiOps, SetOps,
          EnumOps, Ops
  <2>4. call'.info \in Infos \cup {NoInfo}
    BY ONLY PairingDetailEffect, Typed, Missed, Running, PairingDetail(o)
       DEF Typed, CallTypes, Flow, Keeps
  <2>5. QED BY ONLY <2>2, <2>3, <2>4 DEF Flow
<1>2. hw' \in [Targets -> Settings] /\ off' \subseteq Targets /\ flag' \in BOOLEAN
  BY ONLY PairingDetailEffect, Typed, Running, PairingDetail(o) DEF Typed
<1>3. QED BY ONLY Typed, Running, PairingDetail(o), PairingDetailEffect, <1>1, <1>2, AskedRest,
     NextTyped

LEMMA ReadModeTyped ==
  ASSUME Typed, Missed, Running, NEW o, ReadMode(o)
  PROVE  Onward
<1>1. Flow'
  <2>1. call.i \in Nat \ {0} /\ call.sub \in Nat /\ call.dl \in Nat /\ call.miss \in 0..Streak
        /\ call.t \in Nat
    BY DEF Typed, CallTypes, Flow
  <2>2. call'.i \in Nat \ {0} /\ call'.sub \in Nat /\ call'.dl \in Nat /\ call'.miss \in 0..Streak
    BY ONLY ReadModeEffect, Typed, Missed, Running, ReadMode(o), <2>1, Numbers
       DEF Keeps
  <2>3. StageOf(call'.pc, call'.op) /\ (call'.pc \in FsStages => call'.then = ThenOf(call'.op))
    BY ONLY ReadModeEffect, Typed, Missed, Running, ReadMode(o)
       DEF Typed, CallTypes, Flow, Keeps, StageOf, FsStages, DpiStages, Single, DpiOps, SetOps,
          EnumOps, Ops
  <2>4. call'.info \in Infos \cup {NoInfo}
    BY ONLY ReadModeEffect, Typed, Missed, Running, ReadMode(o)
       DEF Typed, CallTypes, Flow, Keeps
  <2>5. QED BY ONLY <2>2, <2>3, <2>4 DEF Flow
<1>2. hw' \in [Targets -> Settings] /\ off' \subseteq Targets /\ flag' \in BOOLEAN
  BY ONLY ReadModeEffect, Typed, Running, ReadMode(o) DEF Typed
<1>3. QED BY ONLY Typed, Running, ReadMode(o), ReadModeEffect, <1>1, <1>2, AskedRest, NextTyped

LEMMA DisableTyped ==
  ASSUME Typed, Missed, Running, NEW o, disable_onboard_profiles_for_write(o)
  PROVE  Onward
<1>1. Flow'
  <2>1. call.i \in Nat \ {0} /\ call.sub \in Nat /\ call.dl \in Nat /\ call.miss \in 0..Streak
        /\ call.t \in Nat
    BY DEF Typed, CallTypes, Flow
  <2>2. call'.i \in Nat \ {0} /\ call'.sub \in Nat /\ call'.dl \in Nat /\ call'.miss \in 0..Streak
    BY ONLY DisableEffect, Typed, Missed, Running, disable_onboard_profiles_for_write(o), <2>1, Numbers
       DEF Keeps
  <2>3. StageOf(call'.pc, call'.op) /\ (call'.pc \in FsStages => call'.then = ThenOf(call'.op))
    BY ONLY DisableEffect, Typed, Missed, Running, disable_onboard_profiles_for_write(o)
       DEF Typed, CallTypes, Flow, Keeps, StageOf, FsStages, DpiStages, Single, DpiOps, SetOps,
          EnumOps, Ops
  <2>4. call'.info \in Infos \cup {NoInfo}
    BY ONLY DisableEffect, Typed, Missed, Running, disable_onboard_profiles_for_write(o)
       DEF Typed, CallTypes, Flow, Keeps
  <2>5. QED BY ONLY <2>2, <2>3, <2>4 DEF Flow
<1>t. Tgt \in Targets
  BY DEF Tgt, Typed, CallTypes
<1>2. hw' \in [Targets -> Settings] /\ off' \subseteq Targets /\ flag' \in BOOLEAN
  <2>1. hw' \in [Targets -> Settings]
    BY ONLY ZenonT(40), <1>t, DisableEffect, Typed, Running, disable_onboard_profiles_for_write(o), HwTyped
       DEF Typed, CallTypes
  <2>2. off' \subseteq Targets
    BY ONLY <1>t, DisableEffect, Typed, Running, disable_onboard_profiles_for_write(o) DEF Typed
  <2>3. flag' \in BOOLEAN
    BY ONLY <1>t, DisableEffect, Typed, Running, disable_onboard_profiles_for_write(o) DEF Typed
  <2>4. QED BY <2>1, <2>2, <2>3
<1>3. QED BY ONLY Typed, Running, disable_onboard_profiles_for_write(o), DisableEffect, <1>1, <1>2,
     AskedRest, NextTyped

LEMMA RestoreTyped ==
  ASSUME Typed, Missed, Running, NEW o, restore_onboard_profiles(o)
  PROVE  Onward
<1>1. Flow'
  <2>1. call.i \in Nat \ {0} /\ call.sub \in Nat /\ call.dl \in Nat /\ call.miss \in 0..Streak
        /\ call.t \in Nat
    BY DEF Typed, CallTypes, Flow
  <2>2. call'.i \in Nat \ {0} /\ call'.sub \in Nat /\ call'.dl \in Nat /\ call'.miss \in 0..Streak
    BY ONLY RestoreEffect, Typed, Missed, Running, restore_onboard_profiles(o), <2>1, Numbers
       DEF Keeps
  <2>3. StageOf(call'.pc, call'.op) /\ (call'.pc \in FsStages => call'.then = ThenOf(call'.op))
    BY ONLY RestoreEffect, Typed, Missed, Running, restore_onboard_profiles(o)
       DEF Typed, CallTypes, Flow, Keeps, StageOf, FsStages, DpiStages, Single, DpiOps, SetOps,
          EnumOps, Ops
  <2>4. call'.info \in Infos \cup {NoInfo}
    BY ONLY RestoreEffect, Typed, Missed, Running, restore_onboard_profiles(o)
       DEF Typed, CallTypes, Flow, Keeps
  <2>5. QED BY ONLY <2>2, <2>3, <2>4 DEF Flow
<1>t. Tgt \in Targets
  BY DEF Tgt, Typed, CallTypes
<1>2. hw' \in [Targets -> Settings] /\ off' \subseteq Targets /\ flag' \in BOOLEAN
  <2>1. hw' \in [Targets -> Settings]
    BY ONLY ZenonT(40), <1>t, RestoreEffect, Typed, Running, restore_onboard_profiles(o), HwTyped
       DEF Typed, CallTypes
  <2>2. off' \subseteq Targets
    BY ONLY <1>t, RestoreEffect, Typed, Running, restore_onboard_profiles(o) DEF Typed
  <2>3. flag' \in BOOLEAN
    BY ONLY <1>t, RestoreEffect, Typed, Running, restore_onboard_profiles(o) DEF Typed
  <2>4. QED BY <2>1, <2>2, <2>3
<1>3. QED BY ONLY Typed, Running, restore_onboard_profiles(o), RestoreEffect, <1>1, <1>2, AskedRest,
     NextTyped

LEMMA DpiCapsTyped ==
  ASSUME Typed, Missed, Running, NEW o, DpiCaps(o)
  PROVE  Onward
<1>1. Flow'
  <2>1. call.i \in Nat \ {0} /\ call.sub \in Nat /\ call.dl \in Nat /\ call.miss \in 0..Streak
        /\ call.t \in Nat
    BY DEF Typed, CallTypes, Flow
  <2>2. call'.i \in Nat \ {0} /\ call'.sub \in Nat /\ call'.dl \in Nat /\ call'.miss \in 0..Streak
    BY ONLY DpiCapsEffect, Typed, Missed, Running, DpiCaps(o), <2>1, Numbers
       DEF Keeps
  <2>3. StageOf(call'.pc, call'.op) /\ (call'.pc \in FsStages => call'.then = ThenOf(call'.op))
    BY ONLY DpiCapsEffect, Typed, Missed, Running, DpiCaps(o)
       DEF Typed, CallTypes, Flow, Keeps, StageOf, FsStages, DpiStages, Single, DpiOps, SetOps,
          EnumOps, Ops
  <2>4. call'.info \in Infos \cup {NoInfo}
    BY ONLY DpiCapsEffect, Typed, Missed, Running, DpiCaps(o)
       DEF Typed, CallTypes, Flow, Keeps
  <2>5. QED BY ONLY <2>2, <2>3, <2>4 DEF Flow
<1>2. hw' \in [Targets -> Settings] /\ off' \subseteq Targets /\ flag' \in BOOLEAN
  BY ONLY DpiCapsEffect, Typed, Running, DpiCaps(o) DEF Typed
<1>3. QED BY ONLY Typed, Running, DpiCaps(o), DpiCapsEffect, <1>1, <1>2, AskedRest, NextTyped

LEMMA RateWriteTyped ==
  ASSUME Typed, Missed, Running, NEW o, RateWrite(o)
  PROVE  Onward
<1>1. Flow'
  <2>1. call.i \in Nat \ {0} /\ call.sub \in Nat /\ call.dl \in Nat /\ call.miss \in 0..Streak
        /\ call.t \in Nat
    BY DEF Typed, CallTypes, Flow
  <2>2. call'.i \in Nat \ {0} /\ call'.sub \in Nat /\ call'.dl \in Nat /\ call'.miss \in 0..Streak
    BY ONLY RateWriteEffect, Typed, Missed, Running, RateWrite(o), <2>1, Numbers
       DEF Keeps
  <2>3. StageOf(call'.pc, call'.op) /\ (call'.pc \in FsStages => call'.then = ThenOf(call'.op))
    BY ONLY RateWriteEffect, Typed, Missed, Running, RateWrite(o)
       DEF Typed, CallTypes, Flow, Keeps, StageOf, FsStages, DpiStages, Single, DpiOps, SetOps,
          EnumOps, Ops
  <2>4. call'.info \in Infos \cup {NoInfo}
    BY ONLY RateWriteEffect, Typed, Missed, Running, RateWrite(o)
       DEF Typed, CallTypes, Flow, Keeps
  <2>5. QED BY ONLY <2>2, <2>3, <2>4 DEF Flow
<1>t. Tgt \in Targets
  BY DEF Tgt, Typed, CallTypes
<1>2. hw' \in [Targets -> Settings] /\ off' \subseteq Targets /\ flag' \in BOOLEAN
  <2>1. hw' \in [Targets -> Settings]
    <3>1. hw \in [Targets -> Settings] /\ call.val \in Vals
      BY DEF Typed, CallTypes
    <3>2. [hw EXCEPT ![Tgt].rate = call.val] \in [Targets -> Settings]
      BY ONLY <1>t, <3>1, HwTyped
    <3>3. QED BY ONLY Typed, Running, RateWrite(o), RateWriteEffect, <3>1, <3>2
  <2>2. off' \subseteq Targets
    BY ONLY <1>t, RateWriteEffect, Typed, Running, RateWrite(o) DEF Typed
  <2>3. flag' \in BOOLEAN
    BY ONLY <1>t, RateWriteEffect, Typed, Running, RateWrite(o) DEF Typed
  <2>4. QED BY <2>1, <2>2, <2>3
<1>3. QED BY ONLY Typed, Running, RateWrite(o), RateWriteEffect, <1>1, <1>2, AskedRest, NextTyped

LEMMA SectorWriteTyped ==
  ASSUME Typed, Missed, Running, NEW o, SectorWrite(o)
  PROVE  Onward
<1>1. Flow'
  <2>1. call.i \in Nat \ {0} /\ call.sub \in Nat /\ call.dl \in Nat /\ call.miss \in 0..Streak
        /\ call.t \in Nat
    BY DEF Typed, CallTypes, Flow
  <2>a. (call'.i = call.i \/ call'.i = call.i + 1) /\ call'.miss = call.miss /\ call'.sub = call.sub
        /\ call'.dl = call.dl
    BY ONLY SectorWriteEffect, Typed, Missed, Running, SectorWrite(o)
       DEF Keeps
  <2>2. call'.i \in Nat \ {0} /\ call'.sub \in Nat /\ call'.dl \in Nat /\ call'.miss \in 0..Streak
    BY ONLY <2>1, <2>a, Numbers
  <2>3. StageOf(call'.pc, call'.op) /\ (call'.pc \in FsStages => call'.then = ThenOf(call'.op))
    BY ONLY SectorWriteEffect, Typed, Missed, Running, SectorWrite(o)
       DEF Typed, CallTypes, Flow, Keeps, StageOf, FsStages, DpiStages, Single, DpiOps, SetOps,
          EnumOps, Ops
  <2>4. call'.info \in Infos \cup {NoInfo}
    BY ONLY SectorWriteEffect, Typed, Missed, Running, SectorWrite(o)
       DEF Typed, CallTypes, Flow, Keeps
  <2>5. QED BY ONLY <2>2, <2>3, <2>4 DEF Flow
<1>2. hw' \in [Targets -> Settings] /\ off' \subseteq Targets /\ flag' \in BOOLEAN
  BY ONLY SectorWriteEffect, Typed, Running, SectorWrite(o) DEF Typed
<1>3. QED BY ONLY Typed, Running, SectorWrite(o), SectorWriteEffect, <1>1, <1>2, AskedRest, NextTyped

LEMMA ReadChainTyped ==
  ASSUME Typed, Missed, Running, NEW o, ReadChain(o)
  PROVE  Onward
<1>1. Flow'
  <2>1. call.i \in Nat \ {0} /\ call.sub \in Nat /\ call.dl \in Nat /\ call.miss \in 0..Streak
        /\ call.t \in Nat
    BY DEF Typed, CallTypes, Flow
  <2>a. (call'.i = 1 \/ call'.i = call.i \/ call'.i = call.i + 1 \/ call'.i = call.i + 2)
        /\ call'.miss = call.miss /\ call'.sub = call.sub /\ call'.dl = call.dl
    BY ONLY ReadChainEffect, Typed, Missed, Running, ReadChain(o)
       DEF Keeps, Chain, NoIndexLeads
  <2>2. call'.i \in Nat \ {0} /\ call'.sub \in Nat /\ call'.dl \in Nat /\ call'.miss \in 0..Streak
    BY ONLY <2>1, <2>a, Numbers
  <2>3. StageOf(call'.pc, call'.op) /\ (call'.pc \in FsStages => call'.then = ThenOf(call'.op))
    BY ONLY ReadChainEffect, Typed, Missed, Running, ReadChain(o)
       DEF Typed, CallTypes, Flow, Keeps, StageOf, FsStages, DpiStages, Single, DpiOps, SetOps,
          EnumOps, Ops, Chain, NoIndexLeads
  <2>4. call'.info \in Infos \cup {NoInfo}
    BY ONLY ReadChainEffect, Typed, Missed, Running, ReadChain(o)
       DEF Typed, CallTypes, Flow, Keeps, Chain, NoIndexLeads
  <2>5. QED BY ONLY <2>2, <2>3, <2>4 DEF Flow
<1>2. hw' \in [Targets -> Settings] /\ off' \subseteq Targets /\ flag' \in BOOLEAN
  BY ONLY ReadChainEffect, Typed, Running, ReadChain(o) DEF Typed
<1>3. QED BY ONLY Typed, Running, ReadChain(o), ReadChainEffect, <1>1, <1>2, AskedRest, NextTyped

LEMMA PingTyped ==
  ASSUME Typed, Missed, Running, NEW o, Ping(o)
  PROVE  Onward
<1>1. Flow'
  <2>1. call.i \in Nat \ {0} /\ call.sub \in Nat /\ call.dl \in Nat /\ call.miss \in 0..Streak
        /\ call.t \in Nat
    BY DEF Typed, CallTypes, Flow
  <2>2. call'.i \in Nat \ {0} /\ call'.sub \in Nat /\ call'.dl \in Nat /\ call'.miss \in 0..Streak
    BY ONLY PingEffect, Typed, Missed, Running, Ping(o), <2>1, Numbers
       DEF Keeps
  <2>3. StageOf(call'.pc, call'.op) /\ (call'.pc \in FsStages => call'.then = ThenOf(call'.op))
    BY ONLY PingEffect, Typed, Missed, Running, Ping(o)
       DEF Typed, CallTypes, Flow, Keeps, StageOf, FsStages, DpiStages, Single, DpiOps, SetOps,
          EnumOps, Ops
  <2>4. call'.info \in Infos \cup {NoInfo}
    BY ONLY PingEffect, Typed, Missed, Running, Ping(o)
       DEF Typed, CallTypes, Flow, Keeps
  <2>5. QED BY ONLY <2>2, <2>3, <2>4 DEF Flow
<1>2. hw' \in [Targets -> Settings] /\ off' \subseteq Targets /\ flag' \in BOOLEAN
  BY ONLY PingEffect, Typed, Running, Ping(o) DEF Typed
<1>3. QED BY ONLY Typed, Running, Ping(o), PingEffect, <1>1, <1>2, AskedRest, NextTyped

LEMMA DpiListOverTyped ==
  ASSUME Typed, Missed, Running, NEW o, DpiList(o), Over(ChunkMax)
  PROVE  Onward
<1>1. Flow'
  <2>1. call.i \in Nat \ {0} /\ call.sub \in Nat /\ call.dl \in Nat /\ call.miss \in 0..Streak
        /\ call.t \in Nat
    BY DEF Typed, CallTypes, Flow
  <2>2. call'.i \in Nat \ {0} /\ call'.sub \in Nat /\ call'.dl \in Nat /\ call'.miss \in 0..Streak
    BY ONLY DpiListOver, Typed, Missed, Running, DpiList(o), Over(ChunkMax), <2>1, Numbers
       DEF Keeps
  <2>3. StageOf(call'.pc, call'.op) /\ (call'.pc \in FsStages => call'.then = ThenOf(call'.op))
    BY ONLY DpiListOver, Typed, Missed, Running, DpiList(o), Over(ChunkMax)
       DEF Typed, CallTypes, Flow, Keeps, StageOf, FsStages, DpiStages, Single, DpiOps, SetOps,
          EnumOps, Ops
  <2>4. call'.info \in Infos \cup {NoInfo}
    BY ONLY DpiListOver, Typed, Missed, Running, DpiList(o), Over(ChunkMax)
       DEF Typed, CallTypes, Flow, Keeps
  <2>5. QED BY ONLY <2>2, <2>3, <2>4 DEF Flow
<1>2. hw' \in [Targets -> Settings] /\ off' \subseteq Targets /\ flag' \in BOOLEAN
  BY ONLY DpiListOver, Typed, Running, DpiList(o), Over(ChunkMax) DEF Typed
<1>3. QED BY ONLY Typed, Running, DpiList(o), Over(ChunkMax), DpiListOver, <1>1, <1>2, UnaskedRest,
     NextTyped

LEMMA FeaturesDoneTyped ==
  ASSUME Typed, Missed, Running, FeaturesDone
  PROVE  Onward
<1>1. Flow'
  <2>1. call.i \in Nat \ {0} /\ call.sub \in Nat /\ call.dl \in Nat /\ call.miss \in 0..Streak
        /\ call.t \in Nat
    BY DEF Typed, CallTypes, Flow
  <2>2. call'.i \in Nat \ {0} /\ call'.sub \in Nat /\ call'.dl \in Nat /\ call'.miss \in 0..Streak
    BY ONLY FeaturesDoneEffect, Typed, Missed, Running, FeaturesDone, <2>1, Numbers
       DEF Keeps, ThenOf
  <2>3. StageOf(call'.pc, call'.op) /\ (call'.pc \in FsStages => call'.then = ThenOf(call'.op))
    BY ONLY FeaturesDoneEffect, Typed, Missed, Running, FeaturesDone
       DEF Typed, CallTypes, Flow, Keeps, StageOf, FsStages, DpiStages, Single, DpiOps, SetOps,
          EnumOps, Ops, ThenOf
  <2>4. call'.info \in Infos \cup {NoInfo}
    BY ONLY FeaturesDoneEffect, Typed, Missed, Running, FeaturesDone
       DEF Typed, CallTypes, Flow, Keeps, ThenOf
  <2>5. QED BY ONLY <2>2, <2>3, <2>4 DEF Flow
<1>2. hw' \in [Targets -> Settings] /\ off' \subseteq Targets /\ flag' \in BOOLEAN
  BY ONLY FeaturesDoneEffect, Typed, Running, FeaturesDone DEF Typed
<1>3. QED BY ONLY Typed, Running, FeaturesDone, FeaturesDoneEffect, <1>1, <1>2, UnaskedRest, NextTyped

LEMMA FeaturesKnownTyped ==
  ASSUME Typed, Missed, Running, FeaturesKnown
  PROVE  Onward
<1>1. Flow'
  <2>1. call.i \in Nat \ {0} /\ call.sub \in Nat /\ call.dl \in Nat /\ call.miss \in 0..Streak
        /\ call.t \in Nat
    BY DEF Typed, CallTypes, Flow
  <2>2. call'.i \in Nat \ {0} /\ call'.sub \in Nat /\ call'.dl \in Nat /\ call'.miss \in 0..Streak
    BY ONLY FeaturesKnownEffect, Typed, Missed, Running, FeaturesKnown, <2>1, Numbers
       DEF Keeps, ThenOf
  <2>3. StageOf(call'.pc, call'.op) /\ (call'.pc \in FsStages => call'.then = ThenOf(call'.op))
    BY ONLY FeaturesKnownEffect, Typed, Missed, Running, FeaturesKnown
       DEF Typed, CallTypes, Flow, Keeps, StageOf, FsStages, DpiStages, Single, DpiOps, SetOps,
          EnumOps, Ops, ThenOf
  <2>4. call'.info \in Infos \cup {NoInfo}
    BY ONLY FeaturesKnownEffect, Typed, Missed, Running, FeaturesKnown
       DEF Typed, CallTypes, Flow, Keeps, ThenOf
  <2>5. QED BY ONLY <2>2, <2>3, <2>4 DEF Flow
<1>2. hw' \in [Targets -> Settings] /\ off' \subseteq Targets /\ flag' \in BOOLEAN
  BY ONLY FeaturesKnownEffect, Typed, Running, FeaturesKnown DEF Typed
<1>3. QED BY ONLY Typed, Running, FeaturesKnown, FeaturesKnownEffect, <1>1, <1>2, UnaskedRest, NextTyped

LEMMA RestoreUnneededTyped ==
  ASSUME Typed, Missed, Running, RestoreUnneeded
  PROVE  Onward
<1>1. Flow'
  <2>1. call.i \in Nat \ {0} /\ call.sub \in Nat /\ call.dl \in Nat /\ call.miss \in 0..Streak
        /\ call.t \in Nat
    BY DEF Typed, CallTypes, Flow
  <2>2. call'.i \in Nat \ {0} /\ call'.sub \in Nat /\ call'.dl \in Nat /\ call'.miss \in 0..Streak
    BY ONLY RestoreUnneededEffect, Typed, Missed, Running, RestoreUnneeded, <2>1, Numbers
       DEF Keeps
  <2>3. StageOf(call'.pc, call'.op) /\ (call'.pc \in FsStages => call'.then = ThenOf(call'.op))
    BY ONLY RestoreUnneededEffect, Typed, Missed, Running, RestoreUnneeded
       DEF Typed, CallTypes, Flow, Keeps, StageOf, FsStages, DpiStages, Single, DpiOps, SetOps,
          EnumOps, Ops
  <2>4. call'.info \in Infos \cup {NoInfo}
    BY ONLY RestoreUnneededEffect, Typed, Missed, Running, RestoreUnneeded
       DEF Typed, CallTypes, Flow, Keeps
  <2>5. QED BY ONLY <2>2, <2>3, <2>4 DEF Flow
<1>2. hw' \in [Targets -> Settings] /\ off' \subseteq Targets /\ flag' \in BOOLEAN
  BY ONLY RestoreUnneededEffect, Typed, Running, RestoreUnneeded DEF Typed
<1>3. QED BY ONLY Typed, Running, RestoreUnneeded, RestoreUnneededEffect, <1>1, <1>2, UnaskedRest,
     NextTyped

LEMMA IdentifiedTyped ==
  ASSUME Typed, Missed, Running, Identified
  PROVE  Onward
<1>1. Flow'
  <2>1. call.i \in Nat \ {0} /\ call.sub \in Nat /\ call.dl \in Nat /\ call.miss \in 0..Streak
        /\ call.t \in Nat
    BY DEF Typed, CallTypes, Flow
  <2>2. call'.i \in Nat \ {0} /\ call'.sub \in Nat /\ call'.dl \in Nat /\ call'.miss \in 0..Streak
    BY ONLY IdentifiedEffect, Typed, Missed, Running, Identified, <2>1, Numbers
       DEF Keeps
  <2>3. StageOf(call'.pc, call'.op) /\ (call'.pc \in FsStages => call'.then = ThenOf(call'.op))
    BY ONLY IdentifiedEffect, Typed, Missed, Running, Identified
       DEF Typed, CallTypes, Flow, Keeps, StageOf, FsStages, DpiStages, Single, DpiOps, SetOps,
          EnumOps, Ops
  <2>4. call'.info \in Infos \cup {NoInfo}
    BY ONLY IdentifiedEffect, Typed, Missed, Running, Identified
       DEF Typed, CallTypes, Flow, Keeps
  <2>5. QED BY ONLY <2>2, <2>3, <2>4 DEF Flow
<1>2. hw' \in [Targets -> Settings] /\ off' \subseteq Targets /\ flag' \in BOOLEAN
  BY ONLY IdentifiedEffect, Typed, Running, Identified DEF Typed
<1>3. QED BY ONLY Typed, Running, Identified, IdentifiedEffect, <1>1, <1>2, UnaskedRest, NextTyped

LEMMA DpiDoneTyped ==
  ASSUME Typed, Missed, Running, DpiDone
  PROVE  Onward
<1>1. Flow'
  <2>1. call.i \in Nat \ {0} /\ call.sub \in Nat /\ call.dl \in Nat /\ call.miss \in 0..Streak
        /\ call.t \in Nat
    BY DEF Typed, CallTypes, Flow
  <2>2. call'.i \in Nat \ {0} /\ call'.sub \in Nat /\ call'.dl \in Nat /\ call'.miss \in 0..Streak
    BY ONLY DpiDoneEffect, Typed, Missed, Running, DpiDone, <2>1, Numbers
       DEF Keeps
  <2>3. StageOf(call'.pc, call'.op) /\ (call'.pc \in FsStages => call'.then = ThenOf(call'.op))
    BY ONLY DpiDoneEffect, Typed, Missed, Running, DpiDone
       DEF Typed, CallTypes, Flow, Keeps, StageOf, FsStages, DpiStages, Single, DpiOps, SetOps,
          EnumOps, Ops
  <2>4. call'.info \in Infos \cup {NoInfo}
    BY ONLY DpiDoneEffect, Typed, Missed, Running, DpiDone
       DEF Typed, CallTypes, Flow, Keeps
  <2>5. QED BY ONLY <2>2, <2>3, <2>4 DEF Flow
<1>2. hw' \in [Targets -> Settings] /\ off' \subseteq Targets /\ flag' \in BOOLEAN
  BY ONLY DpiDoneEffect, Typed, Running, DpiDone DEF Typed
<1>3. QED BY ONLY Typed, Running, DpiDone, DpiDoneEffect, <1>1, <1>2, UnaskedRest, NextTyped

LEMMA LegacyRateTyped ==
  ASSUME Typed, Missed, Running, NEW o, RateSupported(o), call.pc = "rate"
  PROVE  Onward
<1>1. Flow'
  <2>1. call.i \in Nat \ {0} /\ call.sub \in Nat /\ call.dl \in Nat /\ call.miss \in 0..Streak
        /\ call.t \in Nat
    BY DEF Typed, CallTypes, Flow
  <2>2. call'.i \in Nat \ {0} /\ call'.sub \in Nat /\ call'.dl \in Nat /\ call'.miss \in 0..Streak
    BY ONLY LegacyRateEffect, Typed, Missed, Running, RateSupported(o), call.pc = "rate", <2>1, Numbers
       DEF Keeps, NoIndexLeads
  <2>3. StageOf(call'.pc, call'.op) /\ (call'.pc \in FsStages => call'.then = ThenOf(call'.op))
    BY ONLY LegacyRateEffect, Typed, Missed, Running, RateSupported(o), call.pc = "rate"
       DEF Typed, CallTypes, Flow, Keeps, StageOf, FsStages, DpiStages, Single, DpiOps, SetOps,
          EnumOps, Ops, NoIndexLeads
  <2>4. call'.info \in Infos \cup {NoInfo}
    BY ONLY LegacyRateEffect, Typed, Missed, Running, RateSupported(o), call.pc = "rate"
       DEF Typed, CallTypes, Flow, Keeps, NoIndexLeads
  <2>5. QED BY ONLY <2>2, <2>3, <2>4 DEF Flow
<1>2. hw' \in [Targets -> Settings] /\ off' \subseteq Targets /\ flag' \in BOOLEAN
  BY ONLY LegacyRateEffect, Typed, Running, RateSupported(o), call.pc = "rate" DEF Typed
<1>3. QED BY ONLY Typed, Running, RateSupported(o), call.pc = "rate", LegacyRateEffect, <1>1, <1>2,
     AskedRest, NextTyped

LEMMA LegacyNoCodeTyped ==
  ASSUME Typed, Missed, Running, RateNoCode, call.pc = "rate"
  PROVE  Onward
<1>1. Flow'
  <2>1. call.i \in Nat \ {0} /\ call.sub \in Nat /\ call.dl \in Nat /\ call.miss \in 0..Streak
        /\ call.t \in Nat
    BY DEF Typed, CallTypes, Flow
  <2>2. call'.i \in Nat \ {0} /\ call'.sub \in Nat /\ call'.dl \in Nat /\ call'.miss \in 0..Streak
    BY ONLY LegacyNoCodeEffect, Typed, Missed, Running, RateNoCode, call.pc = "rate", <2>1, Numbers
       DEF Keeps, NoIndexLeads
  <2>3. StageOf(call'.pc, call'.op) /\ (call'.pc \in FsStages => call'.then = ThenOf(call'.op))
    BY ONLY LegacyNoCodeEffect, Typed, Missed, Running, RateNoCode, call.pc = "rate"
       DEF Typed, CallTypes, Flow, Keeps, StageOf, FsStages, DpiStages, Single, DpiOps, SetOps,
          EnumOps, Ops, NoIndexLeads
  <2>4. call'.info \in Infos \cup {NoInfo}
    BY ONLY LegacyNoCodeEffect, Typed, Missed, Running, RateNoCode, call.pc = "rate"
       DEF Typed, CallTypes, Flow, Keeps, NoIndexLeads
  <2>5. QED BY ONLY <2>2, <2>3, <2>4 DEF Flow
<1>2. hw' \in [Targets -> Settings] /\ off' \subseteq Targets /\ flag' \in BOOLEAN
  BY ONLY LegacyNoCodeEffect, Typed, Running, RateNoCode, call.pc = "rate" DEF Typed
<1>3. QED BY ONLY Typed, Running, RateNoCode, call.pc = "rate", LegacyNoCodeEffect, <1>1, <1>2,
     UnaskedRest, NextTyped

LEMMA ExtendedRateTyped ==
  ASSUME Typed, Missed, Running, NEW o, RateSupported(o), call.pc = "xrate"
  PROVE  Onward
<1>1. Flow'
  <2>1. call.i \in Nat \ {0} /\ call.sub \in Nat /\ call.dl \in Nat /\ call.miss \in 0..Streak
        /\ call.t \in Nat
    BY DEF Typed, CallTypes, Flow
  <2>2. call'.i \in Nat \ {0} /\ call'.sub \in Nat /\ call'.dl \in Nat /\ call'.miss \in 0..Streak
    BY ONLY ExtendedRateEffect, Typed, Missed, Running, RateSupported(o), call.pc = "xrate", <2>1,
       Numbers
       DEF Keeps, NoIndexLeads
  <2>3. StageOf(call'.pc, call'.op) /\ (call'.pc \in FsStages => call'.then = ThenOf(call'.op))
    BY ONLY ExtendedRateEffect, Typed, Missed, Running, RateSupported(o), call.pc = "xrate"
       DEF Typed, CallTypes, Flow, Keeps, StageOf, FsStages, DpiStages, Single, DpiOps, SetOps,
          EnumOps, Ops, NoIndexLeads
  <2>4. call'.info \in Infos \cup {NoInfo}
    BY ONLY ExtendedRateEffect, Typed, Missed, Running, RateSupported(o), call.pc = "xrate"
       DEF Typed, CallTypes, Flow, Keeps, NoIndexLeads
  <2>5. QED BY ONLY <2>2, <2>3, <2>4 DEF Flow
<1>2. hw' \in [Targets -> Settings] /\ off' \subseteq Targets /\ flag' \in BOOLEAN
  BY ONLY ExtendedRateEffect, Typed, Running, RateSupported(o), call.pc = "xrate" DEF Typed
<1>3. QED BY ONLY Typed, Running, RateSupported(o), call.pc = "xrate", ExtendedRateEffect, <1>1, <1>2,
     AskedRest, NextTyped

LEMMA ExtendedNoCodeTyped ==
  ASSUME Typed, Missed, Running, RateNoCode, call.pc = "xrate"
  PROVE  Onward
<1>1. Flow'
  <2>1. call.i \in Nat \ {0} /\ call.sub \in Nat /\ call.dl \in Nat /\ call.miss \in 0..Streak
        /\ call.t \in Nat
    BY DEF Typed, CallTypes, Flow
  <2>2. call'.i \in Nat \ {0} /\ call'.sub \in Nat /\ call'.dl \in Nat /\ call'.miss \in 0..Streak
    BY ONLY ExtendedNoCodeEffect, Typed, Missed, Running, RateNoCode, call.pc = "xrate", <2>1, Numbers
       DEF Keeps, NoIndexLeads
  <2>3. StageOf(call'.pc, call'.op) /\ (call'.pc \in FsStages => call'.then = ThenOf(call'.op))
    BY ONLY ExtendedNoCodeEffect, Typed, Missed, Running, RateNoCode, call.pc = "xrate"
       DEF Typed, CallTypes, Flow, Keeps, StageOf, FsStages, DpiStages, Single, DpiOps, SetOps,
          EnumOps, Ops, NoIndexLeads
  <2>4. call'.info \in Infos \cup {NoInfo}
    BY ONLY ExtendedNoCodeEffect, Typed, Missed, Running, RateNoCode, call.pc = "xrate"
       DEF Typed, CallTypes, Flow, Keeps, NoIndexLeads
  <2>5. QED BY ONLY <2>2, <2>3, <2>4 DEF Flow
<1>2. hw' \in [Targets -> Settings] /\ off' \subseteq Targets /\ flag' \in BOOLEAN
  BY ONLY ExtendedNoCodeEffect, Typed, Running, RateNoCode, call.pc = "xrate" DEF Typed
<1>3. QED BY ONLY Typed, Running, RateNoCode, call.pc = "xrate", ExtendedNoCodeEffect, <1>1, <1>2,
     UnaskedRest, NextTyped

LEMMA DeviceInfoEndsTyped ==
  ASSUME Typed, Missed, Running, NEW o, DeviceInfo(o), call.i > Len(InfoSections)
  PROVE  Onward
<1>1. Flow'
  <2>1. call.i \in Nat \ {0} /\ call.sub \in Nat /\ call.dl \in Nat /\ call.miss \in 0..Streak
        /\ call.t \in Nat
    BY DEF Typed, CallTypes, Flow
  <2>2. call'.i \in Nat \ {0} /\ call'.sub \in Nat /\ call'.dl \in Nat /\ call'.miss \in 0..Streak
    BY ONLY DeviceInfoEnds, Typed, Missed, Running, DeviceInfo(o), call.i > Len(InfoSections), <2>1,
       Numbers
       DEF Keeps
  <2>3. StageOf(call'.pc, call'.op) /\ (call'.pc \in FsStages => call'.then = ThenOf(call'.op))
    BY ONLY DeviceInfoEnds, Typed, Missed, Running, DeviceInfo(o), call.i > Len(InfoSections)
       DEF Typed, CallTypes, Flow, Keeps, StageOf, FsStages, DpiStages, Single, DpiOps, SetOps,
          EnumOps, Ops
  <2>4. call'.info \in Infos \cup {NoInfo}
    BY ONLY DeviceInfoEnds, Typed, Missed, Running, DeviceInfo(o), call.i > Len(InfoSections)
       DEF Typed, CallTypes, Flow, Keeps
  <2>5. QED BY ONLY <2>2, <2>3, <2>4 DEF Flow
<1>2. hw' \in [Targets -> Settings] /\ off' \subseteq Targets /\ flag' \in BOOLEAN
  BY ONLY DeviceInfoEnds, Typed, Running, DeviceInfo(o), call.i > Len(InfoSections) DEF Typed
<1>3. QED BY ONLY Typed, Running, DeviceInfo(o), call.i > Len(InfoSections), DeviceInfoEnds, <1>1,
     <1>2, UnaskedRest, NextTyped

LEMMA DeviceInfoSkipsTyped ==
  ASSUME Typed, Missed, Running, NEW o, DeviceInfo(o), ~(call.i > Len(InfoSections)),
     InfoSections[call.i].f \notin call.found
  PROVE  Onward
<1>1. Flow'
  <2>1. call.i \in Nat \ {0} /\ call.sub \in Nat /\ call.dl \in Nat /\ call.miss \in 0..Streak
        /\ call.t \in Nat
    BY DEF Typed, CallTypes, Flow
  <2>a. call'.i = call.i + 1 /\ call'.sub = 0 /\ call'.miss = 0 /\ call'.dl = call.dl
    BY ONLY DeviceInfoSkips, Typed, Missed, Running, DeviceInfo(o), ~(call.i > Len(InfoSections)),
       InfoSections[call.i].f \notin call.found
       DEF Keeps
  <2>2. call'.i \in Nat \ {0} /\ call'.sub \in Nat /\ call'.dl \in Nat /\ call'.miss \in 0..Streak
    BY ONLY <2>1, <2>a, Numbers
  <2>3. StageOf(call'.pc, call'.op) /\ (call'.pc \in FsStages => call'.then = ThenOf(call'.op))
    BY ONLY DeviceInfoSkips, Typed, Missed, Running, DeviceInfo(o), ~(call.i > Len(InfoSections)),
       InfoSections[call.i].f \notin call.found
       DEF Typed, CallTypes, Flow, Keeps, StageOf, FsStages, DpiStages, Single, DpiOps, SetOps,
          EnumOps, Ops
  <2>4. call'.info \in Infos \cup {NoInfo}
    BY ONLY DeviceInfoSkips, Typed, Missed, Running, DeviceInfo(o), ~(call.i > Len(InfoSections)),
       InfoSections[call.i].f \notin call.found
       DEF Typed, CallTypes, Flow, Keeps
  <2>5. QED BY ONLY <2>2, <2>3, <2>4 DEF Flow
<1>2. hw' \in [Targets -> Settings] /\ off' \subseteq Targets /\ flag' \in BOOLEAN
  BY ONLY DeviceInfoSkips, Typed, Running, DeviceInfo(o), ~(call.i > Len(InfoSections)),
     InfoSections[call.i].f \notin call.found DEF Typed
<1>3. QED BY ONLY Typed, Running, DeviceInfo(o), ~(call.i > Len(InfoSections)),
     InfoSections[call.i].f \notin call.found, DeviceInfoSkips, <1>1, <1>2, UnaskedRest, NextTyped

LEMMA DeviceInfoAsksTyped ==
  ASSUME Typed, Missed, Running, NEW o, DeviceInfo(o), ~(call.i > Len(InfoSections)),
     InfoSections[call.i].f \in call.found
  PROVE  Onward
<1>1. Flow'
  <2>1. call.i \in Nat \ {0} /\ call.sub \in Nat /\ call.dl \in Nat /\ call.miss \in 0..Streak
        /\ call.t \in Nat
    BY DEF Typed, CallTypes, Flow
  <2>p. InfoSections[call.i].tol <= Streak /\ InfoSections[call.i].tol \in Nat
    BY ONLY <2>1, ~(call.i > Len(InfoSections)), InfoTol
  <2>a. (call'.i = call.i \/ call'.i = call.i + 1) /\ (call'.sub = 0 \/ call'.sub = call.sub + 1)
        /\ call'.dl = call.dl /\ (call'.miss = 0 \/ (call'.miss = call.miss + 1
           /\ ~(call.miss + 1 >= InfoSections[call.i].tol)))
    BY ONLY DeviceInfoAsks, Typed, Missed, Running, DeviceInfo(o), ~(call.i > Len(InfoSections)),
       InfoSections[call.i].f \in call.found
       DEF Keeps
  <2>2. call'.i \in Nat \ {0} /\ call'.sub \in Nat /\ call'.dl \in Nat /\ call'.miss \in 0..Streak
    BY ONLY <2>1, <2>a, Numbers, <2>p
  <2>3. StageOf(call'.pc, call'.op) /\ (call'.pc \in FsStages => call'.then = ThenOf(call'.op))
    BY ONLY DeviceInfoAsks, Typed, Missed, Running, DeviceInfo(o), ~(call.i > Len(InfoSections)),
       InfoSections[call.i].f \in call.found
       DEF Typed, CallTypes, Flow, Keeps, StageOf, FsStages, DpiStages, Single, DpiOps, SetOps,
          EnumOps, Ops
  <2>4. call'.info \in Infos \cup {NoInfo}
    BY ONLY DeviceInfoAsks, Typed, Missed, Running, DeviceInfo(o), ~(call.i > Len(InfoSections)),
       InfoSections[call.i].f \in call.found
       DEF Typed, CallTypes, Flow, Keeps
  <2>5. QED BY ONLY <2>2, <2>3, <2>4 DEF Flow
<1>2. hw' \in [Targets -> Settings] /\ off' \subseteq Targets /\ flag' \in BOOLEAN
  BY ONLY DeviceInfoAsks, Typed, Running, DeviceInfo(o), ~(call.i > Len(InfoSections)),
     InfoSections[call.i].f \in call.found DEF Typed
<1>3. QED BY ONLY Typed, Running, DeviceInfo(o), ~(call.i > Len(InfoSections)),
     InfoSections[call.i].f \in call.found, DeviceInfoAsks, <1>1, <1>2, AskedRest, NextTyped

\* What has just been read, and what comes of it with a chunk more.
LEMMA Fresh ==
  ASSUME NEW ext \in BOOLEAN, NEW h \in Settings
  PROVE  [ext |-> ext, x |-> h.x, y |-> h.y, lod |-> h.lod, got |-> {}] \in Infos
<1>1. h.x \in Axes /\ h.y \in Axes /\ h.lod \in 1..3
  BY DEF Settings
<1>2. CASE ext
  <2>1. [ext |-> ext, x |-> h.x, y |-> h.y, lod |-> h.lod, got |-> {}] \in InfosOf("extdpi")
    BY ONLY <1>1, <1>2 DEF InfosOf
  <2>2. QED BY <2>1 DEF Infos
<1>3. CASE ~ext
  <2>1. [ext |-> ext, x |-> h.x, y |-> h.y, lod |-> h.lod, got |-> {}] \in InfosOf("dpi")
    BY ONLY <1>1, <1>3 DEF InfosOf
  <2>2. QED BY <2>1 DEF Infos
<1>4. QED BY <1>2, <1>3

LEMMA InfoIs ==
  ASSUME NEW info \in Infos
  PROVE  /\ info = [ext |-> info.ext, x |-> info.x, y |-> info.y, lod |-> info.lod, got |-> info.got]
         /\ info.ext \in BOOLEAN /\ info.x \in Axes /\ info.y \in Axes /\ info.lod \in 1..3
         /\ info.got \subseteq DOMAIN ListChunks[ListOf(info)]
         /\ ListOf(info) \in DpiFeatures
<1>1. CASE info \in InfosOf("extdpi")
  <2>1. info.ext = TRUE BY ONLY <1>1 DEF InfosOf
  <2>2. ListOf(info) = "extdpi" BY ONLY <2>1 DEF ListOf
  <2>3. QED BY ONLY <1>1, <2>1, <2>2 DEF InfosOf, DpiFeatures
<1>2. CASE info \in InfosOf("dpi")
  <2>1. info.ext = FALSE BY ONLY <1>2 DEF InfosOf
  <2>2. ListOf(info) = "dpi" BY ONLY <2>1 DEF ListOf
  <2>3. QED BY ONLY <1>2, <2>1, <2>2 DEF InfosOf, DpiFeatures
<1>3. QED BY <1>1, <1>2 DEF Infos

LEMMA OneMore ==
  ASSUME NEW info \in Infos, NEW n, n \in DOMAIN ListChunks[ListOf(info)]
  PROVE  [info EXCEPT !.got = @ \cup {n}] \in Infos
<1> DEFINE more == info.got \cup {n}
           d == [ext |-> info.ext, x |-> info.x, y |-> info.y, lod |-> info.lod, got |-> more]
<1>1. [info EXCEPT !.got = @ \cup {n}] = d
  BY ONLY InfoIs, info \in Infos
<1>2. more \subseteq DOMAIN ListChunks[ListOf(info)]
  BY ONLY InfoIs, info \in Infos, n \in DOMAIN ListChunks[ListOf(info)]
<1>3. /\ info.ext \in BOOLEAN /\ info.x \in Axes /\ info.y \in Axes /\ info.lod \in 1..3
  BY ONLY InfoIs, info \in Infos
<1> HIDE DEF more
<1>4. CASE info.ext
  <2>1. more \subseteq DOMAIN ListChunks["extdpi"] BY ONLY <1>2, <1>4 DEF ListOf
  <2>2. d \in InfosOf("extdpi") BY ONLY <1>3, <1>4, <2>1 DEF InfosOf
  <2>3. QED BY <1>1, <2>2 DEF Infos
<1>5. CASE ~info.ext
  <2>1. more \subseteq DOMAIN ListChunks["dpi"] BY ONLY <1>2, <1>5 DEF ListOf
  <2>2. d \in InfosOf("dpi") BY ONLY <1>3, <1>5, <2>1 DEF InfosOf
  <2>3. QED BY <1>1, <2>2 DEF Infos
<1>6. QED BY <1>4, <1>5

\* What is decoded of a list without a gap is listed.
LEMMA ReadIsListed ==
  ASSUME NEW info \in Infos, Gapless(info.got)
  PROVE  LevelsRead[ListOf(info)][info.got] \subseteq Levels
  BY ONLY InfoIs, info \in Infos, Gapless(info.got), ListAssumption DEF ListAssumption

LEMMA DpiCurrentTyped ==
  ASSUME Typed, Running, NEW o, DpiCurrent(o)
  PROVE  Onward
<1>1. Tgt \in Targets /\ hw[Tgt] \in Settings
  BY DEF Tgt, Typed, CallTypes
<1>2. Flow'
  <2>1. call.i \in Nat \ {0} /\ call.sub \in Nat /\ call.dl \in Nat /\ call.miss \in 0..Streak
        /\ call.t \in Nat
        /\ call.info \in Infos \cup {NoInfo}
    BY DEF Typed, CallTypes, Flow
  <2>2. CASE o = "ok"
    <3>1. /\ call'.i = 1 /\ call'.miss = 0 /\ call'.sub = call.sub
             /\ call'.dl = call.t + Budget + Cost(o)
          /\ call'.info = [ext |-> call.pc = "current", x |-> hw[Tgt].x, y |-> hw[Tgt].y,
             lod |-> hw[Tgt].lod, got |-> {}]
          /\ call'.pc = "list" /\ call'.op = call.op /\ call.op \in DpiOps
      BY <2>2, DpiCurrentEffect DEF Keeps, Typed, CallTypes, Flow, StageOf, FsStages, DpiStages, Single
    <3>2. call'.info \in Infos
      BY ONLY <1>1, <3>1, Fresh
    <3>3. call'.i \in Nat \ {0} /\ call'.sub \in Nat /\ call'.dl \in Nat /\ call'.miss \in 0..Streak
      BY ONLY <2>1, <3>1, Numbers DEF Cost
    <3>4. QED BY ONLY <3>1, <3>2, <3>3 DEF Flow, StageOf, FsStages, DpiStages
  <2>3. CASE o # "ok"
    <3>1. /\ call'.i = call.i /\ call'.miss = call.miss /\ call'.sub = call.sub /\ call'.dl = call.dl
          /\ call'.info \in {NoInfo, call.info}
          /\ call'.pc \in {"legacy", "dpi_done"} /\ call'.op = call.op /\ call.op \in DpiOps
      <4>4. call.op \in DpiOps
        BY DpiCurrentEffect DEF Typed, CallTypes, Flow, StageOf, FsStages, DpiStages, Single
      <4>1. call'.i = call.i /\ call'.miss = call.miss /\ call'.dl = call.dl
        BY <2>3, DpiCurrentEffect
      <4>2. call'.op = call.op /\ call'.sub = call.sub
        BY DpiCurrentEffect DEF Keeps
      <4>5. call.pc = "current" => call'.pc = "legacy" /\ call'.info = call.info
        BY <2>3, DpiCurrentEffect
      <4>6. call.pc = "legacy" => call'.pc = "dpi_done" /\ call'.info = NoInfo
        BY <2>3, DpiCurrentEffect
      <4>7. call.pc \in {"current", "legacy"}
        BY DpiCurrentEffect
      <4>3. QED BY ONLY <4>1, <4>2, <4>4, <4>5, <4>6, <4>7
    <3>2. QED BY ONLY <2>1, <3>1 DEF Flow, StageOf, FsStages, DpiStages
  <2>4. QED BY <2>2, <2>3
<1>3. hw' \in [Targets -> Settings] /\ off' \subseteq Targets /\ flag' \in BOOLEAN
  BY ONLY DpiCurrentEffect, Typed, Running, DpiCurrent(o) DEF Typed
<1>4. QED BY ONLY Typed, Running, DpiCurrent(o), DpiCurrentEffect, <1>2, <1>3, AskedRest, NextTyped

LEMMA DpiListAsksTyped ==
  ASSUME Typed, Missed, Running, NEW o, DpiList(o), ~Over(ChunkMax), call.info \in Infos
  PROVE  Onward /\ call'.info \in Infos
<1>1. Flow' /\ call'.info \in Infos
  <2>1. call.i \in Nat \ {0} /\ call.sub \in Nat /\ call.dl \in Nat /\ call.miss \in 0..Streak
        /\ call.t \in Nat
    BY DEF Typed, CallTypes, Flow
  <2>2. call.pc = "list"
    BY DpiListAsks
  <2>3. call.miss # Streak
    BY ONLY <2>1, <2>2, Missed, Running, Numbers, ~Over(ChunkMax) DEF Missed, Over
  <2>4. /\ (call'.i = call.i + 1 \/ call'.i = ChunkMax + 1) /\ (call'.miss = 0
           \/ call'.miss = call.miss + 1)
        /\ call'.sub = call.sub /\ call'.dl = call.dl
    <3>1. Counted(o = "ok", [call' EXCEPT !.pc = "list"]) /\ call' = [k \in Fields |-> call'[k]]
          /\ call'.sub = call.sub /\ call'.dl = call.dl
      BY DpiListAsks DEF Keeps
    <3>2. [call' EXCEPT !.pc = "list"].i = call'.i /\ [call' EXCEPT !.pc = "list"].miss = call'.miss
      BY ONLY <3>1 DEF Fields
    <3>3. QED BY ONLY <3>1, <3>2 DEF Counted
  <2>5. call'.i \in Nat \ {0} /\ call'.sub \in Nat /\ call'.dl \in Nat /\ call'.miss \in 0..Streak
    BY ONLY <2>1, <2>3, <2>4, Numbers
  <2>6. call'.info \in Infos
    <3>1. o = "ok" => call.i \in DOMAIN ListChunks[ListOf(call.info)]
      BY DpiListAsks DEF Asked
    <3>2. call'.info = IF o = "ok" THEN [call.info EXCEPT !.got = @ \cup {call.i}] ELSE call.info
      BY DpiListAsks
    <3>3. QED BY ONLY <3>1, <3>2, call.info \in Infos, OneMore
  <2>7. StageOf(call'.pc, call'.op) /\ call'.pc \notin FsStages
    BY DpiListAsks DEF Typed, CallTypes, Flow, Keeps, StageOf, FsStages, DpiStages, Single
  <2>8. QED BY ONLY <2>5, <2>6, <2>7 DEF Flow
<1>2. hw' \in [Targets -> Settings] /\ off' \subseteq Targets /\ flag' \in BOOLEAN
  BY ONLY DpiListAsks, Typed, Running, DpiList(o), ~Over(ChunkMax) DEF Typed
<1>3. QED BY ONLY Typed, Running, DpiList(o), ~Over(ChunkMax), DpiListAsks, <1>1, <1>2, AskedRest,
     NextTyped

Set3(h, a, b, l) == [h EXCEPT !.x = a, !.y = b, !.lod = l]
SetTo(g, h, a, b, l) == g.x = a /\ g.y = b /\ g.lod = l /\ g.mode = h.mode /\ g.rate = h.rate

LEMMA SettingsExcept ==
  ASSUME NEW h \in Settings, NEW a \in Axes, NEW b \in Axes, NEW l \in 1..3
  PROVE  Set3(h, a, b, l) \in Settings /\ SetTo(Set3(h, a, b, l), h, a, b, l)
<1> DEFINE g == [h EXCEPT !.x = a]
           f == [g EXCEPT !.y = b]
<1>1. g \in Settings
  BY DEF Settings
<1> HIDE DEF g
<1>2. f \in Settings
  BY <1>1 DEF Settings
<1> HIDE DEF f
<1>3. [f EXCEPT !.lod = l] \in Settings
  BY <1>2 DEF Settings
<1>4. [h EXCEPT !.x = a, !.y = b, !.lod = l] \in Settings
  BY <1>3 DEF f, g
<1>5. /\ [h EXCEPT !.x = a, !.y = b, !.lod = l].x = a
      /\ [h EXCEPT !.x = a, !.y = b, !.lod = l].y = b
      /\ [h EXCEPT !.x = a, !.y = b, !.lod = l].lod = l
      /\ [h EXCEPT !.x = a, !.y = b, !.lod = l].mode = h.mode
      /\ [h EXCEPT !.x = a, !.y = b, !.lod = l].rate = h.rate
  BY DEF Settings
<1>6. QED BY ONLY <1>4, <1>5 DEF Set3, SetTo

\* What the write leaves of the settings, as long as the stage before has
\* looked at the value.
LEMMA NewDpiEffect ==
  ASSUME Typed, Running, WriteReady, call.pc = "write", NEW h \in Settings
  PROVE  /\ NewDpi(h) \in Settings
         /\ NewDpi(h).mode = h.mode /\ NewDpi(h).rate = h.rate
         /\ call.op = "set_dpi" => NewDpi(h).x = call.val /\ NewDpi(h).y = call.val
                                   /\ NewDpi(h).lod \in {h.lod, call.info.lod}
         /\ call.op = "set_lod" => NewDpi(h).x = call.info.x /\ NewDpi(h).y = call.info.y
                                   /\ NewDpi(h).lod = call.val
<1>1. call.op \in {"set_dpi", "set_lod"} /\ call.info \in Infos
  BY DEF Typed, CallTypes, Flow, StageOf, FsStages, DpiStages, Single, WriteReady
<1>2. CASE call.op = "set_dpi"
  <2>1. call.val \in Axes
    BY DEF Typed, CallTypes, Axes
  <2>i. call.info.lod \in 1..3
    BY ONLY <1>1, InfoIs
  <2>2. Clamp(call.info.lod) = call.info.lod /\ call.info.lod \in 1..3
    BY ONLY <2>i DEF Clamp
  <2>3. PICK l \in {h.lod, call.info.lod} : NewDpi(h) = Set3(h, call.val, call.val, l)
    BY <1>2, <2>2 DEF NewDpi, Set3
  <2>4. l \in 1..3
    BY <2>2, <2>3 DEF Settings
  <2>5. NewDpi(h) \in Settings /\ SetTo(NewDpi(h), h, call.val, call.val, l)
    BY <2>1, <2>3, <2>4, SettingsExcept
  <2>6. QED BY ONLY <1>2, <2>3, <2>5 DEF SetTo
<1>3. CASE call.op = "set_lod"
  <2>1. call.val \in 1..3 /\ call.info.x \in Axes /\ call.info.y \in Axes
    BY <1>1, <1>3, InfoIs DEF WriteReady
  <2>2. NewDpi(h) = Set3(h, call.info.x, call.info.y, call.val)
    BY <1>3 DEF NewDpi, Set3
  <2>3. NewDpi(h) \in Settings /\ SetTo(NewDpi(h), h, call.info.x, call.info.y, call.val)
    BY <2>1, <2>2, SettingsExcept
  <2>4. QED BY ONLY <1>3, <2>3 DEF SetTo
<1>4. QED BY <1>1, <1>2, <1>3

LEMMA DpiWriteTyped ==
  ASSUME Typed, Running, WriteReady, NEW o, DpiWrite(o)
  PROVE  Onward
<1>1. Tgt \in Targets /\ hw[Tgt] \in Settings /\ hw \in [Targets -> Settings]
  BY DEF Tgt, Typed, CallTypes
<1>2. call.pc = "write" /\ hw' = IF Executed(o) THEN [hw EXCEPT ![Tgt] = NewDpi(hw[Tgt])] ELSE hw
  BY DpiWriteEffect
<1>3. NewDpi(hw[Tgt]) \in Settings
  BY <1>1, <1>2, NewDpiEffect
<1>4. hw' \in [Targets -> Settings]
  BY ONLY <1>1, <1>2, <1>3
<1>5. off' \subseteq Targets /\ flag' \in BOOLEAN
  BY DpiWriteEffect DEF Typed
<1>6. Flow'
  BY DpiWriteEffect DEF Typed, CallTypes, Flow, Keeps, StageOf, FsStages, DpiStages, Single, Ops
<1>7. QED BY ONLY Typed, Running, DpiWrite(o), DpiWriteEffect, <1>4, <1>5, <1>6, AskedRest, NextTyped

\* Every step of a call but Sweep and Return.
Step(o) ==
  \/ Stage(o) \/ FeaturesDone \/ FeaturesKnown \/ RestoreUnneeded \/ DpiDone \/ RateNoCode \/ Identified

\* Every step of a call keeps it well formed and leaves its target alone.
LEMMA StepTyped ==
  ASSUME Typed, Missed, WriteReady, Running, NEW o, Step(o)
  PROVE  Onward
<1>1. CASE FeatureEach(o)
  BY <1>1, FeatureEachOverTyped, FeatureEachAsksTyped
<1>2. CASE get_battery_status(o)
  BY <1>2, BatteryNoneTyped, BatterySkipsTyped, BatteryAsksTyped
<1>3. CASE get_pairing_info(o)
  BY <1>3, PairingOverTyped, PairingAsksTyped
<1>p. CASE PairingCount(o)
  BY <1>p, PairingCountTyped
<1>4. CASE DpiList(o)
  BY <1>4, DpiListOverTyped, DpiListAsksTyped DEF WriteReady, DpiList, At
<1>5. CASE DeviceInfo(o)
  BY <1>5, DeviceInfoEndsTyped, DeviceInfoSkipsTyped, DeviceInfoAsksTyped
<1>6. CASE RateSupported(o)
  <2>1. call.pc = "rate" \/ call.pc = "xrate"
    BY <1>6 DEF RateSupported, With, At
  <2>2. QED BY <1>6, <2>1, LegacyRateTyped, ExtendedRateTyped
<1>7. CASE RateNoCode
  <2>1. call.pc = "rate" \/ call.pc = "xrate"
    BY <1>7 DEF RateNoCode, At
  <2>2. QED BY <1>7, <2>1, LegacyNoCodeTyped, ExtendedNoCodeTyped
<1>8. CASE resolve_feature_index(o) \/ FeatureRoot(o) \/ PairingDetail(o) \/ ReadMode(o)
           \/ disable_onboard_profiles_for_write(o) \/ restore_onboard_profiles(o) \/ DpiCaps(o)
  BY <1>8, ResolveTyped, FeatureRootTyped, PairingDetailTyped, ReadModeTyped, DisableTyped,
     RestoreTyped, DpiCapsTyped
<1>9. CASE DpiCurrent(o) \/ DpiWrite(o) \/ RateWrite(o) \/ SectorWrite(o) \/ ReadChain(o) \/ Ping(o)
  BY <1>9, DpiCurrentTyped, DpiWriteTyped, RateWriteTyped, SectorWriteTyped, ReadChainTyped, PingTyped
<1>10. CASE FeaturesDone \/ FeaturesKnown \/ RestoreUnneeded \/ DpiDone \/ Identified
  BY <1>10, FeaturesDoneTyped, FeaturesKnownTyped, RestoreUnneededTyped, DpiDoneTyped, IdentifiedTyped
<1>11. QED BY <1>1, <1>2, <1>3, <1>p, <1>4, <1>5, <1>6, <1>7, <1>8, <1>9, <1>10 DEF Step, Stage

\* A run of misses: at its Streak-th the enumeration is over.
LEMMA MissedNext ==
  ASSUME Typed, Missed, WriteReady, Running, NEW o, Step(o)
  PROVE  Missed'
<1>0. Onward /\ call.miss \in 0..Streak /\ call.i \in Nat \ {0} /\ Running'
  BY StepTyped, Numbers DEF Onward, Typed, CallTypes, Flow
<1>1. CASE resolve_feature_index(o)
  BY ONLY Typed, Running, <1>1, ResolveEffect, <1>0, Missed
     DEF Missed, Keeps, Need, NoIndexLeads
<1>2. CASE FeatureRoot(o)
  <2>1. call'.pc \notin {"fs_each", "pairing", "list", "pair_name", "pair_serial"}
        \/ (call'.pc = "fs_each" /\ call'.miss = 0)
    BY ONLY Typed, Running, <1>2, FeatureRootEffect, Missed, <1>0
  <2>2. QED BY ONLY <2>1, Numbers DEF Missed
<1>3. CASE FeatureEach(o)
  <2>1. CASE Over(Len(FeatureAt[Tgt]))
    BY ONLY Typed, Running, <1>3, <2>1, FeatureEachOver, <1>0, Missed
       DEF Missed, Keeps
  <2>2. CASE ~Over(Len(FeatureAt[Tgt]))
    <3>1. /\ call'.pc = "fs_each"
          /\ \/ call'.miss = 0
             \/ call'.miss = call.miss + 1 /\ call'.i = ChunkMax + 1
             \/ call'.miss = call.miss + 1 /\ ~(call.miss + 1 >= Streak)
      BY ONLY Typed, Running, <1>3, <2>2, FeatureEachAsks DEF Counted, Fields
    <3>2. call'.miss = Streak => call'.i > ChunkMax
      BY ONLY <3>1, <1>0, Numbers
    <3>3. QED BY ONLY <3>1, <3>2 DEF Missed
  <2>3. QED BY <2>1, <2>2
<1>4. CASE get_battery_status(o)
  <2>1. CASE call.i > Len(Sources)
    BY ONLY Typed, Running, <1>4, <2>1, BatteryNone, <1>0, Missed
       DEF Missed, Keeps
  <2>2. CASE ~(call.i > Len(Sources)) /\ call.i <= Len(BatteryOrder)
             /\ Sources[call.i] \notin call.found
    BY ONLY Typed, Running, <1>4, <2>2, BatterySkips, <1>0, Missed
       DEF Missed, Keeps
  <2>3. CASE ~(call.i > Len(Sources)) /\ ~(call.i <= Len(BatteryOrder)
             /\ Sources[call.i] \notin call.found)
    BY ONLY Typed, Running, <1>4, <2>3, BatteryAsks, <1>0, Missed
       DEF Missed, Keeps
  <2>4. QED BY <2>1, <2>2, <2>3
<1>5. CASE get_pairing_info(o)
  <2>1. CASE Over(call.sub)
    BY ONLY Typed, Running, <1>5, <2>1, PairingOver, <1>0, Missed
       DEF Missed, Keeps
  <2>2. CASE ~Over(call.sub)
    <3>1. /\ call'.pc \in {"pairing", "pair_name"} /\ (call'.pc = "pair_name" => call'.miss = 0)
          /\ \/ call'.miss = 0
             \/ call'.miss = call.miss + 1 /\ call'.i = ChunkMax + 1
             \/ call'.miss = call.miss + 1 /\ ~(call.miss + 1 >= Streak)
      BY ONLY Typed, Running, <1>5, <2>2, PairingAsks DEF Keeps, Counted, Fields
    <3>2. call'.miss = Streak => call'.i > ChunkMax
      BY ONLY <3>1, <1>0, Numbers
    <3>4. call'.sub = call.sub /\ call.sub <= ChunkMax
      BY ONLY Typed, Running, <1>5, <2>2, PairingAsks, Missed DEF Keeps, Missed
    <3>3. QED BY ONLY <3>1, <3>2, <3>4 DEF Missed
  <2>3. QED BY <2>1, <2>2
<1>6. CASE PairingDetail(o)
  <2>1. call'.pc \in {"pairing", "pair_serial"} /\ call'.miss = 0 /\ call'.sub <= ChunkMax
    BY ONLY Typed, Running, <1>6, PairingDetailEffect, Missed, <1>0 DEF Missed, Keeps
  <2>2. QED BY ONLY <2>1, Numbers DEF Missed
<1>7. CASE ReadMode(o)
  BY ONLY Typed, Running, <1>7, ReadModeEffect, <1>0, Missed
     DEF Missed, Keeps
<1>8. CASE disable_onboard_profiles_for_write(o)
  BY ONLY Typed, Running, <1>8, DisableEffect, <1>0, Missed
     DEF Missed, Keeps
<1>9. CASE restore_onboard_profiles(o)
  BY ONLY Typed, Running, <1>9, RestoreEffect, <1>0, Missed
     DEF Missed, Keeps
<1>10. CASE DpiCaps(o)
  BY ONLY Typed, Running, <1>10, DpiCapsEffect, <1>0, Missed
     DEF Missed, Keeps
<1>11. CASE DpiCurrent(o)
  <2>1. call'.pc \notin {"fs_each", "pairing", "list", "pair_name", "pair_serial"}
        \/ (call'.pc = "list" /\ call'.miss = 0)
    BY ONLY Typed, Running, <1>11, DpiCurrentEffect, Missed, <1>0
  <2>2. QED BY ONLY <2>1, Numbers DEF Missed
<1>12. CASE DpiList(o)
  <2>1. CASE Over(ChunkMax)
    BY ONLY Typed, Running, <1>12, <2>1, DpiListOver, <1>0, Missed
       DEF Missed, Keeps
  <2>2. CASE ~Over(ChunkMax)
    <3>4. Counted(o = "ok", [call' EXCEPT !.pc = "list"]) /\ call' = [k \in Fields |-> call'[k]]
          /\ call'.pc \in {"list", "dpi_done"}
      BY ONLY Typed, Running, <1>12, <2>2, DpiListAsks DEF Keeps
    <3>5. [call' EXCEPT !.pc = "list"].i = call'.i /\ [call' EXCEPT !.pc = "list"].miss = call'.miss
      BY ONLY <3>4 DEF Fields
    <3>1. /\ call'.pc \in {"list", "dpi_done"}
          /\ \/ call'.miss = 0
             \/ call'.miss = call.miss + 1 /\ call'.i = ChunkMax + 1
             \/ call'.miss = call.miss + 1 /\ ~(call.miss + 1 >= Streak)
      BY ONLY <3>4, <3>5 DEF Counted
    <3>2. call'.miss = Streak => call'.i > ChunkMax
      BY ONLY <3>1, <1>0, Numbers
    <3>3. QED BY ONLY <3>1, <3>2 DEF Missed
  <2>3. QED BY <2>1, <2>2
<1>13. CASE DpiWrite(o)
  BY ONLY Typed, Running, <1>13, DpiWriteEffect, <1>0, Missed
     DEF Missed, Keeps
<1>14. CASE RateSupported(o)
  <2>1. CASE call.pc = "rate"
    BY ONLY Typed, Running, <1>14, <2>1, LegacyRateEffect, <1>0, Missed
       DEF Missed, Keeps, NoIndexLeads
  <2>2. CASE call.pc = "xrate"
    BY ONLY Typed, Running, <1>14, <2>2, ExtendedRateEffect, <1>0, Missed
       DEF Missed, Keeps, NoIndexLeads
  <2>3. QED BY <1>14, <2>1, <2>2 DEF RateSupported, With, At
<1>15. CASE RateWrite(o)
  BY ONLY Typed, Running, <1>15, RateWriteEffect, <1>0, Missed
     DEF Missed, Keeps
<1>16. CASE SectorWrite(o)
  BY ONLY Typed, Running, <1>16, SectorWriteEffect, <1>0, Missed
     DEF Missed, Keeps
<1>17. CASE ReadChain(o)
  BY ONLY Typed, Running, <1>17, ReadChainEffect, <1>0, Missed
     DEF Missed, Keeps, Chain, NoIndexLeads
<1>18. CASE DeviceInfo(o)
  <2>1. CASE call.i > Len(InfoSections)
    BY ONLY Typed, Running, <1>18, <2>1, DeviceInfoEnds, <1>0, Missed
       DEF Missed, Keeps
  <2>2. CASE ~(call.i > Len(InfoSections)) /\ InfoSections[call.i].f \notin call.found
    BY ONLY Typed, Running, <1>18, <2>2, DeviceInfoSkips, <1>0, Missed
       DEF Missed, Keeps
  <2>3. CASE ~(call.i > Len(InfoSections)) /\ InfoSections[call.i].f \in call.found
    BY ONLY Typed, Running, <1>18, <2>3, DeviceInfoAsks, <1>0, Missed
       DEF Missed, Keeps
  <2>4. QED BY <2>1, <2>2, <2>3
<1>19. CASE Ping(o)
  BY ONLY Typed, Running, <1>19, PingEffect, <1>0, Missed
     DEF Missed, Keeps
<1>20. CASE FeaturesDone
  BY ONLY Typed, Running, <1>20, FeaturesDoneEffect, <1>0, Missed
     DEF Missed, Keeps, Typed, CallTypes, Flow, ThenOf, FsStages
<1>21. CASE FeaturesKnown
  BY ONLY Typed, Running, <1>21, FeaturesKnownEffect, <1>0, Missed
     DEF Missed, Keeps, Typed, CallTypes, Flow, ThenOf, FsStages
<1>22. CASE RestoreUnneeded
  BY ONLY Typed, Running, <1>22, RestoreUnneededEffect, <1>0, Missed
     DEF Missed, Keeps
<1>23. CASE DpiDone
  <2>1. call'.pc \notin {"fs_each", "pairing", "list", "pair_name", "pair_serial"}
    BY ONLY Typed, Running, <1>23, DpiDoneEffect, Missed, <1>0 DEF DpiOps
  <2>2. QED BY ONLY <2>1, Numbers DEF Missed
<1>24. CASE RateNoCode
  <2>1. CASE call.pc = "rate"
    BY ONLY Typed, Running, <1>24, <2>1, LegacyNoCodeEffect, <1>0, Missed
       DEF Missed, Keeps, NoIndexLeads
  <2>2. CASE call.pc = "xrate"
    BY ONLY Typed, Running, <1>24, <2>2, ExtendedNoCodeEffect, <1>0, Missed
       DEF Missed, Keeps, NoIndexLeads
  <2>3. QED BY <1>24, <2>1, <2>2 DEF RateNoCode, At
<1>25. CASE Identified
  BY ONLY Typed, Running, <1>25, IdentifiedEffect, <1>0, Missed
     DEF Missed, Keeps
<1>p. CASE PairingCount(o)
  <2>1. call'.pc = "ret" \/ (call'.pc = "pairing" /\ call'.miss = 0 /\ call'.sub <= ChunkMax)
    BY ONLY Typed, Running, <1>p, PairingCountEffect, FewSlots, Numbers DEF Typed
  <2>2. QED BY ONLY <2>1, Numbers DEF Missed
<1>26. QED
  BY <1>1, <1>2, <1>3, <1>4, <1>5, <1>6, <1>7, <1>8, <1>9, <1>10, <1>11, <1>12, <1>13, <1>14, <1>15,
     <1>16, <1>17, <1>18, <1>19, <1>20, <1>21, <1>22, <1>23, <1>24, <1>25, <1>p
  DEF Step, Stage

-----------------------------------------------------------------------------
(* The caches and the profiles *)

\* What the steps leave alone.
LEMMA StepLeaves ==
  ASSUME NEW o, Step(o)
  PROVE  /\ disable_onboard_profiles_for_write(o) \/ restore_onboard_profiles(o)
            \/ UNCHANGED <<flag, off>>
         /\ disable_onboard_profiles_for_write(o) \/ restore_onboard_profiles(o) \/ DpiWrite(o)
            \/ RateWrite(o)
            \/ hw' = hw
         /\ idx \subseteq idx'
         /\ FeaturesDone \/ fset' = fset
<1>1. CASE resolve_feature_index(o) BY <1>1 DEF resolve_feature_index, caches
<1>2. CASE FeatureRoot(o) BY <1>2 DEF FeatureRoot, caches
<1>3. CASE FeatureEach(o) BY <1>3 DEF FeatureEach, caches, Skips
<1>4. CASE get_battery_status(o) BY <1>4 DEF get_battery_status, caches
<1>5. CASE get_pairing_info(o) BY <1>5 DEF get_pairing_info, caches
<1>6. CASE PairingDetail(o) BY <1>6 DEF PairingDetail, caches
<1>7. CASE ReadMode(o) BY <1>7 DEF ReadMode, caches
<1>8. CASE disable_onboard_profiles_for_write(o) BY <1>8 DEF disable_onboard_profiles_for_write, caches
<1>9. CASE restore_onboard_profiles(o) BY <1>9 DEF restore_onboard_profiles, caches
<1>10. CASE DpiCaps(o) BY <1>10 DEF DpiCaps, caches
<1>11. CASE DpiCurrent(o) BY <1>11 DEF DpiCurrent, caches
<1>12. CASE DpiList(o) BY <1>12 DEF DpiList, caches
<1>13. CASE DpiWrite(o) BY <1>13 DEF DpiWrite, caches
<1>14. CASE RateSupported(o) BY <1>14 DEF RateSupported, caches
<1>15. CASE RateWrite(o) BY <1>15 DEF RateWrite, caches
<1>16. CASE SectorWrite(o) BY <1>16 DEF SectorWrite, caches
<1>17. CASE ReadChain(o) BY <1>17 DEF ReadChain, caches
<1>18. CASE DeviceInfo(o) BY <1>18 DEF DeviceInfo, caches
<1>19. CASE Ping(o) BY <1>19 DEF Ping, caches
<1>20. CASE FeaturesDone BY <1>20 DEF FeaturesDone, caches
<1>21. CASE FeaturesKnown BY <1>21 DEF FeaturesKnown, caches
<1>22. CASE RestoreUnneeded BY <1>22 DEF RestoreUnneeded, caches
<1>23. CASE DpiDone BY <1>23 DEF DpiDone, caches
<1>24. CASE RateNoCode BY <1>24 DEF RateNoCode, caches
<1>25. CASE Identified BY <1>25 DEF Identified, caches
<1>p. CASE PairingCount(o) BY <1>p DEF PairingCount, caches
<1>26. QED
  BY <1>1, <1>2, <1>3, <1>4, <1>5, <1>6, <1>7, <1>8, <1>9, <1>10, <1>11, <1>12, <1>13, <1>14, <1>15,
     <1>16, <1>17, <1>18, <1>19, <1>20, <1>21, <1>22, <1>23, <1>24, <1>25, <1>p
  DEF Step, Stage

\* A feature that was found is filed under its target; nothing else changes.
LEMMA CacheGrows ==
  ASSUME CacheIsTrue, FeatureAt' = FeatureAt, fset' = fset, NEW f, f \in Features(Tgt),
         idx' = idx \cup {<<Tgt, f>>}
  PROVE  CacheIsTrue'
  BY DEF CacheIsTrue, Features

LEMMA CacheStays ==
  ASSUME CacheIsTrue, FeatureAt' = FeatureAt, fset' = fset, idx' = idx
  PROVE  CacheIsTrue'
  BY DEF CacheIsTrue, Features

LEMMA RangeOf ==
  ASSUME NEW s, NEW i \in 1..Len(s), s \in Seq(Range(s))
  PROVE  s[i] \in Range(s)
  BY DEF Range

\* What the caches say stays true, and so does what an enumeration has found.
LEMMA CachedNext ==
  ASSUME Typed, Missed, WriteReady, Cached, Running, NEW o, Step(o)
  PROVE  Cached'
<1>0. Tgt' = Tgt /\ Tgt \in Targets /\ FeatureAt' = FeatureAt /\ call'.op = call.op /\ Running'
  BY StepTyped DEF Onward
<1>1. CASE resolve_feature_index(o)
  <2>1. CacheIsTrue'
    <3>1. fset' = fset /\ (idx' = idx \/ (idx' = idx \cup {<<Tgt, Need[call.pc]>>}
          /\ Need[call.pc] \in Features(Tgt)))
      BY ONLY Typed, Running, <1>1, ResolveEffect DEF Asked
    <3>2. QED BY ONLY <1>0, <3>1, Cached, CacheGrows, CacheStays DEF Cached
  <2>2. off' = off /\ call'.pc # "disable"
        /\ call'.pc \notin {"fs_each", "fs_done", "battery", "identified", "info"}
    BY ONLY Typed, Running, <1>1, ResolveEffect DEF Need, NoIndexLeads
  <2>3. QED BY ONLY <1>0, <2>1, <2>2, Cached DEF Cached, Features
<1>2. CASE FeatureRoot(o)
  BY ONLY Typed, Running, <1>2, FeatureRootEffect, <1>0, Cached
     DEF Cached, CacheIsTrue, Features, Keeps, Asked
<1>3. CASE FeatureEach(o)
  <2>1. CASE Over(Len(FeatureAt[Tgt]))
    BY ONLY Typed, Running, <1>3, <2>1, FeatureEachOver, <1>0, Cached
       DEF Cached, CacheIsTrue, Features, Keeps, Asked
  <2>2. CASE ~Over(Len(FeatureAt[Tgt]))
    <3>1. /\ Asked(TRUE, o) /\ UNCHANGED <<hw, fset, flag, off>> /\ call'.pc = "fs_each"
             /\ call.pc = "fs_each"
          /\ idx' = IF o = "ok" THEN idx \cup {<<Tgt, FeatureAt[Tgt][call.i]>>} ELSE idx
          /\ call'.found = IF o = "ok" THEN call.found \cup {FeatureAt[Tgt][call.i]} ELSE call.found
      BY ONLY Typed, Running, <1>3, <2>2, FeatureEachAsks DEF Counted
    <3>2. FeatureAt[Tgt][call.i] \in Features(Tgt)
      <4>1. call.i \in Nat \ {0}
        BY DEF Typed, CallTypes, Flow
      <4>2. call.i \in 1..Len(FeatureAt[Tgt])
        BY ONLY <4>1, <2>2, FewFeatures, Typed, Running DEF Over
      <4>3. QED BY <4>2, FewFeatures, RangeOf DEF Features
    <3>3. CacheIsTrue'
      BY ONLY <1>0, <3>1, <3>2, Cached, CacheGrows, CacheStays DEF Cached
    <3>4. QED BY ONLY <1>0, <3>1, <3>2, <3>3, Cached, Running DEF Cached, Features
  <2>3. QED BY <2>1, <2>2
<1>4. CASE get_battery_status(o)
  <2>1. CASE call.i > Len(Sources)
    BY ONLY Typed, Running, <1>4, <2>1, BatteryNone, <1>0, Cached
       DEF Cached, CacheIsTrue, Features, Keeps, Asked
  <2>2. CASE ~(call.i > Len(Sources)) /\ call.i <= Len(BatteryOrder)
             /\ Sources[call.i] \notin call.found
    BY ONLY Typed, Running, <1>4, <2>2, BatterySkips, <1>0, Cached
       DEF Cached, CacheIsTrue, Features, Keeps, Asked
  <2>3. CASE ~(call.i > Len(Sources)) /\ ~(call.i <= Len(BatteryOrder)
             /\ Sources[call.i] \notin call.found)
    BY ONLY Typed, Running, <1>4, <2>3, BatteryAsks, <1>0, Cached
       DEF Cached, CacheIsTrue, Features, Keeps, Asked
  <2>4. QED BY <2>1, <2>2, <2>3
<1>5. CASE get_pairing_info(o)
  <2>1. CASE Over(call.sub)
    BY ONLY Typed, Running, <1>5, <2>1, PairingOver, <1>0, Cached
       DEF Cached, CacheIsTrue, Features, Keeps, Asked
  <2>2. CASE ~Over(call.sub)
    BY ONLY Typed, Running, <1>5, <2>2, PairingAsks, <1>0, Cached
       DEF Cached, CacheIsTrue, Features, Keeps, Asked, Counted
  <2>3. QED BY <2>1, <2>2
<1>6. CASE PairingDetail(o)
  BY ONLY Typed, Running, <1>6, PairingDetailEffect, <1>0, Cached
     DEF Cached, CacheIsTrue, Features, Keeps, Asked
<1>7. CASE ReadMode(o)
  BY ONLY Typed, Running, <1>7, ReadModeEffect, <1>0, Cached
     DEF Cached, CacheIsTrue, Features, Keeps, Asked
<1>8. CASE disable_onboard_profiles_for_write(o)
  BY ONLY Typed, Running, <1>8, DisableEffect, <1>0, Cached
     DEF Cached, CacheIsTrue, Features, Keeps, Asked
<1>9. CASE restore_onboard_profiles(o)
  BY ONLY Typed, Running, <1>9, RestoreEffect, <1>0, Cached
     DEF Cached, CacheIsTrue, Features, Keeps, Asked
<1>10. CASE DpiCaps(o)
  BY ONLY Typed, Running, <1>10, DpiCapsEffect, <1>0, Cached
     DEF Cached, CacheIsTrue, Features, Keeps, Asked
<1>11. CASE DpiCurrent(o)
  BY ONLY Typed, Running, <1>11, DpiCurrentEffect, <1>0, Cached
     DEF Cached, CacheIsTrue, Features, Keeps, Asked
<1>12. CASE DpiList(o)
  <2>1. CASE Over(ChunkMax)
    BY ONLY Typed, Running, <1>12, <2>1, DpiListOver, <1>0, Cached
       DEF Cached, CacheIsTrue, Features, Keeps, Asked
  <2>2. CASE ~Over(ChunkMax)
    BY ONLY Typed, Running, <1>12, <2>2, DpiListAsks, <1>0, Cached
       DEF Cached, CacheIsTrue, Features, Keeps, Asked, Counted
  <2>3. QED BY <2>1, <2>2
<1>13. CASE DpiWrite(o)
  BY ONLY Typed, Running, <1>13, DpiWriteEffect, <1>0, Cached
     DEF Cached, CacheIsTrue, Features, Keeps, Asked
<1>14. CASE RateSupported(o)
  <2>1. CASE call.pc = "rate"
    BY ONLY Typed, Running, <1>14, <2>1, LegacyRateEffect, <1>0, Cached
       DEF Cached, CacheIsTrue, Features, Keeps, Asked, NoIndexLeads
  <2>2. CASE call.pc = "xrate"
    BY ONLY Typed, Running, <1>14, <2>2, ExtendedRateEffect, <1>0, Cached
       DEF Cached, CacheIsTrue, Features, Keeps, Asked, NoIndexLeads
  <2>3. QED BY <1>14, <2>1, <2>2 DEF RateSupported, With, At
<1>15. CASE RateWrite(o)
  BY ONLY Typed, Running, <1>15, RateWriteEffect, <1>0, Cached
     DEF Cached, CacheIsTrue, Features, Keeps, Asked
<1>16. CASE SectorWrite(o)
  BY ONLY Typed, Running, <1>16, SectorWriteEffect, <1>0, Cached
     DEF Cached, CacheIsTrue, Features, Keeps, Asked
<1>17. CASE ReadChain(o)
  BY ONLY Typed, Running, <1>17, ReadChainEffect, <1>0, Cached
     DEF Cached, CacheIsTrue, Features, Keeps, Asked, Chain, NoIndexLeads
<1>18. CASE DeviceInfo(o)
  <2>1. CASE call.i > Len(InfoSections)
    BY ONLY Typed, Running, <1>18, <2>1, DeviceInfoEnds, <1>0, Cached
       DEF Cached, CacheIsTrue, Features, Keeps, Asked
  <2>2. CASE ~(call.i > Len(InfoSections)) /\ InfoSections[call.i].f \notin call.found
    BY ONLY Typed, Running, <1>18, <2>2, DeviceInfoSkips, <1>0, Cached
       DEF Cached, CacheIsTrue, Features, Keeps, Asked
  <2>3. CASE ~(call.i > Len(InfoSections)) /\ InfoSections[call.i].f \in call.found
    BY ONLY Typed, Running, <1>18, <2>3, DeviceInfoAsks, <1>0, Cached
       DEF Cached, CacheIsTrue, Features, Keeps, Asked
  <2>4. QED BY <2>1, <2>2, <2>3
<1>19. CASE Ping(o)
  BY ONLY Typed, Running, <1>19, PingEffect, <1>0, Cached
     DEF Cached, CacheIsTrue, Features, Keeps, Asked
<1>20. CASE FeaturesDone
  <2>1. /\ UNCHANGED <<hw, idx, flag, off>> /\ fset' = [t \in DOMAIN fset \cup {Tgt} |-> IF t = Tgt
           THEN call.found ELSE fset[t]]
        /\ call.pc = "fs_done" /\ call'.pc = call.then /\ call'.found = call.found
        /\ call.then \in {"ret", "battery", "identified"}
    BY ONLY Typed, Running, <1>20, FeaturesDoneEffect
       DEF Keeps, Typed, CallTypes, Flow, FsStages, ThenOf
  <2>2. call.found \subseteq Features(Tgt) /\ CacheIsTrue
    BY ONLY <2>1, Cached, Running DEF Cached
  <2>3. CacheIsTrue'
    <3>2. /\ DOMAIN fset' = {Tgt} \cup DOMAIN fset
          /\ \A t \in DOMAIN fset' : fset'[t] = IF t = Tgt THEN call.found ELSE fset[t]
      BY ONLY <2>1
    <3>3. QED BY ONLY <1>0, <2>1, <2>2, <3>2 DEF CacheIsTrue, Features
  <2>4. QED BY ONLY <1>0, <2>1, <2>2, <2>3, Cached DEF Cached, Features
<1>21. CASE FeaturesKnown
  <2>1. /\ UNCHANGED <<hw, idx, fset, flag, off>> /\ Tgt \in DOMAIN fset
        /\ call'.pc = call.then /\ call'.found = fset[Tgt]
        /\ call.then \in {"ret", "battery", "identified"}
    BY ONLY Typed, Running, <1>21, FeaturesKnownEffect DEF Typed, CallTypes, Flow, FsStages, ThenOf
  <2>2. CacheIsTrue'
    BY ONLY <1>0, <2>1, Cached, CacheStays DEF Cached
  <2>4. QED BY ONLY <1>0, <2>1, <2>2, Cached DEF Cached, CacheIsTrue, Features
<1>22. CASE RestoreUnneeded
  BY ONLY Typed, Running, <1>22, RestoreUnneededEffect, <1>0, Cached
     DEF Cached, CacheIsTrue, Features, Keeps, Asked
<1>23. CASE DpiDone
  <2>1. UNCHANGED <<hw, idx, fset, flag, off>> /\ call'.pc \in {"ret", "write"}
    BY ONLY Typed, Running, <1>23, DpiDoneEffect DEF DpiOps
  <2>2. QED BY ONLY <1>0, <2>1, Cached DEF Cached, CacheIsTrue, Features
<1>24. CASE RateNoCode
  <2>1. CASE call.pc = "rate"
    BY ONLY Typed, Running, <1>24, <2>1, LegacyNoCodeEffect, <1>0, Cached
       DEF Cached, CacheIsTrue, Features, Keeps, Asked, NoIndexLeads
  <2>2. CASE call.pc = "xrate"
    BY ONLY Typed, Running, <1>24, <2>2, ExtendedNoCodeEffect, <1>0, Cached
       DEF Cached, CacheIsTrue, Features, Keeps, Asked, NoIndexLeads
  <2>3. QED BY <1>24, <2>1, <2>2 DEF RateNoCode, At
<1>25. CASE Identified
  BY ONLY Typed, Running, <1>25, IdentifiedEffect, <1>0, Cached
     DEF Cached, CacheIsTrue, Features, Keeps, Asked
<1>p. CASE PairingCount(o)
  <2>1. UNCHANGED <<hw, idx, fset, flag, off>> /\ call'.pc \in {"ret", "pairing"}
    BY ONLY Typed, Running, <1>p, PairingCountEffect
  <2>2. QED BY ONLY <1>0, <2>1, Cached DEF Cached, CacheIsTrue, Features
<1>26. QED
  BY <1>1, <1>2, <1>3, <1>4, <1>5, <1>6, <1>7, <1>8, <1>9, <1>10, <1>11, <1>12, <1>13, <1>14, <1>15,
     <1>16, <1>17, <1>18, <1>19, <1>20, <1>21, <1>22, <1>23, <1>24, <1>25, <1>p
  DEF Step, Stage

\* The flag tells that something is to be restored, where at most one device
\* has profiles.
LEMMA KeptNext ==
  ASSUME Typed, Missed, WriteReady, Cached, Kept, Running, NEW o, Step(o)
  PROVE  Kept'
<1>0. Tgt' = Tgt /\ Tgt \in Targets /\ FeatureAt' = FeatureAt /\ call'.op = call.op /\ Running'
  BY StepTyped DEF Onward
<1>1. idx \subseteq idx'
  BY StepLeaves
<1>2. SUFFICES ASSUME OneKeeper
               PROVE  FlagTells' /\ (\A t \in off' : <<t, "onboard">> \in idx')
                      /\ (call.op = "identify" => flag' = FALSE)
  BY <1>0 DEF Kept, OneKeeper, Features, FlagTells
<1>3. FlagTells /\ (\A t \in off : <<t, "onboard">> \in idx) /\ (call.op = "identify" => flag = FALSE)
      /\ flag \in BOOLEAN
  BY <1>2 DEF Kept, Typed
<1>4. CASE disable_onboard_profiles_for_write(o)
  <2>1. /\ call.pc = "disable" /\ flag' = (flag \/ o = "ok") /\ off' = IF o = "ok" THEN off \cup {Tgt}
           ELSE off
        /\ call.op # "identify"
    BY ONLY Typed, Running, <1>4, DisableEffect
       DEF Typed, CallTypes, Flow, StageOf, FsStages, DpiStages, Single, SetOps
  <2>2. <<Tgt, "onboard">> \in idx
    BY ONLY <2>1, Cached, Running DEF Cached
  <2>3. QED BY ONLY <1>1, <1>3, <2>1, <2>2 DEF FlagTells
<1>5. CASE restore_onboard_profiles(o)
  <2>1. /\ flag /\ <<Tgt, "onboard">> \in idx /\ flag' = (o # "ok")
        /\ off' = IF Executed(o) THEN off \ {Tgt} ELSE off
    BY ONLY Typed, Running, <1>5, RestoreEffect
  <2>2. \A t \in off : t = Tgt
    <3>1. "onboard" \in Features(Tgt)
      BY ONLY <2>1, Cached DEF Cached, CacheIsTrue
    <3>2. off \subseteq Targets /\ \A t \in off : "onboard" \in Features(t)
      BY DEF Typed, Cached
    <3>3. QED BY ONLY <1>0, <1>2, <3>1, <3>2 DEF OneKeeper
  <2>3. QED BY ONLY <1>1, <1>3, <2>1, <2>2 DEF FlagTells, Executed
<1>6. CASE UNCHANGED <<flag, off>>
  BY ONLY <1>1, <1>3, <1>6 DEF FlagTells
<1>7. QED BY <1>4, <1>5, <1>6, StepLeaves

-----------------------------------------------------------------------------
(* What writes leave alone, and what they have done *)

\* A call other than identify works on the target it names.
LEMMA TargetIs ==
  ASSUME Typed, Running, call.op # "identify"
  PROVE  Tgt = call.tgt
  BY DEF Typed, CallTypes, Tgt

\* Which calls are at a stage.
LEMMA StageOps ==
  ASSUME Typed, Running
  PROVE  /\ call.pc \in {"mode", "disable"} => call.op \in {"set_dpi", "set_lod", "set_rate"}
         /\ call.pc \in DpiStages => call.op \in {"dpi_info", "set_dpi", "set_lod"}
         /\ call.pc = "write" => call.op \in {"set_dpi", "set_lod"}
         /\ call.pc \in {"rate", "xrate", "rateset", "xrateset"} => call.op = "set_rate"
         /\ call.pc = "restore" => call.op = "restore"
         /\ call.pc \in FsStages => call.op \in {"features", "battery", "identify"}
         /\ call.pc = "battery" => call.op = "battery"
         /\ call.pc \in {"pair_info", "pairing", "pair_name", "pair_serial"} => call.op = "pairing"
         /\ call.pc \in {"xlive", "live"} => call.op = "get_rate"
         /\ call.pc \in {"sector", "headers", "read_sector", "reprog", "host", "led"}
            => call.op = call.pc
         /\ call.pc \in {"sweep", "identified", "info", "ping"} => call.op = "identify"
  BY DEF Typed, CallTypes, Flow, StageOf, FsStages, DpiStages, Single, DpiOps, SetOps, EnumOps

\* A step changes no other device, and of its own what the call is about.
LEMMA LeftNext ==
  ASSUME Typed, Missed, WriteReady, Left(call.op, call.tgt, call.before), Running, NEW o, Step(o)
  PROVE  Left(call.op, call.tgt, call.before)'
<1>0. /\ Tgt \in Targets /\ UNCHANGED <<touched>> /\ call'.op = call.op /\ call'.tgt = call.tgt
         /\ call'.before = call.before
      /\ hw \in [Targets -> Settings] /\ touched \in BOOLEAN
  BY StepTyped DEF Onward, Typed
<1>1. CASE hw' = hw
  BY ONLY <1>0, <1>1, Left(call.op, call.tgt, call.before) DEF Left
<1>2. ASSUME NEW m, call.op # "identify", hw' = [hw EXCEPT ![Tgt].mode = m]
      PROVE  Left(call.op, call.tgt, call.before)'
  <2>1. Tgt = call.tgt
    BY <1>2, TargetIs
  <2>2. \A t \in Targets : t # call.tgt => hw'[t] = hw[t]
    BY ONLY <1>0, <1>2, <2>1
  <2>3. hw'[call.tgt].x = hw[call.tgt].x /\ hw'[call.tgt].y = hw[call.tgt].y
        /\ hw'[call.tgt].lod = hw[call.tgt].lod
    BY ONLY <1>0, <1>2, <2>1 DEF Settings
  <2>4. QED BY ONLY <1>0, <1>2, <2>2, <2>3, Left(call.op, call.tgt, call.before) DEF Left
<1>3. CASE disable_onboard_profiles_for_write(o)
  <2>1. call.op # "identify" /\ (hw' = [hw EXCEPT ![Tgt].mode = "host"] \/ hw' = hw)
    BY <1>3, DisableEffect, StageOps
  <2>2. QED BY <2>1, <1>1, <1>2
<1>4. CASE restore_onboard_profiles(o)
  <2>1. call.op # "identify" /\ (hw' = [hw EXCEPT ![Tgt].mode = "onboard"] \/ hw' = hw)
    BY <1>4, RestoreEffect, StageOps
  <2>2. QED BY <2>1, <1>1, <1>2
<1>5. CASE RateWrite(o)
  <2>1. call.op = "set_rate" /\ (hw' = [hw EXCEPT ![Tgt].rate = call.val] \/ hw' = hw)
    BY <1>5, RateWriteEffect, StageOps
  <2>2. Tgt = call.tgt
    BY <2>1, TargetIs
  <2>3. \A t \in Targets : t # call.tgt => hw'[t] = hw[t]
    BY ONLY <1>0, <2>1, <2>2
  <2>4. QED BY ONLY <1>0, <2>1, <2>3, Left(call.op, call.tgt, call.before) DEF Left
<1>6. CASE DpiWrite(o)
  <2>1. call.pc = "write" /\ call.op \in {"set_dpi", "set_lod"}
        /\ (hw' = [hw EXCEPT ![Tgt] = NewDpi(hw[Tgt])] \/ hw' = hw)
    BY <1>6, DpiWriteEffect, StageOps
  <2>2. Tgt = call.tgt
    BY <2>1, TargetIs
  <2>3. SUFFICES ASSUME hw' = [hw EXCEPT ![Tgt] = NewDpi(hw[Tgt])] PROVE Left(call.op, call.tgt,
       call.before)'
    BY <2>1, <1>1
  <2>4. \A t \in Targets : t # call.tgt => hw'[t] = hw[t]
    BY ONLY <1>0, <2>2, <2>3
  <2>5. hw'[call.tgt] = NewDpi(hw[call.tgt]) /\ hw[call.tgt] \in Settings
    BY ONLY <1>0, <2>2, <2>3
  <2>6. /\ call.op = "set_dpi" => hw'[call.tgt].lod \in {hw[call.tgt].lod, call.info.lod}
        /\ call.op = "set_lod" => hw'[call.tgt].x = call.info.x /\ hw'[call.tgt].y = call.info.y
    BY <2>1, <2>5, NewDpiEffect
  <2>7. call.info \in Infos
    BY <2>1 DEF WriteReady
  <2>8. QED BY ONLY <1>0, <2>1, <2>4, <2>6, <2>7, WriteReady, Left(call.op, call.tgt, call.before)
     DEF Left, WriteReady
<1>7. QED BY <1>1, <1>3, <1>4, <1>5, <1>6, StepLeaves

\* No stage is left to a call that has its result.
LEMMA StepRuns ==
  ASSUME NEW o, Step(o)
  PROVE  call.pc # "ret"
<1>1. CASE resolve_feature_index(o) BY <1>1 DEF resolve_feature_index, Need
<1>2. CASE FeatureRoot(o) BY <1>2 DEF FeatureRoot, At
<1>3. CASE FeatureEach(o) BY <1>3 DEF FeatureEach, At
<1>4. CASE get_battery_status(o) BY <1>4 DEF get_battery_status, At
<1>5. CASE get_pairing_info(o) BY <1>5 DEF get_pairing_info, At
<1>6. CASE PairingDetail(o) BY <1>6 DEF PairingDetail
<1>7. CASE ReadMode(o) BY <1>7 DEF ReadMode, With, At
<1>8. CASE disable_onboard_profiles_for_write(o) BY <1>8 DEF disable_onboard_profiles_for_write, At
<1>9. CASE restore_onboard_profiles(o) BY <1>9 DEF restore_onboard_profiles, With, At
<1>10. CASE DpiCaps(o) BY <1>10 DEF DpiCaps, With, At
<1>11. CASE DpiCurrent(o) BY <1>11 DEF DpiCurrent, With, At
<1>12. CASE DpiList(o) BY <1>12 DEF DpiList, At
<1>13. CASE DpiWrite(o) BY <1>13 DEF DpiWrite, At
<1>14. CASE RateSupported(o) BY <1>14 DEF RateSupported, With, At
<1>15. CASE RateWrite(o) BY <1>15 DEF RateWrite
<1>16. CASE SectorWrite(o) BY <1>16 DEF SectorWrite, With, At
<1>17. CASE ReadChain(o) BY <1>17 DEF ReadChain, Chain
<1>18. CASE DeviceInfo(o) BY <1>18 DEF DeviceInfo, At
<1>19. CASE Ping(o) BY <1>19 DEF Ping, At
<1>20. CASE FeaturesDone BY <1>20 DEF FeaturesDone, At
<1>21. CASE FeaturesKnown BY <1>21 DEF FeaturesKnown, At
<1>22. CASE RestoreUnneeded BY <1>22 DEF RestoreUnneeded, At
<1>23. CASE DpiDone BY <1>23 DEF DpiDone, At
<1>24. CASE RateNoCode BY <1>24 DEF RateNoCode, At
<1>25. CASE Identified BY <1>25 DEF Identified, At
<1>p. CASE PairingCount(o) BY <1>p DEF PairingCount, At
<1>26. QED
  BY <1>1, <1>2, <1>3, <1>4, <1>5, <1>6, <1>7, <1>8, <1>9, <1>10, <1>11, <1>12, <1>13, <1>14, <1>15,
     <1>16, <1>17, <1>18, <1>19, <1>20, <1>21, <1>22, <1>23, <1>24, <1>25, <1>p
  DEF Step, Stage

\* What is on the axes is listed or was there before, unless set_dpi has written a value
\* of a list with a gap.
LEMMA ListableNext ==
  ASSUME Typed, Missed, WriteReady, Listable(hw, call.before), Running, NEW o, Step(o)
  PROVE  (call'.pc = "ret" /\ call'.op = "set_dpi" => Gapless(call'.info.got))
           => Listable(hw, call.before)'
<1>0. /\ Tgt \in Targets /\ call'.op = call.op /\ call'.before = call.before
      /\ hw \in [Targets -> Settings] /\ call.before \in [Targets -> Settings]
  BY StepTyped DEF Onward, Typed, CallTypes
<1>1. CASE hw' = hw
  BY ONLY <1>0, <1>1, Listable(hw, call.before) DEF Listable
<1>2. ASSUME \A t \in Targets : hw'[t].x = hw[t].x /\ hw'[t].y = hw[t].y
      PROVE  Listable(hw, call.before)'
  BY ONLY <1>0, <1>2, Listable(hw, call.before) DEF Listable, AxesOf
<1>3. CASE disable_onboard_profiles_for_write(o)
  <2>1. hw' = [hw EXCEPT ![Tgt].mode = "host"] \/ hw' = hw
    BY <1>3, DisableEffect
  <2>2. \A t \in Targets : hw'[t].x = hw[t].x /\ hw'[t].y = hw[t].y
    BY ONLY <1>0, <2>1 DEF Settings
  <2>3. QED BY <2>2, <1>2
<1>4. CASE restore_onboard_profiles(o)
  <2>1. hw' = [hw EXCEPT ![Tgt].mode = "onboard"] \/ hw' = hw
    BY <1>4, RestoreEffect
  <2>2. \A t \in Targets : hw'[t].x = hw[t].x /\ hw'[t].y = hw[t].y
    BY ONLY <1>0, <2>1 DEF Settings
  <2>3. QED BY <2>2, <1>2
<1>5. CASE RateWrite(o)
  <2>1. hw' = [hw EXCEPT ![Tgt].rate = call.val] \/ hw' = hw
    BY <1>5, RateWriteEffect
  <2>2. \A t \in Targets : hw'[t].x = hw[t].x /\ hw'[t].y = hw[t].y
    BY ONLY <1>0, <2>1 DEF Settings
  <2>3. QED BY <2>2, <1>2
<1>6. CASE DpiWrite(o)
  <2>1. /\ call.pc = "write" /\ call'.pc = "ret" /\ call.op \in {"set_dpi", "set_lod"}
        /\ hw' = [hw EXCEPT ![Tgt] = NewDpi(hw[Tgt])] \/ hw' = hw
        /\ call'.info = call.info
    BY <1>6, DpiWriteEffect, StageOps DEF Keeps
  <2>2. Tgt = call.tgt
    BY <2>1, TargetIs
  <2>3. SUFFICES ASSUME hw' = [hw EXCEPT ![Tgt] = NewDpi(hw[Tgt])],
                        call'.pc = "ret" /\ call'.op = "set_dpi" => Gapless(call'.info.got)
                 PROVE  Listable(hw, call.before)'
    BY <1>1, <2>1
  <2>4. /\ call.op = "set_dpi" => NewDpi(hw[Tgt]).x = call.val /\ NewDpi(hw[Tgt]).y = call.val
        /\ call.op = "set_lod" => NewDpi(hw[Tgt]).x = call.info.x /\ NewDpi(hw[Tgt]).y = call.info.y
    BY <1>0, <2>1, NewDpiEffect
  <2>5. /\ call.info \in Infos
        /\ call.op = "set_dpi" => call.val \in LevelsRead[ListOf(call.info)][call.info.got]
        /\ call.op = "set_lod" => AxesOf(call.info) \subseteq Levels \cup AxesOf(call.before[Tgt])
    BY ONLY <2>1, <2>2, WriteReady DEF WriteReady
  <2>6. call.op = "set_dpi" => call.val \in Levels
    <3>1. call.op = "set_dpi" => Gapless(call.info.got)
      BY ONLY <1>0, <2>1, <2>3
    <3>2. QED BY ONLY <2>5, <3>1, ReadIsListed
  <2>7. AxesOf(hw'[Tgt]) \subseteq Levels \cup AxesOf(call.before[Tgt])
    <3>1. hw'[Tgt] = NewDpi(hw[Tgt])
      BY ONLY <1>0, <2>3
    <3>2. QED BY ONLY <2>1, <2>4, <2>5, <2>6, <3>1 DEF AxesOf
  <2>8. \A t \in Targets : t # Tgt => hw'[t] = hw[t]
    BY ONLY <1>0, <2>3
  <2>9. QED BY ONLY <1>0, <2>7, <2>8, Listable(hw, call.before) DEF Listable
<1>7. QED BY <1>1, <1>3, <1>4, <1>5, <1>6, StepLeaves

LEMMA NoInfoOut == NoInfo \notin Infos
  BY DEF NoInfo, Infos, InfosOf

\* What a DPI write goes by has been read in this call.
LEMMA WriteReadyNext ==
  ASSUME Typed, Missed, WriteReady, Left(call.op, call.tgt, call.before), Running, NEW o, Step(o),
         call.pc # "ret" => Listable(hw, call.before)
  PROVE  WriteReady'
<1>0. /\ Tgt' = Tgt /\ Tgt \in Targets /\ UNCHANGED <<touched>>
      /\ call'.op = call.op /\ call'.tgt = call.tgt /\ call'.val = call.val
         /\ call'.before = call.before
  BY StepTyped DEF Onward
<1>1. CASE resolve_feature_index(o)
  <2>1. call'.pc \notin {"list", "write"} /\ call'.info \in {call.info, NoInfo}
    BY ONLY Typed, Running, <1>1, ResolveEffect DEF Need, NoIndexLeads
  <2>2. QED BY ONLY <1>0, <2>1, NoInfoOut, WriteReady DEF WriteReady
<1>2. CASE FeatureRoot(o)
  <2>1. call'.pc \notin {"list", "write"} /\ call'.info = call.info
    BY ONLY Typed, Running, <1>2, FeatureRootEffect DEF Keeps
  <2>2. QED BY ONLY <1>0, <2>1, WriteReady DEF WriteReady
<1>3. CASE FeatureEach(o)
  <2>1. CASE Over(Len(FeatureAt[Tgt]))
    <3>1. call'.pc \notin {"list", "write"} /\ call'.info = call.info
      BY ONLY Typed, Running, <1>3, <2>1, FeatureEachOver DEF Keeps
    <3>2. QED BY ONLY <1>0, <3>1, WriteReady DEF WriteReady
  <2>2. CASE ~Over(Len(FeatureAt[Tgt]))
    <3>1. call'.pc \notin {"list", "write"} /\ call'.info = call.info
      BY ONLY Typed, Running, <1>3, <2>2, FeatureEachAsks DEF Keeps, Counted
    <3>2. QED BY ONLY <1>0, <3>1, WriteReady DEF WriteReady
  <2>3. QED BY <2>1, <2>2
<1>4. CASE get_battery_status(o)
  <2>1. CASE call.i > Len(Sources)
    <3>1. call'.pc \notin {"list", "write"} /\ call'.info = call.info
      BY ONLY Typed, Running, <1>4, <2>1, BatteryNone DEF Keeps
    <3>2. QED BY ONLY <1>0, <3>1, WriteReady DEF WriteReady
  <2>2. CASE ~(call.i > Len(Sources)) /\ call.i <= Len(BatteryOrder)
             /\ Sources[call.i] \notin call.found
    <3>1. call'.pc \notin {"list", "write"} /\ call'.info = call.info
      BY ONLY Typed, Running, <1>4, <2>2, BatterySkips DEF Keeps
    <3>2. QED BY ONLY <1>0, <3>1, WriteReady DEF WriteReady
  <2>3. CASE ~(call.i > Len(Sources)) /\ ~(call.i <= Len(BatteryOrder)
             /\ Sources[call.i] \notin call.found)
    <3>1. call'.pc \notin {"list", "write"} /\ call'.info = call.info
      BY ONLY Typed, Running, <1>4, <2>3, BatteryAsks DEF Keeps
    <3>2. QED BY ONLY <1>0, <3>1, WriteReady DEF WriteReady
  <2>4. QED BY <2>1, <2>2, <2>3
<1>5. CASE get_pairing_info(o)
  <2>1. CASE Over(call.sub)
    <3>1. call'.pc \notin {"list", "write"} /\ call'.info = call.info
      BY ONLY Typed, Running, <1>5, <2>1, PairingOver DEF Keeps
    <3>2. QED BY ONLY <1>0, <3>1, WriteReady DEF WriteReady
  <2>2. CASE ~Over(call.sub)
    <3>1. call'.pc \notin {"list", "write"} /\ call'.info = call.info
      BY ONLY Typed, Running, <1>5, <2>2, PairingAsks DEF Keeps, Counted
    <3>2. QED BY ONLY <1>0, <3>1, WriteReady DEF WriteReady
  <2>3. QED BY <2>1, <2>2
<1>6. CASE PairingDetail(o)
  <2>1. call'.pc \notin {"list", "write"} /\ call'.info = call.info
    BY ONLY Typed, Running, <1>6, PairingDetailEffect DEF Keeps
  <2>2. QED BY ONLY <1>0, <2>1, WriteReady DEF WriteReady
<1>7. CASE ReadMode(o)
  <2>1. call'.pc \notin {"list", "write"} /\ call'.info = call.info
    BY ONLY Typed, Running, <1>7, ReadModeEffect DEF Keeps
  <2>2. QED BY ONLY <1>0, <2>1, WriteReady DEF WriteReady
<1>8. CASE disable_onboard_profiles_for_write(o)
  <2>1. call'.pc \notin {"list", "write"} /\ call'.info = call.info
    BY ONLY Typed, Running, <1>8, DisableEffect DEF Keeps
  <2>2. QED BY ONLY <1>0, <2>1, WriteReady DEF WriteReady
<1>9. CASE restore_onboard_profiles(o)
  <2>1. call'.pc \notin {"list", "write"} /\ call'.info = call.info
    BY ONLY Typed, Running, <1>9, RestoreEffect DEF Keeps
  <2>2. QED BY ONLY <1>0, <2>1, WriteReady DEF WriteReady
<1>10. CASE DpiCaps(o)
  <2>1. call'.pc \notin {"list", "write"} /\ call'.info = call.info
    BY ONLY Typed, Running, <1>10, DpiCapsEffect DEF Keeps
  <2>2. QED BY ONLY <1>0, <2>1, WriteReady DEF WriteReady
<1>11. CASE DpiCurrent(o)
  <2>1. /\ call'.pc \in {"list", "legacy", "dpi_done"} /\ (call'.pc = "list" => o = "ok")
        /\ o = "ok" => call'.info = [ext |-> call.pc = "current", x |-> hw[Tgt].x, y |-> hw[Tgt].y,
           lod |-> hw[Tgt].lod, got |-> {}]
        /\ o # "ok" => call'.info \in {call.info, NoInfo}
    BY ONLY ZenonT(40), Typed, Running, <1>11, DpiCurrentEffect
  <2>2. call.op # "identify"
    BY <1>11, DpiCurrentEffect, StageOps DEF DpiStages
  <2>3. Tgt = call.tgt /\ hw[Tgt] \in Settings
    BY <1>0, <2>2, TargetIs DEF Typed
  <2>4. CASE o = "ok"
    <3>1. call'.info.x = hw[Tgt].x /\ call'.info.y = hw[Tgt].y /\ call'.info.lod = hw[Tgt].lod
      BY ONLY <2>1, <2>4
    <3>4. /\ call'.info = [ext |-> call.pc = "current", x |-> hw[Tgt].x, y |-> hw[Tgt].y,
             lod |-> hw[Tgt].lod, got |-> {}]
          /\ hw[Tgt] \in Settings
      BY ONLY <2>1, <2>3, <2>4
    <3>3. call'.info \in Infos
      BY ONLY <3>4, Fresh
    <3>5. AxesOf(call'.info) \subseteq Levels \cup AxesOf(call.before[call.tgt])
      <4>1. call.pc # "ret"
        BY <1>11, DpiCurrentEffect
      <4>2. AxesOf(hw[call.tgt]) \subseteq Levels \cup AxesOf(call.before[call.tgt])
        BY <4>1, <1>0, <2>3 DEF Listable
      <4>3. QED BY ONLY <4>2, <3>1, <2>3 DEF AxesOf
    <3>2. QED BY ONLY <1>0, <2>1, <2>3, <2>4, <3>1, <3>3, <3>5, Left(call.op, call.tgt, call.before)
       DEF Left, WriteReady
  <2>5. CASE o # "ok"
    BY ONLY <1>0, <2>1, <2>5, NoInfoOut, WriteReady DEF WriteReady
  <2>6. QED BY <2>4, <2>5
<1>12. CASE DpiList(o)
  <2>1. CASE Over(ChunkMax)
    <3>1. call'.pc \notin {"list", "write"} /\ call'.info = call.info
      BY ONLY Typed, Running, <1>12, <2>1, DpiListOver DEF Keeps
    <3>2. QED BY ONLY <1>0, <3>1, WriteReady DEF WriteReady
  <2>2. CASE ~Over(ChunkMax)
    <3>1. /\ call'.pc \in {"list", "dpi_done"} /\ call.pc = "list"
          /\ call'.info = IF o = "ok" THEN [call.info EXCEPT !.got = @ \cup {call.i}] ELSE call.info
      BY ONLY Typed, Running, <1>12, <2>2, DpiListAsks
    <3>2. call.info \in Infos
      BY ONLY <3>1, WriteReady DEF WriteReady
    <3>3. call'.info \in Infos
      BY <1>12, <2>2, <3>2, DpiListAsksTyped
    <3>4. call'.info.x = call.info.x /\ call'.info.y = call.info.y /\ call'.info.lod = call.info.lod
      BY ONLY <3>1, <3>2, InfoIs
    <3>5. QED BY ONLY <1>0, <3>1, <3>2, <3>3, <3>4, WriteReady DEF WriteReady, AxesOf
  <2>3. QED BY <2>1, <2>2
<1>13. CASE DpiWrite(o)
  <2>1. call'.pc \notin {"list", "write"} /\ call'.info = call.info
    BY ONLY Typed, Running, <1>13, DpiWriteEffect DEF Keeps
  <2>2. QED BY ONLY <1>0, <2>1, WriteReady DEF WriteReady
<1>14. CASE RateSupported(o)
  <2>1. CASE call.pc = "rate"
    <3>1. call'.pc \notin {"list", "write"} /\ call'.info = call.info
      BY ONLY Typed, Running, <1>14, <2>1, LegacyRateEffect DEF Keeps, NoIndexLeads
    <3>2. QED BY ONLY <1>0, <3>1, WriteReady DEF WriteReady
  <2>2. CASE call.pc = "xrate"
    <3>1. call'.pc \notin {"list", "write"} /\ call'.info = call.info
      BY ONLY Typed, Running, <1>14, <2>2, ExtendedRateEffect DEF Keeps, NoIndexLeads
    <3>2. QED BY ONLY <1>0, <3>1, WriteReady DEF WriteReady
  <2>3. QED BY <1>14, <2>1, <2>2 DEF RateSupported, With, At
<1>15. CASE RateWrite(o)
  <2>1. call'.pc \notin {"list", "write"} /\ call'.info = call.info
    BY ONLY Typed, Running, <1>15, RateWriteEffect DEF Keeps
  <2>2. QED BY ONLY <1>0, <2>1, WriteReady DEF WriteReady
<1>16. CASE SectorWrite(o)
  <2>1. call'.pc \notin {"list", "write"} /\ call'.info = call.info
    BY ONLY Typed, Running, <1>16, SectorWriteEffect DEF Keeps
  <2>2. QED BY ONLY <1>0, <2>1, WriteReady DEF WriteReady
<1>17. CASE ReadChain(o)
  <2>1. call'.pc \notin {"list", "write"} /\ call'.info = call.info
    BY ONLY Typed, Running, <1>17, ReadChainEffect DEF Keeps, Chain, NoIndexLeads
  <2>2. QED BY ONLY <1>0, <2>1, WriteReady DEF WriteReady
<1>18. CASE DeviceInfo(o)
  <2>1. CASE call.i > Len(InfoSections)
    <3>1. call'.pc \notin {"list", "write"} /\ call'.info = call.info
      BY ONLY Typed, Running, <1>18, <2>1, DeviceInfoEnds DEF Keeps
    <3>2. QED BY ONLY <1>0, <3>1, WriteReady DEF WriteReady
  <2>2. CASE ~(call.i > Len(InfoSections)) /\ InfoSections[call.i].f \notin call.found
    <3>1. call'.pc \notin {"list", "write"} /\ call'.info = call.info
      BY ONLY Typed, Running, <1>18, <2>2, DeviceInfoSkips DEF Keeps
    <3>2. QED BY ONLY <1>0, <3>1, WriteReady DEF WriteReady
  <2>3. CASE ~(call.i > Len(InfoSections)) /\ InfoSections[call.i].f \in call.found
    <3>1. call'.pc \notin {"list", "write"} /\ call'.info = call.info
      BY ONLY Typed, Running, <1>18, <2>3, DeviceInfoAsks DEF Keeps
    <3>2. QED BY ONLY <1>0, <3>1, WriteReady DEF WriteReady
  <2>4. QED BY <2>1, <2>2, <2>3
<1>19. CASE Ping(o)
  <2>1. call'.pc \notin {"list", "write"} /\ call'.info = call.info
    BY ONLY Typed, Running, <1>19, PingEffect DEF Keeps
  <2>2. QED BY ONLY <1>0, <2>1, WriteReady DEF WriteReady
<1>20. CASE FeaturesDone
  <2>1. call'.pc \notin {"list", "write"} /\ call'.info = call.info
    BY ONLY Typed, Running, <1>20, FeaturesDoneEffect
       DEF Keeps, Typed, CallTypes, Flow, FsStages, ThenOf
  <2>2. QED BY ONLY <1>0, <2>1, WriteReady DEF WriteReady
<1>21. CASE FeaturesKnown
  <2>1. call'.pc \notin {"list", "write"} /\ call'.info = call.info
    BY ONLY Typed, Running, <1>21, FeaturesKnownEffect
       DEF Keeps, Typed, CallTypes, Flow, FsStages, ThenOf
  <2>2. QED BY ONLY <1>0, <2>1, WriteReady DEF WriteReady
<1>22. CASE RestoreUnneeded
  <2>1. call'.pc \notin {"list", "write"} /\ call'.info = call.info
    BY ONLY Typed, Running, <1>22, RestoreUnneededEffect DEF Keeps
  <2>2. QED BY ONLY <1>0, <2>1, WriteReady DEF WriteReady
<1>23. CASE DpiDone
  <2>1. /\ call'.pc \in {"ret", "write"} /\ call'.info = call.info
        /\ call'.pc = "write" => \/ /\ call.op = "set_dpi" /\ call.info # NoInfo
                                    /\ call.val \in LevelsRead[ListOf(call.info)][call.info.got]
                                 \/ call.op = "set_lod" /\ call.val \in 1..3 /\ call.info.ext
    BY ONLY Typed, Running, <1>23, DpiDoneEffect DEF DpiOps, Keeps
  <2>2. call'.pc = "write" => call.info \in Infos
    <3>1. call.info \in Infos \cup {NoInfo}
      BY DEF Typed, CallTypes, Flow
    <3>3. NoInfo.ext = FALSE
      BY DEF NoInfo
    <3>2. QED BY ONLY <2>1, <3>1, <3>3
  <2>3. QED BY ONLY <1>0, <2>1, <2>2, WriteReady DEF WriteReady
<1>24. CASE RateNoCode
  <2>1. CASE call.pc = "rate"
    <3>1. call'.pc \notin {"list", "write"} /\ call'.info = call.info
      BY ONLY Typed, Running, <1>24, <2>1, LegacyNoCodeEffect DEF Keeps, NoIndexLeads
    <3>2. QED BY ONLY <1>0, <3>1, WriteReady DEF WriteReady
  <2>2. CASE call.pc = "xrate"
    <3>1. call'.pc \notin {"list", "write"} /\ call'.info = call.info
      BY ONLY Typed, Running, <1>24, <2>2, ExtendedNoCodeEffect DEF Keeps, NoIndexLeads
    <3>2. QED BY ONLY <1>0, <3>1, WriteReady DEF WriteReady
  <2>3. QED BY <1>24, <2>1, <2>2 DEF RateNoCode, At
<1>25. CASE Identified
  <2>1. call'.pc \notin {"list", "write"} /\ call'.info = call.info
    BY ONLY Typed, Running, <1>25, IdentifiedEffect DEF Keeps
  <2>2. QED BY ONLY <1>0, <2>1, WriteReady DEF WriteReady
<1>p. CASE PairingCount(o)
  <2>1. call'.pc \notin {"list", "write"} /\ call'.info = call.info
    BY ONLY Typed, Running, <1>p, PairingCountEffect DEF Keeps
  <2>2. QED BY ONLY <1>0, <2>1, WriteReady DEF WriteReady
<1>26. QED
  BY <1>1, <1>2, <1>3, <1>4, <1>5, <1>6, <1>7, <1>8, <1>9, <1>10, <1>11, <1>12, <1>13, <1>14, <1>15,
     <1>16, <1>17, <1>18, <1>19, <1>20, <1>21, <1>22, <1>23, <1>24, <1>25, <1>p
  DEF Step, Stage

\* A call that is about to return success has done what it says.
LEMMA DidNext ==
  ASSUME Typed, Missed, WriteReady, Kept, Running, NEW o, Step(o)
  PROVE  call'.pc = "ret" => Did(call.op, call.tgt, call.val, call.res)'
<1>0. /\ Tgt' = Tgt /\ Tgt \in Targets /\ UNCHANGED <<touched, FeatureAt>>
      /\ call'.op = call.op /\ call'.tgt = call.tgt /\ call'.val = call.val
  BY StepTyped DEF Onward
<1>00. SUFFICES ASSUME call'.pc = "ret" PROVE Did(call.op, call.tgt, call.val, call.res)'
  OBVIOUS
<1>1. CASE resolve_feature_index(o)
  <2>1. call.pc = "restore" \/ call'.res = FALSE
    BY ONLY Typed, Running, <1>00, <1>1, ResolveEffect DEF Need, NoIndexLeads
  <2>2. CASE call'.res = FALSE
    BY ONLY <2>2 DEF Did
  <2>3. CASE call.pc = "restore"
    <3>1. call.op = "restore" /\ Tgt = call.tgt
      BY <2>3, StageOps, TargetIs
    <3>2. <<Tgt, "onboard">> \notin idx /\ off' = off
      BY ONLY Typed, Running, <1>1, <2>3, ResolveEffect DEF Need
    <3>3. OneKeeper' => Tgt \notin off'
      BY ONLY <1>0, <3>2, Kept DEF Kept, OneKeeper, Features
    <3>4. QED BY ONLY <1>0, <3>1, <3>3 DEF Did
  <2>4. QED BY <2>1, <2>2, <2>3
<1>2. CASE FeatureRoot(o)
  <2>1. call.op \notin {"set_dpi", "set_rate", "set_lod", "restore"}
    BY <1>2, FeatureRootEffect, StageOps DEF FsStages
  <2>2. QED BY ONLY <1>0, <2>1 DEF Did
<1>3. CASE FeatureEach(o)
  <2>1. CASE Over(Len(FeatureAt[Tgt]))
    <3>1. call.op \notin {"set_dpi", "set_rate", "set_lod", "restore"}
      BY <1>3, <2>1, FeatureEachOver, StageOps DEF FsStages
    <3>2. QED BY ONLY <1>0, <3>1 DEF Did
  <2>2. CASE ~Over(Len(FeatureAt[Tgt]))
    <3>1. call.op \notin {"set_dpi", "set_rate", "set_lod", "restore"}
      BY <1>3, <2>2, FeatureEachAsks, StageOps DEF FsStages
    <3>2. QED BY ONLY <1>0, <3>1 DEF Did
  <2>3. QED BY <2>1, <2>2
<1>4. CASE get_battery_status(o)
  <2>1. CASE call.i > Len(Sources)
    <3>1. call.op \notin {"set_dpi", "set_rate", "set_lod", "restore"}
      BY <1>4, <2>1, BatteryNone, StageOps DEF FsStages
    <3>2. QED BY ONLY <1>0, <3>1 DEF Did
  <2>2. CASE ~(call.i > Len(Sources)) /\ call.i <= Len(BatteryOrder)
             /\ Sources[call.i] \notin call.found
    <3>1. call.op \notin {"set_dpi", "set_rate", "set_lod", "restore"}
      BY <1>4, <2>2, BatterySkips, StageOps DEF FsStages
    <3>2. QED BY ONLY <1>0, <3>1 DEF Did
  <2>3. CASE ~(call.i > Len(Sources)) /\ ~(call.i <= Len(BatteryOrder)
             /\ Sources[call.i] \notin call.found)
    <3>1. call.op \notin {"set_dpi", "set_rate", "set_lod", "restore"}
      BY <1>4, <2>3, BatteryAsks, StageOps DEF FsStages
    <3>2. QED BY ONLY <1>0, <3>1 DEF Did
  <2>4. QED BY <2>1, <2>2, <2>3
<1>5. CASE get_pairing_info(o)
  <2>1. CASE Over(call.sub)
    <3>1. call.op \notin {"set_dpi", "set_rate", "set_lod", "restore"}
      BY <1>5, <2>1, PairingOver, StageOps DEF FsStages
    <3>2. QED BY ONLY <1>0, <3>1 DEF Did
  <2>2. CASE ~Over(call.sub)
    <3>1. call.op \notin {"set_dpi", "set_rate", "set_lod", "restore"}
      BY <1>5, <2>2, PairingAsks, StageOps DEF FsStages
    <3>2. QED BY ONLY <1>0, <3>1 DEF Did
  <2>3. QED BY <2>1, <2>2
<1>6. CASE PairingDetail(o)
  <2>1. call.op \notin {"set_dpi", "set_rate", "set_lod", "restore"}
    BY <1>6, PairingDetailEffect, StageOps DEF FsStages
  <2>2. QED BY ONLY <1>0, <2>1 DEF Did
<1>7. CASE ReadMode(o)
  BY ONLY Typed, Running, <1>00, <1>7, ReadModeEffect
<1>8. CASE disable_onboard_profiles_for_write(o)
  BY ONLY Typed, Running, <1>00, <1>8, DisableEffect
<1>9. CASE restore_onboard_profiles(o)
  <2>1. call.op = "restore" /\ Tgt = call.tgt
    BY <1>9, RestoreEffect, StageOps, TargetIs
  <2>2. /\ call'.res = (o = "ok") /\ off' = IF Executed(o) THEN off \ {Tgt} ELSE off
    BY ONLY Typed, Running, <1>9, RestoreEffect
  <2>3. call'.res = TRUE => Tgt \notin off'
    BY ONLY <2>2 DEF Executed
  <2>4. QED BY ONLY <1>0, <2>1, <2>3 DEF Did
<1>10. CASE DpiCaps(o)
  BY ONLY Typed, Running, <1>00, <1>10, DpiCapsEffect
<1>11. CASE DpiCurrent(o)
  BY ONLY Typed, Running, <1>00, <1>11, DpiCurrentEffect
<1>12. CASE DpiList(o)
  <2>1. CASE Over(ChunkMax)
    BY ONLY Typed, Running, <1>00, <1>12, <2>1, DpiListOver
  <2>2. CASE ~Over(ChunkMax)
    BY ONLY Typed, Running, <1>00, <1>12, <2>2, DpiListAsks
  <2>3. QED BY <2>1, <2>2
<1>13. CASE DpiWrite(o)
  <2>1. /\ call.pc = "write" /\ hw' = IF Executed(o) THEN [hw EXCEPT ![Tgt] = NewDpi(hw[Tgt])] ELSE hw
        /\ call'.res = (o = "ok")
    BY ONLY Typed, Running, <1>13, DpiWriteEffect
  <2>2. call.op \in {"set_dpi", "set_lod"} /\ Tgt = call.tgt /\ hw \in [Targets -> Settings]
    BY <2>1, StageOps, TargetIs DEF Typed
  <2>3. hw[Tgt] \in Settings
    BY ONLY <1>0, <2>2
  <2>4. SUFFICES ASSUME call'.res = TRUE PROVE Did(call.op, call.tgt, call.val, call.res)'
    BY DEF Did
  <2>5. hw'[Tgt] = NewDpi(hw[Tgt])
    BY ONLY <1>0, <2>1, <2>2, <2>4 DEF Executed
  <2>6. /\ call.op = "set_dpi" => hw'[Tgt].x = call.val /\ hw'[Tgt].y = call.val
        /\ call.op = "set_lod" => hw'[Tgt].lod = call.val
    BY <2>1, <2>3, <2>5, NewDpiEffect
  <2>7. QED BY ONLY <1>0, <2>2, <2>6 DEF Did
<1>14. CASE RateSupported(o)
  <2>1. CASE call.pc = "rate"
    BY ONLY Typed, Running, <1>00, <1>14, <2>1, LegacyRateEffect DEF NoIndexLeads
  <2>2. CASE call.pc = "xrate"
    <3>1. call'.res = FALSE
      BY ONLY Typed, Running, <1>00, <1>14, <2>2, ExtendedRateEffect DEF NoIndexLeads
    <3>2. QED BY ONLY <3>1 DEF Did
  <2>3. QED BY <1>14, <2>1, <2>2 DEF RateSupported, With, At
<1>15. CASE RateWrite(o)
  <2>1. /\ call.pc \in {"rateset", "xrateset"} /\ hw' = IF Executed(o)
           THEN [hw EXCEPT ![Tgt].rate = call.val] ELSE hw
        /\ o = "ok" \/ call'.res = FALSE
    BY ONLY Typed, Running, <1>00, <1>15, RateWriteEffect
  <2>2. call.op = "set_rate" /\ Tgt = call.tgt /\ hw \in [Targets -> Settings]
    BY <2>1, StageOps, TargetIs DEF Typed
  <2>3. CASE o = "ok"
    <3>1. hw'[Tgt].rate = call.val
      BY ONLY <1>0, <2>1, <2>2, <2>3 DEF Executed, Settings
    <3>2. QED BY ONLY <1>0, <2>2, <3>1 DEF Did
  <2>4. CASE call'.res = FALSE
    BY ONLY <2>4 DEF Did
  <2>5. QED BY <2>1, <2>3, <2>4
<1>16. CASE SectorWrite(o)
  <2>1. call.op \notin {"set_dpi", "set_rate", "set_lod", "restore"}
    BY <1>16, SectorWriteEffect, StageOps DEF FsStages
  <2>2. QED BY ONLY <1>0, <2>1 DEF Did
<1>17. CASE ReadChain(o)
  <2>1. call.pc \in {"xlive", "live", "headers", "read_sector", "reprog", "host", "led"}
    BY <1>17, ReadChainEffect DEF Chain
  <2>2. call.op \notin {"set_dpi", "set_rate", "set_lod", "restore"}
    BY <2>1, StageOps
  <2>3. QED BY ONLY <1>0, <2>2 DEF Did
<1>18. CASE DeviceInfo(o)
  <2>1. CASE call.i > Len(InfoSections)
    <3>1. call.op \notin {"set_dpi", "set_rate", "set_lod", "restore"}
      BY <1>18, <2>1, DeviceInfoEnds, StageOps DEF FsStages
    <3>2. QED BY ONLY <1>0, <3>1 DEF Did
  <2>2. CASE ~(call.i > Len(InfoSections)) /\ InfoSections[call.i].f \notin call.found
    <3>1. call.op \notin {"set_dpi", "set_rate", "set_lod", "restore"}
      BY <1>18, <2>2, DeviceInfoSkips, StageOps DEF FsStages
    <3>2. QED BY ONLY <1>0, <3>1 DEF Did
  <2>3. CASE ~(call.i > Len(InfoSections)) /\ InfoSections[call.i].f \in call.found
    <3>1. call.op \notin {"set_dpi", "set_rate", "set_lod", "restore"}
      BY <1>18, <2>3, DeviceInfoAsks, StageOps DEF FsStages
    <3>2. QED BY ONLY <1>0, <3>1 DEF Did
  <2>4. QED BY <2>1, <2>2, <2>3
<1>19. CASE Ping(o)
  <2>1. call.op \notin {"set_dpi", "set_rate", "set_lod", "restore"}
    BY <1>19, PingEffect, StageOps DEF FsStages
  <2>2. QED BY ONLY <1>0, <2>1 DEF Did
<1>20. CASE FeaturesDone
  <2>1. call.op \notin {"set_dpi", "set_rate", "set_lod", "restore"}
    BY <1>20, FeaturesDoneEffect, StageOps DEF FsStages
  <2>2. QED BY ONLY <1>0, <2>1 DEF Did
<1>21. CASE FeaturesKnown
  <2>1. call.op \notin {"set_dpi", "set_rate", "set_lod", "restore"}
    BY <1>21, FeaturesKnownEffect, StageOps DEF FsStages
  <2>2. QED BY ONLY <1>0, <2>1 DEF Did
<1>22. CASE RestoreUnneeded
  <2>1. call.op = "restore" /\ ~flag /\ off' = off
    BY <1>22, RestoreUnneededEffect, StageOps
  <2>2. OneKeeper' => off' = {}
    BY ONLY <1>0, <2>1, Kept DEF Kept, OneKeeper, Features, FlagTells
  <2>3. QED BY ONLY <1>0, <2>1, <2>2 DEF Did
<1>23. CASE DpiDone
  <2>1. call.op = "dpi_info" \/ call'.res = FALSE
    BY ONLY Typed, Running, <1>00, <1>23, DpiDoneEffect DEF DpiOps
  <2>2. QED BY ONLY <1>0, <2>1 DEF Did
<1>24. CASE RateNoCode
  <2>1. CASE call.pc = "rate"
    BY ONLY Typed, Running, <1>00, <1>24, <2>1, LegacyNoCodeEffect DEF NoIndexLeads
  <2>2. CASE call.pc = "xrate"
    <3>1. call'.res = FALSE
      BY ONLY Typed, Running, <1>00, <1>24, <2>2, ExtendedNoCodeEffect DEF NoIndexLeads
    <3>2. QED BY ONLY <3>1 DEF Did
  <2>3. QED BY <1>24, <2>1, <2>2 DEF RateNoCode, At
<1>25. CASE Identified
  <2>1. call.op \notin {"set_dpi", "set_rate", "set_lod", "restore"}
    BY <1>25, IdentifiedEffect, StageOps DEF FsStages
  <2>2. QED BY ONLY <1>0, <2>1 DEF Did
<1>p. CASE PairingCount(o)
  <2>1. call.op \notin {"set_dpi", "set_rate", "set_lod", "restore"}
    BY <1>p, PairingCountEffect, StageOps
  <2>2. QED BY ONLY <1>0, <2>1 DEF Did
<1>26. QED
  BY <1>1, <1>2, <1>3, <1>4, <1>5, <1>6, <1>7, <1>8, <1>9, <1>10, <1>11, <1>12, <1>13, <1>14, <1>15,
     <1>16, <1>17, <1>18, <1>19, <1>20, <1>21, <1>22, <1>23, <1>24, <1>25, <1>p
  DEF Step, Stage

-----------------------------------------------------------------------------
(* The battery *)

\* The steps of the calls that begin with the feature set.
EnumSteps(o) ==
  \/ FeatureRoot(o) \/ FeatureEach(o) \/ FeaturesDone \/ FeaturesKnown
  \/ call.op = "battery" /\ get_battery_status(o)
  \/ call.op = "identify" /\ (Identified \/ DeviceInfo(o) \/ Ping(o))

LEMMA StepsOfEnum ==
  ASSUME Typed, Running, NEW o, Step(o), call.op \in {"battery", "identify"}
  PROVE  EnumSteps(o)
<1>1. CASE resolve_feature_index(o)
  BY <1>1, StageOps DEF resolve_feature_index, EnumSteps, At, With, Need, DpiStages
<1>2. CASE FeatureRoot(o) BY <1>2 DEF EnumSteps
<1>3. CASE FeatureEach(o) BY <1>3 DEF EnumSteps
<1>4. CASE get_battery_status(o)
  BY <1>4, StageOps DEF get_battery_status, EnumSteps, At, With, DpiStages
<1>5. CASE get_pairing_info(o) BY <1>5, StageOps DEF get_pairing_info, EnumSteps, At, With, DpiStages
<1>6. CASE PairingDetail(o) BY <1>6, StageOps DEF PairingDetail, EnumSteps, At, With, DpiStages
<1>7. CASE ReadMode(o) BY <1>7, StageOps DEF ReadMode, EnumSteps, At, With, DpiStages
<1>8. CASE disable_onboard_profiles_for_write(o)
  BY <1>8, StageOps DEF disable_onboard_profiles_for_write, EnumSteps, At, With, DpiStages
<1>9. CASE restore_onboard_profiles(o)
  BY <1>9, StageOps DEF restore_onboard_profiles, EnumSteps, At, With, DpiStages
<1>10. CASE DpiCaps(o) BY <1>10, StageOps DEF DpiCaps, EnumSteps, At, With, DpiStages
<1>11. CASE DpiCurrent(o) BY <1>11, StageOps DEF DpiCurrent, EnumSteps, At, With, DpiStages
<1>12. CASE DpiList(o) BY <1>12, StageOps DEF DpiList, EnumSteps, At, With, DpiStages
<1>13. CASE DpiWrite(o) BY <1>13, StageOps DEF DpiWrite, EnumSteps, At, With, DpiStages
<1>14. CASE RateSupported(o) BY <1>14, StageOps DEF RateSupported, EnumSteps, At, With, DpiStages
<1>15. CASE RateWrite(o) BY <1>15, StageOps DEF RateWrite, EnumSteps, At, With, DpiStages
<1>16. CASE SectorWrite(o) BY <1>16, StageOps DEF SectorWrite, EnumSteps, At, With, DpiStages
<1>17. CASE ReadChain(o) BY <1>17, StageOps DEF ReadChain, EnumSteps, At, With, Chain
<1>18. CASE DeviceInfo(o) BY <1>18, StageOps DEF DeviceInfo, EnumSteps, At, With, DpiStages
<1>19. CASE Ping(o) BY <1>19, StageOps DEF Ping, EnumSteps, At, With, DpiStages
<1>20. CASE FeaturesDone BY <1>20 DEF EnumSteps
<1>21. CASE FeaturesKnown BY <1>21 DEF EnumSteps
<1>22. CASE RestoreUnneeded BY <1>22, StageOps DEF RestoreUnneeded, EnumSteps, At, With, DpiStages
<1>23. CASE DpiDone BY <1>23, StageOps DEF DpiDone, EnumSteps, At, With, DpiStages
<1>24. CASE RateNoCode BY <1>24, StageOps DEF RateNoCode, EnumSteps, At, With, DpiStages
<1>25. CASE Identified BY <1>25, StageOps DEF Identified, EnumSteps, At, With, DpiStages
<1>p. CASE PairingCount(o) BY <1>p, StageOps DEF PairingCount, EnumSteps, At, With, DpiStages
<1>26. QED
  BY <1>1, <1>2, <1>3, <1>4, <1>5, <1>6, <1>7, <1>8, <1>9, <1>10, <1>11, <1>12, <1>13, <1>14, <1>15,
     <1>16, <1>17, <1>18, <1>19, <1>20, <1>21, <1>22, <1>23, <1>24, <1>25, <1>p
  DEF Step, Stage

\* The six sources, in order.
LEMMA SourceList ==
  /\ Len(Sources) = 6 /\ Len(BatteryOrder) = 4
  /\ \A t, i : i \in 1..6 => (Has(t, i) <=> Sources[i] \in Features(t) \cup RegistersOf[t])
  /\ \A i \in 1..4 : Sources[i] \notin {"0D", "07"}
  /\ \A i \in 1..6 : Sources[i] = <<"unified", "centurion", "status", "voltage", "0D", "07">>[i]
<1>1. /\ Len(Sources) = 6
      /\ Sources[1] = "unified" /\ Sources[2] = "centurion" /\ Sources[3] = "status"
         /\ Sources[4] = "voltage"
      /\ Sources[5] = "0D" /\ Sources[6] = "07"
  BY DEF Sources, BatteryOrder, BatteryRegisters
<1>2. Len(BatteryOrder) = 4
  BY DEF BatteryOrder
<1>3. \A i \in 1..6 : Sources[i] = <<"unified", "centurion", "status", "voltage", "0D", "07">>[i]
  <2>1. \A i \in 1..6 : i = 1 \/ i = 2 \/ i = 3 \/ i = 4 \/ i = 5 \/ i = 6
    OBVIOUS
  <2>2. QED BY ONLY <1>1, <2>1
<1>4. \A i \in 1..4 : Sources[i] \notin {"0D", "07"}
  BY <1>1
<1>5. QED BY ONLY <1>1, <1>2, <1>3, <1>4 DEF Has

\* The preferred source is the first one the target has.
LEMMA PreferredIs ==
  ASSUME NEW t, NEW i \in 1..6, Has(t, i), \A j \in 1..(i - 1) : ~Has(t, j)
  PROVE  Preferred(t) = Sources[i]
<1>1. \A k \in 1..6 : Has(t, k) /\ (\A j \in 1..(k - 1) : ~Has(t, j)) => k = i
  <2>1. SUFFICES ASSUME NEW k \in 1..6, Has(t, k), \A j \in 1..(k - 1) : ~Has(t, j) PROVE k = i
    OBVIOUS
  <2>2. ~(k < i) BY <2>1
  <2>3. ~(i < k) BY <2>1
  <2>4. QED BY <2>2, <2>3
<1>2. (CHOOSE k \in 1..6 : Has(t, k) /\ \A j \in 1..(k - 1) : ~Has(t, j)) = i
  BY <1>1
<1>3. QED BY <1>2, SourceList DEF Preferred

\* The sources asked so far are those the target does not have.
LEMMA BatteryNext ==
  ASSUME Typed, Missed, WriteReady, BatteryPart, Running, NEW o, Step(o)
  PROVE  BatteryPart'
<1>0. /\ Tgt' = Tgt /\ Tgt \in Targets /\ UNCHANGED FeatureAt /\ call'.op = call.op /\ Running'
         /\ (Clean' => Clean /\ trouble' = trouble)
  BY StepTyped DEF Onward
<1>1. \A t : Features(t)' = Features(t)
  BY <1>0 DEF Features
<1>1a. \A t, i : Has(t, i)' <=> Has(t, i)
  BY ONLY <1>1 DEF Has
<1>1b. RegistersOf[Tgt] \subseteq {"0D", "07"}
  BY <1>0, CallsAssumption
<1>2. ~Returned("battery")'
  BY <1>0 DEF Returned, Running
<1> DEFINE Goal == /\ call'.pc = "features" => call'.i = 1
                   /\ call'.pc = "battery" =>
                        /\ call'.i \in 1..7 /\ call'.found = fset'[Tgt]
                        /\ Clean' /\ call'.found = Features(Tgt)
                           => \A j \in 1..(call'.i - 1) : ~Has(Tgt, j)
                   /\ call'.pc = "ret" => ReadFrom(Tgt, Clean, call.res)'
<1>3. SUFFICES call.op = "battery" => Goal
  <2>1. (fset[Tgt])' = fset'[Tgt] /\ Features(Tgt)' = Features(Tgt)
        /\ \A j : ~Has(Tgt, j)' <=> ~Has(Tgt, j)
    BY ONLY <1>0 DEF Has, Features
  <2>2. SUFFICES ASSUME call.op = "battery", Goal PROVE BatteryPart'
    <3>1. call.op # "battery" => BatteryPart'
      BY ONLY <1>0, <1>2 DEF BatteryPart
    <3>2. QED BY Zenon, <3>1
  <2>3. (call.pc = "battery" =>
           /\ call.i \in 1..7 /\ call.found = fset[Tgt]
           /\ Clean /\ call.found = Features(Tgt) => \A j \in 1..(call.i - 1) : ~Has(Tgt, j))'
    BY ONLY <2>1, <2>2
  <2>4. QED BY ONLY <1>2, <2>2, <2>3 DEF BatteryPart
<1>3a. SUFFICES ASSUME call.op = "battery" PROVE Goal
  OBVIOUS
<1>4. /\ call.pc = "features" => call.i = 1
      /\ call.pc = "battery" =>
           /\ call.i \in 1..7 /\ call.found = fset[Tgt]
           /\ Clean /\ call.found = Features(Tgt) => \A j \in 1..(call.i - 1) : ~Has(Tgt, j)
  BY ONLY <1>3a, BatteryPart, Running DEF BatteryPart
<1>5. CASE FeatureRoot(o)
  <2>1. call'.pc \in {"fs_count", "fs_each", "fs_done"}
    BY ONLY Typed, Running, <1>5, FeatureRootEffect
  <2>2. QED BY ONLY <2>1
<1>6. CASE FeatureEach(o)
  <2>1. call'.pc \in {"fs_each", "fs_done"}
    BY ONLY Typed, Running, <1>6, FeatureEachOver, FeatureEachAsks DEF Counted
  <2>2. QED BY ONLY <2>1
<1>7. CASE FeaturesDone
  <2>1. /\ fset' = [t \in DOMAIN fset \cup {Tgt} |-> IF t = Tgt THEN call.found ELSE fset[t]]
        /\ call'.pc = "battery" /\ call'.i = 1 /\ call'.found = call.found
    BY ONLY Typed, Running, <1>3a, <1>7, FeaturesDoneEffect
       DEF Keeps, Typed, CallTypes, Flow, FsStages, ThenOf
  <2>2. fset'[Tgt] = call.found
    BY ONLY <2>1
  <2>3. QED BY ONLY <2>1, <2>2
<1>8. CASE FeaturesKnown
  <2>1. /\ call.pc = "features" /\ fset' = fset /\ call'.pc = "battery" /\ call'.i = call.i
           /\ call'.found = fset[Tgt]
    BY ONLY Typed, Running, <1>3a, <1>8, FeaturesKnownEffect
       DEF Keeps, Typed, CallTypes, Flow, FsStages, ThenOf
  <2>2. call'.i = 1
    BY ONLY <1>4, <2>1
  <2>3. QED BY ONLY <2>1, <2>2
<1>9. CASE get_battery_status(o)
  <2>0. call.pc = "battery" /\ call.i \in 1..7 /\ call.found = fset[Tgt]
    BY <1>4, <1>9 DEF get_battery_status, At
  <2>1. CASE call.i > Len(Sources)
    <3>1. call'.pc = "ret" /\ call'.res = "none" /\ fset' = fset /\ call.i = 7
      BY ONLY Typed, Running, <1>9, <2>0, <2>1, BatteryNone, SourceList
    <3>2. Clean' /\ fset'[Tgt] = Features(Tgt) => Preferred(Tgt)' = "none"
      BY ONLY <1>0, <1>1a, <1>4, <2>0, <3>1 DEF Preferred
    <3>3. QED BY ONLY <1>0, <1>1, <3>1, <3>2 DEF ReadFrom
  <2>2. CASE ~(call.i > Len(Sources)) /\ call.i <= Len(BatteryOrder)
             /\ Sources[call.i] \notin call.found
    <3>1. call'.pc = "battery" /\ call'.i = call.i + 1 /\ call'.found = call.found /\ fset' = fset
      BY ONLY Typed, Running, <1>9, <2>2, BatterySkips DEF Keeps
    <3>2. call.i \in 1..4
      BY ONLY <2>0, <2>2, SourceList
    <3>3. call.found = Features(Tgt) => ~Has(Tgt, call.i)
      BY ONLY <1>1b, <2>2, <3>2, SourceList
    <3>4. QED BY ONLY <1>0, <1>4, <2>0, <3>1, <3>2, <3>3
  <2>3. CASE ~(call.i > Len(Sources)) /\ ~(call.i <= Len(BatteryOrder)
             /\ Sources[call.i] \notin call.found)
    <3>1. /\ Asked(Sources[call.i] \in Features(Tgt) \cup RegistersOf[Tgt], o)
          /\ fset' = fset /\ call'.found = call.found
          /\ o = "ok" => call'.pc = "ret" /\ call'.res = Sources[call.i]
          /\ o # "ok" => call'.pc = "battery" /\ call'.i = call.i + 1
      BY ONLY Typed, Running, <1>9, <2>3, BatteryAsks DEF Keeps
    <3>2. call.i \in 1..6
      BY ONLY <2>0, <2>3, SourceList
    <3>3. CASE o = "ok"
      <4>1. Sources[call.i] \in Features(Tgt) \cup RegistersOf[Tgt] /\ Has(Tgt, call.i)
        BY ONLY <3>1, <3>2, <3>3, SourceList DEF Asked
      <4>2. Clean' /\ fset'[Tgt] = Features(Tgt) => Preferred(Tgt) = Sources[call.i]
        BY ONLY <1>0, <1>4, <2>0, <3>1, <3>2, <4>1, PreferredIs
      <4>3. Preferred(Tgt)' = Preferred(Tgt)
        BY ONLY <1>0, <1>1a DEF Preferred
      <4>4. QED BY ONLY <1>0, <1>1, <3>1, <3>3, <4>1, <4>2, <4>3 DEF ReadFrom
    <3>4. CASE o # "ok"
      <4>1. Clean' => ~Has(Tgt, call.i)
        BY ONLY <1>0, <3>1, <3>2, <3>4, SourceList DEF Asked
      <4>2. QED BY ONLY <1>0, <1>4, <2>0, <3>1, <3>2, <3>4, <4>1
    <3>5. QED BY <3>3, <3>4
  <2>4. QED BY <2>1, <2>2, <2>3
<1>10. QED BY <1>3a, <1>5, <1>6, <1>7, <1>8, <1>9, StepsOfEnum DEF EnumSteps

-----------------------------------------------------------------------------
(* Identify *)

\* What a call has learnt and listed reads the same after a step that plugs nothing.
LEMMA SweepingHeld ==
  ASSUME UNCHANGED <<FeatureAt, devidx>>, Sweeping(call', fset', Clean')
  PROVE  Sweeping(call, fset, Clean)'
<1>1. UNCHANGED <<FeatureAt, devidx>>
  OBVIOUS
<1>2. Once(call.out)' <=> Once(call'.out)
  BY ONLY <1>1 DEF Once, Honest, Told, Features
<1>3. Once(call.res)' <=> Once(call'.res)
  BY ONLY <1>1 DEF Once, Honest, Told, Features
<1>4. Exact(call.out)' <=> Exact(call'.out)
  BY ONLY <1>1 DEF Exact, Named, Told, Features
<1>5. ListsUpTo(call.out, call.cand - 1)' <=> ListsUpTo(call'.out, call'.cand - 1)
  BY ONLY <1>1, <1>4 DEF ListsUpTo, Listed, Named, Told, Features
<1>6. ListsUpTo(call.out, call.cand - 2)' <=> ListsUpTo(call'.out, call'.cand - 2)
  BY ONLY <1>1, <1>4 DEF ListsUpTo, Listed, Named, Told, Features
<1>7. ListsAll(call.res)' <=> ListsAll(call'.res)
  BY ONLY <1>1 DEF ListsAll, Exact, Listed, Named, Told, Features
<1>8. /\ Features(devidx)' = Features(devidx)
      /\ Named(devidx)' <=> Named(devidx)
      /\ (\A t \in Targets : ~Named(t))' <=> (\A t \in Targets : ~Named(t))
      /\ (\E t \in Targets : Named(t))' <=> (\E t \in Targets : Named(t))
  BY ONLY <1>1 DEF Named, Features
<1>9. Honest(call.id, devidx)' <=> Honest(call'.id, devidx)
  BY ONLY <1>1 DEF Honest, Told, Features
<1>10. Complete(call.id, call.i, call.sub)' <=> Complete(call'.id, call'.i, call'.sub)
  BY ONLY <1>1 DEF Complete, Told, Features
<1>11. QED
  BY <1>2, <1>3, <1>5, <1>6, <1>7, <1>8, <1>9, <1>10 DEF Sweeping, IsId

\* The same of the whole part, where the call goes on as it is.
LEMMA IdentifyStays ==
  ASSUME IdentifyPart, UNCHANGED <<FeatureAt, slow, fset, devidx, call, last, trouble>>
  PROVE  IdentifyPart'
<1>1. UNCHANGED <<FeatureAt, slow, fset, devidx, call, last, trouble>>
  OBVIOUS
<1>2. (Clean' <=> Clean) /\ (Running' <=> Running)
      /\ (Returned("identify")' <=> Returned("identify"))
  BY ONLY <1>1 DEF Clean, Running, Returned
<1>3. ASSUME Running, call.op = "identify" PROVE Sweeping(call, fset, Clean)'
  <2>1. Sweeping(call, fset, Clean)
    BY <1>3 DEF IdentifyPart
  <2>2. Sweeping(call', fset', Clean')
    BY ONLY <1>1, <1>2, <2>1 DEF Sweeping
  <2>3. QED BY ONLY <1>1, <2>2, SweepingHeld
<1>4. ASSUME Returned("identify")
      PROVE  (Once(last.res) /\ (last.clean /\ (\E t \in Targets : Named(t)) => ListsAll(last.res)))'
  <2>1. Once(last.res)
        /\ (last.clean /\ (\E t \in Targets : Named(t)) => ListsAll(last.res))
    BY <1>4 DEF IdentifyPart
  <2>2. Once(last.res)' <=> Once(last.res)
    BY ONLY <1>1 DEF Once, Honest, Told, Features
  <2>3. ListsAll(last.res)' <=> ListsAll(last.res)
    BY ONLY <1>1 DEF ListsAll, Exact, Listed, Named, Told, Features
  <2>4. (\E t \in Targets : Named(t))' <=> (\E t \in Targets : Named(t))
    BY ONLY <1>1 DEF Named, Features
  <2>5. last' = last
    BY ONLY <1>1
  <2>6. QED BY ONLY <2>1, <2>2, <2>3, <2>4, <2>5
<1>5. QED BY ONLY <1>1, <1>2, <1>3, <1>4 DEF IdentifyPart

LEMMA ListedMore ==
  ASSUME NEW S, NEW T, S \subseteq T, Exact(T), NEW n, ListsUpTo(S, n)
  PROVE  ListsUpTo(T, n)
  BY DEF ListsUpTo, Listed

\* Listing another device, or one that has nothing to list, completes the list.
LEMMA ListsOneMore ==
  ASSUME NEW S, NEW n \in Nat, n > 0, ListsUpTo(S, n - 1),
         Named(Candidates[n]) => Listed(S, Told(Candidates[n]))
  PROVE  ListsUpTo(S, n)
<1>1. SUFFICES ASSUME NEW j \in 1..n, Named(Candidates[j]) PROVE Listed(S, Told(Candidates[j]))
  BY DEF ListsUpTo
<1>2. CASE j = n BY <1>1, <1>2
<1>3. CASE j # n
  <2>1. j \in 1..(n - 1) BY <1>3
  <2>2. QED BY <1>1, <2>1 DEF ListsUpTo
<1>4. QED BY <1>2, <1>3

\* same_identified_device keeps the list free of doubles.
LEMMA OnceMore ==
  ASSUME NEW S, Once(S), NEW t, NEW id, Honest(id, t)
  PROVE  Once(IF Listed(S, id) THEN S ELSE S \cup {[tgt |-> t, id |-> id]})
<1>1. CASE Listed(S, id) BY <1>1
<1>2. CASE ~Listed(S, id)
  <2> DEFINE e == [tgt |-> t, id |-> id]
  <2>1. e.tgt = t /\ e.id = id
    OBVIOUS
  <2> HIDE DEF e
  <2>2. \A u \in S \cup {e} : Honest(u.id, u.tgt)
    BY ONLY <2>1, Once(S), Honest(id, t) DEF Once
  <2>3. \A u, v \in S \cup {e} : u.id = v.id => u = v
    BY ONLY <1>2, <2>1, Once(S) DEF Once, Listed
  <2>4. Once(S \cup {e})
    BY ONLY <2>2, <2>3 DEF Once
  <2>5. QED BY ONLY <1>2, <2>4 DEF e
<1>3. QED BY <1>1, <1>2

\* A list with one more device that is all told.
LEMMA ExactMore ==
  ASSUME NEW S, Exact(S), NEW t \in Targets, Named(t)
  PROVE  Exact(IF Listed(S, Told(t)) THEN S ELSE S \cup {[tgt |-> t, id |-> Told(t)]})
<1> DEFINE e == [tgt |-> t, id |-> Told(t)]
<1>1. e.tgt = t /\ e.id = Told(t)
  OBVIOUS
<1> HIDE DEF e
<1>2. Exact(S \cup {e})
  BY ONLY <1>1, Exact(S), Named(t), t \in Targets DEF Exact
<1>3. QED BY <1>2 DEF e

\* A sweep past the last candidate has seen every target.
LEMMA ListsEveryone ==
  ASSUME NEW S, ListsUpTo(S, Len(Candidates))
  PROVE  ListsAll(S)
<1>1. SUFFICES ASSUME NEW t \in Targets, Named(t) PROVE Listed(S, Told(t))
  BY DEF ListsAll, ListsUpTo
<1>2. PICK j \in 1..Len(Candidates) : t = Candidates[j]
  BY CallsAssumption DEF Targets, Range
<1>3. QED BY <1>1, <1>2 DEF ListsUpTo

\* The sections that tell of the identity.
LEMMA Sections ==
  /\ Len(InfoSections) = 5
  /\ InfoSections[4].f = "fw" /\ InfoSections[5].f = "unit"
  BY DEF InfoSections

LEMMA NothingTold ==
  ASSUME NEW t
  PROVE  IsId(NoId) /\ Honest(NoId, t)
  BY DEF IsId, Honest, NoId

\* What the first answer of a section adds is what the device tells.
LEMMA LearntIs ==
  ASSUME NEW id, IsId(id), Honest(id, devidx), NEW f \in Features(devidx)
  PROVE  /\ IsId(Learnt(id, f)) /\ Honest(Learnt(id, f), devidx)
         /\ f = "fw" => Learnt(id, f) = Told(devidx)
         /\ f = "unit" => Learnt(id, f).serial = Told(devidx).serial
         /\ f = "unit" /\ id = Told(devidx) => Learnt(id, f) = Told(devidx)
<1> DEFINE told == IF id.serial = "" THEN Identity[devidx].serial ELSE id.serial
<1>0. /\ id.serial \in {"", Told(devidx).serial} /\ id.model \in {"", Told(devidx).model}
  BY DEF Honest
<1>1. CASE f = "fw"
  <2>1. Features(devidx) \cap {"fw", "unit"} # {} /\ "fw" \in Features(devidx)
    BY <1>1
  <2>2. Told(devidx) = [serial |-> Identity[devidx].serial, model |-> Identity[devidx].model]
    BY ONLY <2>1 DEF Told
  <2>a. Told(devidx).serial = Identity[devidx].serial
    BY ONLY <2>2
  <2>3. told = Identity[devidx].serial
    <3>1. CASE id.serial = ""
      BY ONLY <3>1
    <3>2. CASE id.serial # ""
      BY ONLY <1>0, <2>a, <3>2
    <3>3. QED BY ONLY <3>1, <3>2
  <2>4. Learnt(id, f) = [serial |-> told, model |-> Identity[devidx].model]
    BY ONLY <1>1 DEF Learnt
  <2> HIDE DEF told
  <2>5. Learnt(id, f) = Told(devidx)
    BY ONLY <2>2, <2>3, <2>4
  <2>6. IsId(Told(devidx)) /\ Honest(Told(devidx), devidx)
    BY ONLY <2>2 DEF IsId, Honest
  <2>7. QED BY ONLY <1>1, <2>5, <2>6
<1>2. CASE f = "unit"
  <2>1. Features(devidx) \cap {"fw", "unit"} # {}
    BY <1>2
  <2>2. Told(devidx).serial = Identity[devidx].serial
    BY ONLY <2>1 DEF Told
  <2>3. told = Told(devidx).serial
    <3>1. CASE id.serial = ""
      BY ONLY <2>2, <3>1
    <3>2. CASE id.serial # ""
      BY ONLY <1>0, <3>2
    <3>3. QED BY ONLY <3>1, <3>2
  <2>4. Learnt(id, f) = [id EXCEPT !.serial = told]
    BY ONLY <1>2 DEF Learnt
  <2> HIDE DEF told
  <2>5. Learnt(id, f) = [serial |-> told, model |-> id.model]
    BY ONLY <2>4, IsId(id) DEF IsId
  <2> DEFINE l == Learnt(id, f)
  <2>6. l.serial = Told(devidx).serial /\ l.model = id.model
        /\ l = [serial |-> l.serial, model |-> l.model]
    BY ONLY <2>3, <2>5
  <2> HIDE DEF l
  <2>7. IsId(l) /\ Honest(l, devidx)
    BY ONLY <1>0, <2>6 DEF IsId, Honest
  <2>8. id = Told(devidx) => l = Told(devidx)
    BY ONLY <2>6, IsId(id) DEF IsId
  <2>9. QED BY ONLY <1>2, <2>6, <2>7, <2>8 DEF l
<1>3. CASE f \notin {"fw", "unit"}
  <2>1. Learnt(id, f) = id
    BY ONLY <1>3 DEF Learnt
  <2>2. QED BY ONLY <1>3, <2>1, IsId(id), Honest(id, devidx)
<1>4. QED BY <1>1, <1>2, <1>3

\* After the last section the device has told all it tells.
LEMMA AllTold ==
  ASSUME NEW id, IsId(id), Honest(id, devidx), NEW i \in Nat, i > 5, NEW sub, Complete(id, i, sub)
  PROVE  id = Told(devidx)
<1>0. /\ id.serial \in {"", Told(devidx).serial} /\ id.model \in {"", Told(devidx).model}
  BY DEF Honest
<1>1. CASE "fw" \in Features(devidx)
  BY <1>1 DEF Complete
<1>2. CASE "fw" \notin Features(devidx)
  <2>1. Told(devidx).model = ""
    BY ONLY <1>2 DEF Told
  <2>2. id.serial = Told(devidx).serial
    <3>1. CASE "unit" \in Features(devidx)
      BY <3>1 DEF Complete
    <3>2. CASE "unit" \notin Features(devidx)
      <4>1. Features(devidx) \cap {"fw", "unit"} = {}
        BY ONLY <1>2, <3>2
      <4>2. Told(devidx).serial = ""
        BY ONLY <4>1 DEF Told
      <4>3. QED BY ONLY <1>0, <4>2
    <3>3. QED BY <3>1, <3>2
  <2>3. Told(devidx) = [serial |-> Told(devidx).serial, model |-> Told(devidx).model]
    BY DEF Told
  <2>4. QED BY ONLY <1>0, <2>1, <2>2, <2>3, IsId(id) DEF IsId
<1>3. QED BY <1>1, <1>2

\* A section that the device does not have tells nothing.
LEMMA SkipsSection ==
  ASSUME NEW id, NEW i \in 1..5, NEW sub, Complete(id, i, sub),
         InfoSections[i].f \notin Features(devidx)
  PROVE  Complete(id, i + 1, 0)
<1>1. i = 4 => "fw" \notin Features(devidx)
  BY Sections
<1>2. i = 5 => "unit" \notin Features(devidx)
  BY Sections
<1>3. QED BY ONLY <1>1, <1>2, i \in 1..5, Complete(id, i, sub) DEF Complete

\* An answer is kept, and the next section begins at its first request.
LEMMA TellsSection ==
  ASSUME NEW id, IsId(id), Honest(id, devidx), NEW i \in 1..5, NEW sub \in Nat, Complete(id, i, sub),
         NEW f \in Features(devidx), f = InfoSections[i].f,
         NEW new, new = IF sub = 0 THEN Learnt(id, f) ELSE id,
         NEW j, NEW n, (j = i + 1 /\ n = 0) \/ (j = i /\ n = sub + 1)
  PROVE  Complete(new, j, n)
<1>1. CASE i = 4
  <2>1. f = "fw"
    BY <1>1, Sections
  <2>2. new = Told(devidx)
    <3>1. CASE sub = 0
      BY <2>1, <3>1, LearntIs
    <3>2. CASE sub # 0
      BY <1>1, <2>1, <3>2 DEF Complete
    <3>3. QED BY <3>1, <3>2
  <2>3. QED BY ONLY <2>2 DEF Complete
<1>2. CASE i = 5
  <2>1. f = "unit"
    BY <1>2, Sections
  <2>2. new.serial = Told(devidx).serial
    <3>1. CASE sub = 0
      BY <2>1, <3>1, LearntIs
    <3>2. CASE sub # 0
      BY <1>2, <2>1, <3>2 DEF Complete
    <3>3. QED BY <3>1, <3>2
  <2>3. "fw" \in Features(devidx) => new = Told(devidx)
    <3>1. "fw" \in Features(devidx) => id = Told(devidx)
      BY <1>2 DEF Complete
    <3>2. QED BY <2>1, <3>1, LearntIs
  <2>4. QED BY ONLY <2>2, <2>3 DEF Complete
<1>3. CASE i < 4
  <2>1. ~(j > 4 \/ (j = 4 /\ n > 0)) /\ ~(j > 5 \/ (j = 5 /\ n > 0))
    BY ONLY <1>3, i \in 1..5, sub \in Nat, (j = i + 1 /\ n = 0) \/ (j = i /\ n = sub + 1)
  <2>2. QED BY ONLY <2>1 DEF Complete
<1>4. QED BY <1>1, <1>2, <1>3

\* What a sweep that nothing disturbs has found and listed so far.
LEMMA SweepingStep ==
  ASSUME Typed, Missed, WriteReady, Cached, Running, call.op = "identify", Sweeping(call, fset, Clean),
         NEW o, Step(o)
  PROVE  Sweeping(call', fset', Clean')
<1>0. /\ Tgt' = Tgt /\ Tgt \in Targets /\ UNCHANGED <<FeatureAt, slow, devidx>>
      /\ (Clean' => Clean /\ trouble' = trouble /\ ~slow) /\ call'.sweep = call.sweep
  BY StepTyped DEF Onward, Clean
<1>1. Tgt = devidx /\ call.t \in Nat /\ call.i \in Nat \ {0}
  BY DEF Typed, CallTypes, Flow, Tgt
<1>2. call.then = "identified" \/ call.pc \notin FsStages
  BY DEF Typed, CallTypes, Flow, ThenOf
<1>3. /\ call.cand \in 1..(Len(Candidates) + 1) /\ call.sweep = Budget /\ Once(call.out) /\ (Clean
         => call.t = 0)
      /\ call.pc \in Inner => /\ call.cand > 1 /\ devidx = Candidates[call.cand - 1]
                              /\ Clean => ListsUpTo(call.out, call.cand - 2)
  BY DEF Sweeping
<1> DEFINE Same == /\ call'.cand = call.cand /\ (Clean' => call'.t = 0)
<1>4. ASSUME Same, call'.pc \in Inner, call.pc \in Inner, call'.out = call.out, call'.pc # "features",
             Clean' /\ call'.pc = "fs_each" =>
               /\ call'.dl > 0
               /\ \A j \in 1..Len(FeatureAt[devidx]) : j < call'.i
                  => FeatureAt[devidx][j] \in call'.found,
             Clean' /\ call'.pc \in {"fs_done", "identified", "info"} => call'.found = Features(devidx),
             call'.pc = "info" => /\ Named(devidx) /\ IsId(call'.id) /\ Honest(call'.id, devidx)
                                  /\ Clean' => Complete(call'.id, call'.i, call'.sub)
      PROVE  Sweeping(call', fset', Clean')
  BY ONLY <1>0, <1>3, <1>4 DEF Sweeping, Inner
<1>5. CASE FeatureRoot(o)
  <2>1. /\ Asked(FeatureAt[Tgt] # << >>, o) /\ Keeps({"found", "i", "miss", "dl"})
        /\ call.pc \in {"features", "fs_count"}
        /\ o # "ok" => call'.pc = "fs_done" /\ call'.found = {}
        /\ o = "ok" /\ call.pc = "features" => call'.pc = "fs_count"
        /\ o = "ok" /\ call.pc = "fs_count" => call'.pc = "fs_each" /\ call'.i = 1
           /\ call'.dl = call.t + Budget + Cost(o)
    BY ONLY Typed, Running, <1>5, FeatureRootEffect
  <2>2. Same /\ call'.out = call.out
    BY ONLY <1>0, <1>3, <2>1 DEF Asked, Keeps
  <2>3. call'.pc \in {"fs_done", "fs_count", "fs_each"} /\ call'.pc \in Inner /\ call.pc \in Inner
        /\ call'.pc # "features"
    BY ONLY <2>1 DEF Inner
  <2>4. Clean' /\ call'.pc = "fs_done" => call'.found = Features(devidx)
    <3>1. SUFFICES ASSUME Clean', call'.pc = "fs_done" PROVE call'.found = Features(devidx)
      OBVIOUS
    <3>2. FeatureAt[devidx] = << >> /\ call'.found = {}
      BY ONLY <1>0, <1>1, <2>1, <3>1 DEF Asked
    <3>3. Features(devidx) = {}
      BY <3>2 DEF Features, Range
    <3>4. QED BY <3>2, <3>3
  <2>5. call'.pc = "fs_each" => call'.i = 1 /\ call'.dl > 0
    <3>1. call'.pc = "fs_each" => call'.i = 1 /\ call'.dl = call.t + Budget + Cost(o)
      BY ONLY <2>1
    <3>2. Cost(o) \in Nat
      BY Numbers DEF Cost
    <3>3. QED BY ONLY <1>1, <3>1, <3>2, Numbers
  <2>6. QED BY ONLY <1>4, <2>2, <2>3, <2>4, <2>5
<1>6. CASE FeatureEach(o) /\ Over(Len(FeatureAt[Tgt]))
  <2>1. Unasked /\ Keeps({}) /\ call.pc = "fs_each" /\ call'.pc = "fs_done"
    BY ONLY Typed, Running, <1>6, FeatureEachOver
  <2>2. Same /\ call'.out = call.out /\ call'.found = call.found
    BY ONLY <1>0, <1>3, <2>1 DEF Unasked, Keeps
  <2>3. ASSUME Clean' PROVE call'.found = Features(devidx)
    <3>1. /\ call.dl > 0 /\ call.t = 0
          /\ \A j \in 1..Len(FeatureAt[devidx]) : j < call.i => FeatureAt[devidx][j] \in call.found
      BY <1>0, <2>1, <2>3 DEF Sweeping
    <3>2. call.i > Len(FeatureAt[devidx]) /\ Len(FeatureAt[devidx]) \in Nat
          /\ FeatureAt[devidx] \in Seq(Features(devidx))
      <4>1. call.dl \in Nat
        BY DEF Typed, CallTypes, Flow
      <4>2. QED BY <1>1, <1>6, <3>1, <4>1, FewFeatures DEF Over
    <3>3. \A j \in 1..Len(FeatureAt[devidx]) : FeatureAt[devidx][j] \in call.found
      BY ONLY <1>1, <3>1, <3>2
    <3>4. Features(devidx) \subseteq call.found
      BY ONLY <3>2, <3>3 DEF Features, Range
    <3>5. call.found \subseteq Features(devidx)
      BY <1>1, <2>1 DEF Cached
    <3>6. QED BY <2>2, <3>4, <3>5
  <2>4. call'.pc \in Inner /\ call.pc \in Inner /\ call'.pc \notin {"features", "fs_each", "info"}
    BY ONLY <2>1 DEF Inner
  <2>5. QED BY ONLY <1>4, <2>2, <2>3, <2>4
<1>7. CASE FeatureEach(o) /\ ~Over(Len(FeatureAt[Tgt]))
  <2>1. /\ Asked(TRUE, o) /\ Keeps({"i", "miss", "found"}) /\ call.pc = "fs_each"
           /\ Counted(o = "ok", call')
        /\ call'.found = IF o = "ok" THEN call.found \cup {FeatureAt[Tgt][call.i]} ELSE call.found
    BY ONLY Typed, Running, <1>7, FeatureEachAsks
  <2>2. Same /\ call'.out = call.out /\ call'.dl = call.dl /\ call'.pc = "fs_each"
    BY ONLY <1>0, <1>3, <2>1 DEF Asked, Keeps, Counted
  <2>3. ASSUME Clean'
        PROVE  /\ call'.dl > 0
               /\ \A j \in 1..Len(FeatureAt[devidx]) : j < call'.i
                  => FeatureAt[devidx][j] \in call'.found
    <3>1. /\ call.dl > 0
          /\ \A j \in 1..Len(FeatureAt[devidx]) : j < call.i => FeatureAt[devidx][j] \in call.found
      BY <1>0, <2>1, <2>3 DEF Sweeping
    <3>2. o = "ok" /\ call'.i = call.i + 1 /\ call'.found = call.found \cup {FeatureAt[devidx][call.i]}
      BY ONLY <1>0, <1>1, <2>1, <2>3 DEF Asked, Counted
    <3>3. \A j \in 1..Len(FeatureAt[devidx]) : j < call.i + 1 => j < call.i \/ j = call.i
      BY ONLY <1>1
    <3>4. QED BY ONLY <2>2, <3>1, <3>2, <3>3
  <2>4. call'.pc \in Inner /\ call.pc \in Inner /\ call'.pc \notin {"features", "fs_done", "identified", "info"}
    BY ONLY <2>1, <2>2 DEF Inner
  <2>5. QED BY ONLY <1>4, <2>2, <2>3, <2>4
<1>8. CASE FeaturesDone
  <2>1. Unasked /\ Keeps({"i"}) /\ call.pc = "fs_done" /\ call'.pc = "identified"
    BY ONLY Typed, Running, <1>2, <1>8, FeaturesDoneEffect DEF FsStages
  <2>2. Same /\ call'.out = call.out /\ call'.found = call.found
    BY ONLY <1>0, <1>3, <2>1 DEF Unasked, Keeps
  <2>3. Clean' => call'.found = Features(devidx)
    BY <1>0, <2>1, <2>2 DEF Sweeping
  <2>4. call'.pc \in Inner /\ call.pc \in Inner /\ call'.pc \notin {"features", "fs_each", "info"}
    BY ONLY <2>1 DEF Inner
  <2>5. QED BY ONLY <1>4, <2>2, <2>3, <2>4
<1>9. CASE FeaturesKnown
  <2>1. Tgt \in DOMAIN fset /\ call.pc = "features"
    BY ONLY Typed, Running, <1>9, FeaturesKnownEffect
  <2>2. fset = << >>
    BY <2>1 DEF Sweeping
  <2>3. DOMAIN fset = {}
    BY ONLY <2>2
  <2>4. QED BY <2>1, <2>3
<1>10. CASE Identified
  <2>1. /\ Unasked /\ Keeps({"i", "miss", "id"}) /\ call.pc = "identified"
        /\ call.found \cap {"name", "fw"} = {} => call'.pc = "sweep"
        /\ call.found \cap {"name", "fw"} # {} => call'.pc = "info" /\ call'.i = 1 /\ call'.id = NoId
    BY ONLY Typed, Running, <1>10, IdentifiedEffect
  <2>2. Same /\ call'.out = call.out
    BY ONLY <1>0, <1>3, <2>1 DEF Unasked, Keeps
  <2>3. call.pc \in Inner
    BY ONLY <2>1 DEF Inner
  <2>4. CASE call.found \cap {"name", "fw"} = {}
    <3>1. ASSUME Clean' PROVE ListsUpTo(call'.out, call'.cand - 1)
      <4>1. call.found = Features(devidx)
        BY <1>0, <2>1, <3>1 DEF Sweeping
      <4>2. ~Named(Candidates[call.cand - 1])
        BY ONLY <1>3, <2>3, <2>4, <4>1 DEF Named
      <4>3. call.cand - 1 \in Nat /\ call.cand - 1 > 0 /\ (call.cand - 1) - 1 = call.cand - 2
        BY ONLY <1>3, <2>3, CallsAssumption
      <4>4. ListsUpTo(call.out, call.cand - 2)
        BY ONLY <1>0, <1>3, <2>3, <3>1
      <4>5. ListsUpTo(call.out, call.cand - 1)
        BY ONLY <4>2, <4>3, <4>4, ListsOneMore
      <4>6. QED BY ONLY <2>2, <4>5
    <3>2. QED BY ONLY <1>0, <1>3, <2>1, <2>2, <2>4, <3>1 DEF Sweeping, Inner
  <2>5. CASE call.found \cap {"name", "fw"} # {}
    <3>1. call'.pc \in Inner /\ call'.pc \notin {"features", "fs_each", "fs_done", "identified"}
      BY ONLY <2>1, <2>5 DEF Inner
    <3>2. Clean' => call'.found = Features(devidx)
      <4>1. call'.found = call.found
        BY ONLY <2>1 DEF Keeps
      <4>2. QED BY <1>0, <2>1, <4>1 DEF Sweeping
    <3>3. Named(devidx)
      <4>1. call.found \subseteq Features(devidx)
        BY <1>1, <2>1 DEF Cached
      <4>2. QED BY ONLY <2>5, <4>1 DEF Named
    <3>4. call'.i = 1 /\ call'.id = NoId
      BY ONLY <2>1, <2>5
    <3>5. Complete(NoId, 1, call'.sub)
      BY DEF Complete
    <3>6. IsId(NoId) /\ Honest(NoId, devidx)
      BY NothingTold
    <3>7. QED BY ONLY <1>4, <2>2, <2>3, <3>1, <3>2, <3>3, <3>4, <3>5, <3>6
  <2>6. QED BY <2>4, <2>5
<1>11. CASE DeviceInfo(o) /\ call.i > Len(InfoSections)
  <2>1. /\ Unasked /\ Keeps({"out"}) /\ call.pc = "info" /\ call'.pc = "sweep"
        /\ call'.out = IF Listed(call.out, call.id) THEN call.out
                       ELSE call.out \cup {[tgt |-> devidx, id |-> call.id]}
    BY ONLY Typed, Running, <1>11, DeviceInfoEnds
  <2>2. Same
    BY ONLY <1>0, <1>3, <2>1 DEF Unasked, Keeps
  <2>0. Named(devidx) /\ IsId(call.id) /\ Honest(call.id, devidx)
    BY <2>1 DEF Sweeping
  <2>3. Once(call'.out)
    <3> DEFINE more == IF Listed(call.out, call.id) THEN call.out
                       ELSE call.out \cup {[tgt |-> devidx, id |-> call.id]}
    <3>1. Once(more)
      BY ONLY <1>3, <2>0, OnceMore
    <3>2. call'.out = more
      BY ONLY <2>1
    <3> HIDE DEF more
    <3>3. QED BY ONLY <3>1, <3>2
  <2>4. call.out \subseteq call'.out /\ Listed(call'.out, call.id)
    <3>1. CASE Listed(call.out, call.id)
      BY ONLY <2>1, <3>1
    <3>2. CASE ~Listed(call.out, call.id)
      <4> DEFINE e == [tgt |-> devidx, id |-> call.id]
      <4>1. call'.out = call.out \cup {e} /\ e.id = call.id
        BY ONLY <2>1, <3>2
      <4> HIDE DEF e
      <4>2. QED BY ONLY <4>1 DEF Listed
    <3>3. QED BY ONLY <3>1, <3>2
  <2>5. ASSUME Clean' PROVE ListsUpTo(call'.out, call'.cand - 1)
    <3>1. call.pc \in Inner
      BY ONLY <2>1 DEF Inner
    <3>2. call.cand - 1 \in Nat /\ call.cand - 1 > 0 /\ (call.cand - 1) - 1 = call.cand - 2
      BY ONLY <1>3, <3>1, CallsAssumption
    <3>3. ListsUpTo(call.out, call.cand - 2) /\ devidx = Candidates[call.cand - 1]
      BY ONLY <1>0, <1>3, <3>1, <2>5
    <3>7. call.id = Told(devidx)
      <4>1. Complete(call.id, call.i, call.sub)
        BY <1>0, <2>1, <2>5 DEF Sweeping
      <4>2. call.i > 5
        BY <1>11, Sections
      <4>3. QED BY ONLY <1>1, <2>0, <4>1, <4>2, AllTold
    <3>8. Exact(call'.out)
      <4>1. Exact(call.out)
        BY ONLY <3>3 DEF ListsUpTo
      <4>2. devidx \in Targets
        BY <1>0, <1>1
      <4>3. QED BY ONLY <2>0, <2>1, <3>7, <4>1, <4>2, ExactMore
    <3>4. ListsUpTo(call'.out, call.cand - 2)
      BY ONLY <2>4, <3>3, <3>8, ListedMore
    <3>5. ListsUpTo(call'.out, call.cand - 1)
      BY ONLY <2>4, <3>2, <3>3, <3>4, <3>7, ListsOneMore
    <3>6. QED BY ONLY <2>2, <3>5
  <2>6. QED BY ONLY <1>0, <1>3, <2>1, <2>2, <2>3, <2>5 DEF Sweeping, Inner
<1>12. CASE DeviceInfo(o) /\ ~(call.i > Len(InfoSections))
  <2>1. call.pc = "info" /\ call'.pc = "info" /\ Keeps({"i", "sub", "miss", "id"}) /\ (Unasked
        \/ Asked(TRUE, o))
    BY ONLY Typed, Running, <1>12, DeviceInfoSkips, DeviceInfoAsks DEF Keeps
  <2>2. Same /\ call'.out = call.out /\ call'.found = call.found
    BY ONLY <1>0, <1>3, <2>1 DEF Unasked, Asked, Keeps
  <2>0. /\ Named(devidx) /\ IsId(call.id) /\ Honest(call.id, devidx)
        /\ Clean => Complete(call.id, call.i, call.sub) /\ call.found = Features(devidx)
    BY <2>1 DEF Sweeping
  <2>s. call.found \subseteq Features(devidx) /\ call.sub \in Nat /\ call.i \in 1..5
    <3>1. call.found \subseteq Features(devidx)
      BY <1>1, <2>1 DEF Cached
    <3>2. call.sub \in Nat
      BY DEF Typed, CallTypes, Flow
    <3>3. QED BY <1>1, <1>12, <3>1, <3>2, Sections
  <2>3. call'.pc \in Inner /\ call.pc \in Inner
        /\ call'.pc \notin {"features", "fs_each", "fs_done", "identified"}
    BY ONLY <2>1 DEF Inner
  <2>5. CASE InfoSections[call.i].f \notin call.found
    <3>1. call'.i = call.i + 1 /\ call'.sub = 0 /\ call'.id = call.id
      BY ONLY Typed, Running, <1>12, <2>5, DeviceInfoSkips DEF Keeps
    <3>2. Clean' => Complete(call.id, call.i + 1, 0)
      BY ONLY <1>0, <2>0, <2>s, <2>5, SkipsSection
    <3>3. IsId(call'.id) /\ Honest(call'.id, devidx) /\ (Clean' => Complete(call'.id, call'.i, call'.sub))
      BY ONLY <2>0, <3>1, <3>2
    <3>4. QED BY ONLY <1>0, <1>4, <2>0, <2>1, <2>2, <2>3, <3>3
  <2>6. CASE InfoSections[call.i].f \in call.found
    <3>1. /\ (call'.i = call.i + 1 /\ call'.sub = 0) \/ (call'.i = call.i /\ call'.sub = call.sub + 1)
          /\ call'.id = IF call.sub = 0 /\ o = "ok" THEN Learnt(call.id, InfoSections[call.i].f)
                        ELSE call.id
          /\ Asked(TRUE, o)
      BY ONLY Typed, Running, <1>12, <2>6, DeviceInfoAsks
    <3>2. InfoSections[call.i].f \in Features(devidx)
      BY ONLY <2>s, <2>6
    <3>3. IsId(call'.id) /\ Honest(call'.id, devidx)
      BY ONLY <2>0, <3>1, <3>2, LearntIs
    <3>5. ASSUME Clean' PROVE Complete(call'.id, call'.i, call'.sub)
      <4>1. o = "ok"
        BY ONLY <1>0, <3>1, <3>5 DEF Asked
      <4>2. call'.id = IF call.sub = 0 THEN Learnt(call.id, InfoSections[call.i].f) ELSE call.id
        BY ONLY <3>1, <4>1
      <4>3. Complete(call.id, call.i, call.sub)
        BY ONLY <1>0, <2>0, <3>5
      <4>4. QED BY ONLY <2>0, <2>s, <3>1, <3>2, <4>2, <4>3, TellsSection
    <3>4. QED BY ONLY <1>0, <1>4, <2>0, <2>1, <2>2, <2>3, <3>3, <3>5
  <2>7. QED BY <2>5, <2>6
<1>13. CASE Ping(o)
  <2>1. /\ Asked(Candidates[call.sub + 1] \in Legacy, o) /\ Keeps({"sub", "res"}) /\ call.pc = "ping"
        /\ call'.pc = "ping" \/ (call'.pc = "ret" /\ call'.res \in {{}, {[tgt |-> Candidates[call.sub + 1], id |-> NoId]}})
    BY ONLY Typed, Running, <1>13, PingEffect
  <2>2. Same /\ call'.out = call.out
    BY ONLY <1>0, <1>3, <2>1 DEF Asked, Keeps
  <2>3. Clean' => \A t \in Targets : ~Named(t)
    BY <1>0, <2>1 DEF Sweeping
  <2>4. call'.pc = "ret" =>
          Once(call'.res) /\ (Clean' /\ (\E t \in Targets : Named(t)) => ListsAll(call'.res))
    <3>1. Once({}) /\ \A t : Once({[tgt |-> t, id |-> NoId]})
      BY NothingTold DEF Once
    <3>2. QED BY ONLY <2>1, <2>3, <3>1
  <2>5. QED BY ONLY <1>0, <1>3, <2>1, <2>2, <2>3, <2>4 DEF Sweeping, Inner
<1>14. QED
  BY <1>5, <1>6, <1>7, <1>8, <1>9, <1>10, <1>11, <1>12, <1>13, StepsOfEnum DEF EnumSteps

LEMMA IdentifyNext ==
  ASSUME Typed, Missed, WriteReady, Cached, IdentifyPart, Running, NEW o, Step(o)
  PROVE  IdentifyPart'
<1>1. UNCHANGED <<FeatureAt, devidx>> /\ call'.op = call.op /\ Running'
  BY StepTyped DEF Onward
<1>2. ~Returned("identify")'
  BY <1>1 DEF Returned, Running
<1>3. CASE call.op = "identify"
  <2>1. Sweeping(call', fset', Clean')
    BY <1>3, SweepingStep DEF IdentifyPart
  <2>2. Sweeping(call, fset, Clean)'
    BY ONLY <1>1, <2>1, SweepingHeld
  <2>3. QED BY <1>2, <2>2 DEF IdentifyPart
<1>4. CASE call.op # "identify"
  BY <1>1, <1>2, <1>4 DEF IdentifyPart
<1>5. QED BY <1>3, <1>4

-----------------------------------------------------------------------------
(* Beginning and returning, and the specification *)

\* What a request or a step of a call without one preserves.
LEMMA StepInv ==
  ASSUME CallsInv, Running, NEW o, Step(o)
  PROVE  CallsInv'
<1>1. Typed /\ Cached /\ Kept /\ Missed /\ BatteryPart /\ IdentifyPart /\ WriteReady
      /\ Left(call.op, call.tgt, call.before) /\ (call.pc # "ret" => Listable(hw, call.before))
  BY DEF CallsInv, Worked
<1>2. Typed' /\ Running'
  BY <1>1, StepTyped DEF Onward
<1>3. Cached' /\ Kept' /\ Missed' /\ BatteryPart' /\ IdentifyPart'
  BY <1>1, CachedNext, KeptNext, MissedNext, BatteryNext, IdentifyNext
<1>4. WriteReady' /\ Left(call.op, call.tgt, call.before)'
      /\ (call'.pc = "ret" => Did(call.op, call.tgt, call.val, call.res)')
  BY <1>1, WriteReadyNext, LeftNext, DidNext
<1>7. (call'.pc = "ret" /\ call'.op = "set_dpi" => Gapless(call'.info.got))
        => Listable(hw, call.before)'
  BY <1>1, StepRuns, ListableNext
<1>5. Worked'
  BY ONLY <1>2, <1>4, <1>7 DEF Worked, Running, Listable, AxesOf
<1>6. QED BY <1>2, <1>3, <1>5 DEF CallsInv

LEMMA SweepEffect ==
  ASSUME Typed, Running, Sweep
  PROVE  /\ call'.t = call.t /\ UNCHANGED <<FeatureAt, slow, last, touched, trouble, hw, flag, off>>
         /\ call.pc = "sweep" /\ call.op = "identify"
         /\ SweepOver => /\ UNCHANGED <<idx, fset, devidx>> /\ Keeps({"res", "sub"})
                         /\ call.out # {} => call'.pc = "ret" /\ call'.res = call.out
                            /\ call'.sub = call.sub
                         /\ call.out = {} => call'.pc = "ping" /\ call'.sub = 0
         /\ ~SweepOver => /\ Keeps({"cand", "then"})
                          /\ devidx' = Candidates[call.cand] /\ idx' = {} /\ fset' = << >>
                          /\ call'.pc = "features" /\ call'.cand = call.cand + 1
                             /\ call'.then = "identified"
<1>1. call = [k \in Fields |-> call[k]]
  BY DEF Typed, CallTypes
<1>2. UNCHANGED <<FeatureAt, slow, last, touched, trouble, hw, flag, off>> /\ call.pc = "sweep"
  BY DEF Sweep, plugged, callHistory, At
<1>3. call.op = "identify"
  BY <1>2, StageOps
<1>4. CASE SweepOver
  <2>1. /\ call' = IF call.out # {} THEN Ret(call.out) ELSE [Goto("ping") EXCEPT !.sub = 0]
        /\ UNCHANGED <<idx, fset, devidx>>
    BY <1>4 DEF Sweep
  <2>2. QED BY ONLY <1>1, <1>2, <1>3, <1>4, <2>1 DEF Ret, Goto, Keeps, Fields
<1>5. CASE ~SweepOver
  <2>1. /\ call' = [Goto("features") EXCEPT !.cand = @ + 1, !.then = "identified"]
        /\ devidx' = Candidates[call.cand] /\ idx' = {} /\ fset' = << >>
    BY <1>5 DEF Sweep
  <2>2. QED BY ONLY <1>1, <1>2, <1>3, <1>5, <2>1 DEF Goto, Keeps, Fields
<1>6. QED BY <1>4, <1>5

\* The profiles of the devices matter to no identification that has begun.
LEMMA NothingToRestore ==
  ASSUME Kept, Running, call.op = "identify", OneKeeper
  PROVE  flag = FALSE /\ off = {}
  BY DEF Kept, FlagTells

\* The next candidate, or the end of the sweep.
LEMMA SweepInv ==
  ASSUME CallsInv, Running, Sweep
  PROVE  CallsInv'
<1>1. Typed /\ Cached /\ Kept /\ Missed /\ BatteryPart /\ IdentifyPart /\ WriteReady
      /\ Left(call.op, call.tgt, call.before) /\ (call.pc # "ret" => Listable(hw, call.before))
  BY DEF CallsInv, Worked
<1>2. /\ call'.t = call.t /\ UNCHANGED <<FeatureAt, slow, last, touched, trouble, hw, flag, off>>
      /\ call.pc = "sweep" /\ call.op = "identify"
      /\ call'.op = call.op /\ call'.tgt = call.tgt /\ call'.val = call.val /\ call'.at = call.at
      /\ call'.before = call.before /\ call'.sweep = call.sweep /\ call'.out = call.out
      /\ call'.i = call.i /\ call'.miss = call.miss /\ call'.dl = call.dl /\ call'.info = call.info
      /\ call' = [k \in Fields |-> call'[k]]
      /\ call'.sub \in {call.sub, 0}
      /\ call'.pc \in {"ret", "ping", "features"} /\ (call'.pc = "features"
         => call'.then = "identified")
  BY ONLY <1>1, Running, Sweep, SweepEffect DEF Keeps
<1>3. Running'
  BY <1>2 DEF Running, NoCall
<1>4. Sweeping(call, fset, Clean) /\ call.cand \in 1..(Len(Candidates) + 1)
  BY <1>1, <1>2 DEF IdentifyPart, Sweeping
<1>5. ~SweepOver => call.cand \in 1..Len(Candidates) /\ Candidates[call.cand] \in Targets
  <2>1. Len(Candidates) \in Nat /\ Candidates \in Seq(Targets)
    BY CallsAssumption
  <2>2. QED BY ONLY <1>4, <2>1 DEF SweepOver
<1>6. Typed'
  <2>1. devidx' \in Targets
    BY ONLY <1>1, <1>5, Running, Sweep, SweepEffect DEF Typed
  <2>2. Flow'
    BY ONLY <1>1, <1>2, Running
       DEF Typed, CallTypes, Flow, StageOf, FsStages, DpiStages, Single, EnumOps, ThenOf, Ops
  <2>3. CallTypes'
    BY ONLY <1>1, <1>2, <2>1, <2>2, Running DEF Typed, CallTypes
  <2>4. call' # NoCall
    BY <1>3 DEF Running
  <2>5. QED BY ONLY <1>1, <1>2, <2>1, <2>3, <2>4 DEF Typed
<1>7. Cached'
  <2>1. CacheIsTrue'
    <3>1. CASE SweepOver
      BY <1>1, <1>2, <3>1, SweepEffect, CacheStays DEF Cached
    <3>2. CASE ~SweepOver
      <4>1. idx' = {} /\ fset' = << >>
        BY <1>1, <3>2, SweepEffect
      <4>2. DOMAIN fset' = {}
        BY ONLY <4>1
      <4>3. QED BY ONLY <4>1, <4>2 DEF CacheIsTrue
    <3>3. QED BY <3>1, <3>2
  <2>2. QED BY ONLY <1>1, <1>2, <2>1 DEF Cached, Features
<1>8. Kept'
  <2>1. OneKeeper => flag = FALSE /\ off = {}
    BY <1>1, <1>2, NothingToRestore
  <2>2. QED BY ONLY <1>2, <2>1 DEF Kept, OneKeeper, Features, FlagTells
<1>9. Worked'
  <2>1. Left(call.op, call.tgt, call.before)'
    BY ONLY <1>1, <1>2 DEF Left
  <2>2. WriteReady'
    BY ONLY <1>1, <1>2 DEF WriteReady
  <2>3. Did(call.op, call.tgt, call.val, call.res)'
    BY ONLY <1>2 DEF Did
  <2>5. Listable(hw, call.before)'
    BY ONLY <1>1, <1>2 DEF Listable
  <2>4. QED BY ONLY <1>3, <2>1, <2>2, <2>3, <2>5 DEF Worked, Running, Listable, AxesOf
<1>10. Missed'
  BY ONLY <1>2 DEF Missed
<1>11. BatteryPart'
  BY ONLY <1>2, <1>3 DEF BatteryPart, Returned, Running
<1>12. IdentifyPart'
  <2>1. Clean' <=> Clean
    BY ONLY <1>2 DEF Clean
  <2>2. /\ call.sweep = Budget /\ Once(call.out) /\ (Clean => call.t = 0)
        /\ Clean => ListsUpTo(call.out, call.cand - 1)
    BY <1>2, <1>4 DEF Sweeping
  <2>3. Len(Candidates) \in Nat
    BY CallsAssumption
  <2>4. CASE SweepOver
    <3>1. /\ Keeps({"res", "sub"}) /\ devidx' = devidx
          /\ call.out # {} => call'.pc = "ret" /\ call'.res = call.out
          /\ call.out = {} => call'.pc = "ping"
      BY <1>1, <2>4, SweepEffect
    <3>2. Clean => ListsAll(call.out)
      <4>1. ASSUME Clean PROVE call.cand - 1 = Len(Candidates)
        BY ONLY <1>4, <2>2, <2>3, <2>4, <4>1, Numbers DEF SweepOver
      <4>2. QED BY <2>2, <4>1, ListsEveryone
    <3>3. call.out = {} /\ Clean => \A t \in Targets : ~Named(t)
      BY ONLY <3>2 DEF ListsAll, Listed
    <3>4. call'.cand = call.cand
      BY ONLY <3>1 DEF Keeps
    <3>a. call'.out = call.out /\ call'.sweep = call.sweep /\ call'.t = call.t
      BY ONLY <1>2
    <3>7. Sweeping(call', fset', Clean')
      BY ONLY <1>4, <2>1, <2>2, <3>1, <3>2, <3>3, <3>4, <3>a DEF Sweeping, Inner
    <3>5. Sweeping(call, fset, Clean)'
      BY ONLY <1>2, <3>1, <3>7, SweepingHeld
    <3>6. QED BY ONLY <1>3, <3>5 DEF IdentifyPart, Returned, Running
  <2>5. CASE ~SweepOver
    <3>1. /\ devidx' = Candidates[call.cand] /\ fset' = << >>
          /\ call'.pc = "features" /\ call'.cand = call.cand + 1
      BY <1>1, <2>5, SweepEffect
    <3>2. call'.cand \in 1..(Len(Candidates) + 1) /\ call'.cand - 1 = call.cand
          /\ call'.cand - 2 = call.cand - 1 /\ call'.cand > 1
      BY ONLY <1>5, <2>3, <2>5, <3>1
    <3>3. Sweeping(call, fset, Clean)'
      BY ONLY <1>2, <2>1, <2>2, <3>1, <3>2 DEF Sweeping, Inner, ListsUpTo, Exact, Once, Honest, Told, Named, Features
    <3>4. QED BY ONLY <1>3, <3>3 DEF IdentifyPart, Returned, Running
  <2>6. QED BY <2>4, <2>5
<1>13. QED BY <1>6, <1>7, <1>8, <1>9, <1>10, <1>11, <1>12 DEF CallsInv

LEMMA ReturnEffect ==
  ASSUME Typed, Running, Return
  PROVE  /\ call.pc = "ret" /\ call' = NoCall
         /\ last'.op = call.op /\ last'.tgt = Tgt /\ last'.val = call.val /\ last'.pc = "ret"
            /\ last'.res = call.res
         /\ last'.clean = Clean /\ last'.before = call.before /\ last'.got = call.info.got
         /\ UNCHANGED <<FeatureAt, slow, hw, flag, off, touched, trouble>>
         /\ call.op = "identify" => idx' = {} /\ fset' = << >> /\ devidx' = Node
         /\ call.op # "identify" => UNCHANGED <<idx, fset, devidx>>
<1>1. last' = [op |-> call.op, tgt |-> Tgt, val |-> call.val, t |-> call.t, pc |-> "ret",
               res |-> call.res, found |-> call.found, got |-> call.info.got,
               clean |-> trouble = call.at /\ ~slow, before |-> call.before]
  BY DEF Return
<1>2. /\ last'.op = call.op /\ last'.tgt = Tgt /\ last'.val = call.val /\ last'.pc = "ret"
         /\ last'.res = call.res
      /\ last'.clean = (trouble = call.at /\ ~slow) /\ last'.before = call.before
      /\ last'.got = call.info.got
  BY ONLY <1>1
<1>3. QED BY <1>2 DEF Return, At, plugged, Clean

\* What a call has done is what it returns.
LEMMA ReturnInv ==
  ASSUME CallsInv, Running, Return
  PROVE  CallsInv'
<1>1. Typed /\ Cached /\ Kept /\ Missed /\ BatteryPart /\ IdentifyPart
      /\ Left(call.op, call.tgt, call.before) /\ Did(call.op, call.tgt, call.val, call.res)
      /\ ((call.op = "set_dpi" => Gapless(call.info.got)) => Listable(hw, call.before))
  <2>1. call.pc = "ret"
    BY ReturnEffect DEF CallsInv
  <2>2. QED BY <2>1 DEF CallsInv, Worked
<1>2. /\ call.pc = "ret" /\ call' = NoCall
      /\ last'.op = call.op /\ last'.tgt = Tgt /\ last'.val = call.val /\ last'.pc = "ret"
         /\ last'.res = call.res
      /\ last'.clean = Clean /\ last'.before = call.before /\ last'.got = call.info.got
      /\ UNCHANGED <<FeatureAt, slow, hw, flag, off, touched, trouble>>
      /\ call.op = "identify" => idx' = {} /\ fset' = << >> /\ devidx' = Node
      /\ call.op # "identify" => UNCHANGED <<idx, fset, devidx>>
  BY <1>1, ReturnEffect
<1>3. ~Running' /\ Tgt \in Targets /\ Node \in Targets
  <2>1. Node \in Targets
    BY CallsAssumption DEF Node
  <2>2. Tgt \in Targets
    BY <1>1 DEF Typed, CallTypes, Tgt
  <2>3. QED BY <1>2, <2>1, <2>2 DEF Running
<1>4. call.op # "identify" => Tgt = call.tgt /\ devidx = Node
  BY <1>1, TargetIs DEF Typed, CallTypes
<1>5. Typed'
  BY ONLY <1>1, <1>2, <1>3, <1>4 DEF Typed, Node
<1>6. Cached'
  <2>1. CacheIsTrue'
    <3>1. CASE call.op = "identify"
      <4>1. idx' = {} /\ fset' = << >>
        BY ONLY <1>2, <3>1
      <4>2. DOMAIN fset' = {}
        BY ONLY <4>1
      <4>3. QED BY ONLY <4>1, <4>2 DEF CacheIsTrue
    <3>2. CASE call.op # "identify"
      BY <1>1, <1>2, <3>2, CacheStays DEF Cached
    <3>3. QED BY <3>1, <3>2
  <2>2. QED BY ONLY <1>1, <1>2, <1>3, <2>1 DEF Cached, Features
<1>7. Kept'
  <2>1. call.op = "identify" /\ OneKeeper => flag = FALSE /\ off = {}
    BY <1>1, NothingToRestore
  <2>2. OneKeeper' => OneKeeper
    BY ONLY <1>2 DEF OneKeeper, Features
  <2>3. QED BY ONLY <1>1, <1>2, <1>3, <2>1, <2>2 DEF Kept, FlagTells
<1>8. Worked'
  <2>1. call.op # "identify" => Did(last.op, last.tgt, last.val, last.res)'
    BY ONLY <1>1, <1>2, <1>4 DEF Did, OneKeeper, Features
  <2>2. Left(last.op, last.tgt, last.before)'
    BY ONLY <1>1, <1>2, <1>4 DEF Left
  <2>4. ((last.op = "set_dpi" => Gapless(last.got)) => Listable(hw, last.before))'
    BY ONLY <1>1, <1>2 DEF Listable
  <2>3. QED BY ONLY <1>2, <1>3, <2>1, <2>2, <2>4 DEF Worked, Listable, AxesOf
<1>9. Missed'
  BY ONLY <1>3 DEF Missed
<1>10. BatteryPart'
  <2>1. call.op = "battery" => ReadFrom(Tgt, Clean, call.res)
    BY <1>1, <1>2 DEF BatteryPart
  <2>2. call.op = "battery" => ReadFrom(last.tgt, last.clean, last.res)'
    BY ONLY <1>2, <2>1 DEF ReadFrom, Preferred, Has, Features
  <2>3. QED BY ONLY <1>2, <1>3, <2>2 DEF BatteryPart, Returned
<1>11. IdentifyPart'
  <2>1. call.op = "identify" =>
          Once(call.res) /\ (Clean /\ (\E t \in Targets : Named(t)) => ListsAll(call.res))
    BY <1>1, <1>2 DEF IdentifyPart, Sweeping
  <2>2. call.op = "identify" =>
          (Once(last.res) /\ (last.clean /\ (\E t \in Targets : Named(t)) => ListsAll(last.res)))'
    BY ONLY <1>2, <2>1 DEF ListsAll, Exact, Once, Honest, Told, Named, Features
  <2>3. QED BY ONLY <1>2, <1>3, <2>2 DEF IdentifyPart, Returned
<1>12. QED BY <1>5, <1>6, <1>7, <1>8, <1>9, <1>10, <1>11 DEF CallsInv

LEMMA BeginCallEffect ==
  ASSUME NEW c \in Calls, BeginCall(c)
  PROVE  /\ call = NoCall
         /\ call' = [k \in Fields |-> call'[k]]
         /\ call'.op = c.op /\ call'.tgt = c.tgt /\ call'.val = c.val /\ call'.pc = FirstStage(c.op)
         /\ call'.i = 1 /\ call'.sub = 0 /\ call'.miss = 0 /\ call'.t = 0 /\ call'.dl = Budget
            /\ call'.sweep = Budget
         /\ call'.cand = 1 /\ call'.found = {} /\ call'.out = {} /\ call'.info = NoInfo
         /\ call'.then = (IF c.op = "features" THEN "ret" ELSE c.op)
         /\ call'.at = trouble /\ call'.before = hw
         /\ touched' = FALSE /\ last' = NoCall
         /\ c.op = "identify" => ~flag /\ idx' = {} /\ fset' = << >>
         /\ c.op # "identify" => UNCHANGED <<idx, fset>>
         /\ UNCHANGED <<FeatureAt, slow, hw, devidx, flag, off, trouble>>
<1>1. call' = [op |-> c.op, tgt |-> c.tgt, val |-> c.val, pc |-> FirstStage(c.op),
              i |-> 1, sub |-> 0, miss |-> 0, t |-> 0, dl |-> Budget, sweep |-> Budget,
              cand |-> 1, found |-> {}, out |-> {}, info |-> NoInfo, id |-> NoId,
              then |-> IF c.op = "features" THEN "ret" ELSE c.op,
              res |-> FALSE, at |-> trouble, before |-> hw]
  BY DEF BeginCall
<1>2. /\ call' = [k \in Fields |-> call'[k]]
      /\ call'.op = c.op /\ call'.tgt = c.tgt /\ call'.val = c.val /\ call'.pc = FirstStage(c.op)
      /\ call'.i = 1 /\ call'.sub = 0 /\ call'.miss = 0 /\ call'.t = 0 /\ call'.dl = Budget
         /\ call'.sweep = Budget
      /\ call'.cand = 1 /\ call'.found = {} /\ call'.out = {} /\ call'.info = NoInfo
      /\ call'.then = (IF c.op = "features" THEN "ret" ELSE c.op)
      /\ call'.at = trouble /\ call'.before = hw
  BY ONLY <1>1 DEF Fields
<1>3. QED BY <1>2 DEF BeginCall, plugged

LEMMA FirstStages ==
  ASSUME NEW op \in Ops
  PROVE  /\ StageOf(FirstStage(op), op) /\ FirstStage(op) # "idle"
         /\ FirstStage(op) \notin {"fs_count", "fs_each", "fs_done", "battery", "identified", "info", "list", "write",
                                   "disable", "ret", "pairing", "pair_name", "pair_serial", "ping"}
         /\ FirstStage(op) = "features" <=> op \in {"features", "battery"}
         /\ op = "identify" => FirstStage(op) = "sweep"
<1>1. /\ op \in {"features", "battery"} => FirstStage(op) = "features"
      /\ op = "pairing" => FirstStage(op) = "pair_info"
      /\ op = "dpi_info" => FirstStage(op) = "caps"
      /\ op \in {"set_dpi", "set_lod", "set_rate"} => FirstStage(op) = "mode"
      /\ op = "restore" => FirstStage(op) = "restore"
      /\ op = "get_rate" => FirstStage(op) = "xlive"
      /\ op \in {"sector", "headers", "read_sector", "reprog", "host", "led"} => FirstStage(op) = op
      /\ op = "identify" => FirstStage(op) = "sweep"
  BY DEF FirstStage
<1>2. QED BY ONLY <1>1, op \in Ops
   DEF Ops, StageOf, FsStages, DpiStages, DpiOps, SetOps, EnumOps, Single

\* A new call.
LEMMA BeginCallInv ==
  ASSUME CallsInv, NEW c \in Calls, BeginCall(c)
  PROVE  CallsInv'
<1>1. Typed /\ Cached /\ Kept
  BY DEF CallsInv
<1>2. /\ call = NoCall
      /\ call' = [k \in Fields |-> call'[k]]
      /\ call'.op = c.op /\ call'.tgt = c.tgt /\ call'.val = c.val /\ call'.pc = FirstStage(c.op)
      /\ call'.i = 1 /\ call'.sub = 0 /\ call'.miss = 0 /\ call'.t = 0 /\ call'.dl = Budget
         /\ call'.sweep = Budget
      /\ call'.cand = 1 /\ call'.found = {} /\ call'.out = {} /\ call'.info = NoInfo
      /\ call'.then = (IF c.op = "features" THEN "ret" ELSE c.op)
      /\ call'.at = trouble /\ call'.before = hw
      /\ touched' = FALSE /\ last' = NoCall
      /\ c.op = "identify" => ~flag /\ idx' = {} /\ fset' = << >>
      /\ c.op # "identify" => UNCHANGED <<idx, fset>>
      /\ UNCHANGED <<FeatureAt, slow, hw, devidx, flag, off, trouble>>
  BY ONLY BeginCall(c), c \in Calls, BeginCallEffect
<1>3. c.op \in Ops /\ c.tgt \in Targets /\ (c.op = "identify" => c.tgt = Node) /\ c.val \in Vals
  BY CallsAssumption DEF Node, Vals
<1>4. /\ StageOf(call'.pc, call'.op) /\ call'.pc # "idle"
      /\ call'.pc \notin {"fs_count", "fs_each", "fs_done", "battery", "identified", "info", "list", "write",
                          "disable", "ret", "pairing", "pair_name", "pair_serial", "ping"}
      /\ call'.pc = "features" <=> call'.op \in {"features", "battery"}
      /\ call'.op = "identify" => call'.pc = "sweep"
  BY ONLY <1>2, <1>3, FirstStages
<1>5. Running'
  BY ONLY <1>4 DEF Running, NoCall
<1>6. devidx = Node
  BY <1>1, <1>2 DEF Typed
<1>7. Typed'
  <2>1. call'.pc \in FsStages => call'.then = ThenOf(call'.op)
    BY ONLY <1>2, <1>4 DEF FsStages, ThenOf
  <2>2. Flow'
    BY ONLY <1>2, <1>4, <2>1, Numbers DEF Flow
  <2>3. call'.t \in Nat /\ call'.at \in Nat /\ call'.at <= trouble'
        /\ call'.before \in [Targets -> Settings]
    BY ONLY <1>1, <1>2, Numbers DEF Typed
  <2>4. CallTypes'
    BY ONLY <1>2, <1>3, <1>6, <2>2, <2>3 DEF CallTypes, Node
  <2>5. QED BY ONLY <1>1, <1>2, <1>5, <2>4 DEF Typed, Running
<1>8. Cached'
  <2>1. CacheIsTrue'
    <3>1. CASE c.op = "identify"
      <4>1. idx' = {} /\ fset' = << >>
        BY ONLY <1>2, <3>1
      <4>2. DOMAIN fset' = {}
        BY ONLY <4>1
      <4>3. QED BY ONLY <4>1, <4>2 DEF CacheIsTrue
    <3>2. CASE c.op # "identify"
      BY <1>1, <1>2, <3>2, CacheStays DEF Cached
    <3>3. QED BY <3>1, <3>2
  <2>2. QED BY ONLY <1>1, <1>2, <1>4, <2>1 DEF Cached, Features
<1>9. Kept'
  <2>1. OneKeeper' => FlagTells /\ \A t \in off : <<t, "onboard">> \in idx
    BY ONLY <1>1, <1>2 DEF Kept, OneKeeper, Features
  <2>2. QED BY ONLY <1>2, <2>1 DEF Kept, FlagTells
<1>10. Worked'
  <2>1. Left(call.op, call.tgt, call.before)'
    BY ONLY <1>2 DEF Left
  <2>2. WriteReady'
    BY ONLY <1>2, <1>4, NoInfoOut DEF WriteReady, Infos, InfosOf, NoInfo
  <2>4. Listable(hw, call.before)'
    BY ONLY <1>2 DEF Listable
  <2>3. QED BY ONLY <1>4, <1>5, <2>1, <2>2, <2>4 DEF Worked, Running, Listable, AxesOf
<1>11. Missed'
  BY ONLY <1>2, <1>4, Numbers DEF Missed
<1>12. BatteryPart'
  BY ONLY <1>2, <1>4, <1>5 DEF BatteryPart, Returned, Running
<1>13. IdentifyPart'
  <2>1. call'.cand \in 1..(Len(Candidates) + 1) /\ call'.cand - 1 = 0
    BY <1>2, CallsAssumption
  <2>2. Once(call.out)' /\ Exact(call.out)' /\ \A j \in 1..0 : FALSE
    BY ONLY <1>2 DEF Once, Exact
  <2>5. ListsUpTo(call.out, call.cand - 1)'
    BY ONLY <2>1, <2>2 DEF ListsUpTo
  <2>3. call'.op = "identify" => Sweeping(call, fset, Clean)'
    BY ONLY <1>2, <1>4, <2>1, <2>2, <2>5 DEF Sweeping, Inner
  <2>4. QED BY ONLY <1>5, <2>3 DEF IdentifyPart, Returned, Running
<1>14. QED BY <1>7, <1>8, <1>9, <1>10, <1>11, <1>12, <1>13 DEF CallsInv

\* The DPI button of the mouse, at any time.
LEMMA ButtonInv ==
  ASSUME CallsInv, NEW t \in Targets, NEW v \in Levels, Button(t, v)
  PROVE  CallsInv'
<1>1. Typed /\ Cached /\ Kept /\ Worked /\ Missed /\ BatteryPart /\ IdentifyPart
  BY DEF CallsInv
<1>2. /\ UNCHANGED <<FeatureAt, slow, idx, fset, devidx, flag, off, call, last, trouble>>
      /\ touched' = TRUE /\ hw' = [hw EXCEPT ![t].x = v, ![t].y = v]
  BY DEF Button, plugged, caches
<1>3. /\ hw' \in [Targets -> Settings]
      /\ \A u \in Targets : hw'[u].lod = hw[u].lod /\ hw'[u].rate = hw[u].rate
      /\ \A u \in Targets : hw'[u].x \in {hw[u].x, v} /\ hw'[u].y \in {hw[u].y, v}
  <2>1. hw \in [Targets -> Settings]
    BY <1>1 DEF Typed
  <2> DEFINE a == [hw[t] EXCEPT !.x = v]
             b == [a EXCEPT !.y = v]
             h == [hw EXCEPT ![t] = a]
  <2>v. v \in Axes
    BY DEF Axes
  <2>2. a \in Settings /\ a.lod = hw[t].lod /\ a.rate = hw[t].rate /\ a.x = v
    BY <2>1, <2>v DEF Settings
  <2>3. h \in [Targets -> Settings] /\ h[t] = a /\ \A u \in Targets : u # t => h[u] = hw[u]
    BY ONLY <2>1, <2>2, t \in Targets
  <2>4. hw' = [h EXCEPT ![t].y = v]
    BY ONLY <1>2
  <2> HIDE DEF a, h
  <2>5. b \in Settings /\ b.lod = a.lod /\ b.rate = a.rate /\ b.x = v /\ b.y = v
    BY ONLY <2>2, <2>v DEF Settings
  <2>6. hw' = [h EXCEPT ![t] = b]
    BY ONLY <2>3, <2>4
  <2> HIDE DEF b
  <2>7. hw' \in [Targets -> Settings] /\ hw'[t] = b /\ \A u \in Targets : u # t => hw'[u] = h[u]
    BY ONLY <2>3, <2>5, <2>6, t \in Targets
  <2>8. QED BY ONLY <2>2, <2>3, <2>5, <2>7
<1>4. Typed'
  BY ONLY <1>1, <1>2, <1>3 DEF Typed, Running, CallTypes, Flow
<1>4a. \A before : Listable(hw, before) => Listable(hw', before)
  BY ONLY <1>3, v \in Levels DEF Listable, AxesOf
<1>5. Cached' /\ Kept' /\ Missed'
  BY ONLY <1>1, <1>2 DEF Cached, CacheIsTrue, Kept, OneKeeper, FlagTells, Missed, Running, Features, Tgt
<1>6. Worked'
  <2>1. OneKeeper' <=> OneKeeper
    BY ONLY <1>2 DEF OneKeeper, Features
  <2>2. Running => /\ call.pc = "ret" => Did(call.op, call.tgt, call.val, call.res)'
                   /\ Left(call.op, call.tgt, call.before)'
                   /\ WriteReady'
                   /\ ((call.pc = "ret" /\ call.op = "set_dpi" => Gapless(call.info.got)) =>
                         Listable(hw, call.before))'
    <3>1. SUFFICES ASSUME Running
                   PROVE  /\ call.pc = "ret" => Did(call.op, call.tgt, call.val, call.res)'
                          /\ Left(call.op, call.tgt, call.before)'
                          /\ WriteReady'
                          /\ ((call.pc = "ret" /\ call.op = "set_dpi" => Gapless(call.info.got)) =>
                                Listable(hw, call.before))'
      OBVIOUS
    <3>2. /\ call.tgt \in Targets /\ Left(call.op, call.tgt, call.before) /\ WriteReady
          /\ call.pc = "ret" => Did(call.op, call.tgt, call.val, call.res)
          /\ (call.pc = "ret" /\ call.op = "set_dpi" => Gapless(call.info.got)) =>
               Listable(hw, call.before)
      BY <1>1, <3>1 DEF Typed, CallTypes, Worked
    <3>3. call.pc = "ret" => Did(call.op, call.tgt, call.val, call.res)'
      BY ONLY <1>2, <1>3, <2>1, <3>2 DEF Did
    <3>4. Left(call.op, call.tgt, call.before)'
      BY ONLY <1>2, <1>3, <3>2 DEF Left
    <3>5. WriteReady'
      BY ONLY <1>2, <3>2 DEF WriteReady
    <3>7. ((call.pc = "ret" /\ call.op = "set_dpi" => Gapless(call.info.got)) =>
             Listable(hw, call.before))'
      BY ONLY <1>2, <1>4a, <3>2
    <3>6. QED BY <3>3, <3>4, <3>5, <3>7
  <2>3. call = NoCall /\ last.pc = "ret" =>
          /\ last.tgt \in Targets
          /\ last.op # "identify" => Did(last.op, last.tgt, last.val, last.res)'
          /\ Left(last.op, last.tgt, last.before)'
          /\ ((last.op = "set_dpi" => Gapless(last.got)) => Listable(hw, last.before))'
    <3>1. SUFFICES ASSUME call = NoCall, last.pc = "ret"
                   PROVE  /\ last.tgt \in Targets
                          /\ last.op # "identify" => Did(last.op, last.tgt, last.val, last.res)'
                          /\ Left(last.op, last.tgt, last.before)'
                          /\ ((last.op = "set_dpi" => Gapless(last.got)) => Listable(hw, last.before))'
      OBVIOUS
    <3>2. /\ last.tgt \in Targets /\ Left(last.op, last.tgt, last.before)
          /\ last.op # "identify" => Did(last.op, last.tgt, last.val, last.res)
          /\ (last.op = "set_dpi" => Gapless(last.got)) => Listable(hw, last.before)
      BY <1>1, <3>1 DEF Worked
    <3>3. last.op # "identify" => Did(last.op, last.tgt, last.val, last.res)'
      BY ONLY <1>2, <1>3, <2>1, <3>2 DEF Did
    <3>4. Left(last.op, last.tgt, last.before)'
      BY ONLY <1>2, <1>3, <3>2 DEF Left
    <3>6. ((last.op = "set_dpi" => Gapless(last.got)) => Listable(hw, last.before))'
      BY ONLY <1>2, <1>4a, <3>2
    <3>5. QED BY <3>2, <3>3, <3>4, <3>6
  <2>4. QED BY ONLY <1>2, <2>2, <2>3 DEF Worked, Running, Listable, AxesOf
<1>7. BatteryPart'
  BY ONLY SMTT(30), <1>1, <1>2 DEF BatteryPart, Running, Returned, ReadFrom, Preferred, Has, Features, Clean, Tgt
<1>8. IdentifyPart'
  BY ONLY <1>1, <1>2, IdentifyStays
<1>9. QED BY <1>4, <1>5, <1>6, <1>7, <1>8 DEF CallsInv

LEMMA CallsStutter ==
  ASSUME CallsInv, UNCHANGED callVars
  PROVE  CallsInv'
<1>1. UNCHANGED <<FeatureAt, slow, off, hw, idx, fset, devidx, flag, call, last, touched, trouble>>
  BY DEF callVars
<1>2. Typed' /\ Cached' /\ Kept' /\ Missed'
  BY <1>1 DEF CallsInv, Typed, Running, CallTypes, Flow, Cached, CacheIsTrue, Kept, OneKeeper,
     FlagTells, Missed, Features, Tgt
<1>3. Worked'
  BY <1>1 DEF CallsInv, Worked, Running, Did, Left, WriteReady, Listable, AxesOf, OneKeeper, Features
<1>4. BatteryPart'
  BY SMTT(30), <1>1 DEF CallsInv, BatteryPart, Running, Returned, ReadFrom, Preferred, Has, Features, Clean, Tgt
<1>5. IdentifyPart'
  BY <1>1, IdentifyStays DEF CallsInv
<1>6. QED BY <1>2, <1>3, <1>4, <1>5 DEF CallsInv

\* A new object addresses the node, and the devices are in their factory mode.
LEMMA CallsInitInv == CallsInit => CallsInv
<1>1. SUFFICES ASSUME CallsInit PROVE CallsInv
  OBVIOUS
<1>2. call = NoCall /\ last = NoCall /\ off = {} /\ idx = {} /\ fset = << >> /\ devidx = Node
      /\ flag = FALSE
      /\ trouble = 0 /\ touched = FALSE /\ FeatureAt \in Topologies /\ slow \in BOOLEAN
  BY <1>1 DEF CallsInit
<1>3. ~Running /\ last.pc = "idle"
  BY <1>2 DEF Running, NoCall
<1>4. Typed
  <2>1. Node \in Targets /\ trouble \in 0..MaxTrouble
    BY <1>2, CallsAssumption DEF Node
  <2>2. DpiX \in Levels /\ DpiY \in Levels
    BY ListAssumption
  <2>3. hw \in [Targets -> Settings]
    <3>1. [mode |-> "onboard", x |-> DpiX, y |-> DpiY, lod |-> 1, rate |-> 1000] \in Settings
      BY ONLY <2>2 DEF Settings, Axes
    <3>2. QED BY <1>1, <3>1 DEF CallsInit
  <2>4. QED BY ONLY <1>2, <1>3, <2>1, <2>3 DEF Typed
<1>5. DOMAIN fset = {}
  BY ONLY <1>2
<1>6. Cached /\ Kept /\ Missed /\ Worked /\ BatteryPart /\ IdentifyPart
  BY ONLY <1>2, <1>3, <1>5
     DEF Cached, CacheIsTrue, Kept, FlagTells, Missed, Worked, BatteryPart, IdentifyPart, Returned
<1>7. QED BY <1>4, <1>6 DEF CallsInv

LEMMA CallsNextInv ==
  ASSUME CallsInv, [CallsNext]_callVars
  PROVE  CallsInv'
<1>1. CASE UNCHANGED callVars
  BY <1>1, CallsStutter
<1>2. ASSUME NEW c \in Calls, BeginCall(c) PROVE CallsInv'
  BY <1>2, BeginCallInv
<1>3. ASSUME NEW o, Step(o) PROVE CallsInv'
  <2>1. Running
    <3>1. call.pc # "idle"
      BY <1>3 DEF Step, Stage, resolve_feature_index, FeatureRoot, FeatureEach, get_battery_status,
         PairingCount, get_pairing_info, PairingDetail, ReadMode, disable_onboard_profiles_for_write, restore_onboard_profiles,
            DpiCaps, DpiCurrent,
         DpiList, DpiWrite, RateSupported, RateWrite, SectorWrite, ReadChain, DeviceInfo, Ping,
            FeaturesDone,
         FeaturesKnown, RestoreUnneeded, DpiDone, RateNoCode, Identified, At, With, Need, Chain
    <3>2. QED BY <3>1 DEF Running, NoCall
  <2>2. QED BY <1>3, <2>1, StepInv
<1>4. CASE Sweep
  <2>1. Running BY <1>4 DEF Sweep, At, Running, NoCall
  <2>2. QED BY <1>4, <2>1, SweepInv
<1>5. CASE Return
  <2>1. Running BY <1>5 DEF Return, At, Running, NoCall
  <2>2. QED BY <1>5, <2>1, ReturnInv
<1>6. ASSUME NEW t \in Targets, NEW v \in Levels, Button(t, v) PROVE CallsInv'
  BY <1>6, ButtonInv
<1>7. CASE CallsNext
  BY <1>2, <1>3, <1>4, <1>5, <1>6, <1>7 DEF CallsNext, Local, Step
<1>8. QED BY <1>1, <1>7

\* The state of the calls keeps its invariant.
LEMMA CallsAlways == CallsSpec => []CallsInv
<1>1. CallsInit => CallsInv
  BY CallsInitInv
<1>2. CallsInv /\ [CallsNext]_callVars => CallsInv'
  BY CallsNextInv
<1>3. QED BY <1>1, <1>2, PTL DEF CallsSpec

\* set_dpi, set_polling_rate, set_lift_off_distance and restore_onboard_profiles:
\* what reports success is done, for any topology, any calls and any requests that
\* are refused, lost or executed after their deadline.
THEOREM WritesAreTrue == CallsSpec => []TrueIsDone
<1>1. CallsInv => TrueIsDone
  <2>1. SUFFICES ASSUME CallsInv PROVE TrueIsDone
    OBVIOUS
  <2>2. OneKeeper => FlagTells
    BY <2>1 DEF CallsInv, Kept
  <2>3. ASSUME call = NoCall, last.pc = "ret", last.op # "identify" PROVE Did(last.op, last.tgt,
       last.val, last.res)
    BY <2>1, <2>3 DEF CallsInv, Worked
  <2>4. QED BY <2>2, <2>3 DEF TrueIsDone, Returned, Did
<1>2. QED BY <1>1, CallsAlways, PTL

\* Whatever was missed of the list get_dpi_info reads, no call sets a device to a value
\* it does not list, unless set_dpi has gone by a list with a gap; and no call changes
\* what it is not about.  Of the decoding of a list it assumes, in ListAssumption, that
\* a list that is cut short, anywhere, decodes to levels of the whole one.
THEOREM OthersAreKept == CallsSpec => []OthersKept
<1>1. CallsInv => OthersKept
  <2>1. SUFFICES ASSUME CallsInv PROVE OthersKept
    OBVIOUS
  <2>2. hw \in [Targets -> Settings]
    BY <2>1 DEF CallsInv, Typed
  <2>3. \A t \in Targets : hw[t].lod \in 1..3
    BY ONLY <2>2 DEF Settings
  <2>4. call = NoCall /\ last.pc = "ret" =>
          /\ Left(last.op, last.tgt, last.before)
          /\ (last.op = "set_dpi" => Gapless(last.got)) => Listable(hw, last.before)
    BY <2>1 DEF CallsInv, Worked
  <2>5. QED BY ONLY <2>3, <2>4 DEF OthersKept, Returned, Left, Listable, AxesOf
<1>2. QED BY <1>1, CallsAlways, PTL

\* feature_indices_, feature_sets_ and get_battery_status tell the devices behind one
\* node apart; and what identify_logitech_devices lists is, whichever replies of
\* get_device_info are lost, what the device has told or nothing, each identity once,
\* and every device that can be told apart if none is lost.
THEOREM TargetsStayApart == CallsSpec => []TargetsKeptApart
<1>1. CallsInv => TargetsKeptApart
  <2>1. SUFFICES ASSUME CallsInv PROVE TargetsKeptApart
    OBVIOUS
  <2>2. CallsTypeOK
    <3>1. trouble <= MaxTrouble /\ \A t \in off : "onboard" \in Features(t)
      BY <2>1, Numbers DEF CallsInv, Typed, Cached
    <3>2. ASSUME call # NoCall PROVE call.miss <= Streak /\ call.t \in Nat
      <4>1. call.miss \in 0..Streak /\ call.t \in Nat
        BY <2>1, <3>2 DEF CallsInv, Typed, Running, CallTypes, Flow
      <4>2. QED BY <4>1, Numbers
    <3>3. QED BY <3>1, <3>2 DEF CallsTypeOK
  <2>3. CacheIsTrue
    BY <2>1 DEF CallsInv, Cached
  <2>4. BatteryOfTarget
    BY <2>1 DEF CallsInv, BatteryPart, BatteryOfTarget, ReadFrom
  <2>5. IdentifiesOnce
    <3>1. SUFFICES ASSUME Returned("identify")
                   PROVE  /\ Once(last.res)
                          /\ last.clean /\ Identifiable # {} =>
                               {u.id : u \in last.res} = {Told(t) : t \in Identifiable}
      BY DEF IdentifiesOnce, Once, Honest
    <3>2. Once(last.res) /\ (last.clean /\ (\E t \in Targets : Named(t)) => ListsAll(last.res))
      BY <2>1, <3>1 DEF CallsInv, IdentifyPart
    <3>3. Identifiable = {t \in Targets : Named(t)}
      BY DEF Identifiable, Named
    <3>4. ASSUME last.clean, Identifiable # {}
          PROVE  {u.id : u \in last.res} = {Told(t) : t \in Identifiable}
      <4>1. ListsAll(last.res)
        BY ONLY <3>2, <3>3, <3>4
      <4>2. \A u \in last.res : u.tgt \in Identifiable /\ u.id = Told(u.tgt)
        BY ONLY <3>3, <4>1 DEF ListsAll, Exact
      <4>3. \A t \in Identifiable : \E u \in last.res : u.id = Told(t)
        BY ONLY <3>3, <4>1 DEF ListsAll, Listed
      <4>4. QED BY ONLY <4>2, <4>3
    <3>5. QED BY <3>2, <3>4
  <2>6. QED BY <2>2, <2>3, <2>4, <2>5 DEF TargetsKeptApart
<1>2. QED BY <1>1, CallsAlways, PTL
=============================================================================
