---------------------------- MODULE HaukApiProofs ----------------------------
(***************************************************************************)
(* Theorems about HaukApi, for any sets of sessions, links, PINs and       *)
(* nicknames, any number of requests in flight, either store, failing or   *)
(* not: lemmas about the records, the types, and the invariants that hold  *)
(* however requests interleave (consent, no encrypted session in a group,  *)
(* solo shares that end with their session, sessions that keep their end). *)
(***************************************************************************)
EXTENDS HaukApi, SelectionProofs

------------------------------------------------------------------------------
(* Records: what their operators return, leave alone and may drop *)

\* RemoveAt leaves out one place and closes the gap.
LEMMA RemoveAtPlaces ==
  ASSUME NEW S, NEW s \in Seq(S), NEW i \in 1..Len(s)
  PROVE  /\ RemoveAt(s, i) \in Seq(S) /\ Len(RemoveAt(s, i)) = Len(s) - 1
         /\ \A k \in 1..Len(RemoveAt(s, i)) :
               RemoveAt(s, i)[k] = IF k < i THEN s[k] ELSE s[k+1]
<1> DEFINE a == SubSeq(s, 1, i-1)
           b == SubSeq(s, i+1, Len(s))
<1>1. a \in Seq(S) /\ b \in Seq(S) /\ Len(a) = i-1 /\ Len(b) = Len(s) - i
  BY SubSeqProperties
<1>2. /\ \A k \in 1..Len(a) : a[k] = s[k]
      /\ \A k \in 1..Len(b) : b[k] = s[i+k]
  OBVIOUS
<1>3. a \o b \in Seq(S) /\ Len(a \o b) = Len(s) - 1
  <2> HIDE DEF a, b
  <2> QED BY <1>1
<1>4. \A k \in 1..Len(a \o b) : (a \o b)[k] = IF k <= i - 1 THEN s[k] ELSE s[k+1]
  <2> HIDE DEF a, b
  <2>1. \A k \in 1..Len(a) + Len(b) :
           (a \o b)[k] = IF k <= Len(a) THEN a[k] ELSE b[k - Len(a)]
    BY <1>1, ConcatProperties
  <2>2. ASSUME NEW k \in 1..Len(a \o b), k <= i - 1 PROVE (a \o b)[k] = s[k]
    <3>1. k \in 1..Len(a) /\ k \in 1..Len(a) + Len(b)
      BY <1>1, <1>3, <2>2
    <3>2. (a \o b)[k] = a[k]
      BY <2>1, <3>1
    <3> QED BY <1>2, <3>1, <3>2
  <2>3. ASSUME NEW k \in 1..Len(a \o b), ~(k <= i - 1) PROVE (a \o b)[k] = s[k+1]
    <3>1. k - Len(a) \in 1..Len(b) /\ i + (k - Len(a)) = k + 1
      BY <1>1, <1>3, <2>3
    <3>2. (a \o b)[k] = b[k - Len(a)]
      BY <1>1, <1>3, <2>1, <2>3
    <3>3. b[k - Len(a)] = s[i + (k - Len(a))]
      BY <1>2, <3>1
    <3> QED BY <3>1, <3>2, <3>3
  <2> QED BY <2>2, <2>3
<1>5. RemoveAt(s, i) = a \o b
  BY DEF RemoveAt
<1> HIDE DEF a, b
<1>6. \A k \in 1..Len(a \o b) : k <= i - 1 <=> k < i
  BY <1>3
<1> QED BY <1>3, <1>4, <1>5, <1>6

\* Its elements are elements of the sequence it is given.
LEMMA RemoveAtProperties ==
  ASSUME NEW S, NEW s \in Seq(S), NEW i \in 1..Len(s)
  PROVE  /\ RemoveAt(s, i) \in Seq(S)
         /\ \A k \in 1..Len(RemoveAt(s, i)) : \E j \in 1..Len(s) : RemoveAt(s, i)[k] = s[j]
<1> DEFINE t == RemoveAt(s, i)
<1>1. /\ t \in Seq(S) /\ Len(t) = Len(s) - 1
      /\ \A k \in 1..Len(t) : t[k] = IF k < i THEN s[k] ELSE s[k+1]
  BY RemoveAtPlaces
<1> HIDE DEF t
<1>2. ASSUME NEW k \in 1..Len(t) PROVE \E j \in 1..Len(s) : t[k] = s[j]
  BY <1>1
<1> QED BY <1>1, <1>2 DEF t

\* So does RemoveFirst, whether or not it finds the element.
LEMMA RemoveFirstProperties ==
  ASSUME NEW S, NEW s \in Seq(S), NEW e
  PROVE  /\ RemoveFirst(s, e) \in Seq(S)
         /\ \A k \in 1..Len(RemoveFirst(s, e)) :
               \E j \in 1..Len(s) : RemoveFirst(s, e)[k] = s[j]
<1>1. CASE \E i \in 1..Len(s) : s[i] = e
  <2> DEFINE I == {i \in 1..Len(s) : s[i] = e}
  <2>1. Min(I) \in 1..Len(s)
    <3>1. I \subseteq Nat /\ I # {} BY <1>1
    <3> QED BY <3>1, NatMin
  <2>2. SelectInSeq(s, LAMBDA v : v = e) = Min(I)
    BY <1>1 DEF SelectInSeq
  <2>3. RemoveFirst(s, e) = RemoveAt(s, Min(I))
    BY <1>1, <2>2, Zenon DEF RemoveFirst
  <2> HIDE DEF I
  <2> QED BY <2>1, <2>3, RemoveAtProperties
<1>2. CASE ~ \E i \in 1..Len(s) : s[i] = e
  BY <1>2 DEF RemoveFirst
<1> QED BY <1>1, <1>2

------------------------------------------------------------------------------

\* Adding a target (session.go) appends it and changes nothing else.
LEMMA AddTargetProperties ==
  ASSUME NEW s \in Session, NEW l \in Links
  PROVE  /\ AddTarget(s, l) \in Session
         /\ AddTarget(s, l).exp = s.exp /\ AddTarget(s, l).enc = s.enc
         /\ \A i \in 1..Len(AddTarget(s, l).targets) :
               \/ AddTarget(s, l).targets[i] = l
               \/ i \in 1..Len(s.targets) /\ AddTarget(s, l).targets[i] = s.targets[i]
<1> DEFINE t == Append(s.targets, l)
<1>1. s.targets \in Seq(Links) BY DEF Session
<1>2. t \in Seq(Links) /\ Len(t) = Len(s.targets) + 1
  BY <1>1
<1>3. \A i \in 1..Len(t) : t[i] = l \/ (i \in 1..Len(s.targets) /\ t[i] = s.targets[i])
  BY <1>1
<1>4. AddTarget(s, l) = [s EXCEPT !.targets = t]
  BY DEF AddTarget
<1> HIDE DEF t
<1> QED BY <1>2, <1>3, <1>4 DEF Session

\* Removing a target leaves only targets that were there.
LEMMA RemoveTargetProperties ==
  ASSUME NEW s \in Session, NEW l
  PROVE  /\ RemoveTarget(s, l) \in Session
         /\ RemoveTarget(s, l).exp = s.exp /\ RemoveTarget(s, l).enc = s.enc
         /\ \A i \in 1..Len(RemoveTarget(s, l).targets) :
               \E j \in 1..Len(s.targets) : RemoveTarget(s, l).targets[i] = s.targets[j]
<1> DEFINE t == RemoveFirst(s.targets, l)
<1>1. s.targets \in Seq(Links) BY DEF Session
<1>2. /\ t \in Seq(Links)
      /\ \A i \in 1..Len(t) : \E j \in 1..Len(s.targets) : t[i] = s.targets[j]
  BY <1>1, RemoveFirstProperties
<1>3. RemoveTarget(s, l) = [s EXCEPT !.targets = t]
  BY DEF RemoveTarget
<1> HIDE DEF t
<1> QED BY <1>2, <1>3 DEF Session

\* Adding a location changes the locations alone, and keeps no more than the
\* configured number of them.
LEMMA AddPointProperties ==
  ASSUME NEW s \in Session, NEW p \in Points
  PROVE  /\ AddPoint(s, p) \in Session
         /\ AddPoint(s, p).exp = s.exp /\ AddPoint(s, p).enc = s.enc
         /\ AddPoint(s, p).targets = s.targets
         /\ Len(AddPoint(s, p).points) <= MaxCachedPts
<1> DEFINE pts == Append(s.points, p)
           q == IF Len(pts) > MaxCachedPts
                THEN SubSeq(pts, Len(pts) - MaxCachedPts + 1, Len(pts)) ELSE pts
<1>1. pts \in Seq(Points) BY DEF Session
<1>2. q \in Seq(Points) /\ Len(q) <= MaxCachedPts
  <2> HIDE DEF pts
  <2> QED BY <1>1, MaxCachedPtsAssumption
<1>3. AddPoint(s, p) = [s EXCEPT !.points = q]
  BY DEF AddPoint
<1> HIDE DEF q
<1> QED BY <1>2, <1>3 DEF Session

\* A group with one more member.
LEMMA AddHostProperties ==
  ASSUME NEW sh \in Share, NEW n, NEW sid \in Sids \cup {NoSid}
  PROVE  /\ AddHost(sh, n, sid) \in Share
         /\ AddHost(sh, n, sid).type = sh.type /\ AddHost(sh, n, sid).host = sh.host
         /\ AddHost(sh, n, sid).exp = sh.exp /\ AddHost(sh, n, sid).pin = sh.pin
         /\ \A m \in Nicks : AddHost(sh, n, sid).hosts[m] \in {sid, sh.hosts[m]}
BY DEF AddHost, Share

\* A group with one member fewer, or as it was.
LEMMA RemoveHostProperties ==
  ASSUME NEW sh \in Share, NEW sid, NEW x \in RemoveHost(sh, sid)
  PROVE  /\ x \in Share
         /\ x.type = sh.type /\ x.host = sh.host /\ x.exp = sh.exp /\ x.pin = sh.pin
         /\ \A m \in Nicks : x.hosts[m] \in {NoSid, sh.hosts[m]}
<1>1. CASE HostNicks(sh, sid) = {}
  BY <1>1 DEF RemoveHost, Share
<1>2. CASE HostNicks(sh, sid) # {}
  <2>1. PICK n \in Nicks : x = [sh EXCEPT !.hosts[n] = NoSid]
    BY <1>2 DEF RemoveHost, HostNicks
  <2> QED BY <2>1 DEF Share
<1> QED BY <1>1, <1>2

USE DEF At, Goto, Answer

------------------------------------------------------------------------------
(* Lemmas about entries and frames *)

\* What Set stores is an entry.
LEMMA WriteType ==
  ASSUME NEW S, NEW v \in S, NEW d \in Nat, NEW t \in Nat
  PROVE  Write(v, d, t) \in EntryOf(S) /\ Write(v, d, t).val = v
BY DEF Write, EntryOf, Expiry, StoredExpiry

\* What Get finds is a value.
LEMMA LiveType ==
  ASSUME NEW S, NEW e \in EntryOf(S) \cup {Absent}, NEW t, Live(e, t)
  PROVE  e \in EntryOf(S) /\ e.val \in S /\ e # Absent
BY DEF Live, EntryOf

\* A session as create.go makes it.
LEMMA NewSessionType ==
  ASSUME NEW e \in Nat, NEW i \in Nat, NEW enc \in BOOLEAN
  PROVE  NewSession(e, i, enc) \in Session
BY DEF NewSession, Session

\* Shares as create.go and new-link.go make them.
LEMMA NewShareType ==
  ASSUME NEW s \in Sids \cup {NoSid}, NEW e \in Nat, NEW ado \in BOOLEAN, NEW p \in Pins
  PROVE  SoloShare(s, e, ado) \in Share /\ GroupShare(e, p) \in Share
BY DEF SoloShare, GroupShare, Share, NoHosts

\* The frame of a free slot.
LEMMA IdleFrame == Idle \in Frame /\ WellFormed(Idle) /\ Idle.pc = "idle"
<1>1. EmptySession \in Session
  BY NewSessionType DEF EmptySession
<1>2. EmptyShare \in Share
  BY DEF EmptyShare, SoloShare, Share, NoHosts
<1> QED BY <1>1, <1>2 DEF Idle, Frame, WellFormed, Pcs, Ops, Stopping

\* Changing the frame of one request.
LEMMA FrameStep ==
  ASSUME TypeInv, NEW r \in Reqs, NEW f \in Frame, WellFormed(f), Goto(r, f)
  PROVE  rq' \in [Reqs -> Frame] /\ \A q \in Reqs : WellFormed(rq'[q])
BY DEF TypeInv, TypeOK

\* Answering a request frees its slot.
LEMMA AnswerStep ==
  ASSUME TypeInv, NEW r \in Reqs, Answer(r)
  PROVE  rq' \in [Reqs -> Frame] /\ \A q \in Reqs : WellFormed(rq'[q])
BY IdleFrame, FrameStep

\* A stop request goes on to its next target, or ends.
LEMMA NextTargetFrame ==
  ASSUME NEW f \in Frame, Stopping(f), f.sid \in Sids
  PROVE  NextTarget(f) \in Frame /\ WellFormed(NextTarget(f))
<1>1. EmptyShare \in Share
  BY DEF EmptyShare, SoloShare, Share, NoHosts
<1>2. CASE f.op = "stopLink"
  <2>1. RemoveTarget(f.sess, f.lid) \in Session
    BY RemoveTargetProperties DEF Frame
  <2>2. NextTarget(f) = [f EXCEPT !.share = EmptyShare, !.link = NoLink,
                           !.pc = "saveSession", !.sess = RemoveTarget(f.sess, f.lid)]
    BY <1>2 DEF NextTarget
  <2> QED BY <1>1, <1>2, <2>1, <2>2 DEF Frame, WellFormed, Pcs, Stopping
<1>3. CASE f.op = "stopAll" /\ f.todo = <<>>
  <2>1. NextTarget(f) = [f EXCEPT !.share = EmptyShare, !.link = NoLink, !.pc = "delSession"]
    BY <1>3 DEF NextTarget
  <2> QED BY <1>1, <1>3, <2>1 DEF Frame, WellFormed, Pcs, Stopping
<1>4. CASE f.op = "stopAll" /\ f.todo # <<>>
  <2>1. Head(f.todo) \in Links /\ Tail(f.todo) \in Seq(Links)
    BY <1>4 DEF Frame
  <2>2. NextTarget(f) = [f EXCEPT !.share = EmptyShare, !.link = Head(f.todo),
                           !.pc = "stopType", !.todo = Tail(f.todo)]
    BY <1>4 DEF NextTarget
  <2> QED BY <1>1, <1>4, <2>1, <2>2 DEF Frame, WellFormed, Pcs, Stopping
<1> QED BY <1>2, <1>3, <1>4 DEF Stopping

\* After a share is saved the request saves its session or stops the next.
LEMMA ShareSavedFrame ==
  ASSUME NEW f \in Frame, f.sid \in Sids, f.link \in Links
  PROVE  ShareSaved(f) \in Frame /\ WellFormed(ShareSaved(f))
<1>1. CASE Stopping(f)
  BY <1>1, NextTargetFrame DEF ShareSaved
<1>2. CASE ~Stopping(f)
  <2>1. AddTarget(f.sess, f.link) \in Session
    BY AddTargetProperties DEF Frame
  <2>2. EmptyShare \in Share
    BY DEF EmptyShare, SoloShare, Share, NoHosts
  <2>3. ShareSaved(f) = [f EXCEPT !.pc = "saveSession", !.share = EmptyShare,
                                  !.sess = AddTarget(f.sess, f.link)]
    BY <1>2 DEF ShareSaved
  <2> QED BY <1>2, <2>1, <2>2, <2>3 DEF Frame, WellFormed, Pcs, Stopping
<1> QED BY <1>1, <1>2

------------------------------------------------------------------------------
(* Type correctness *)

\* Every kind of create request starts from a frame of this shape.
LEMMA CreateType ==
  ASSUME TypeInv, NEW r \in Reqs, NEW mode \in {"solo", "group", "join"},
         NEW s \in Sids, NEW f \in Frame,
         f.pc = IF mode = "join" THEN "getPin" ELSE "genLink",
         mode = "join" => f.pin \in Pins,
         Create(r, mode, s, f)
  PROVE  TypeInv'
<1>1. PICK d \in Durations, i \in Intervals, enc \in Encrypted :
        /\ CreateValid(mode, d, i, enc)
        /\ born' = [born EXCEPT ![s] = [exp |-> now + d, enc |-> enc]]
        /\ rq' = [rq EXCEPT ![r] = [f EXCEPT !.op = mode, !.sid = s,
                                      !.sess = NewSession(now + d, i, enc),
                                      !.share.exp = now + d]]
  BY DEF Create
<1> DEFINE g == [f EXCEPT !.op = mode, !.sid = s, !.sess = NewSession(now + d, i, enc),
                          !.share.exp = now + d]
<1>2. now + d \in Nat /\ i \in Nat /\ enc \in BOOLEAN
  BY <1>1, DurationsAssumption, FlagsAssumption DEF CreateValid, TypeInv, TypeOK
<1>3. NewSession(now + d, i, enc) \in Session
  BY <1>2, NewSessionType
<1>4. g \in Frame /\ WellFormed(g)
  <2>1. [f.share EXCEPT !.exp = now + d] \in Share
    BY <1>2 DEF Frame, Share
  <2>2. g = [f EXCEPT !.op = mode, !.sid = s, !.sess = NewSession(now + d, i, enc),
                      !.share = [f.share EXCEPT !.exp = now + d]]
    OBVIOUS
  <2>3. g \in Frame
    BY <1>3, <2>1, <2>2 DEF Frame, Ops
  <2>4. /\ g.pc = f.pc /\ g.op = mode /\ g.sid = s /\ g.pin = f.pin
    BY DEF Frame, Share
  <2> HIDE DEF g
  <2> QED BY <2>3, <2>4 DEF WellFormed, Stopping
<1>5. rq' \in [Reqs -> Frame] /\ \A q \in Reqs : WellFormed(rq'[q])
  <2> HIDE DEF g
  <2>1. Goto(r, g) BY <1>1 DEF g
  <2> QED BY <1>4, <2>1, FrameStep
<1>6. born' \in [Sids -> [exp : Nat, enc : BOOLEAN] \cup {Absent}]
  BY <1>1, <1>2 DEF TypeInv, TypeOK
<1> QED BY <1>5, <1>6 DEF TypeInv, TypeOK, Create, stores

\* The requests that begin with the caller's session.
LEMMA RequestType ==
  ASSUME TypeInv, NEW s \in Sids, Live(sessionKV[s], now), NEW op \in Ops
  PROVE  /\ sessionKV[s].val \in Session
         /\ Request(op, s, sessionKV[s].val) \in Frame
<1>1. sessionKV[s].val \in Session
  BY LiveType DEF TypeInv, TypeOK
<1> QED BY <1>1, IdleFrame DEF Request, Frame

\* A fresh frame of a request that only its program counter sets apart from Idle.
LEMMA RequestFrame ==
  ASSUME NEW s \in Sids, NEW op \in Ops, NEW sess \in Session
  PROVE  /\ Request(op, s, sess) \in Frame
         /\ Request(op, s, sess).op = op /\ Request(op, s, sess).sid = s
BY IdleFrame DEF Request, Frame

LEMMA BeginType ==
  ASSUME TypeInv, NEW r \in Reqs, Begin(r)
  PROVE  TypeInv'
<1>1. CASE BeginSolo(r)
  <2>1. PICK s \in Sids, ado \in Adoptable, lid \in CustomLinks :
          Create(r, "solo", s, [Idle EXCEPT !.pc = "genLink", !.lid = lid,
                                            !.share = SoloShare(s, 0, ado)])
    BY <1>1 DEF BeginSolo
  <2> DEFINE f == [Idle EXCEPT !.pc = "genLink", !.lid = lid, !.share = SoloShare(s, 0, ado)]
  <2>2. SoloShare(s, 0, ado) \in Share
    BY FlagsAssumption DEF SoloShare, Share, NoHosts
  <2>3. f \in Frame /\ f.pc = "genLink"
    BY <2>2, IdleFrame DEF Frame, Pcs, CustomLinks
  <2> HIDE DEF f
  <2>4. Create(r, "solo", s, f) BY <2>1 DEF f
  <2> QED BY <2>3, <2>4, CreateType
<1>2. CASE BeginGroup(r)
  <2>1. PICK s \in Sids, n \in Nicks, p \in Pins, lid \in CustomLinks :
          Create(r, "group", s, [Idle EXCEPT !.pc = "genLink", !.lid = lid,
                                   !.share = AddHost(GroupShare(0, p), n, s)])
    BY <1>2 DEF BeginGroup
  <2> DEFINE f == [Idle EXCEPT !.pc = "genLink", !.lid = lid,
                               !.share = AddHost(GroupShare(0, p), n, s)]
  <2>2. GroupShare(0, p) \in Share /\ GroupShare(0, p).pin = p
    BY DEF GroupShare, Share, NoHosts
  <2>3. AddHost(GroupShare(0, p), n, s) \in Share /\ AddHost(GroupShare(0, p), n, s).pin = p
    BY <2>2, AddHostProperties
  <2>4. f \in Frame /\ f.pc = "genLink"
    BY <2>3, IdleFrame DEF Frame, Pcs, CustomLinks
  <2> HIDE DEF f
  <2>5. Create(r, "group", s, f) BY <2>1 DEF f
  <2> QED BY <2>4, <2>5, CreateType
<1>3. CASE BeginJoin(r)
  <2>1. PICK s \in Sids, n \in Nicks, p \in Pins :
          Create(r, "join", s, [Idle EXCEPT !.pc = "getPin", !.nick = n, !.pin = p])
    BY <1>3 DEF BeginJoin
  <2> DEFINE f == [Idle EXCEPT !.pc = "getPin", !.nick = n, !.pin = p]
  <2>2. f \in Frame /\ f.pc = "getPin" /\ f.pin \in Pins
    BY IdleFrame DEF Frame, Pcs
  <2> HIDE DEF f
  <2>3. Create(r, "join", s, f) BY <2>1 DEF f
  <2> QED BY <2>2, <2>3, CreateType
<1>4. CASE BeginPost(r)
  <2>1. PICK s \in Sids, p \in Points :
          /\ Live(sessionKV[s], now)
          /\ Goto(r, [Request("post", s, AddPoint(sessionKV[s].val, p))
                        EXCEPT !.pc = "saveSession"])
          /\ UNCHANGED <<now, stores, history>>
    BY <1>4 DEF BeginPost, Load
  <2>2. AddPoint(sessionKV[s].val, p) \in Session
    BY <2>1, LiveType, AddPointProperties DEF TypeInv, TypeOK
  <2> DEFINE f == [Request("post", s, AddPoint(sessionKV[s].val, p))
                     EXCEPT !.pc = "saveSession"]
  <2>3. f \in Frame /\ WellFormed(f)
    <3> DEFINE g == Request("post", s, AddPoint(sessionKV[s].val, p))
    <3>1. g \in Frame /\ g.op = "post" /\ g.sid = s
      BY <2>2, RequestFrame DEF Ops
    <3>2. f = [g EXCEPT !.pc = "saveSession"]
      OBVIOUS
    <3> HIDE DEF f, g
    <3>3. f \in Frame
      BY <3>1, <3>2 DEF Frame, Pcs
    <3>4. f.op = "post" /\ f.sid = s /\ f.pc = "saveSession"
      BY <3>1, <3>2 DEF Frame
    <3> QED BY <3>3, <3>4 DEF WellFormed, Stopping
  <2> HIDE DEF f
  <2>4. Goto(r, f) BY <2>1 DEF f
  <2>5. rq' \in [Reqs -> Frame] /\ \A q \in Reqs : WellFormed(rq'[q])
    BY <2>3, <2>4, FrameStep
  <2> QED BY <2>1, <2>5 DEF TypeInv, TypeOK, stores, history
<1>5. CASE BeginNewLink(r)
  <2>1. PICK s \in Sids, ado \in Adoptable :
          /\ Live(sessionKV[s], now)
          /\ Goto(r, [Request("newLink", s, sessionKV[s].val)
                        EXCEPT !.pc = "genLink", !.share = NewLinkShare(s, ado)])
          /\ UNCHANGED <<now, stores, history>>
    BY <1>5 DEF BeginNewLink, Load
  <2>2. sessionKV[s].val \in Session
    BY <2>1, RequestType DEF Ops
  <2>3. NewLinkShare(s, ado) \in Share
    BY <2>2, FlagsAssumption DEF NewLinkShare, SoloShare, Share, NoHosts, Session
  <2> DEFINE f == [Request("newLink", s, sessionKV[s].val)
                     EXCEPT !.pc = "genLink", !.share = NewLinkShare(s, ado)]
  <2>4. f \in Frame /\ WellFormed(f)
    <3> DEFINE g == Request("newLink", s, sessionKV[s].val)
    <3>1. g \in Frame /\ g.op = "newLink" /\ g.sid = s
      BY <2>2, RequestFrame DEF Ops
    <3>2. f = [g EXCEPT !.pc = "genLink", !.share = NewLinkShare(s, ado)]
      OBVIOUS
    <3> HIDE DEF f, g
    <3>3. f \in Frame
      BY <3>1, <3>2, <2>3 DEF Frame, Pcs
    <3>4. f.op = "newLink" /\ f.sid = s /\ f.pc = "genLink"
      BY <3>1, <3>2 DEF Frame
    <3> QED BY <3>3, <3>4 DEF WellFormed, Stopping
  <2> HIDE DEF f
  <2>5. Goto(r, f) BY <2>1 DEF f
  <2>6. rq' \in [Reqs -> Frame] /\ \A q \in Reqs : WellFormed(rq'[q])
    BY <2>4, <2>5, FrameStep
  <2> QED BY <2>1, <2>6 DEF TypeInv, TypeOK, stores, history
<1>6. CASE BeginAdopt(r)
  <2>1. PICK s \in Sids, l \in Links, n \in Nicks, p \in Pins :
          /\ Live(sessionKV[s], now)
          /\ Goto(r, [Request("adopt", s, sessionKV[s].val)
                        EXCEPT !.pc = "adoptType", !.lid = l, !.nick = n, !.pin = p])
          /\ UNCHANGED <<now, stores, history>>
    BY <1>6 DEF BeginAdopt, Load
  <2>2. sessionKV[s].val \in Session
    BY <2>1, RequestType DEF Ops
  <2> DEFINE f == [Request("adopt", s, sessionKV[s].val)
                     EXCEPT !.pc = "adoptType", !.lid = l, !.nick = n, !.pin = p]
  <2>3. f \in Frame /\ WellFormed(f)
    <3> DEFINE g == Request("adopt", s, sessionKV[s].val)
    <3>1. g \in Frame /\ g.op = "adopt" /\ g.sid = s
      BY <2>2, RequestFrame DEF Ops
    <3>2. f = [g EXCEPT !.pc = "adoptType", !.lid = l, !.nick = n, !.pin = p]
      OBVIOUS
    <3> HIDE DEF f, g
    <3>3. f \in Frame
      BY <3>1, <3>2 DEF Frame, Pcs
    <3>4. f.op = "adopt" /\ f.sid = s /\ f.pc = "adoptType" /\ f.lid = l /\ f.pin = p
      BY <3>1, <3>2 DEF Frame
    <3> QED BY <3>3, <3>4 DEF WellFormed, Stopping
  <2> HIDE DEF f
  <2>4. Goto(r, f) BY <2>1 DEF f
  <2>5. rq' \in [Reqs -> Frame] /\ \A q \in Reqs : WellFormed(rq'[q])
    BY <2>3, <2>4, FrameStep
  <2> QED BY <2>1, <2>5 DEF TypeInv, TypeOK, stores, history
<1>7. CASE BeginStopLink(r)
  <2>1. PICK s \in Sids, l \in Links :
          /\ Live(sessionKV[s], now)
          /\ Goto(r, [Request("stopLink", s, sessionKV[s].val)
                        EXCEPT !.pc = "stopType", !.lid = l, !.link = l])
          /\ UNCHANGED <<now, stores, history>>
    BY <1>7 DEF BeginStopLink, Load
  <2>2. sessionKV[s].val \in Session
    BY <2>1, RequestType DEF Ops
  <2> DEFINE f == [Request("stopLink", s, sessionKV[s].val)
                     EXCEPT !.pc = "stopType", !.lid = l, !.link = l]
  <2>3. f \in Frame /\ WellFormed(f)
    <3> DEFINE g == Request("stopLink", s, sessionKV[s].val)
    <3>1. g \in Frame /\ g.op = "stopLink" /\ g.sid = s
      BY <2>2, RequestFrame DEF Ops
    <3>2. f = [g EXCEPT !.pc = "stopType", !.lid = l, !.link = l]
      OBVIOUS
    <3> HIDE DEF f, g
    <3>3. f \in Frame
      BY <3>1, <3>2 DEF Frame, Pcs
    <3>4. f.op = "stopLink" /\ f.sid = s /\ f.pc = "stopType" /\ f.link = l
      BY <3>1, <3>2 DEF Frame
    <3> QED BY <3>3, <3>4 DEF WellFormed, Stopping
  <2> HIDE DEF f
  <2>4. Goto(r, f) BY <2>1 DEF f
  <2>5. rq' \in [Reqs -> Frame] /\ \A q \in Reqs : WellFormed(rq'[q])
    BY <2>3, <2>4, FrameStep
  <2> QED BY <2>1, <2>5 DEF TypeInv, TypeOK, stores, history
<1>8. CASE BeginStopAll(r)
  <2>1. PICK s \in Sids :
          /\ Live(sessionKV[s], now)
          /\ Goto(r, NextTarget([Request("stopAll", s, EmptySession)
                                   EXCEPT !.todo = sessionKV[s].val.targets]))
          /\ UNCHANGED <<now, stores, history>>
    BY <1>8 DEF BeginStopAll, Load
  <2>2. sessionKV[s].val \in Session
    BY <2>1, RequestType DEF Ops
  <2> DEFINE f == [Request("stopAll", s, EmptySession) EXCEPT !.todo = sessionKV[s].val.targets]
  <2>3. EmptySession \in Session
    BY NewSessionType DEF EmptySession
  <2>4. f \in Frame /\ Stopping(f) /\ f.sid \in Sids
    BY <2>2, <2>3, IdleFrame DEF Request, Frame, Ops, Stopping, Session
  <2> HIDE DEF f
  <2>5. NextTarget(f) \in Frame /\ WellFormed(NextTarget(f))
    BY <2>4, NextTargetFrame
  <2>6. Goto(r, NextTarget(f)) BY <2>1 DEF f
  <2>7. rq' \in [Reqs -> Frame] /\ \A q \in Reqs : WellFormed(rq'[q])
    BY <2>5, <2>6, FrameStep
  <2> QED BY <2>1, <2>7 DEF TypeInv, TypeOK, stores, history
<1> QED BY <1>1, <1>2, <1>3, <1>4, <1>5, <1>6, <1>7, <1>8 DEF Begin

\* What a request in flight holds.
LEMMA FrameFacts ==
  ASSUME TypeInv, NEW r \in Reqs
  PROVE  /\ rq[r] \in Frame /\ WellFormed(rq[r])
         /\ rq[r].share \in Share /\ rq[r].sess \in Session
         /\ rq[r].share.exp \in Nat /\ rq[r].sess.exp \in Nat
         /\ now \in Nat
BY DEF TypeInv, TypeOK, Frame, Share, Session

\* The steps that only load: every store and every history stays.
LEMMA LoadStepType ==
  ASSUME TypeInv, NEW r \in Reqs, NEW f, f = Idle \/ (f \in Frame /\ WellFormed(f)),
         Goto(r, f), UNCHANGED <<now, stores, history>>
  PROVE  TypeInv'
<1>1. f \in Frame /\ WellFormed(f)
  BY IdleFrame
<1>2. rq' \in [Reqs -> Frame] /\ \A q \in Reqs : WellFormed(rq'[q])
  BY <1>1, FrameStep
<1> QED BY <1>2 DEF TypeInv, TypeOK, stores, history

LEMMA LinkStepType ==
  ASSUME TypeInv, NEW r \in Reqs, GenLink(r) \/ TryLink(r)
  PROVE  TypeInv'
<1>1. rq[r] \in Frame /\ WellFormed(rq[r])
  BY FrameFacts
<1>2. CASE GenLink(r)
  <2>1. PICK l \in Links :
          /\ Settle(rq[r], l)
          /\ Goto(r, [rq[r] EXCEPT !.link = l,
                        !.pc = IF rq[r].lid = NoLink THEN "setShare" ELSE "tryLink"])
    BY <1>2 DEF GenLink
  <2> DEFINE f == [rq[r] EXCEPT !.link = l,
                     !.pc = IF rq[r].lid = NoLink THEN "setShare" ELSE "tryLink"]
  <2>2. f \in Frame /\ WellFormed(f)
    BY <1>1, <1>2 DEF GenLink, Frame, WellFormed, Pcs, Stopping
  <2>3. granted' \subseteq Links \X Sids
    <3>1. rq[r].sid \in Sids
      BY <1>1, <1>2 DEF GenLink, WellFormed
    <3> QED BY <2>1, <3>1 DEF Settle, TypeInv, TypeOK
  <2> HIDE DEF f
  <2>4. Goto(r, f) BY <2>1 DEF f
  <2>5. rq' \in [Reqs -> Frame] /\ \A q \in Reqs : WellFormed(rq'[q])
    BY <2>2, <2>4, FrameStep
  <2> QED BY <1>2, <2>3, <2>5 DEF GenLink, TypeInv, TypeOK, stores
<1>3. CASE TryLink(r)
  <2>1. PICK l \in {rq[r].lid, rq[r].link} :
          /\ Settle(rq[r], l)
          /\ Goto(r, [rq[r] EXCEPT !.link = l, !.lid = NoLink, !.pc = "setShare"])
    BY <1>3 DEF TryLink
  <2> DEFINE f == [rq[r] EXCEPT !.link = l, !.lid = NoLink, !.pc = "setShare"]
  <2>2. l \in Links
    BY <1>1, <1>3 DEF TryLink, WellFormed
  <2>3. f \in Frame /\ WellFormed(f)
    BY <1>1, <1>3, <2>2 DEF TryLink, Frame, WellFormed, Pcs, Stopping
  <2>4. granted' \subseteq Links \X Sids
    BY <1>1, <1>3, <2>1, <2>2 DEF TryLink, Settle, WellFormed, TypeInv, TypeOK
  <2> HIDE DEF f
  <2>5. Goto(r, f) BY <2>1 DEF f
  <2>6. rq' \in [Reqs -> Frame] /\ \A q \in Reqs : WellFormed(rq'[q])
    BY <2>3, <2>5, FrameStep
  <2> QED BY <1>3, <2>4, <2>6 DEF TryLink, TypeInv, TypeOK, stores
<1> QED BY <1>2, <1>3

LEMMA AdoptStepType ==
  ASSUME TypeInv, NEW r \in Reqs, AdoptType(r) \/ AdoptShare(r) \/ GetPin(r)
  PROVE  TypeInv'
<1>1. rq[r] \in Frame /\ WellFormed(rq[r])
  BY FrameFacts
<1>2. CASE AdoptType(r)
  <2>1. [rq[r] EXCEPT !.pc = "adoptShare"] \in Frame
    BY <1>1 DEF Frame, Pcs
  <2>2. WellFormed([rq[r] EXCEPT !.pc = "adoptShare"])
    BY <1>1, <1>2 DEF AdoptType, WellFormed, Stopping, Frame
  <2> QED BY <1>2, <2>1, <2>2, LoadStepType DEF AdoptType
<1>3. CASE AdoptShare(r)
  <2> DEFINE e == locdataKV[rq[r].lid]
             f == [rq[r] EXCEPT !.pc = "getPin", !.share = e.val]
  <2>1. e \in EntryOf(Share) \cup {Absent}
    BY <1>1, <1>3 DEF AdoptShare, WellFormed, TypeInv, TypeOK
  <2>2. Live(e, now) => e.val \in Share
    BY <2>1, LiveType
  <2>3. rq[r].pin \in Pins
    BY <1>1, <1>3 DEF AdoptShare, WellFormed
  <2>4. Live(e, now) => f \in Frame /\ WellFormed(f)
    BY <1>1, <1>3, <2>2, <2>3 DEF AdoptShare, WellFormed, Stopping, Frame, Pcs
  <2>5. \/ Live(e, now) /\ Goto(r, f)
        \/ Answer(r)
    BY <1>3 DEF AdoptShare
  <2> HIDE DEF e, f
  <2> QED BY <1>3, <2>4, <2>5, LoadStepType DEF AdoptShare
<1>4. CASE GetPin(r)
  <2> DEFINE e == groupidKV[rq[r].pin]
             f == [rq[r] EXCEPT !.pc = "getGroup", !.link = e.val]
  <2>1. e \in EntryOf(Links) \cup {Absent}
    BY <1>1, <1>4 DEF GetPin, WellFormed, TypeInv, TypeOK
  <2>2. Live(e, now) => e.val \in Links
    BY <2>1, LiveType
  <2>3. Live(e, now) => f \in Frame /\ WellFormed(f)
    BY <1>1, <1>4, <2>2 DEF GetPin, WellFormed, Stopping, Frame, Pcs
  <2>4. \/ Live(e, now) /\ Goto(r, f)
        \/ Answer(r)
    BY <1>4 DEF GetPin
  <2> HIDE DEF e, f
  <2> QED BY <1>4, <2>3, <2>4, LoadStepType DEF GetPin
<1> QED BY <1>2, <1>3, <1>4

LEMMA GroupStepType ==
  ASSUME TypeInv, NEW r \in Reqs, GetGroup(r)
  PROVE  TypeInv'
<1> DEFINE e == locdataKV[rq[r].link]
           f == [rq[r] EXCEPT !.pc = "setShare",
                   !.share = AddHost(e.val, rq[r].nick, Joiner(rq[r]))]
<1>1. rq[r] \in Frame /\ WellFormed(rq[r])
  BY FrameFacts
<1>2. rq[r].link \in Links /\ rq[r].sid \in Sids /\ rq[r].op \in {"join", "adopt"}
  BY <1>1 DEF GetGroup, WellFormed
<1>3. Live(e, now) => e.val \in Share
  BY <1>2, LiveType DEF TypeInv, TypeOK
<1>4. Joiner(rq[r]) \in Sids \cup {NoSid}
  BY <1>1 DEF Joiner, Frame, Share
<1>5. Live(e, now) => AddHost(e.val, rq[r].nick, Joiner(rq[r])) \in Share
  BY <1>3, <1>4, AddHostProperties
<1>6. Live(e, now) => f \in Frame /\ WellFormed(f)
  <2> HIDE DEF e
  <2> QED BY <1>1, <1>2, <1>5 DEF Frame, WellFormed, Pcs, Stopping
<1>7. \/ /\ Live(e, now) /\ Goto(r, f)
         /\ granted' = granted \cup {<<rq[r].link, rq[r].sid>>}
      \/ Answer(r) /\ UNCHANGED granted
  BY DEF GetGroup
<1>8. rq' \in [Reqs -> Frame] /\ \A q \in Reqs : WellFormed(rq'[q])
  <2> HIDE DEF e, f
  <2> QED BY <1>6, <1>7, FrameStep, AnswerStep
<1> HIDE DEF e, f
<1> QED BY <1>2, <1>7, <1>8 DEF GetGroup, TypeInv, TypeOK, stores

LEMMA StopStepType ==
  ASSUME TypeInv, NEW r \in Reqs, StopType(r) \/ StopShare(r)
  PROVE  TypeInv'
<1> DEFINE e == locdataKV[rq[r].link]
<1>1. rq[r] \in Frame /\ WellFormed(rq[r])
  BY FrameFacts
<1>2. rq[r].link \in Links /\ rq[r].sid \in Sids /\ Stopping(rq[r])
  BY <1>1 DEF StopType, StopShare, WellFormed
<1>3. Live(e, now) => e.val \in Share
  BY <1>2, LiveType DEF TypeInv, TypeOK
<1>4. NextTarget(rq[r]) \in Frame /\ WellFormed(NextTarget(rq[r]))
  BY <1>1, <1>2, NextTargetFrame
<1>5. CASE StopType(r)
  <2> DEFINE f == [rq[r] EXCEPT !.pc = "stopShare", !.share.type = e.val.type]
  <2>1. Live(e, now) => [rq[r].share EXCEPT !.type = e.val.type] \in Share
    <3> HIDE DEF e
    <3> QED BY <1>1, <1>3 DEF Frame, Share
  <2>2. f = [rq[r] EXCEPT !.pc = "stopShare", !.share = [rq[r].share EXCEPT !.type = e.val.type]]
    OBVIOUS
  <2>3. Live(e, now) => f \in Frame /\ WellFormed(f)
    <3> HIDE DEF e
    <3> QED BY <1>1, <1>2, <2>1, <2>2 DEF Frame, WellFormed, Pcs, Stopping
  <2>4. \/ Live(e, now) /\ Goto(r, f)
        \/ Goto(r, NextTarget(rq[r]))
    BY <1>5 DEF StopType
  <2> HIDE DEF e, f
  <2> QED BY <1>4, <1>5, <2>3, <2>4, LoadStepType DEF StopType
<1>6. CASE StopShare(r)
  <2>1. CASE Live(e, now) /\ rq[r].share.type = "solo"
    <3> DEFINE f == [rq[r] EXCEPT !.pc = "delShare", !.share = e.val]
    <3>1. f \in Frame /\ WellFormed(f)
      <4> HIDE DEF e
      <4> QED BY <1>1, <1>2, <1>3, <2>1 DEF Frame, WellFormed, Pcs, Stopping
    <3>2. Goto(r, f)
      BY <1>6, <2>1 DEF StopShare
    <3> HIDE DEF e, f
    <3> QED BY <1>6, <3>1, <3>2, LoadStepType DEF StopShare
  <2>2. CASE Live(e, now) /\ rq[r].share.type = "group"
    <3>1. PICK sh \in RemoveHost(e.val, rq[r].sid) :
            Goto(r, [rq[r] EXCEPT !.share = sh,
                       !.pc = IF Abandoned(sh) THEN "delPin" ELSE "setShare"])
      BY <1>6, <2>2 DEF StopShare
    <3> DEFINE f == [rq[r] EXCEPT !.share = sh,
                       !.pc = IF Abandoned(sh) THEN "delPin" ELSE "setShare"]
    <3> HIDE DEF e
    <3>2. sh \in Share
      BY <1>3, <2>2, <3>1, RemoveHostProperties
    <3>3. f \in Frame /\ WellFormed(f)
      BY <1>1, <1>2, <3>2 DEF Frame, WellFormed, Pcs, Stopping
    <3>4. Goto(r, f) BY <3>1
    <3> HIDE DEF f
    <3> QED BY <1>6, <3>3, <3>4, LoadStepType DEF StopShare
  <2>3. CASE ~Live(e, now)
    <3>1. Goto(r, NextTarget(rq[r]))
      BY <1>6, <2>3 DEF StopShare
    <3> QED BY <1>4, <1>6, <3>1, LoadStepType DEF StopShare
  <2>4. rq[r].share.type \in {"solo", "group"}
    BY <1>1 DEF Frame, Share
  <2> QED BY <2>1, <2>2, <2>3, <2>4
<1> QED BY <1>5, <1>6

LEMMA DeleteStepType ==
  ASSUME TypeInv, NEW r \in Reqs, DelPin(r) \/ DelShare(r) \/ DelSession(r)
  PROVE  TypeInv'
<1>1. rq[r] \in Frame /\ WellFormed(rq[r])
  BY FrameFacts
<1>2. rq[r].sid \in Sids /\ Stopping(rq[r])
  BY <1>1 DEF DelPin, DelShare, DelSession, WellFormed, Stopping
<1>3. CASE DelPin(r)
  <2> DEFINE f == [rq[r] EXCEPT !.pc = "delShare"]
  <2>1. f \in Frame /\ WellFormed(f)
    BY <1>1, <1>2, <1>3 DEF DelPin, Frame, WellFormed, Pcs, Stopping
  <2>2. Goto(r, f) BY <1>3 DEF DelPin
  <2> HIDE DEF f
  <2>3. rq' \in [Reqs -> Frame] /\ \A q \in Reqs : WellFormed(rq'[q])
    BY <2>1, <2>2, FrameStep
  <2>4. groupidKV' \in [Pins -> EntryOf(Links) \cup {Absent}]
    BY <1>3 DEF DelPin, TypeInv, TypeOK
  <2> QED BY <1>3, <2>3, <2>4 DEF DelPin, TypeInv, TypeOK, history
<1>4. CASE DelShare(r)
  <2>1. NextTarget(rq[r]) \in Frame /\ WellFormed(NextTarget(rq[r]))
    BY <1>1, <1>2, NextTargetFrame
  <2>2. rq' \in [Reqs -> Frame] /\ \A q \in Reqs : WellFormed(rq'[q])
    BY <1>4, <2>1, FrameStep DEF DelShare
  <2> QED BY <1>4, <2>2 DEF DelShare, TypeInv, TypeOK, history
<1>5. CASE DelSession(r)
  <2>1. rq' \in [Reqs -> Frame] /\ \A q \in Reqs : WellFormed(rq'[q])
    BY <1>5, AnswerStep DEF DelSession
  <2> QED BY <1>2, <1>5, <2>1 DEF DelSession, TypeInv, TypeOK
<1> QED BY <1>3, <1>4, <1>5

LEMMA SaveStepType ==
  ASSUME TypeInv, NEW r \in Reqs, SetShare(r) \/ SetPin(r) \/ SaveSession(r)
  PROVE  TypeInv'
<1>1. /\ rq[r] \in Frame /\ WellFormed(rq[r]) /\ now \in Nat
      /\ rq[r].share \in Share /\ rq[r].share.exp \in Nat
      /\ rq[r].sess \in Session /\ rq[r].sess.exp \in Nat
  BY FrameFacts
<1>2. rq[r].sid \in Sids
  BY <1>1 DEF SetShare, SetPin, SaveSession, WellFormed
<1>3. CASE SetShare(r)
  <2> DEFINE f == [rq[r] EXCEPT !.pc = "setPin"]
  <2>1. rq[r].link \in Links
    BY <1>1, <1>3 DEF SetShare, WellFormed
  <2>2. f \in Frame /\ WellFormed(f)
    BY <1>1, <1>3, <2>1 DEF SetShare, Frame, WellFormed, Pcs, Stopping
  <2>3. ShareSaved(rq[r]) \in Frame /\ WellFormed(ShareSaved(rq[r]))
    BY <1>1, <1>2, <2>1, ShareSavedFrame
  <2>4. Goto(r, f) \/ Goto(r, ShareSaved(rq[r]))
    BY <1>3 DEF SetShare
  <2>5. rq' \in [Reqs -> Frame] /\ \A q \in Reqs : WellFormed(rq'[q])
    <3> HIDE DEF f
    <3> QED BY <2>2, <2>3, <2>4, FrameStep
  <2>6. Write(rq[r].share, rq[r].share.exp, now) \in EntryOf(Share)
    BY <1>1, WriteType
  <2>7. locdataKV' \in [Links -> EntryOf(Share) \cup {Absent}]
    BY <1>3, <2>6 DEF SetShare, TypeInv, TypeOK
  <2> QED BY <1>3, <2>5, <2>7 DEF SetShare, TypeInv, TypeOK, history
<1>4. CASE SetPin(r)
  <2>1. rq[r].link \in Links
    BY <1>1, <1>4 DEF SetPin, WellFormed
  <2>2. ShareSaved(rq[r]) \in Frame /\ WellFormed(ShareSaved(rq[r]))
    BY <1>1, <1>2, <2>1, ShareSavedFrame
  <2>3. rq' \in [Reqs -> Frame] /\ \A q \in Reqs : WellFormed(rq'[q])
    BY <1>4, <2>2, FrameStep DEF SetPin
  <2>4. Write(rq[r].link, rq[r].share.exp, now) \in EntryOf(Links)
    BY <1>1, <2>1, WriteType
  <2>5. groupidKV' \in [Pins -> EntryOf(Links) \cup {Absent}]
    BY <1>4, <2>4 DEF SetPin, TypeInv, TypeOK
  <2> QED BY <1>4, <2>3, <2>5 DEF SetPin, TypeInv, TypeOK, history
<1>5. CASE SaveSession(r)
  <2>1. rq' \in [Reqs -> Frame] /\ \A q \in Reqs : WellFormed(rq'[q])
    BY <1>5, AnswerStep DEF SaveSession
  <2>2. Write(rq[r].sess, rq[r].sess.exp, now) \in EntryOf(Session)
    BY <1>1, WriteType
  <2>3. sessionKV' \in [Sids -> EntryOf(Session) \cup {Absent}]
    BY <1>5, <2>2 DEF SaveSession, TypeInv, TypeOK
  <2> QED BY <1>5, <2>1, <2>3 DEF SaveSession, TypeInv, TypeOK, history
<1> QED BY <1>3, <1>4, <1>5

LEMMA FailStepType ==
  ASSUME TypeInv, NEW r \in Reqs, Abort(r) \/ StopSkip(r)
  PROVE  TypeInv'
<1>1. rq[r] \in Frame /\ WellFormed(rq[r])
  BY FrameFacts
<1>2. CASE Abort(r)
  <2>1. rq' \in [Reqs -> Frame] /\ \A q \in Reqs : WellFormed(rq'[q])
    BY <1>2, AnswerStep DEF Abort
  <2> QED BY <1>2, <2>1 DEF Abort, TypeInv, TypeOK, stores, history
<1>3. CASE StopSkip(r)
  <2> DEFINE f == [rq[r] EXCEPT !.pc = "delShare"]
  <2>1. Stopping(rq[r]) /\ (rq[r].pc # "idle" => rq[r].sid \in Sids)
    BY <1>1, <1>3 DEF StopSkip, WellFormed
  <2>2. rq[r].pc # "idle" => NextTarget(rq[r]) \in Frame /\ WellFormed(NextTarget(rq[r]))
    BY <1>1, <2>1, NextTargetFrame
  <2>3. rq[r].pc = "delPin" => f \in Frame /\ WellFormed(f)
    BY <1>1, <2>1 DEF Frame, WellFormed, Pcs, Stopping
  <2>4. \/ rq[r].pc # "idle" /\ Goto(r, NextTarget(rq[r])) /\ UNCHANGED stopped
        \/ rq[r].pc = "delPin" /\ Goto(r, f) /\ UNCHANGED stopped
        \/ rq[r].pc = "delSession" /\ Answer(r) /\ stopped' = stopped \cup {rq[r].sid}
    BY <1>3 DEF StopSkip
  <2>5. rq' \in [Reqs -> Frame] /\ \A q \in Reqs : WellFormed(rq'[q])
    <3> HIDE DEF f
    <3> QED BY <2>2, <2>3, <2>4, FrameStep, AnswerStep
  <2>6. stopped' \subseteq Sids
    BY <2>1, <2>4 DEF TypeInv, TypeOK
  <2> QED BY <1>3, <2>5, <2>6 DEF StopSkip, TypeInv, TypeOK, stores
<1> QED BY <1>2, <1>3

\* Every step keeps the records and the frames well formed.
LEMMA TypeStep ==
  ASSUME TypeInv, [Next]_vars
  PROVE  TypeInv'
<1>1. ASSUME NEW r \in Reqs, Begin(r) PROVE TypeInv'
  BY <1>1, BeginType
<1>2. ASSUME NEW r \in Reqs, Step(r) PROVE TypeInv'
  BY <1>2, LinkStepType, AdoptStepType, GroupStepType, StopStepType,
     DeleteStepType, SaveStepType DEF Step
<1>3. ASSUME NEW r \in Reqs, Abort(r) \/ StopSkip(r) PROVE TypeInv'
  BY <1>3, FailStepType
<1>4. CASE Tick
  BY <1>4 DEF Tick, TypeInv, TypeOK, stores, history
<1>5. CASE UNCHANGED vars
  BY <1>5 DEF vars, TypeInv, TypeOK, stores, history
<1> QED BY <1>1, <1>2, <1>3, <1>4, <1>5 DEF Next

LEMMA TypeInit == Init => TypeInv
<1> SUFFICES ASSUME Init PROVE TypeInv
  OBVIOUS
<1>1. \A r \in Reqs : rq[r] \in Frame /\ WellFormed(rq[r])
  BY IdleFrame DEF Init
<1> QED BY <1>1, IdleFrame DEF Init, TypeInv, TypeOK

\* The stores hold records of the right kind, whichever handlers' stale copies
\* were saved over them and wherever requests were cut off.
THEOREM TypeCorrect == Spec => []TypeOK
<1>1. TypeInv => TypeOK
  BY DEF TypeInv
<1>2. TypeInv /\ [Next]_vars => TypeInv'
  BY TypeStep
<1> QED BY <1>1, <1>2, TypeInit, PTL DEF Spec

------------------------------------------------------------------------------
(* Facts about the histories *)

\* No history entry is lost and no birth record is rewritten.
Grows(b, g, c, h) ==
  /\ g \subseteq h
  /\ \A s \in Sids : b[s] # Absent => c[s] = b[s]

\* Frames that are sound stay sound when the histories grow.
LEMMA FrameGrows ==
  ASSUME NEW b, NEW g, NEW c, NEW h, Grows(b, g, c, h),
         NEW f \in Frame, WellFormed(f), FrameOK(b, g, f)
  PROVE  FrameOK(c, h, f)
<1>1. \A s \in Sids : Plain(b, s) => Plain(c, s)
  BY DEF Grows, Plain
<1>2. ShareSound(b, f.share) => ShareSound(c, f.share)
  BY <1>1 DEF ShareSound, Frame, Share, Grows
<1>3. ShareOK(b, g, f.link, f.share) => ShareOK(c, h, f.link, f.share)
  BY <1>2 DEF ShareOK, Grows
<1>4. f.pc # "idle" => f.sid \in Sids
  BY DEF WellFormed
<1>5. f.pc # "idle" /\ SessionOK(b, g, f.sid, f.sess) => SessionOK(c, h, f.sid, f.sess)
  BY <1>4 DEF SessionOK, Grows
<1> QED BY <1>1, <1>2, <1>3, <1>4, <1>5 DEF FrameOK, Grows

\* So do the stored records.
LEMMA StoresGrow ==
  ASSUME TypeInv, StoresOK, Grows(born, granted, born', granted'),
         UNCHANGED <<sessionKV, locdataKV>>
  PROVE  StoresOK'
<1>1. \A s \in Sids : Plain(born, s) => Plain(born', s)
  BY DEF Grows, Plain
<1>2. ASSUME NEW s \in Sids, sessionKV[s] # Absent
      PROVE  SessionOK(born', granted', s, sessionKV[s].val)
  BY <1>2 DEF StoresOK, SessionOK, Grows
<1>3. ASSUME NEW l \in Links, locdataKV[l] # Absent
      PROVE  ShareOK(born', granted', l, locdataKV[l].val)
  <2>1. locdataKV[l].val \in Share
    BY <1>3 DEF TypeInv, TypeOK, EntryOf
  <2>2. ShareOK(born, granted, l, locdataKV[l].val)
    BY <1>3 DEF StoresOK
  <2>3. ShareSound(born', locdataKV[l].val)
    BY <1>1, <2>1, <2>2 DEF ShareOK, ShareSound, Share, Grows
  <2> QED BY <2>2, <2>3 DEF ShareOK, Grows
<1> QED BY <1>2, <1>3 DEF StoresOK

\* A step of one request keeps the frames sound when its new frame is.
LEMMA FramesStep ==
  ASSUME IInv, NEW r \in Reqs, NEW f, Goto(r, f),
         Grows(born, granted, born', granted'), FrameOK(born', granted', f)
  PROVE  FramesOK'
<1>1. ASSUME NEW q \in Reqs PROVE FrameOK(born', granted', rq'[q])
  <2>1. rq'[q] = IF q = r THEN f ELSE rq[q]
    BY DEF IInv, TypeInv, TypeOK
  <2>2. rq[q] \in Frame /\ WellFormed(rq[q]) /\ FrameOK(born, granted, rq[q])
    BY DEF IInv, TypeInv, TypeOK, FramesOK
  <2>3. FrameOK(born', granted', rq[q])
    BY <2>2, FrameGrows
  <2> QED BY <2>1, <2>3
<1> QED BY <1>1 DEF FramesOK

\* A free slot holds nothing.
LEMMA IdleOK == ASSUME NEW b, NEW g PROVE FrameOK(b, g, Idle)
BY DEF FrameOK, Idle, SessionOK, ShareOK, ShareSound, Stopping

\* A step that only loads: the histories and the stores stay.
LEMMA LoadStep ==
  ASSUME IInv, NEW r \in Reqs, NEW f, Goto(r, f),
         UNCHANGED <<stores, history>>, f = Idle \/ FrameOK(born, granted, f)
  PROVE  StoresOK' /\ FramesOK'
<1>1. Grows(born, granted, born', granted') /\ UNCHANGED <<sessionKV, locdataKV>>
  BY DEF Grows, stores, history
<1>2. FrameOK(born', granted', f)
  BY IdleOK DEF history
<1> QED BY <1>1, <1>2, FramesStep, StoresGrow DEF IInv

\* A stop of all shares holds no copy of a record between two targets.
LEMMA StopAllNext ==
  ASSUME NEW b, NEW g, NEW f \in Frame, f.op = "stopAll", b[f.sid] # Absent
  PROVE  FrameOK(b, g, NextTarget(f))
<1>1. CASE f.todo = <<>>
  <2>1. NextTarget(f) = [f EXCEPT !.share = EmptyShare, !.link = NoLink, !.pc = "delSession"]
    BY <1>1 DEF NextTarget
  <2> QED BY <2>1 DEF FrameOK, Frame
<1>2. CASE f.todo # <<>>
  <2>1. NextTarget(f) = [f EXCEPT !.share = EmptyShare, !.link = Head(f.todo),
                           !.pc = "stopType", !.todo = Tail(f.todo)]
    BY <1>2 DEF NextTarget
  <2> QED BY <2>1 DEF FrameOK, Frame
<1> QED BY <1>1, <1>2

\* A stop request that goes on to its next target.
LEMMA NextTargetOK ==
  ASSUME NEW b, NEW g, NEW f \in Frame, Stopping(f), f.pc # "idle", FrameOK(b, g, f)
  PROVE  FrameOK(b, g, NextTarget(f))
<1>1. CASE f.op = "stopLink"
  <2>1. NextTarget(f) = [f EXCEPT !.share = EmptyShare, !.link = NoLink,
                           !.pc = "saveSession", !.sess = RemoveTarget(f.sess, f.lid)]
    BY <1>1 DEF NextTarget
  <2>2. SessionOK(b, g, f.sid, f.sess)
    BY <1>1 DEF FrameOK
  <2>3. /\ RemoveTarget(f.sess, f.lid).exp = f.sess.exp
        /\ RemoveTarget(f.sess, f.lid).enc = f.sess.enc
        /\ \A i \in 1..Len(RemoveTarget(f.sess, f.lid).targets) :
              \E j \in 1..Len(f.sess.targets) :
                 RemoveTarget(f.sess, f.lid).targets[i] = f.sess.targets[j]
    <3>1. f.sess \in Session BY DEF Frame
    <3> QED BY <3>1, RemoveTargetProperties
  <2>4. SessionOK(b, g, f.sid, RemoveTarget(f.sess, f.lid))
    BY <2>2, <2>3 DEF SessionOK
  <2> QED BY <2>1, <2>4 DEF FrameOK, Frame
<1>2. CASE f.op = "stopAll"
  BY <1>2, StopAllNext DEF FrameOK
<1> QED BY <1>1, <1>2 DEF Stopping

\* A request whose share is saved: the session's copy gets a target only under
\* a link it was granted.
LEMMA ShareSavedOK ==
  ASSUME NEW b, NEW g, NEW f \in Frame, f.pc \in {"setShare", "setPin"},
         f.link \in Links, FrameOK(b, g, f)
  PROVE  FrameOK(b, g, ShareSaved(f))
<1>1. CASE Stopping(f)
  BY <1>1, NextTargetOK DEF ShareSaved
<1>2. CASE ~Stopping(f)
  <2>1. ShareSaved(f) = [f EXCEPT !.pc = "saveSession", !.share = EmptyShare,
                                  !.sess = AddTarget(f.sess, f.link)]
    BY <1>2 DEF ShareSaved
  <2>2. SessionOK(b, g, f.sid, f.sess) /\ <<f.link, f.sid>> \in g /\ b[f.sid] # Absent
    BY <1>2 DEF FrameOK, Stopping
  <2>3. SessionOK(b, g, f.sid, AddTarget(f.sess, f.link))
    BY <2>2, AddTargetProperties DEF SessionOK, Frame
  <2> QED BY <2>1, <2>2, <2>3 DEF FrameOK, Frame
<1> QED BY <1>1, <1>2

------------------------------------------------------------------------------
(* The steps *)

\* What IInv says of a request in flight.
LEMMA FrameSound ==
  ASSUME IInv, NEW r \in Reqs
  PROVE  /\ rq[r] \in Frame /\ WellFormed(rq[r]) /\ FrameOK(born, granted, rq[r])
         /\ rq[r].share \in Share /\ rq[r].sess \in Session
         /\ now \in Nat
BY FrameFacts DEF IInv, FramesOK

\* A live record is sound.
LEMMA LiveSound ==
  ASSUME IInv
  PROVE  /\ \A s \in Sids : Live(sessionKV[s], now) =>
               /\ sessionKV[s].val \in Session
               /\ SessionOK(born, granted, s, sessionKV[s].val)
         /\ \A l \in Links : Live(locdataKV[l], now) =>
               /\ locdataKV[l].val \in Share
               /\ ShareOK(born, granted, l, locdataKV[l].val)
<1>1. ASSUME NEW s \in Sids, Live(sessionKV[s], now)
      PROVE  /\ sessionKV[s].val \in Session
             /\ SessionOK(born, granted, s, sessionKV[s].val)
  BY <1>1, LiveType DEF IInv, TypeInv, TypeOK, StoresOK
<1>2. ASSUME NEW l \in Links, Live(locdataKV[l], now)
      PROVE  /\ locdataKV[l].val \in Share
             /\ ShareOK(born, granted, l, locdataKV[l].val)
  BY <1>2, LiveType DEF IInv, TypeInv, TypeOK, StoresOK
<1> QED BY <1>1, <1>2

\* A create request, of a session that did not exist before.
LEMMA CreateOK ==
  ASSUME IInv, NEW r \in Reqs, NEW mode \in {"solo", "group", "join"},
         NEW s \in Sids, NEW f \in Frame,
         f.pc = IF mode = "join" THEN "getPin" ELSE "genLink",
         mode # "join" => /\ f.share.type = mode
                          /\ \A n \in Nicks : f.share.hosts[n] \in {NoSid, s},
         mode = "solo" => f.share.host = s /\ f.share.hosts = NoHosts,
         mode = "group" => f.share.host = NoSid /\ HostsOf(f.share) # {},
         Create(r, mode, s, f)
  PROVE  StoresOK' /\ FramesOK'
<1>1. PICK d \in Durations, i \in Intervals, enc \in Encrypted :
        /\ CreateValid(mode, d, i, enc)
        /\ born' = [born EXCEPT ![s] = [exp |-> now + d, enc |-> enc]]
        /\ Goto(r, [f EXCEPT !.op = mode, !.sid = s,
                      !.sess = NewSession(now + d, i, enc), !.share.exp = now + d])
  BY DEF Create
<1> DEFINE g == [f EXCEPT !.op = mode, !.sid = s, !.sess = NewSession(now + d, i, enc),
                          !.share.exp = now + d]
<1>2. now + d \in Nat /\ enc \in BOOLEAN
  BY <1>1, DurationsAssumption, FlagsAssumption DEF CreateValid, IInv, TypeInv, TypeOK
<1>3. born[s] = Absent /\ UNCHANGED <<sessionKV, locdataKV, granted>>
  BY DEF Create, stores
<1>4. born'[s] = [exp |-> now + d, enc |-> enc] /\ born'[s] # Absent
  BY <1>1, <1>2, AbsentAssumption DEF IInv, TypeInv, TypeOK
<1>5. Grows(born, granted, born', granted')
  BY <1>1, <1>3 DEF Grows, IInv, TypeInv, TypeOK
<1>6. mode # "solo" => ~enc
  BY <1>1 DEF CreateValid
<1>7. FrameOK(born', granted', g)
  <2>1. /\ g.pc = f.pc /\ g.op = mode /\ g.sid = s
        /\ g.sess = NewSession(now + d, i, enc)
        /\ g.share = [f.share EXCEPT !.exp = now + d]
    BY DEF Frame
  <2>2. SessionOK(born', granted', s, g.sess)
    BY <1>4, <2>1 DEF SessionOK, NewSession
  <2>3. mode # "solo" => Plain(born', s)
    BY <1>4, <1>6 DEF Plain
  <2>4. /\ g.share.type = f.share.type /\ g.share.host = f.share.host
        /\ g.share.hosts = f.share.hosts /\ g.share.exp = now + d
    BY <2>1 DEF Frame, Share
  <2>5. mode # "join" => ShareSound(born', g.share) /\ Exposed(g.share) \subseteq {s}
    <3> HIDE DEF g
    <3>1. CASE mode = "solo"
      <4>1. HostsOf(g.share) = {}
        BY <2>4, <3>1 DEF HostsOf, NoHosts
      <4> QED BY <1>4, <2>4, <3>1, <4>1 DEF ShareSound, Exposed, NoHosts
    <3>2. CASE mode = "group"
      <4>1. HostsOf(g.share) = HostsOf(f.share) /\ g.share.host = NoSid
        BY <2>4, <3>2 DEF HostsOf
      <4>2. Exposed(g.share) \subseteq {s}
        BY <2>4, <3>2 DEF Exposed, HostsOf
      <4>3. \A n \in Nicks : g.share.hosts[n] # NoSid => Plain(born', g.share.hosts[n])
        BY <2>3, <2>4, <3>2
      <4> QED BY <2>4, <3>2, <4>1, <4>2, <4>3 DEF ShareSound
    <3> QED BY <3>1, <3>2
  <2>6. mode = "join" => Joiner(g) = g.sid
    BY <2>1 DEF Joiner
  <2> HIDE DEF g
  <2> QED BY <1>4, <2>1, <2>2, <2>3, <2>5, <2>6 DEF FrameOK
<1>8. FramesOK'
  <2> HIDE DEF g
  <2>1. Goto(r, g) BY <1>1 DEF g
  <2> QED BY <1>5, <1>7, <2>1, FramesStep
<1> QED BY <1>3, <1>5, <1>8, StoresGrow DEF IInv

\* A request arrives with a new session, or with a sound copy of its own.
LEMMA BeginOK ==
  ASSUME IInv, NEW r \in Reqs, Begin(r)
  PROVE  StoresOK' /\ FramesOK'
<1>1. CASE BeginSolo(r)
  <2>1. PICK s \in Sids, ado \in Adoptable, lid \in CustomLinks :
          Create(r, "solo", s, [Idle EXCEPT !.pc = "genLink", !.lid = lid,
                                            !.share = SoloShare(s, 0, ado)])
    BY <1>1 DEF BeginSolo
  <2> DEFINE f == [Idle EXCEPT !.pc = "genLink", !.lid = lid, !.share = SoloShare(s, 0, ado)]
  <2>2. SoloShare(s, 0, ado) \in Share
    BY FlagsAssumption DEF SoloShare, Share, NoHosts
  <2>3. f \in Frame /\ f.pc = "genLink" /\ f.share = SoloShare(s, 0, ado)
    BY <2>2, IdleFrame DEF Frame, Pcs, CustomLinks
  <2>4. /\ f.share.type = "solo" /\ f.share.host = s /\ f.share.hosts = NoHosts
        /\ \A n \in Nicks : f.share.hosts[n] \in {NoSid, s}
    BY <2>3 DEF SoloShare, NoHosts
  <2> HIDE DEF f
  <2>5. Create(r, "solo", s, f) BY <2>1 DEF f
  <2> QED BY <2>3, <2>4, <2>5, CreateOK
<1>2. CASE BeginGroup(r)
  <2>1. PICK s \in Sids, n \in Nicks, p \in Pins, lid \in CustomLinks :
          Create(r, "group", s, [Idle EXCEPT !.pc = "genLink", !.lid = lid,
                                   !.share = AddHost(GroupShare(0, p), n, s)])
    BY <1>2 DEF BeginGroup
  <2> DEFINE sh == AddHost(GroupShare(0, p), n, s)
             f == [Idle EXCEPT !.pc = "genLink", !.lid = lid, !.share = sh]
  <2>2. /\ GroupShare(0, p) \in Share /\ GroupShare(0, p).type = "group"
        /\ \A m \in Nicks : GroupShare(0, p).hosts[m] = NoSid
    BY DEF GroupShare, Share, NoHosts
  <2>3. /\ sh \in Share /\ sh.type = "group" /\ sh.host = NoSid
        /\ \A m \in Nicks : sh.hosts[m] \in {NoSid, s}
    <3>1. GroupShare(0, p).host = NoSid BY DEF GroupShare
    <3> QED BY <2>2, <3>1, AddHostProperties
  <2>6. HostsOf(sh) # {}
    <3>1. sh.hosts[n] = s BY <2>2 DEF AddHost, Share
    <3> QED BY <3>1, NoSidAssumption DEF HostsOf
  <2> HIDE DEF sh
  <2>4. f \in Frame /\ f.pc = "genLink" /\ f.share = sh
    BY <2>3, IdleFrame DEF Frame, Pcs, CustomLinks
  <2> HIDE DEF f
  <2>5. Create(r, "group", s, f) BY <2>1 DEF f, sh
  <2> QED BY <2>3, <2>4, <2>5, <2>6, CreateOK
<1>3. CASE BeginJoin(r)
  <2>1. PICK s \in Sids, n \in Nicks, p \in Pins :
          Create(r, "join", s, [Idle EXCEPT !.pc = "getPin", !.nick = n, !.pin = p])
    BY <1>3 DEF BeginJoin
  <2> DEFINE f == [Idle EXCEPT !.pc = "getPin", !.nick = n, !.pin = p]
  <2>2. f \in Frame /\ f.pc = "getPin"
    BY IdleFrame DEF Frame, Pcs
  <2> HIDE DEF f
  <2>3. Create(r, "join", s, f) BY <2>1 DEF f
  <2> QED BY <2>2, <2>3, CreateOK
<1>4. CASE BeginPost(r)
  <2>1. PICK s \in Sids, p \in Points :
          /\ Live(sessionKV[s], now)
          /\ Goto(r, [Request("post", s, AddPoint(sessionKV[s].val, p))
                        EXCEPT !.pc = "saveSession"])
          /\ UNCHANGED <<now, stores, history>>
    BY <1>4 DEF BeginPost, Load
  <2> DEFINE f == [Request("post", s, AddPoint(sessionKV[s].val, p))
                     EXCEPT !.pc = "saveSession"]
  <2>2. SessionOK(born, granted, s, AddPoint(sessionKV[s].val, p))
    BY <2>1, LiveSound, AddPointProperties DEF SessionOK
  <2>3. /\ f.pc = "saveSession" /\ f.op = "post" /\ f.sid = s
        /\ f.sess = AddPoint(sessionKV[s].val, p)
    BY DEF Request, Idle
  <2> HIDE DEF f
  <2>4. FrameOK(born, granted, f)
    BY <2>2, <2>3 DEF FrameOK, SessionOK
  <2>5. Goto(r, f) BY <2>1 DEF f
  <2> QED BY <2>1, <2>4, <2>5, LoadStep
<1>5. CASE BeginNewLink(r)
  <2>1. PICK s \in Sids, ado \in Adoptable :
          /\ Live(sessionKV[s], now)
          /\ Goto(r, [Request("newLink", s, sessionKV[s].val)
                        EXCEPT !.pc = "genLink", !.share = NewLinkShare(s, ado)])
          /\ UNCHANGED <<now, stores, history>>
    BY <1>5 DEF BeginNewLink, Load
  <2> DEFINE f == [Request("newLink", s, sessionKV[s].val)
                     EXCEPT !.pc = "genLink", !.share = NewLinkShare(s, ado)]
  <2>2. SessionOK(born, granted, s, sessionKV[s].val)
    BY <2>1, LiveSound
  <2>3. ShareSound(born, NewLinkShare(s, ado)) /\ Exposed(NewLinkShare(s, ado)) \subseteq {s}
    <3>1. HostsOf(NewLinkShare(s, ado)) = {}
      BY DEF NewLinkShare, SoloShare, NoHosts, HostsOf
    <3> QED BY <2>2, <3>1 DEF NewLinkShare, SoloShare, NoHosts, ShareSound, Exposed, SessionOK
  <2>4. /\ f.pc = "genLink" /\ f.op = "newLink" /\ f.sid = s
        /\ f.sess = sessionKV[s].val /\ f.share = NewLinkShare(s, ado)
    BY DEF Request, Idle
  <2> HIDE DEF f
  <2>5. FrameOK(born, granted, f)
    BY <2>2, <2>3, <2>4 DEF FrameOK, SessionOK
  <2>6. Goto(r, f) BY <2>1 DEF f
  <2> QED BY <2>1, <2>5, <2>6, LoadStep
<1>6. CASE BeginAdopt(r)
  <2>1. PICK s \in Sids, l \in Links, n \in Nicks, p \in Pins :
          /\ Live(sessionKV[s], now)
          /\ Goto(r, [Request("adopt", s, sessionKV[s].val)
                        EXCEPT !.pc = "adoptType", !.lid = l, !.nick = n, !.pin = p])
          /\ UNCHANGED <<now, stores, history>>
    BY <1>6 DEF BeginAdopt, Load
  <2> DEFINE f == [Request("adopt", s, sessionKV[s].val)
                     EXCEPT !.pc = "adoptType", !.lid = l, !.nick = n, !.pin = p]
  <2>2. SessionOK(born, granted, s, sessionKV[s].val)
    BY <2>1, LiveSound
  <2>3. f.pc = "adoptType" /\ f.sid = s /\ f.sess = sessionKV[s].val
    BY DEF Request, Idle
  <2> HIDE DEF f
  <2>4. FrameOK(born, granted, f)
    BY <2>2, <2>3 DEF FrameOK, SessionOK
  <2>5. Goto(r, f) BY <2>1 DEF f
  <2> QED BY <2>1, <2>4, <2>5, LoadStep
<1>7. CASE BeginStopLink(r)
  <2>1. PICK s \in Sids, l \in Links :
          /\ Live(sessionKV[s], now)
          /\ Goto(r, [Request("stopLink", s, sessionKV[s].val)
                        EXCEPT !.pc = "stopType", !.lid = l, !.link = l])
          /\ UNCHANGED <<now, stores, history>>
    BY <1>7 DEF BeginStopLink, Load
  <2> DEFINE f == [Request("stopLink", s, sessionKV[s].val)
                     EXCEPT !.pc = "stopType", !.lid = l, !.link = l]
  <2>2. SessionOK(born, granted, s, sessionKV[s].val)
    BY <2>1, LiveSound
  <2>3. f.pc = "stopType" /\ f.sid = s /\ f.sess = sessionKV[s].val
    BY DEF Request, Idle
  <2> HIDE DEF f
  <2>4. FrameOK(born, granted, f)
    BY <2>2, <2>3 DEF FrameOK, SessionOK
  <2>5. Goto(r, f) BY <2>1 DEF f
  <2> QED BY <2>1, <2>4, <2>5, LoadStep
<1>8. CASE BeginStopAll(r)
  <2>1. PICK s \in Sids :
          /\ Live(sessionKV[s], now)
          /\ Goto(r, NextTarget([Request("stopAll", s, EmptySession)
                                   EXCEPT !.todo = sessionKV[s].val.targets]))
          /\ UNCHANGED <<now, stores, history>>
    BY <1>8 DEF BeginStopAll, Load
  <2> DEFINE f == [Request("stopAll", s, EmptySession) EXCEPT !.todo = sessionKV[s].val.targets]
  <2>2. SessionOK(born, granted, s, sessionKV[s].val)
    BY <2>1, LiveSound
  <2>3. f.op = "stopAll" /\ f.sid = s /\ f.todo = sessionKV[s].val.targets
    BY DEF Request, Idle
  <2>4. f \in Frame
    <3>1. sessionKV[s].val \in Session BY <2>1, LiveSound
    <3>2. EmptySession \in Session BY NewSessionType DEF EmptySession
    <3> QED BY <3>1, <3>2, IdleFrame DEF Request, Frame, Ops, Session
  <2> HIDE DEF f
  <2>5. FrameOK(born, granted, NextTarget(f))
    BY <2>2, <2>3, <2>4, StopAllNext DEF SessionOK
  <2>6. Goto(r, NextTarget(f)) BY <2>1 DEF f
  <2> QED BY <2>1, <2>5, <2>6, LoadStep
<1> QED BY <1>1, <1>2, <1>3, <1>4, <1>5, <1>6, <1>7, <1>8 DEF Begin

\* A request that settles on a link for a share of its own session.
LEMMA SettleOK ==
  ASSUME IInv, NEW r \in Reqs, rq[r].pc \in {"genLink", "tryLink"},
         NEW l, Settle(rq[r], l), UNCHANGED <<born, sessionKV, locdataKV>>,
         NEW pc \in {"tryLink", "setShare"}, NEW lid,
         Goto(r, [rq[r] EXCEPT !.link = l, !.lid = lid, !.pc = pc])
  PROVE  StoresOK' /\ FramesOK'
<1> DEFINE f == [rq[r] EXCEPT !.link = l, !.lid = lid, !.pc = pc]
<1>1. rq[r] \in Frame /\ FrameOK(born, granted, rq[r]) /\ WellFormed(rq[r])
  BY FrameSound
<1>2. /\ f.pc = pc /\ f.link = l /\ f.op = rq[r].op /\ f.sid = rq[r].sid
      /\ f.sess = rq[r].sess /\ f.share = rq[r].share
  BY <1>1 DEF Frame
<1>3. Goto(r, f)
  OBVIOUS
<1> HIDE DEF f
<1>4. Grows(born, granted, born', granted') /\ <<l, f.sid>> \in granted'
  BY <1>2 DEF Settle, Grows
<1>5. SessionOK(born, granted, f.sid, f.sess) /\ born[f.sid] # Absent
  BY <1>1, <1>2 DEF FrameOK, WellFormed
<1>6. SessionOK(born', granted', f.sid, f.sess) /\ born'[f.sid] # Absent
  BY <1>4, <1>5 DEF SessionOK, Grows
<1>7. ShareSound(born', f.share) /\ Exposed(f.share) \subseteq {f.sid}
  BY <1>1, <1>2 DEF FrameOK
<1>8. ShareOK(born', granted', l, f.share)
  BY <1>4, <1>7 DEF ShareOK
<1>9. FrameOK(born', granted', f)
  BY <1>2, <1>4, <1>6, <1>7, <1>8 DEF FrameOK
<1>10. FramesOK'
  BY <1>3, <1>4, <1>9, FramesStep
<1> QED BY <1>4, <1>10, StoresGrow DEF IInv

\* Both steps that settle on a link.
LEMMA LinkStepOK ==
  ASSUME IInv, NEW r \in Reqs, GenLink(r) \/ TryLink(r)
  PROVE  StoresOK' /\ FramesOK'
<1>1. rq[r] \in Frame
  BY FrameSound
<1>2. CASE GenLink(r)
  <2>1. PICK l \in Links :
          /\ Settle(rq[r], l)
          /\ Goto(r, [rq[r] EXCEPT !.link = l,
                        !.pc = IF rq[r].lid = NoLink THEN "setShare" ELSE "tryLink"])
    BY <1>2 DEF GenLink
  <2>2. /\ rq[r].pc \in {"genLink", "tryLink"} /\ UNCHANGED <<born, sessionKV, locdataKV>>
        /\ Settle(rq[r], l)
    BY <1>2, <2>1 DEF GenLink, stores
  <2>3. CASE rq[r].lid = NoLink
    <3>1. [rq[r] EXCEPT !.link = l, !.pc = "setShare"]
            = [rq[r] EXCEPT !.link = l, !.lid = NoLink, !.pc = "setShare"]
      BY <1>1, <2>3 DEF Frame
    <3>2. Goto(r, [rq[r] EXCEPT !.link = l, !.lid = NoLink, !.pc = "setShare"])
      BY <2>1, <2>3, <3>1
    <3> QED BY <2>2, <3>2, SettleOK
  <2>4. CASE rq[r].lid # NoLink
    <3>1. [rq[r] EXCEPT !.link = l, !.pc = "tryLink"]
            = [rq[r] EXCEPT !.link = l, !.lid = rq[r].lid, !.pc = "tryLink"]
      BY <1>1 DEF Frame
    <3>2. Goto(r, [rq[r] EXCEPT !.link = l, !.lid = rq[r].lid, !.pc = "tryLink"])
      BY <2>1, <2>4, <3>1
    <3> QED BY <2>2, <3>2, SettleOK
  <2> QED BY <2>3, <2>4
<1>3. CASE TryLink(r)
  <2>1. PICK l \in {rq[r].lid, rq[r].link} :
          /\ Settle(rq[r], l)
          /\ Goto(r, [rq[r] EXCEPT !.link = l, !.lid = NoLink, !.pc = "setShare"])
    BY <1>3 DEF TryLink
  <2>2. rq[r].pc \in {"genLink", "tryLink"} /\ UNCHANGED <<born, sessionKV, locdataKV>>
    BY <1>3 DEF TryLink, stores
  <2> QED BY <2>1, <2>2, SettleOK
<1> QED BY <1>2, <1>3

\* Whoever gets as far as the PIN is not encrypted and brings only itself.
LEMMA AdoptStepOK ==
  ASSUME IInv, NEW r \in Reqs, AdoptType(r) \/ AdoptShare(r) \/ GetPin(r)
  PROVE  StoresOK' /\ FramesOK'
<1>1. rq[r] \in Frame /\ WellFormed(rq[r]) /\ FrameOK(born, granted, rq[r])
  BY FrameSound
<1>2. UNCHANGED <<stores, history>>
  BY DEF AdoptType, AdoptShare, GetPin
<1>3. CASE AdoptType(r)
  <2> DEFINE f == [rq[r] EXCEPT !.pc = "adoptShare"]
  <2>1. FrameOK(born, granted, f)
    BY <1>1, <1>3 DEF AdoptType, FrameOK, Frame
  <2>2. Goto(r, f) \/ Answer(r)
    BY <1>3 DEF AdoptType
  <2> HIDE DEF f
  <2> QED BY <1>2, <2>1, <2>2, LoadStep
<1>4. CASE AdoptShare(r)
  <2> DEFINE e == locdataKV[rq[r].lid]
             f == [rq[r] EXCEPT !.pc = "getPin", !.share = e.val]
  <2>1. \/ MayAdopt(rq[r], e.val) /\ Goto(r, f)
        \/ Answer(r)
    BY <1>4 DEF AdoptShare
  <2>2. rq[r].op = "adopt" /\ rq[r].pc = "adoptShare"
    BY <1>1, <1>4 DEF AdoptShare, WellFormed
  <2>3. SessionOK(born, granted, rq[r].sid, rq[r].sess)
    BY <1>1, <2>2 DEF FrameOK
  <2>4. /\ f.pc = "getPin" /\ f.op = "adopt" /\ f.share = e.val
        /\ f.sid = rq[r].sid /\ f.sess = rq[r].sess
    BY <1>1, <2>2 DEF Frame
  <2>5. MayAdopt(rq[r], e.val) => Plain(born, f.sid) /\ Joiner(f) = f.sid
    BY <2>3, <2>4 DEF MayAdopt, Plain, Joiner, SessionOK
  <2> HIDE DEF e, f
  <2>6. MayAdopt(rq[r], e.val) => FrameOK(born, granted, f)
    BY <2>3, <2>4, <2>5 DEF FrameOK, SessionOK
  <2> QED BY <1>2, <2>1, <2>6, LoadStep
<1>5. CASE GetPin(r)
  <2> DEFINE f == [rq[r] EXCEPT !.pc = "getGroup", !.link = groupidKV[rq[r].pin].val]
  <2>1. FrameOK(born, granted, f)
    BY <1>1, <1>5 DEF GetPin, FrameOK, Frame, Joiner
  <2>2. Goto(r, f) \/ Answer(r)
    BY <1>5 DEF GetPin
  <2> HIDE DEF f
  <2> QED BY <1>2, <2>1, <2>2, LoadStep
<1> QED BY <1>3, <1>4, <1>5

\* A group loaded for a new member, with that member.
LEMMA GroupStepOK ==
  ASSUME IInv, NEW r \in Reqs, GetGroup(r)
  PROVE  StoresOK' /\ FramesOK'
<1> DEFINE e == locdataKV[rq[r].link]
           sh == AddHost(e.val, rq[r].nick, Joiner(rq[r]))
           f == [rq[r] EXCEPT !.pc = "setShare", !.share = sh]
<1>1. rq[r] \in Frame /\ WellFormed(rq[r]) /\ FrameOK(born, granted, rq[r])
  BY FrameSound
<1>2. /\ rq[r].link \in Links /\ rq[r].sid \in Sids /\ rq[r].op \in {"join", "adopt"}
      /\ Plain(born, rq[r].sid) /\ Joiner(rq[r]) = rq[r].sid
      /\ SessionOK(born, granted, rq[r].sid, rq[r].sess)
  BY <1>1 DEF GetGroup, WellFormed, FrameOK
<1>3. CASE Live(e, now) /\ e.val.type = "group" /\ Goto(r, f)
           /\ granted' = granted \cup {<<rq[r].link, rq[r].sid>>}
  <2>1. e.val \in Share /\ ShareOK(born, granted, rq[r].link, e.val)
    BY <1>2, <1>3, LiveSound
  <2>2. /\ sh.type = "group" /\ sh.host = e.val.host
        /\ \A n \in Nicks : sh.hosts[n] \in {rq[r].sid, e.val.hosts[n]}
    <3>1. e.val.type = "group" BY <1>3
    <3>2. Joiner(rq[r]) \in Sids \cup {NoSid} BY <1>2
    <3> HIDE DEF e
    <3> QED BY <1>2, <2>1, <3>1, <3>2, AddHostProperties
  <2>3. UNCHANGED <<born, sessionKV, locdataKV>>
    BY DEF GetGroup, stores
  <2>4. Grows(born, granted, born', granted')
    BY <1>3, <2>3 DEF Grows
  <2>5. /\ f.pc = "setShare" /\ f.op = rq[r].op /\ f.sid = rq[r].sid
        /\ f.sess = rq[r].sess /\ f.share = sh /\ f.link = rq[r].link
    BY <1>1 DEF Frame
  <2> HIDE DEF sh, f, e
  <2>6. ShareSound(born', sh)
    <3>1. HostsOf(sh) # {}
      <4>1. HostsOf(e.val) # {}
        BY <1>3, <2>1 DEF ShareOK, ShareSound
      <4>2. PICK n \in Nicks : e.val.hosts[n] # NoSid
        BY <4>1 DEF HostsOf
      <4>3. sh.hosts[n] # NoSid
        BY <1>2, <2>2, <4>2, NoSidAssumption
      <4> QED BY <4>3 DEF HostsOf
    <3> QED BY <1>2, <1>3, <2>1, <2>2, <2>3, <3>1 DEF ShareOK, ShareSound
  <2>7. \A s \in Exposed(sh) : <<rq[r].link, s>> \in granted'
    BY <1>3, <2>1, <2>2 DEF ShareOK, Exposed, HostsOf
  <2>8. SessionOK(born', granted', f.sid, f.sess)
    BY <1>2, <2>4, <2>5 DEF SessionOK, Grows
  <2>9. FrameOK(born', granted', f)
    BY <1>3, <2>5, <2>6, <2>7, <2>8 DEF FrameOK, ShareOK, SessionOK
  <2>10. FramesOK'
    BY <1>3, <2>4, <2>9, FramesStep
  <2> QED BY <2>3, <2>4, <2>10, StoresGrow DEF IInv
<1>4. CASE Answer(r) /\ UNCHANGED granted
  <2>1. UNCHANGED <<sessionKV, locdataKV, born, granted>>
    BY <1>4 DEF GetGroup, stores
  <2>2. Grows(born, granted, born', granted') /\ FrameOK(born', granted', Idle)
    BY <2>1, IdleOK DEF Grows
  <2>3. FramesOK'
    BY <1>4, <2>2, FramesStep
  <2> QED BY <2>1, <2>2, <2>3, StoresGrow DEF IInv
<1> QED BY <1>3, <1>4 DEF GetGroup

\* A target of a stop request is loaded, and the caller taken out of a group.
LEMMA StopStepOK ==
  ASSUME IInv, NEW r \in Reqs, StopType(r) \/ StopShare(r)
  PROVE  StoresOK' /\ FramesOK'
<1> DEFINE e == locdataKV[rq[r].link]
<1>1. rq[r] \in Frame /\ WellFormed(rq[r]) /\ FrameOK(born, granted, rq[r])
  BY FrameSound
<1>2. rq[r].link \in Links /\ Stopping(rq[r]) /\ rq[r].pc \in {"stopType", "stopShare"}
  BY <1>1 DEF StopType, StopShare, WellFormed
<1>3. UNCHANGED <<stores, history>>
  BY DEF StopType, StopShare
<1>4. FrameOK(born, granted, NextTarget(rq[r]))
  BY <1>1, <1>2, NextTargetOK
<1>5. CASE Goto(r, NextTarget(rq[r]))
  BY <1>3, <1>4, <1>5, LoadStep
<1>6. CASE StopType(r)
  <2> DEFINE f == [rq[r] EXCEPT !.pc = "stopShare", !.share.type = e.val.type]
  <2>1. /\ f.pc = "stopShare" /\ f.op = rq[r].op /\ f.sid = rq[r].sid
        /\ f.sess = rq[r].sess
    BY <1>1 DEF Frame
  <2>2. Goto(r, f) \/ Goto(r, NextTarget(rq[r]))
    BY <1>6 DEF StopType
  <2> HIDE DEF f
  <2>3. FrameOK(born, granted, f)
    BY <1>1, <1>2, <2>1 DEF FrameOK
  <2> QED BY <1>3, <1>5, <2>2, <2>3, LoadStep
<1>7. CASE StopShare(r) /\ Live(e, now) /\ rq[r].share.type = "solo"
  <2> DEFINE f == [rq[r] EXCEPT !.pc = "delShare", !.share = e.val]
  <2>1. f.pc = "delShare" /\ f.op = rq[r].op /\ f.sid = rq[r].sid /\ f.sess = rq[r].sess
    BY <1>1 DEF Frame
  <2>2. Goto(r, f)
    BY <1>7 DEF StopShare
  <2> HIDE DEF f
  <2>3. FrameOK(born, granted, f)
    BY <1>1, <1>2, <2>1 DEF FrameOK
  <2> QED BY <1>3, <2>2, <2>3, LoadStep
<1>8. CASE StopShare(r) /\ Live(e, now) /\ rq[r].share.type = "group"
  <2>1. PICK sh \in RemoveHost(e.val, rq[r].sid) :
          Goto(r, [rq[r] EXCEPT !.share = sh,
                     !.pc = IF Abandoned(sh) THEN "delPin" ELSE "setShare"])
    BY <1>8 DEF StopShare
  <2> DEFINE f == [rq[r] EXCEPT !.share = sh,
                     !.pc = IF Abandoned(sh) THEN "delPin" ELSE "setShare"]
  <2>2. e.val \in Share /\ ShareOK(born, granted, rq[r].link, e.val)
    BY <1>2, <1>8, LiveSound
  <2> HIDE DEF e
  <2>3. /\ sh.type = e.val.type /\ sh.host = e.val.host /\ sh.exp = e.val.exp
        /\ \A n \in Nicks : sh.hosts[n] \in {NoSid, e.val.hosts[n]}
    BY <2>2, RemoveHostProperties
  <2>4. ~Abandoned(sh) => ShareSound(born, sh)
    <3>1. sh.type = "solo" => HostsOf(sh) = {}
      BY <2>2, <2>3 DEF ShareOK, ShareSound, HostsOf
    <3> QED BY <2>2, <2>3, <3>1 DEF ShareOK, ShareSound, Abandoned
  <2>5. Exposed(sh) \subseteq Exposed(e.val)
    BY <2>3 DEF Exposed, HostsOf
  <2>6. ~Abandoned(sh) => ShareOK(born, granted, rq[r].link, sh)
    BY <2>2, <2>4, <2>5 DEF ShareOK
  <2>7. /\ f.pc = (IF Abandoned(sh) THEN "delPin" ELSE "setShare") /\ f.op = rq[r].op /\ f.sid = rq[r].sid
        /\ f.sess = rq[r].sess /\ f.link = rq[r].link /\ f.share = sh
    BY <1>1 DEF Frame
  <2>8. Goto(r, f)
    BY <2>1
  <2> HIDE DEF f
  <2>9. FrameOK(born, granted, f)
    BY <1>1, <1>2, <2>6, <2>7 DEF FrameOK, Stopping
  <2> QED BY <1>3, <2>8, <2>9, LoadStep
<1>9. CASE StopShare(r) /\ ~Live(e, now)
  <2>1. Goto(r, NextTarget(rq[r]))
    BY <1>9 DEF StopShare
  <2> QED BY <1>5, <2>1
<1>10. rq[r].share.type \in {"solo", "group"}
  BY <1>1 DEF Frame, Share
<1> QED BY <1>6, <1>7, <1>8, <1>9, <1>10

\* Deleting a record says nothing new about the others.
LEMMA DeleteStepOK ==
  ASSUME IInv, NEW r \in Reqs, DelPin(r) \/ DelShare(r) \/ DelSession(r)
  PROVE  StoresOK' /\ FramesOK'
<1>1. rq[r] \in Frame /\ WellFormed(rq[r]) /\ FrameOK(born, granted, rq[r])
  BY FrameSound
<1>2. /\ UNCHANGED <<born, granted>> /\ Grows(born, granted, born', granted')
      /\ Stopping(rq[r]) /\ rq[r].pc # "idle"
  BY <1>1 DEF DelPin, DelShare, DelSession, history, WellFormed, Grows, Stopping
<1>3. /\ \A s \in Sids : sessionKV'[s] # Absent => sessionKV'[s] = sessionKV[s]
      /\ \A l \in Links : locdataKV'[l] # Absent => locdataKV'[l] = locdataKV[l]
  BY DEF DelPin, DelShare, DelSession, IInv, TypeInv, TypeOK
<1>4. StoresOK'
  BY <1>2, <1>3 DEF StoresOK, IInv
<1>5. CASE DelPin(r)
  <2> DEFINE f == [rq[r] EXCEPT !.pc = "delShare"]
  <2>1. f.pc = "delShare" /\ f.op = rq[r].op /\ f.sid = rq[r].sid /\ f.sess = rq[r].sess
    BY <1>1 DEF Frame
  <2>2. Goto(r, f)
    BY <1>5 DEF DelPin
  <2> HIDE DEF f
  <2>3. FrameOK(born', granted', f)
    BY <1>1, <1>2, <2>1 DEF FrameOK
  <2> QED BY <1>2, <1>4, <2>2, <2>3, FramesStep
<1>6. CASE DelShare(r)
  <2>1. FrameOK(born', granted', NextTarget(rq[r]))
    BY <1>1, <1>2, NextTargetOK
  <2>2. Goto(r, NextTarget(rq[r]))
    BY <1>6 DEF DelShare
  <2> QED BY <1>2, <1>4, <2>1, <2>2, FramesStep
<1>7. CASE DelSession(r)
  <2>1. Goto(r, Idle) /\ FrameOK(born', granted', Idle)
    BY <1>7, IdleOK DEF DelSession
  <2> QED BY <1>2, <1>4, <2>1, FramesStep
<1> QED BY <1>5, <1>6, <1>7

\* What is saved is a sound copy.
LEMMA SaveStepOK ==
  ASSUME IInv, NEW r \in Reqs, SetShare(r) \/ SetPin(r) \/ SaveSession(r)
  PROVE  StoresOK' /\ FramesOK'
<1>1. rq[r] \in Frame /\ WellFormed(rq[r]) /\ FrameOK(born, granted, rq[r])
  BY FrameSound
<1>2. UNCHANGED <<born, granted>> /\ Grows(born, granted, born', granted')
  BY DEF SetShare, SetPin, SaveSession, history, Grows
<1>3. CASE SetShare(r) \/ SetPin(r)
  <2>1. rq[r].pc \in {"setShare", "setPin"} /\ rq[r].link \in Links
    BY <1>1, <1>3 DEF SetShare, SetPin, WellFormed
  <2>2. FrameOK(born', granted', ShareSaved(rq[r]))
    BY <1>1, <1>2, <2>1, ShareSavedOK
  <2>3. CASE SetShare(r)
    <3> DEFINE f == [rq[r] EXCEPT !.pc = "setPin"]
    <3>1. ShareOK(born, granted, rq[r].link, rq[r].share)
      BY <1>1, <2>3 DEF SetShare, FrameOK
    <3>2. /\ UNCHANGED sessionKV
          /\ \A l \in Links : locdataKV'[l] =
                IF l = rq[r].link THEN Write(rq[r].share, rq[r].share.exp, now)
                ELSE locdataKV[l]
      BY <2>1, <2>3 DEF SetShare, IInv, TypeInv, TypeOK
    <3>3. StoresOK'
      BY <1>2, <3>1, <3>2 DEF StoresOK, IInv, Write
    <3>4. /\ f.pc = "setPin" /\ f.op = rq[r].op /\ f.sid = rq[r].sid
          /\ f.sess = rq[r].sess /\ f.link = rq[r].link
      BY <1>1 DEF Frame
    <3>5. Goto(r, f) \/ Goto(r, ShareSaved(rq[r]))
      BY <2>3 DEF SetShare
    <3> HIDE DEF f
    <3>6. FrameOK(born', granted', f)
      BY <1>1, <1>2, <2>1, <3>4 DEF FrameOK, Stopping
    <3> QED BY <1>2, <2>2, <3>3, <3>5, <3>6, FramesStep
  <2>4. CASE SetPin(r)
    <3>1. UNCHANGED <<sessionKV, locdataKV>> /\ Goto(r, ShareSaved(rq[r]))
      BY <2>4 DEF SetPin
    <3> QED BY <1>2, <2>2, <3>1, FramesStep, StoresGrow DEF IInv
  <2> QED BY <1>3, <2>3, <2>4
<1>4. CASE SaveSession(r)
  <2>1. rq[r].sid \in Sids /\ SessionOK(born, granted, rq[r].sid, rq[r].sess)
    BY <1>1, <1>4 DEF SaveSession, WellFormed, FrameOK
  <2>2. /\ UNCHANGED locdataKV
        /\ \A s \in Sids : sessionKV'[s] =
              IF s = rq[r].sid THEN Write(rq[r].sess, rq[r].sess.exp, now)
              ELSE sessionKV[s]
    BY <1>4 DEF SaveSession, IInv, TypeInv, TypeOK
  <2>3. StoresOK'
    BY <1>2, <2>1, <2>2 DEF StoresOK, IInv, Write
  <2>4. Goto(r, Idle) /\ FrameOK(born', granted', Idle)
    BY <1>4, IdleOK DEF SaveSession
  <2> QED BY <1>2, <2>3, <2>4, FramesStep
<1> QED BY <1>3, <1>4

\* A request that is cut off leaves the records, a stop that skips goes on.
LEMMA FailStepOK ==
  ASSUME IInv, NEW r \in Reqs, Abort(r) \/ StopSkip(r)
  PROVE  StoresOK' /\ FramesOK'
<1>1. rq[r] \in Frame /\ WellFormed(rq[r]) /\ FrameOK(born, granted, rq[r])
  BY FrameSound
<1>2. /\ UNCHANGED <<sessionKV, locdataKV, born, granted>>
      /\ Grows(born, granted, born', granted')
  BY DEF Abort, StopSkip, stores, history, Grows
<1>3. StoresOK'
  BY <1>2, StoresGrow DEF IInv
<1>4. CASE Answer(r)
  <2>1. FrameOK(born', granted', Idle)
    BY IdleOK
  <2> QED BY <1>2, <1>3, <1>4, <2>1, FramesStep
<1>5. CASE StopSkip(r) /\ rq[r].pc = "delPin"
  <2> DEFINE f == [rq[r] EXCEPT !.pc = "delShare"]
  <2>1. f.pc = "delShare" /\ f.op = rq[r].op /\ f.sid = rq[r].sid /\ f.sess = rq[r].sess
    BY <1>1 DEF Frame
  <2>2. Goto(r, f)
    BY <1>5 DEF StopSkip
  <2> HIDE DEF f
  <2>3. FrameOK(born', granted', f)
    BY <1>1, <1>2, <1>5, <2>1 DEF FrameOK
  <2> QED BY <1>2, <1>3, <2>2, <2>3, FramesStep
<1>6. CASE Stopping(rq[r]) /\ rq[r].pc # "idle" /\ Goto(r, NextTarget(rq[r]))
  <2>1. FrameOK(born', granted', NextTarget(rq[r]))
    BY <1>1, <1>2, <1>6, NextTargetOK
  <2> QED BY <1>2, <1>3, <1>6, <2>1, FramesStep
<1> QED BY <1>4, <1>5, <1>6 DEF Abort, StopSkip

\* Every step keeps the stored records and the handlers' copies sound.
LEMMA SafeStep ==
  ASSUME IInv, [Next]_vars
  PROVE  IInv'
<1>1. TypeInv'
  BY TypeStep DEF IInv
<1>2. ASSUME NEW r \in Reqs, Begin(r) PROVE IInv'
  BY <1>1, <1>2, BeginOK DEF IInv
<1>3. ASSUME NEW r \in Reqs, Step(r) PROVE IInv'
  BY <1>1, <1>3, LinkStepOK, AdoptStepOK, GroupStepOK, StopStepOK, DeleteStepOK,
     SaveStepOK DEF Step, IInv
<1>4. ASSUME NEW r \in Reqs, Abort(r) \/ StopSkip(r) PROVE IInv'
  BY <1>1, <1>4, FailStepOK DEF IInv
<1>5. ASSUME Tick \/ UNCHANGED vars PROVE IInv'
  <2>1. /\ UNCHANGED <<sessionKV, locdataKV, rq>>
        /\ Grows(born, granted, born', granted')
    BY <1>5 DEF Tick, vars, stores, history, Grows
  <2>2. StoresOK'
    BY <2>1, StoresGrow DEF IInv
  <2>3. FramesOK'
    BY <2>1, FrameSound, FrameGrows DEF FramesOK
  <2> QED BY <1>1, <2>2, <2>3 DEF IInv
<1> QED BY <1>2, <1>3, <1>4, <1>5 DEF Next

\* Nothing is stored at first.
LEMMA SafeInit == Init => IInv
<1> SUFFICES ASSUME Init PROVE IInv
  OBVIOUS
<1>1. StoresOK
  BY DEF Init, StoresOK
<1>2. FramesOK
  BY IdleOK DEF Init, FramesOK
<1> QED BY <1>1, <1>2, TypeInit DEF IInv

------------------------------------------------------------------------------
(* The theorems *)

\* The inductive invariant: stored records and the copies of them that handlers
\* hold are sound, whatever has become of the originals.
THEOREM Soundness == Spec => []IInv
BY SafeInit, SafeStep, PTL DEF Spec

\* A share shows only sessions whose own holder put them under that link, and
\* a session lists only links it was put under, however create, new-link,
\* adopt, post and stop interleave and wherever they are cut off.
THEOREM ConsentCorrect == Spec => []Consent
<1>1. ASSUME IInv PROVE Consent
  <2>1. ASSUME NEW s \in Sids, sessionKV[s] # Absent,
               NEW l \in Range(sessionKV[s].val.targets)
        PROVE  <<l, s>> \in granted
    <3>1. sessionKV[s].val.targets \in Seq(Links)
      BY <1>1, <2>1 DEF IInv, TypeInv, TypeOK, EntryOf, Session
    <3>2. \E i \in 1..Len(sessionKV[s].val.targets) : l = sessionKV[s].val.targets[i]
      BY <2>1, <3>1 DEF Range
    <3> QED BY <1>1, <2>1, <3>2 DEF IInv, StoresOK, SessionOK
  <2> QED BY <1>1, <2>1 DEF Consent, IInv, StoresOK, ShareOK
<1> QED BY <1>1, Soundness, PTL

\* No end-to-end encrypted session ever becomes a member of a stored group.
THEOREM PlaintextGroupsCorrect == Spec => []PlaintextGroups
<1>1. IInv => PlaintextGroups
  BY DEF IInv, StoresOK, ShareOK, ShareSound, Plain, PlaintextGroups, HostsOf
<1> QED BY <1>1, Soundness, PTL

\* A stored solo share ends when the session it shows does.
THEOREM SoloExpiryCorrect == Spec => []SoloExpiry
<1>1. IInv => SoloExpiry
  BY DEF IInv, StoresOK, ShareOK, ShareSound, SoloExpiry
<1> QED BY <1>1, Soundness, PTL

\* A stored group has a member, whichever stale copies of it were saved.
THEOREM GroupNonEmptyCorrect == Spec => []GroupNonEmpty
<1>1. IInv => GroupNonEmpty
  BY DEF IInv, StoresOK, ShareOK, ShareSound, GroupNonEmpty
<1> QED BY <1>1, Soundness, PTL

\* No save from a stale copy moves the end of a session or its encryption.
THEOREM SessionFixedCorrect == Spec => []SessionFixed
<1>1. IInv => SessionFixed
  BY DEF IInv, StoresOK, SessionOK, SessionFixed
<1> QED BY <1>1, Soundness, PTL
==============================================================================
