------------------------------- MODULE HaukApi -------------------------------
(***************************************************************************)
(* The HTTP handlers that write: create, post, new-link, stop and adopt    *)
(* (src/api).  A handler runs in a goroutine of its own and keeps nothing  *)
(* between requests; it loads records, changes its copies and saves them.  *)
(* No lock spans two store operations, so that every store operation is a  *)
(* step of its own here and requests interleave between them.              *)
(*                                                                         *)
(* A request occupies a slot of rq, a frame with the local variables of    *)
(* the handler.  A Begin action is the arrival of a request together with  *)
(* the checks on its parameters and its first load; a request that is      *)
(* turned away there changes nothing and is not represented.               *)
(***************************************************************************)
EXTENDS HaukStore, HaukModel, FiniteSets

CONSTANTS Reqs,           \* slots: requests that may be in flight together
          Handlers,       \* the requests the clients send
          Durations,      \* values of dur the clients ask for
          Intervals,      \* values of int the clients ask for
          Adoptable,      \* values of ado the clients ask for
          Encrypted,      \* values of e2e the clients ask for
          MaxDuration, MinInterval,             \* config.Config
          AllowLinkReq, ReserveWL, ReservedLinks,
          Users,
          MaxTime,        \* bound: the last second of the clock
          MaxTargets,     \* bound: shares of one session
          ReuseLinks,     \* may Generate return the id of a dead share
          TickBusy,       \* may the clock tick while a request is in flight
          CanFail,        \* may a store operation fail, or a request be cut off
          NoLink, NoNick

ASSUME DurationsAssumption == Durations \subseteq Int /\ Intervals \subseteq Int
ASSUME LimitsAssumption == MaxDuration \in Nat /\ MinInterval \in Nat
ASSUME BoundsAssumption == MaxTime \in Nat /\ MaxTargets \in Nat
ASSUME FlagsAssumption ==
  Adoptable \subseteq BOOLEAN /\ Encrypted \subseteq BOOLEAN
ASSUME SwitchAssumption ==
  {AllowLinkReq, ReserveWL, ReuseLinks, TickBusy, CanFail} \subseteq BOOLEAN
ASSUME HandlersAssumption ==
  Handlers \subseteq {"solo", "group", "join", "post", "newLink", "adopt",
                      "stopLink", "stopAll"}
ASSUME NoneAssumption ==
  NoLink \notin Links /\ NoNick \notin Nicks
ASSUME AbsentAssumption ==
  /\ Absent \notin EntryOf(Session)
  /\ Absent \notin EntryOf(Share)
  /\ Absent \notin EntryOf(Links)
  /\ Absent \notin [exp : Nat, enc : BOOLEAN]

VARIABLES now,         \* the clock
          sessionKV,   \* session-<sid>
          locdataKV,   \* locdata-<link>
          groupidKV,   \* groupid-<pin>
          rq,          \* the requests in flight
          born,        \* history: what each session was created with
          granted,     \* history: <<l, s>> when a request of s put s under l
          stopped      \* history: sessions whose stop was answered

stores == <<sessionKV, locdataKV, groupidKV>>
history == <<born, granted, stopped>>
vars == <<now, stores, rq, history>>

------------------------------------------------------------------------------
(* Frames *)

Ops == {"none", "solo", "group", "join", "post", "newLink", "adopt",
        "stopLink", "stopAll"}

Pcs == {"idle", "genLink", "tryLink", "getPin", "getGroup", "setShare",
        "setPin", "saveSession", "adoptType", "adoptShare", "stopType",
        "stopShare", "delPin", "delShare", "delSession"}

Frame == [pc : Pcs, op : Ops, sid : Sids \cup {NoSid},
          lid : Links \cup {NoLink}, nick : Nicks \cup {NoNick},
          pin : Pins \cup {NoPin}, link : Links \cup {NoLink},
          share : Share, sess : Session, todo : Seq(Links)]

EmptySession == NewSession(0, 0, FALSE)
EmptyShare == SoloShare(NoSid, 0, FALSE)

Idle == [pc |-> "idle", op |-> "none", sid |-> NoSid, lid |-> NoLink,
         nick |-> NoNick, pin |-> NoPin, link |-> NoLink,
         share |-> EmptyShare, sess |-> EmptySession, todo |-> <<>>]

\* A new frame for a request of session sid whose copy of the session is s.
Request(op, sid, s) == [Idle EXCEPT !.op = op, !.sid = sid, !.sess = s]

Stopping(f) == f.op \in {"stopLink", "stopAll"}

At(r, pc) == rq[r].pc = pc
Goto(r, f) == rq' = [rq EXCEPT ![r] = f]
Answer(r) == Goto(r, Idle)

TypeOK ==
  /\ now \in Nat
  /\ sessionKV \in [Sids -> EntryOf(Session) \cup {Absent}]
  /\ locdataKV \in [Links -> EntryOf(Share) \cup {Absent}]
  /\ groupidKV \in [Pins -> EntryOf(Links) \cup {Absent}]
  /\ rq \in [Reqs -> Frame]
  /\ born \in [Sids -> [exp : Nat, enc : BOOLEAN] \cup {Absent}]
  /\ granted \subseteq Links \X Sids
  /\ stopped \subseteq Sids

Init ==
  /\ now = 0
  /\ sessionKV = [s \in Sids |-> Absent]
  /\ locdataKV = [l \in Links |-> Absent]
  /\ groupidKV = [p \in Pins |-> Absent]
  /\ rq = [r \in Reqs |-> Idle]
  /\ born = [s \in Sids |-> Absent]
  /\ granted = {}
  /\ stopped = {}

------------------------------------------------------------------------------
(* create.go *)

\* Mutant: the ban on encrypted groups, for those who join one.
CreateValid_EncryptedJoin(mode, d, i, enc) ==
  /\ d > 0 /\ d <= MaxDuration
  /\ i > 0 /\ i <= MaxDuration /\ i >= MinInterval
  /\ mode = "group" => ~enc

\* The checks on dur, int and e2e; mode is the value of mod.
CreateValid(mode, d, i, enc) ==
  /\ d > 0 /\ d <= MaxDuration
  /\ i > 0 /\ i <= MaxDuration /\ i >= MinInterval
  /\ mode \in {"group", "join"} => ~enc

\* The policy half of tryCustomLink: whether user may name the link l.
MayRequestLink(l, user) ==
  /\ AllowLinkReq
  /\ l \in DOMAIN ReservedLinks => user \in ReservedLinks[l]
  /\ ReserveWL => l \in DOMAIN ReservedLinks

\* The id asked for with lid, when the policy lets it through.
CustomLinks ==
  {l \in Links : \E u \in Users : MayRequestLink(l, u)} \cup {NoLink}

\* A create request makes a session under an identifier never used before:
\* 32 random bytes are taken not to repeat.  It reads the clock here.
Create(r, mode, s, f) ==
  /\ mode \in Handlers
  /\ At(r, "idle")
  /\ born[s] = Absent
  /\ \E d \in Durations, i \in Intervals, enc \in Encrypted :
        /\ CreateValid(mode, d, i, enc)
        /\ born' = [born EXCEPT ![s] = [exp |-> now + d, enc |-> enc]]
        /\ Goto(r, [f EXCEPT !.op = mode, !.sid = s,
                             !.sess = NewSession(now + d, i, enc),
                             !.share.exp = now + d])
  /\ UNCHANGED <<now, stores, granted, stopped>>

BeginSolo(r) ==
  \E s \in Sids, ado \in Adoptable, lid \in CustomLinks :
     Create(r, "solo", s, [Idle EXCEPT !.pc = "genLink", !.lid = lid,
                                       !.share = SoloShare(s, 0, ado)])

\* The PIN of a new group is drawn without a look at the PINs in use.
BeginGroup(r) ==
  \E s \in Sids, n \in Nicks, p \in Pins, lid \in CustomLinks :
     Create(r, "group", s, [Idle EXCEPT !.pc = "genLink", !.lid = lid,
                                        !.share = AddHost(GroupShare(0, p), n, s)])

BeginJoin(r) ==
  \E s \in Sids, n \in Nicks, p \in Pins :
     Create(r, "join", s, [Idle EXCEPT !.pc = "getPin", !.nick = n, !.pin = p])

\* linkgen.go: an identifier under which no live share is stored.
Generated(l) ==
  /\ ~Live(locdataKV[l], now)
  /\ ReuseLinks \/ \A s \in Sids : <<l, s>> \notin granted

\* The handler has settled on link l for its new share.
Settle(f, l) == granted' = granted \cup {<<l, f.sid>>}

GenLink(r) ==
  /\ At(r, "genLink")
  /\ \E l \in Links :
        /\ Generated(l)
        /\ Settle(rq[r], l)
        /\ Goto(r, [rq[r] EXCEPT !.link = l,
                      !.pc = IF rq[r].lid = NoLink THEN "setShare" ELSE "tryLink"])
  /\ UNCHANGED <<now, stores, born, stopped>>

\* Exists for the custom link; the generated one stays when it is taken or
\* when the store cannot tell.
TryLink(r) ==
  /\ At(r, "tryLink")
  /\ \E l \in {rq[r].lid, rq[r].link} :
        /\ l = rq[r].lid => ~Live(locdataKV[l], now)
        /\ l # rq[r].lid => Live(locdataKV[rq[r].lid], now) \/ CanFail
        /\ Settle(rq[r], l)
        /\ Goto(r, [rq[r] EXCEPT !.link = l, !.lid = NoLink, !.pc = "setShare"])
  /\ UNCHANGED <<now, stores, born, stopped>>

------------------------------------------------------------------------------
(* post.go, newlink.go: handlers that begin with the caller's session *)

\* LoadSession for a request of session s in slot r.
Load(r, op, s) == op \in Handlers /\ At(r, "idle") /\ Live(sessionKV[s], now)

BeginPost(r) ==
  \E s \in Sids, p \in Points :
     /\ Load(r, "post", s)
     /\ Goto(r, [Request("post", s, AddPoint(sessionKV[s].val, p))
                   EXCEPT !.pc = "saveSession"])
     /\ UNCHANGED <<now, stores, history>>

\* Mutant: the new link gets a fresh lease.
NewLinkShare_FreshLease(s, ado) == SoloShare(s, now + MaxDuration, ado)

\* A further solo share of a session, ending when the session does.
NewLinkShare(s, ado) == SoloShare(s, sessionKV[s].val.exp, ado)

BeginNewLink(r) ==
  \E s \in Sids, ado \in Adoptable :
     /\ Load(r, "newLink", s)
     /\ Len(sessionKV[s].val.targets) < MaxTargets
     /\ Goto(r, [Request("newLink", s, sessionKV[s].val)
                   EXCEPT !.pc = "genLink",
                          !.share = NewLinkShare(s, ado)])
     /\ UNCHANGED <<now, stores, history>>

------------------------------------------------------------------------------
(* adopt.go *)

BeginAdopt(r) ==
  \E s \in Sids, l \in Links, n \in Nicks, p \in Pins :
     /\ Load(r, "adopt", s)
     /\ Len(sessionKV[s].val.targets) < MaxTargets
     /\ Goto(r, [Request("adopt", s, sessionKV[s].val)
                   EXCEPT !.pc = "adoptType", !.lid = l, !.nick = n, !.pin = p])
     /\ UNCHANGED <<now, stores, history>>

\* LoadShareType: only a solo share may be adopted.
AdoptType(r) ==
  /\ At(r, "adoptType")
  /\ LET e == locdataKV[rq[r].lid]
     IN  IF Live(e, now) /\ e.val.type = "solo"
         THEN Goto(r, [rq[r] EXCEPT !.pc = "adoptShare"])
         ELSE Answer(r)
  /\ UNCHANGED <<now, stores, history>>

\* Mutants: the ownership check, the check on encryption.
MayAdopt_Anyone(f, sh) == sh.ado /\ ~f.sess.enc

MayAdopt_Encrypted(f, sh) == sh.ado /\ sh.host = f.sid

\* The caller may put the share sh into a group.
MayAdopt(f, sh) == sh.ado /\ sh.host = f.sid /\ ~f.sess.enc

\* LoadSoloShare and the checks on it.
AdoptShare(r) ==
  /\ At(r, "adoptShare")
  /\ LET e == locdataKV[rq[r].lid]
     IN  IF Live(e, now) /\ MayAdopt(rq[r], e.val)
         THEN Goto(r, [rq[r] EXCEPT !.pc = "getPin", !.share = e.val])
         ELSE Answer(r)
  /\ UNCHANGED <<now, stores, history>>

------------------------------------------------------------------------------
(* LoadGroupShareByPin, for adopt.go and for a join in create.go *)

GetPin(r) ==
  /\ At(r, "getPin")
  /\ LET e == groupidKV[rq[r].pin]
     IN  IF Live(e, now)
         THEN Goto(r, [rq[r] EXCEPT !.pc = "getGroup", !.link = e.val])
         ELSE Answer(r)
  /\ UNCHANGED <<now, stores, history>>

\* The session a request puts into a group: adopt.go names the host of the
\* share it adopts, create.go the session it has just made.
Joiner(f) == IF f.op = "adopt" THEN f.share.host ELSE f.sid

\* A solo share under the link decodes to a group with a nil map, on which
\* AddHost panics: the request ends there.
GetGroup(r) ==
  /\ At(r, "getGroup")
  /\ LET f == rq[r]
         e == locdataKV[f.link]
     IN  \/ /\ Live(e, now) /\ e.val.type = "group"
            /\ granted' = granted \cup {<<f.link, f.sid>>}
            /\ Goto(r, [f EXCEPT !.pc = "setShare",
                                 !.share = AddHost(e.val, f.nick, Joiner(f))])
         \/ /\ ~(Live(e, now) /\ e.val.type = "group")
            /\ Answer(r)
            /\ UNCHANGED granted
  /\ UNCHANGED <<now, stores, born, stopped>>

------------------------------------------------------------------------------
(* stop.go *)

\* Mutant: the loop ends one target early.
NextTarget_MissesLast(f) ==
  LET g == [f EXCEPT !.share = EmptyShare, !.link = NoLink]
  IN  CASE f.op = "stopLink" ->
             [g EXCEPT !.pc = "saveSession", !.sess = RemoveTarget(f.sess, f.lid)]
        [] f.op = "stopAll" /\ Len(f.todo) <= 1 -> [g EXCEPT !.pc = "delSession"]
        [] f.op = "stopAll" /\ Len(f.todo) > 1 ->
             [g EXCEPT !.pc = "stopType", !.link = Head(f.todo), !.todo = Tail(f.todo)]

\* The frame of a stop request that is through with one of its targets.
NextTarget(f) ==
  LET g == [f EXCEPT !.share = EmptyShare, !.link = NoLink]
  IN  CASE f.op = "stopLink" ->
             [g EXCEPT !.pc = "saveSession", !.sess = RemoveTarget(f.sess, f.lid)]
        [] f.op = "stopAll" /\ f.todo = <<>> -> [g EXCEPT !.pc = "delSession"]
        [] f.op = "stopAll" /\ f.todo # <<>> ->
             [g EXCEPT !.pc = "stopType", !.link = Head(f.todo), !.todo = Tail(f.todo)]

BeginStopLink(r) ==
  \E s \in Sids, l \in Links :
     /\ Load(r, "stopLink", s)
     /\ Contains(sessionKV[s].val.targets, l)
     /\ Goto(r, [Request("stopLink", s, sessionKV[s].val)
                   EXCEPT !.pc = "stopType", !.lid = l, !.link = l])
     /\ UNCHANGED <<now, stores, history>>

BeginStopAll(r) ==
  \E s \in Sids :
     /\ Load(r, "stopAll", s)
     /\ Goto(r, NextTarget([Request("stopAll", s, EmptySession)
                              EXCEPT !.todo = sessionKV[s].val.targets]))
     /\ UNCHANGED <<now, stores, history>>

\* LoadShareType; the type is kept in the frame's share until it is loaded.
StopType(r) ==
  /\ At(r, "stopType")
  /\ LET e == locdataKV[rq[r].link]
     IN  IF Live(e, now)
         THEN Goto(r, [rq[r] EXCEPT !.pc = "stopShare", !.share.type = e.val.type])
         ELSE Goto(r, NextTarget(rq[r]))
  /\ UNCHANGED <<now, stores, history>>

\* Mutant: a group nobody is left in is saved.
Abandoned_Never(sh) == FALSE

\* len(share.Hosts()) == 0
Abandoned(sh) == HostsOf(sh) = {}

\* LoadSoloShare or LoadGroupShare, by the type read before.  A solo share is
\* deleted whoever its host is; a group loses one entry of the caller and is
\* deleted once nobody is left.
StopShare(r) ==
  /\ At(r, "stopShare")
  /\ LET f == rq[r]
         e == locdataKV[f.link]
     IN  \/ /\ ~Live(e, now)
            /\ Goto(r, NextTarget(f))
         \/ /\ Live(e, now) /\ f.share.type = "solo"
            /\ Goto(r, [f EXCEPT !.pc = "delShare", !.share = e.val])
         \/ /\ Live(e, now) /\ f.share.type = "group"
            /\ \E sh \in RemoveHost(e.val, f.sid) :
                  Goto(r, [f EXCEPT !.share = sh,
                             !.pc = IF Abandoned(sh) THEN "delPin" ELSE "setShare"])
  /\ UNCHANGED <<now, stores, history>>

\* Mutant: the PIN of a deleted group stays.
DelPin_Forgets(r) ==
  /\ At(r, "delPin")
  /\ Goto(r, [rq[r] EXCEPT !.pc = "delShare"])
  /\ UNCHANGED <<now, stores, history>>

\* GroupShare.Delete: first the PIN, then the share.  The PIN of a solo share
\* decoded as a group is 0, a key nothing is stored under.
DelPin(r) ==
  /\ At(r, "delPin")
  /\ groupidKV' = [p \in Pins |-> IF p = rq[r].share.pin THEN Absent ELSE groupidKV[p]]
  /\ Goto(r, [rq[r] EXCEPT !.pc = "delShare"])
  /\ UNCHANGED <<now, sessionKV, locdataKV, history>>

DelShare(r) ==
  /\ At(r, "delShare")
  /\ locdataKV' = [locdataKV EXCEPT ![rq[r].link] = Absent]
  /\ Goto(r, NextTarget(rq[r]))
  /\ UNCHANGED <<now, sessionKV, groupidKV, history>>

DelSession(r) ==
  /\ At(r, "delSession")
  /\ sessionKV' = [sessionKV EXCEPT ![rq[r].sid] = Absent]
  /\ stopped' = stopped \cup {rq[r].sid}
  /\ Answer(r)
  /\ UNCHANGED <<now, locdataKV, groupidKV, born, granted>>

------------------------------------------------------------------------------
(* Saving *)

\* Mutant: adopt does not record the group in the session.
ShareSaved_NoTarget(f) ==
  IF Stopping(f) THEN NextTarget(f)
  ELSE IF f.op = "adopt" THEN [f EXCEPT !.pc = "saveSession", !.share = EmptyShare]
  ELSE [f EXCEPT !.pc = "saveSession", !.sess = AddTarget(f.sess, f.link),
                 !.share = EmptyShare]

\* A saved share is followed by AddTarget, except in a stop request.
ShareSaved(f) ==
  IF Stopping(f) THEN NextTarget(f)
  ELSE [f EXCEPT !.pc = "saveSession", !.sess = AddTarget(f.sess, f.link),
                 !.share = EmptyShare]

\* The first half of Save for a group, all of it for a solo share.
SetShare(r) ==
  /\ At(r, "setShare")
  /\ LET f == rq[r]
     IN  /\ locdataKV' = [locdataKV EXCEPT ![f.link] = Write(f.share, f.share.exp, now)]
         /\ Goto(r, IF f.share.type = "group" THEN [f EXCEPT !.pc = "setPin"]
                                              ELSE ShareSaved(f))
  /\ UNCHANGED <<now, sessionKV, groupidKV, history>>

\* The second half of Save for a group.
SetPin(r) ==
  /\ At(r, "setPin")
  /\ LET f == rq[r]
     IN  /\ groupidKV' = [groupidKV EXCEPT ![f.share.pin] = Write(f.link, f.share.exp, now)]
         /\ Goto(r, ShareSaved(f))
  /\ UNCHANGED <<now, sessionKV, locdataKV, history>>

SaveSession(r) ==
  /\ At(r, "saveSession")
  /\ LET f == rq[r]
     IN  sessionKV' = [sessionKV EXCEPT ![f.sid] = Write(f.sess, f.sess.exp, now)]
  /\ Answer(r)
  /\ UNCHANGED <<now, locdataKV, groupidKV, history>>

------------------------------------------------------------------------------
(* Failures and time *)

\* The handler returns without its next store operation: the operation failed,
\* the client went away and cancelled the request's context, the record could
\* not be encoded, or the process died.
Abort(r) ==
  /\ CanFail
  /\ ~At(r, "idle")
  /\ Answer(r)
  /\ UNCHANGED <<now, stores, history>>

\* stop.go drops the error of every operation and goes on; GroupShare.Save
\* does return after its first.
StopSkip(r) ==
  /\ CanFail
  /\ Stopping(rq[r])
  /\ LET f == rq[r]
     IN  \/ /\ f.pc \in {"stopType", "stopShare", "setShare", "setPin", "delShare"}
            /\ Goto(r, NextTarget(f))
            /\ UNCHANGED stopped
         \/ /\ f.pc = "delPin"
            /\ Goto(r, [f EXCEPT !.pc = "delShare"])
            /\ UNCHANGED stopped
         \/ /\ f.pc = "delSession"
            /\ Answer(r)
            /\ stopped' = stopped \cup {f.sid}
  /\ UNCHANGED <<now, stores, born, granted>>

Tick ==
  /\ now < MaxTime
  /\ TickBusy \/ \A r \in Reqs : At(r, "idle")
  /\ now' = now + 1
  /\ UNCHANGED <<stores, rq, history>>

------------------------------------------------------------------------------
Begin(r) ==
  \/ BeginSolo(r) \/ BeginGroup(r) \/ BeginJoin(r) \/ BeginPost(r)
  \/ BeginNewLink(r) \/ BeginAdopt(r) \/ BeginStopLink(r) \/ BeginStopAll(r)

\* The next step of the handler in slot r.
Step(r) ==
  \/ GenLink(r) \/ TryLink(r) \/ AdoptType(r) \/ AdoptShare(r)
  \/ GetPin(r) \/ GetGroup(r) \/ StopType(r) \/ StopShare(r)
  \/ DelPin(r) \/ DelShare(r) \/ DelSession(r)
  \/ SetShare(r) \/ SetPin(r) \/ SaveSession(r)

Next ==
  \/ \E r \in Reqs : Begin(r) \/ Step(r) \/ Abort(r) \/ StopSkip(r)
  \/ Tick

Spec == Init /\ [][Next]_vars

------------------------------------------------------------------------------
(* What holds however requests interleave and wherever they fail *)

Quiet == \A r \in Reqs : At(r, "idle")

\* Session s is shown to whoever views link l.
Visible(l, s) == Live(locdataKV[l], now) /\ s \in Exposed(locdataKV[l].val)

\* A share shows only sessions whose own holder asked to be under that link
\* (create, new-link, join or adopt), whatever stale copies of a group are
\* saved over each other and however links are reused; and the links post.go
\* lists to a client, the ones stop.go deletes for it, are such links of it.
Consent ==
  /\ \A l \in Links : locdataKV[l] # Absent =>
        \A s \in Exposed(locdataKV[l].val) : <<l, s>> \in granted
  /\ \A s \in Sids : sessionKV[s] # Absent =>
        \A l \in Range(sessionKV[s].val.targets) : <<l, s>> \in granted

\* An end-to-end encrypted session is never a member of a group: create.go
\* rejects it, adopt.go rejects it on another path.
PlaintextGroups ==
  \A l \in Links : locdataKV[l] # Absent =>
     \A s \in HostsOf(locdataKV[l].val) : born[s] # Absent /\ ~born[s].enc

\* A solo share ends when the session it shows does, the ones new-link adds
\* later included.
SoloExpiry ==
  \A l \in Links : locdataKV[l] # Absent /\ locdataKV[l].val.type = "solo" =>
     LET sh == locdataKV[l].val
     IN  born[sh.host] # Absent /\ sh.exp = born[sh.host].exp

\* Saving a session from a stale copy, by post, new-link, adopt or stop, never
\* moves its end nor turns its encryption on or off.
SessionFixed ==
  \A s \in Sids : sessionKV[s] # Absent =>
     /\ born[s] # Absent
     /\ sessionKV[s].val.exp = born[s].exp
     /\ sessionKV[s].val.enc = born[s].enc

\* A group that is stored has a member: the last to leave deletes it.
GroupNonEmpty ==
  \A l \in Links : locdataKV[l] # Absent /\ locdataKV[l].val.type = "group" =>
     HostsOf(locdataKV[l].val) # {}

------------------------------------------------------------------------------
(* The inductive invariant behind them *)

\* How far a handler has come says what kind of request it serves and which of
\* its local variables are set.
WellFormed(f) ==
  /\ f.pc # "idle" => f.sid \in Sids
  /\ f.pc \in {"genLink", "tryLink"} => f.op \in {"solo", "group", "newLink"}
  /\ f.pc = "tryLink" => f.lid \in Links
  /\ f.pc \in {"getPin", "getGroup"} => f.op \in {"join", "adopt"} /\ f.pin \in Pins
  /\ f.pc \in {"adoptType", "adoptShare"} => f.op = "adopt" /\ f.lid \in Links /\ f.pin \in Pins
  /\ f.pc \in {"stopType", "stopShare", "delPin", "delShare"} => Stopping(f)
  /\ f.pc = "delSession" => f.op = "stopAll"
  /\ f.pc = "saveSession" => f.op # "stopAll"
  /\ f.pc \in {"tryLink", "getGroup", "setShare", "setPin", "stopType",
               "stopShare", "delPin", "delShare"} => f.link \in Links

TypeInv == TypeOK /\ \A r \in Reqs : WellFormed(rq[r])

\* The predicates below take the two histories they look at, b for born and g
\* for granted, as parameters: both only grow.

\* A copy of the session s, stored or in a handler, agrees with what s was
\* created with and lists links s was granted.
SessionOK(b, g, s, sess) ==
  /\ b[s] # Absent
  /\ sess.exp = b[s].exp /\ sess.enc = b[s].enc
  /\ \A i \in 1..Len(sess.targets) : <<sess.targets[i], s>> \in g

\* Session s was created, and without encryption.
Plain(b, s) == b[s] # Absent /\ ~b[s].enc

\* The part of ShareOK that does not depend on the link.
ShareSound(b, sh) ==
  /\ \A n \in Nicks : sh.hosts[n] # NoSid => Plain(b, sh.hosts[n])
  /\ sh.type = "group" => sh.host = NoSid /\ HostsOf(sh) # {}
  /\ sh.type = "solo" => /\ HostsOf(sh) = {}
                         /\ sh.host \in Sids /\ b[sh.host] # Absent
                         /\ sh.exp = b[sh.host].exp

\* A copy of a share that is, or may come to be, stored under the link l.
ShareOK(b, g, l, sh) ==
  /\ ShareSound(b, sh)
  /\ \A s \in Exposed(sh) : <<l, s>> \in g

\* What the copies in a handler's hands are worth, whatever has become of the
\* stored records since.
FrameOK(b, g, f) ==
  /\ f.pc # "idle" => b[f.sid] # Absent
  /\ f.pc # "idle" /\ f.op # "stopAll" => SessionOK(b, g, f.sid, f.sess)
  /\ f.pc \in {"genLink", "tryLink"} =>
        ShareSound(b, f.share) /\ Exposed(f.share) \subseteq {f.sid}
  /\ f.pc \in {"getPin", "getGroup"} => Plain(b, f.sid) /\ Joiner(f) = f.sid
  /\ f.pc = "setShare" => ShareOK(b, g, f.link, f.share)
  /\ f.pc \in {"setShare", "setPin"} /\ ~Stopping(f) => <<f.link, f.sid>> \in g

StoresOK ==
  /\ \A s \in Sids : sessionKV[s] # Absent => SessionOK(born, granted, s, sessionKV[s].val)
  /\ \A l \in Links : locdataKV[l] # Absent => ShareOK(born, granted, l, locdataKV[l].val)

FramesOK == \A r \in Reqs : FrameOK(born, granted, rq[r])

IInv == TypeInv /\ StoresOK /\ FramesOK

------------------------------------------------------------------------------
(* What holds between requests when they do not overlap *)

Count(seq, l) == Cardinality({i \in DOMAIN seq : seq[i] = l})

\* Every entry under which a live session is shown is among its targets, as
\* often as there are entries, so that stop finds them all.
TargetsCover ==
  Quiet => \A s \in Sids, l \in Links : Live(sessionKV[s], now) /\ Visible(l, s) =>
     LET sh == locdataKV[l].val
     IN  Count(sessionKV[s].val.targets, l) >=
           IF sh.type = "solo" THEN 1 ELSE Cardinality(HostNicks(sh, s))

\* After stop has answered, the session is gone and no link shows it.
StoppedIsGone ==
  Quiet => \A s \in stopped :
     ~Live(sessionKV[s], now) /\ \A l \in Links : ~Visible(l, s)

\* Nothing of a session stays after the end its creator asked for but its place in a
\* group, with requests in flight or without.
ExpiredIsGone ==
  \A s \in Sids : born[s] # Absent /\ ~Alive(born[s], now) =>
     /\ ~Live(sessionKV[s], now)
     /\ \A l \in Links : Visible(l, s) => locdataKV[l].val.type = "group"

\* A PIN that is accepted leads to a live group that has it.
PinResolves ==
  Quiet => \A p \in Pins : Live(groupidKV[p], now) =>
     LET e == locdataKV[groupidKV[p].val]
     IN  Live(e, now) /\ e.val.type = "group" /\ e.val.pin = p

\* A stop takes nobody off a group but its own session, and touches no link that
\* session was never put under.  The solo share of another session does go when it
\* was given a link the caller once had.
StopIsLocal ==
  [][\A r \in Reqs, l \in Links, s \in Sids :
        /\ Stopping(rq[r]) /\ rq'[r] # rq[r] /\ s # rq[r].sid /\ Visible(l, s)
        /\ locdataKV[l].val.type = "group" \/ <<l, rq[r].sid>> \notin granted
        => Visible(l, s)']_vars
==============================================================================
