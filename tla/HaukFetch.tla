------------------------------ MODULE HaukFetch ------------------------------
(***************************************************************************)
(* Viewers (api/fetch.go) beside the writers of HaukApi.  A fetch changes  *)
(* no record, but it reads the type, the share and every session one after *)
(* another while the writers go on, and a group reads all sessions twice:  *)
(* once for the locations, once for the interval.                          *)
(***************************************************************************)
EXTENDS HaukApi

CONSTANTS Viewers,       \* fetches that may be in flight together
          Sinces         \* values of since the viewers send

ASSUME SincesAssumption == Sinces \subseteq Nat

VARIABLE fq              \* the fetches in flight

fetchVars == <<vars, fq>>

\* In a frame todo holds the nicknames the loop in progress has not come to;
\* shown and ivl are the answer built so far, shown the locations read and the
\* session they are of.  gone is history: the sessions that were gone when the
\* request arrived.
FetchFrame ==
  [pc : {"idle", "share", "solo", "points", "ivl", "reply"},
   link : Links \cup {NoLink}, since : Nat, type : {"solo", "group"},
   share : Share, todo : SUBSET Nicks, shown : SUBSET (Sids \X Seq(Points)),
   ivl : Nat, gone : SUBSET Sids]

NoFetch == [pc |-> "idle", link |-> NoLink, since |-> 0, type |-> "solo",
            share |-> EmptyShare, todo |-> {}, shown |-> {}, ivl |-> 0,
            gone |-> {}]

FetchInit == Init /\ fq = [v \in Viewers |-> NoFetch]

FetchAt(v, pc) == fq[v].pc = pc
FetchGoto(v, f) == fq' = [fq EXCEPT ![v] = f]
NotFound(v) == FetchGoto(v, NoFetch)

\* No request of session s is in flight, to save a copy of it.
Unattended(s) == \A r \in Reqs : ~At(r, "idle") => rq[r].sid # s

\* Sessions of which nothing should be shown any more: those that have ended, and
\* those a stop deleted which no other request of theirs overlapped.
GoneSids ==
  {s \in Sids : born[s] # Absent /\ ~Alive(born[s], now)} \cup
  {s \in stopped : sessionKV[s] = Absent /\ Unattended(s)}

\* LoadShareType.
BeginFetch(v) ==
  /\ FetchAt(v, "idle")
  /\ \E l \in Links, t \in Sinces :
        /\ Live(locdataKV[l], now)
        /\ FetchGoto(v, [NoFetch EXCEPT !.pc = "share", !.link = l, !.since = t,
                                        !.type = locdataKV[l].val.type,
                                        !.gone = GoneSids])

\* Mutant: the loop walks the sessions of the map, not its nicknames.
Members_Sessions(sh) == HostsOf(sh)

\* The nicknames the loops of GetAllPoints and GetAutoInterval walk.
Members(sh) == {n \in Nicks : sh.hosts[n] # NoSid}

\* Go on to a loop over the members, or past it when there are none.
Loop(f, pc) ==
  IF Members(f.share) = {} THEN [f EXCEPT !.pc = "reply"]
  ELSE [f EXCEPT !.pc = pc, !.todo = Members(f.share)]

\* LoadSoloShare or LoadGroupShare, by the type read before.
FetchShare(v) ==
  /\ FetchAt(v, "share")
  /\ LET f == fq[v]
         e == locdataKV[f.link]
     IN  \/ /\ ~Live(e, now)
            /\ NotFound(v)
         \/ /\ Live(e, now) /\ f.type = "solo"
            /\ FetchGoto(v, [f EXCEPT !.pc = "solo", !.share = e.val])
         \/ /\ Live(e, now) /\ f.type = "group"
            /\ FetchGoto(v, Loop([f EXCEPT !.share = e.val], "points"))

\* The least interval so far, 0 standing for none.
LeastInterval(ivl, new) == IF ivl = 0 \/ new < ivl THEN new ELSE ivl

\* The locations of session s that the request asks for.
Showing(f, s, sess) == f.shown \cup {<<s, GetPoints(sess, f.since)>>}

\* LoadSession of the host.  The host of a group decoded as a solo share is
\* "", under which no session is stored.
FetchSolo(v) ==
  /\ FetchAt(v, "solo")
  /\ LET f == fq[v]
         s == f.share.host
     IN  IF s # NoSid /\ Live(sessionKV[s], now)
         THEN FetchGoto(v, [f EXCEPT !.pc = "reply", !.ivl = sessionKV[s].val.ivl,
                                     !.shown = Showing(f, s, sessionKV[s].val)])
         ELSE NotFound(v)

\* One turn of the loop of GetAllPoints: the map is walked in any order, and a
\* member without a session is left out.
FetchPoints(v) ==
  /\ FetchAt(v, "points")
  /\ \E n \in fq[v].todo :
        LET s == fq[v].share.hosts[n]
            f == [fq[v] EXCEPT !.todo = @ \ {n},
                    !.shown = IF Live(sessionKV[s], now)
                              THEN Showing(fq[v], s, sessionKV[s].val) ELSE @]
        IN  FetchGoto(v, IF f.todo = {} THEN Loop(f, "ivl") ELSE f)

\* One turn of the loop of GetAutoInterval.
FetchIvl(v) ==
  /\ FetchAt(v, "ivl")
  /\ \E n \in fq[v].todo :
        LET e == sessionKV[fq[v].share.hosts[n]]
            f == [fq[v] EXCEPT !.todo = @ \ {n},
                    !.ivl = IF Live(e, now) THEN LeastInterval(@, e.val.ivl) ELSE @]
        IN  FetchGoto(v, IF f.todo = {} THEN [f EXCEPT !.pc = "reply"] ELSE f)

\* The answer is encoded and sent.
Reply(v) == FetchAt(v, "reply") /\ FetchGoto(v, NoFetch)

\* A step of the server beside the viewers: a request goes on, or fails.
Served == (\E r \in Reqs : Begin(r) \/ Step(r)) \/ Tick

Failed == \E r \in Reqs : Abort(r) \/ StopSkip(r)

FetchNext ==
  \/ Served /\ UNCHANGED fq
  \/ Failed /\ UNCHANGED fq
  \/ \E v \in Viewers :
        /\ \/ BeginFetch(v) \/ FetchShare(v) \/ FetchSolo(v) \/ FetchPoints(v)
           \/ FetchIvl(v) \/ Reply(v)
        /\ UNCHANGED vars

FetchSpec == FetchInit /\ [][FetchNext]_fetchVars

------------------------------------------------------------------------------

FetchTypeOK == fq \in [Viewers -> FetchFrame]

Replying(v) == FetchAt(v, "reply")

\* An answer holds locations of sessions only that were put under the link it
\* was asked for, although share and sessions are read at different times and
\* either may have been replaced in between.
FetchConsent ==
  \A v \in Viewers : Replying(v) =>
     \A x \in fq[v].shown : <<fq[v].link, x[1]>> \in granted

\* What a group answer shows is never encrypted: it says nothing of encryption
\* and the viewer would plot the cipher text.
FetchPlain ==
  \A v \in Viewers : Replying(v) /\ fq[v].share.type = "group" =>
     \A x \in fq[v].shown : ~born[x[1]].enc

\* A viewer who asks after a session was deleted by a stop, or after its end, gets
\* no location of it, whatever requests of others are in flight or fail.
FetchNotGone ==
  \A v \in Viewers : Replying(v) => \A x \in fq[v].shown : x[1] \notin fq[v].gone
==============================================================================
