---------------------------- MODULE HaukSequential ----------------------------
(***************************************************************************)
(* HaukApi with one request at a time: what a handler relies on when       *)
(* nothing moves between its store operations.  SeqInv is the inductive    *)
(* invariant behind the properties of HaukApi that speak of quiet moments  *)
(* and behind HaukSharing.                                                 *)
(***************************************************************************)
EXTENDS HaukSharing

\* One request at a time: there is one slot for requests, none fails or is cut off, and
\* the clock stands still while one is in flight.
OneAtATime == (\E r : Reqs = {r}) /\ ~TickBusy /\ ~CanFail

\* The steps there are then.
SingleNext == (\E r \in Reqs : Begin(r) \/ Step(r)) \/ Tick

SingleSpec == Init /\ [][SingleNext]_vars

\* A deadline that is far enough for an entry stored until then to be found.
Ahead(d, t) == IF Backend = "memory" THEN t <= d ELSE t < d

\* A deadline the handlers may set at time t.
Within(d, t) == Ahead(d, t) /\ d <= t + MaxDuration

\* An entry is kept until the end its record names, and ends in time.
Kept(e, t) == e # Absent => e.exp = e.val.exp /\ e.exp <= t + MaxDuration

\* No session has infinitely many names in a group.
FewNames(sh) == \A s \in Sids : IsFiniteSet(HostNicks(sh, s))

\* The entries of a share that show session s.
Needed(sh, s) == IF sh.type = "solo" THEN 1 ELSE Cardinality(HostNicks(sh, s))

Creating(f) == f.op \in {"solo", "group", "join"}

\* The share that a live key holds shows session s.
Shows(e, t, s) == Live(e, t) /\ s \in Exposed(e.val)

------------------------------------------------------------------------------
(* The stores.  Time and the stores are parameters: t for now, ses, loc and  *)
(* gid for the three kinds of keys.                                          *)

\* Sessions and shares are kept until their own ends.
ExpiryKept(t, ses, loc) ==
  /\ \A s \in Sids : Kept(ses[s], t)
  /\ \A l \in Links : Kept(loc[l], t) /\ (loc[l] # Absent => FewNames(loc[l].val))

\* A PIN leads to the group that has it and ends with it.
PinsLead(t, loc, gid) ==
  \A p \in Pins : Live(gid[p], t) =>
     LET e == loc[gid[p].val]
     IN  /\ Live(e, t) /\ e.val.type = "group" /\ e.val.pin = p
         /\ gid[p].exp = e.exp

\* A stopped session is not in the store.
StoppedGone(ses, b, st) ==
  \A s \in st : ses[s] = Absent /\ b[s] # Absent

------------------------------------------------------------------------------
(* The request in flight *)

InTarget == {"stopType", "stopShare", "setShare", "delPin", "delShare"}

\* How often the request of frame f still has link l on its list: the targets
\* it is about to save, or to stop.
Listed(f, l) ==
  IF f.op = "stopAll"
  THEN Count(f.todo, l) + (IF f.pc \in InTarget /\ f.link = l THEN 1 ELSE 0)
  ELSE Count(f.sess.targets, l)
         + (IF f.pc = "setPin" /\ f.link = l
            THEN IF f.op = "stopLink" THEN -1 ELSE 1 ELSE 0)

\* What a frame's own session is shown by is on its list.
FrameCovers(t, loc, f) ==
  \A l \in Links : Shows(loc[l], t, f.sid) => Needed(loc[l].val, f.sid) <= Listed(f, l)

\* What any other session is shown by is among the targets it is stored with.
StoredCover(t, ses, loc, f) ==
  \A s \in Sids : Live(ses[s], t) /\ (f.pc = "idle" \/ f.sid # s) =>
     \A l \in Links : Shows(loc[l], t, s) =>
        Needed(loc[l].val, s) <= Count(ses[s].val.targets, l)

\* A session that is shown was saved and not deleted, unless the request that
\* creates it is still at it.
ShownKnown(t, ses, loc, f) ==
  \A l \in Links, s \in Sids : Shows(loc[l], t, s) =>
     ses[s] # Absent \/ (Creating(f) /\ f.sid = s)

\* The caller's session: new in a create request, else in the store still.
CallerKnown(t, ses, st, f) ==
  /\ f.sid \notin st
  /\ f.op # "stopAll" => Within(f.sess.exp, t)
  /\ Creating(f) => ses[f.sid] = Absent /\ (f.pc # "saveSession" => f.sess.targets = <<>>)
  /\ ~Creating(f) => Live(ses[f.sid], t)
  /\ f.pc \in {"adoptType", "adoptShare", "getPin", "getGroup"} /\ f.op = "adopt" =>
        f.sess = ses[f.sid].val
  /\ f.op = "stopLink" /\ f.pc \in InTarget \cup {"setPin"} => f.link = f.lid
  /\ f.pc = "delSession" => f.todo = <<>>

\* The share the handler has made.
ShareMade(t, f) ==
  /\ Within(f.share.exp, t) /\ FewNames(f.share)
  /\ f.op \in {"solo", "newLink"} => f.share.type = "solo" /\ f.share.host = f.sid
  /\ f.op = "group" =>
        /\ f.share.type = "group"
        /\ \E n \in Nicks : f.share.hosts = [NoHosts EXCEPT ![n] = f.sid]

\* The group share e holds, with the caller added or taken out.
ShareChanged(t, e, f) ==
  /\ Live(e, t) /\ e.val.type = "group"
  /\ IF Stopping(f) THEN f.share \in RemoveHost(e.val, f.sid)
     ELSE f.nick \in Nicks /\ f.share = AddHost(e.val, f.nick, f.sid)

\* The caller's copy of the share fits what is stored under the link.
ShareFits(t, loc, gid, f) ==
  /\ f.pc \in {"genLink", "tryLink"} => ShareMade(t, f)
  /\ f.pc = "tryLink" => ~Live(loc[f.link], t)
  /\ f.pc = "setShare" =>
        IF f.op \in {"solo", "group", "newLink"}
        THEN ShareMade(t, f) /\ ~Live(loc[f.link], t)
        ELSE ShareChanged(t, loc[f.link], f)
  /\ f.pc = "setPin" =>
        Live(loc[f.link], t) /\ loc[f.link].val = f.share /\ f.share.type = "group"
  /\ f.pc = "stopShare" => Live(loc[f.link], t) /\ f.share.type = loc[f.link].val.type
  /\ f.pc = "delPin" => ShareChanged(t, loc[f.link], f) /\ Abandoned(f.share)
  /\ f.pc = "delShare" =>
        \/ Live(loc[f.link], t) /\ f.share = loc[f.link].val /\ f.share.type = "solo"
        \/ /\ ShareChanged(t, loc[f.link], f) /\ Abandoned(f.share)
           /\ \A p \in Pins : p = f.share.pin => gid[p] = Absent

\* A create request is left with the one entry it made.
EntryMade(t, loc, f) ==
  Creating(f) =>
     /\ f.pc = "setPin" => Shows(loc[f.link], t, f.sid)
     /\ f.pc = "saveSession" =>
           \E l \in Links : f.sess.targets = <<l>> /\ Shows(loc[l], t, f.sid)

\* All of what the request in flight relies on.
RequestSeq(t, ses, loc, gid, st, f) ==
  /\ f.op # "none" /\ (f.op = "post" => f.pc = "saveSession")
  /\ CallerKnown(t, ses, st, f)
  /\ f.pc \in {"getPin", "getGroup", "adoptType", "adoptShare"} => f.nick \in Nicks
  /\ ShareFits(t, loc, gid, f)
  /\ EntryMade(t, loc, f)
  /\ FrameCovers(t, loc, f)

\* The stores are as the frame says, between requests and within one.
FrameSeq(t, ses, loc, gid, st, f) ==
  /\ f.pc = "idle" => f = Idle
  /\ f.pc # "idle" => RequestSeq(t, ses, loc, gid, st, f)
  /\ StoredCover(t, ses, loc, f)
  /\ ShownKnown(t, ses, loc, f)

\* The stores fit each other whatever the frame.
StoresSeq ==
  /\ ExpiryKept(now, sessionKV, locdataKV)
  /\ PinsLead(now, locdataKV, groupidKV)
  /\ StoppedGone(sessionKV, born, stopped)

SeqInv ==
  /\ IInv /\ StoresSeq
  /\ \A r \in Reqs : FrameSeq(now, sessionKV, locdataKV, groupidKV, stopped, rq[r])

\* A stop works through links its session was put under.
ListGranted ==
  \A r \in Reqs : Stopping(rq[r]) =>
     /\ \A i \in 1..Len(rq[r].todo) : <<rq[r].todo[i], rq[r].sid>> \in granted
     /\ rq[r].link \in Links => <<rq[r].link, rq[r].sid>> \in granted
==============================================================================
