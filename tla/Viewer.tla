-------------------------------- MODULE Viewer --------------------------------
(***************************************************************************)
(* The page that shows a share (frontend/main.js), for shares that are not *)
(* encrypted, against the answers of api/fetch.go.  The page fetches once  *)
(* when it is opened and from then on in a timer; requests overlap when an *)
(* answer takes longer than the interval, and answers come in any order.   *)
(*                                                                         *)
(* An answer is computed in one step here.  What it may hold when writers  *)
(* interfere with the fetch is the subject of HaukFetch.                   *)
(***************************************************************************)
EXTENDS Integers, SequencesExt, Selection

CONSTANTS Users,         \* the nicknames of the group, "" for a solo share
          Kind,          \* "solo" or "group"
          Interval,      \* the interval of each user's session
          End,           \* when the share expires
          MaxCachedPts,  \* config.Config: locations a session keeps
          MaxPoints,     \* MAX_POINTS: locations the page keeps of a user
          Skew,          \* how far the clock of the page is ahead, in seconds
          Slots,         \* bound: requests of the page in flight together
          TimerIds,      \* what setInterval returns
          NoTimer,       \* fetchIntv before the first setInterval
          MaxTime,       \* bound: the last second of the clock
          CanFail        \* may a request time out or the page be offline

ASSUME KindAssumption == Kind \in {"solo", "group"} /\ CanFail \in BOOLEAN
ASSUME IntervalAssumption == Interval \in [Users -> Nat \ {0}]
ASSUME NumbersAssumption ==
  /\ {End, MaxCachedPts, MaxPoints} \subseteq Nat \ {0}
  /\ MaxTime \in Nat /\ Skew \in Int
ASSUME NoTimerAssumption == NoTimer \notin TimerIds

VARIABLES now,        \* the clock of the server
          members,    \* users whose session is alive
          cache,      \* the locations the server has of each, by their times
          phone,      \* the time of the last location each user has sent
          closed,     \* the share was stopped
          reqs,       \* the requests of the page
          timers,     \* the intervals that are set
          fetchIntv,  \* the one the page knows
          shown,      \* the trail drawn for each user
          message     \* what the page says of the share

share == <<members, cache, phone, closed>>
page == <<timers, fetchIntv, shown, message>>
vars == <<now, share, reqs, page>>

------------------------------------------------------------------------------
(* What the server answers *)

Times == Nat \ {0}

\* The time of the last of the locations pts, 0 when there is none.
LastTime(pts) == IF pts = <<>> THEN 0 ELSE Last(pts)

Answer == [ok : BOOLEAN, expire : Nat, ivl : Nat, serverTime : Nat,
           points : [Users -> Seq(Times)], nulls : SUBSET Users]

Refusal == [ok |-> FALSE, expire |-> 0, ivl |-> 0, serverTime |-> 0,
            points |-> [u \in Users |-> <<>>], nulls |-> {}]

\* The share is there; a solo share needs its session, a group does not.
Found == ~closed /\ now < End /\ (Kind = "solo" => members # {})

\* Mutant: the newest location only.
PointsSince_Newest(u, since) ==
  IF cache[u] = <<>> \/ LastTime(cache[u]) <= since THEN <<>> ELSE <<Last(cache[u])>>

\* Session.GetPoints.
PointsSince(u, since) ==
  IF since = 0 THEN cache[u]
  ELSE Selected(cache[u], {i \in DOMAIN cache[u] : cache[u][i] > since})

\* A user without a newer location: GetPoints returns a nil slice, which is
\* encoded as null.  fetch.go turns it into an empty list for a solo share.
NullPoints(since) ==
  IF Kind = "solo" \/ since = 0 THEN {}
  ELSE {u \in members : PointsSince(u, since) = <<>>}

\* GetAutoInterval; for a solo share the interval of its session.
LeastInterval == IF members = {} THEN 0 ELSE Min({Interval[u] : u \in members})

Served(since) ==
  IF ~Found THEN Refusal
  ELSE [ok |-> TRUE, expire |-> End, ivl |-> LeastInterval, serverTime |-> now,
        points |-> [u \in Users |-> IF u \in members THEN PointsSince(u, since) ELSE <<>>],
        nulls |-> NullPoints(since)]

------------------------------------------------------------------------------
(* Requests, timers *)

\* first is the fetch of init(); the others carry the values of the timer that
\* sent them, which the callback compares the answer with.
Request == [pc : {"free", "sent", "answered"}, first : BOOLEAN, expire : Nat,
            ivl : Nat, since : Nat, ans : Answer]

Free == [pc |-> "free", first |-> FALSE, expire |-> 0, ivl |-> 0, since |-> 0,
         ans |-> Refusal]

Timer == [id : TimerIds, expire : Nat, ivl : Nat, offset : Int]

TypeOK ==
  /\ now \in Nat /\ closed \in BOOLEAN
  /\ members \subseteq Users
  /\ cache \in [Users -> Seq(Times)]
  /\ phone \in [Users -> Nat]
  /\ reqs \in [Slots -> Request]
  /\ timers \subseteq Timer
  /\ fetchIntv \in TimerIds \cup {NoTimer}
  /\ shown \in [Users -> Seq(Times)]
  /\ message \in {"none", "notfound", "expired"}

Init ==
  /\ now = 0 /\ closed = FALSE
  /\ members \in IF Kind = "solo" THEN {Users} ELSE SUBSET Users
  /\ cache = [u \in Users |-> <<>>]
  /\ phone = [u \in Users |-> 0]
  /\ \E q \in Slots :
        reqs = [x \in Slots |-> IF x = q THEN [Free EXCEPT !.pc = "sent", !.first = TRUE]
                                         ELSE Free]
  /\ timers = {} /\ fetchIntv = NoTimer
  /\ shown = [u \in Users |-> <<>>]
  /\ message = "none"

\* The seconds since the epoch by the clock of the page.
PageClock == now + Skew

\* timeOffset is in seconds and is taken off milliseconds.
NewTimer(i, d) ==
  [id |-> i, expire |-> d.expire, ivl |-> d.ivl, offset |-> PageClock - d.serverTime]

\* Mutant: the milliseconds are compared as seconds times a million.
Expired_Unit(t) == 1000 * PageClock - t.offset >= 1000000 * t.expire

\* The share is over by the clock of the page, corrected with the offset.
Expired(t) == 1000 * PageClock - t.offset >= 1000 * t.expire

\* Mutant: nothing is cleared.
Cleared_Nothing(ts) == ts

\* clearInterval(fetchIntv)
Cleared(ts) == {t \in ts : t.id # fetchIntv}

\* Mutant: the new timer is cleared, too.
WithTimer_ClearedAfter(ts, i, d) == ts

WithTimer(ts, i, d) == ts \cup {NewTimer(i, d)}

\* setNewInterval; ts are the timers that are set before.
SetNewInterval(ts, d) ==
  \E i \in TimerIds :
     /\ \A t \in ts : t.id # i
     /\ timers' = WithTimer(ts, i, d)
     /\ fetchIntv' = i

\* Mutant: -1 where no location is known.
OldestPointTime_Unset ==
  LET known == {u \in Users : shown[u] # <<>>}
  IN  IF known = {} THEN -1 ELSE Min({Last(shown[u]) : u \in known})

\* getOldestPointTime: users no location is known of are not looked at.
OldestPointTime ==
  LET known == {u \in Users : shown[u] # <<>>}
  IN  IF known = {} THEN 0 ELSE Min({Last(shown[u]) : u \in known})

\* The callback of a timer.  It sends its request also when the share is over.
Fire(t) ==
  /\ t \in timers
  /\ \E q \in Slots :
        /\ reqs[q].pc = "free"
        /\ reqs' = [reqs EXCEPT ![q] = [Free EXCEPT !.pc = "sent", !.expire = t.expire,
                                          !.ivl = t.ivl, !.since = OldestPointTime]]
  /\ IF Expired(t) THEN timers' = Cleared(timers) /\ message' = "expired"
                   ELSE UNCHANGED <<timers, message>>
  /\ UNCHANGED <<now, share, fetchIntv, shown>>

------------------------------------------------------------------------------
(* Answers *)

Serve(q) ==
  /\ reqs[q].pc = "sent"
  /\ reqs' = [reqs EXCEPT ![q].pc = "answered", ![q].ans = Served(reqs[q].since)]
  /\ UNCHANGED <<now, share, page>>

\* Mutant: a request that fails ends the share.
Fail_AsInvalid(q) ==
  /\ CanFail
  /\ reqs[q].pc # "free"
  /\ reqs' = [reqs EXCEPT ![q] = Free]
  /\ timers' = Cleared(timers) /\ message' = "expired"
  /\ UNCHANGED <<now, share, fetchIntv, shown>>

\* Neither 200 nor 404, no connection, or REQUEST_TIMEOUT: nothing is called.
Fail(q) ==
  /\ CanFail
  /\ reqs[q].pc # "free"
  /\ reqs' = [reqs EXCEPT ![q] = Free]
  /\ UNCHANGED <<now, share, page>>

\* Mutant: a location is drawn whatever its time.
Extended_Unordered(trail, pts) == trail \o pts

\* The locations newer than the last are added, one after the other.
Longer(trail, pts) ==
  LET tr[n \in 0..Len(pts)] ==
        IF n = 0 THEN trail
        ELSE IF pts[n] > LastTime(tr[n - 1]) THEN Append(tr[n - 1], pts[n]) ELSE tr[n - 1]
  IN  tr[Len(pts)]

\* Of the locations of a user the page keeps MAX_POINTS.
Extended(trail, pts) ==
  LET longer == Longer(trail, pts)
      over == Len(longer) - MaxPoints
  IN  IF over > 0 THEN SubSeq(longer, over + 1, Len(longer)) ELSE longer

\* The part of processUpdate that draws, for the users in us.
Draw(d, us) ==
  shown' = [u \in Users |-> IF u \in us THEN Extended(shown[u], d.points[u]) ELSE shown[u]]

\* Mutant: the timers are recreated with every answer.
Changed_Always(r, d) == TRUE

\* The interval or the expiration differ from those of the sending timer.
Changed(r, d) == d.expire # r.expire \/ d.ivl # r.ivl

FirstAnswer(r, d) ==
  /\ r.first
  /\ \/ d.ok /\ SetNewInterval(timers, d) /\ Draw(d, Users) /\ UNCHANGED message
     \/ ~d.ok /\ message' = "notfound" /\ UNCHANGED <<timers, fetchIntv, shown>>

PollAnswer(r, d) ==
  /\ ~r.first /\ d.ok /\ d.nulls = {}
  /\ IF Changed(r, d) THEN SetNewInterval(Cleared(timers), d)
                      ELSE UNCHANGED <<timers, fetchIntv>>
  /\ Draw(d, Users) /\ UNCHANGED message

\* users[user].length of a null throws in the middle of the loop over the users
\* and getJSON calls invalid() for it, which clears a timer set for the answer.
PollThrows(r, d) ==
  /\ ~r.first /\ d.ok /\ d.nulls # {}
  /\ \E us \in SUBSET (Users \ d.nulls) : Draw(d, us)
  /\ timers' = Cleared(timers) /\ message' = "expired"
  /\ fetchIntv' \in IF Changed(r, d) THEN TimerIds \ {t.id : t \in Cleared(timers)}
                                     ELSE {fetchIntv}

\* invalid() of a timer: the share is said to be over.
PollRefused(r, d) ==
  /\ ~r.first /\ ~d.ok
  /\ timers' = Cleared(timers) /\ message' = "expired"
  /\ UNCHANGED <<fetchIntv, shown>>

Deliver(q) ==
  /\ reqs[q].pc = "answered"
  /\ LET r == reqs[q] IN
        \/ FirstAnswer(r, r.ans) \/ PollAnswer(r, r.ans)
        \/ PollThrows(r, r.ans)  \/ PollRefused(r, r.ans)
  /\ reqs' = [reqs EXCEPT ![q] = Free]
  /\ UNCHANGED <<now, share>>

------------------------------------------------------------------------------
(* The share: what the requests of HaukApi do to it, for one viewer *)

\* A client posts; its own clock, which does not go back, names the location.
Post(u) ==
  /\ u \in members
  /\ \E t \in (phone[u] + 1)..(now + 1) :
        /\ phone' = [phone EXCEPT ![u] = t]
        /\ LET pts == Append(cache[u], t)
               over == Len(pts) - MaxCachedPts
           IN  cache' = [cache EXCEPT ![u] = IF over > 0 THEN Tail(pts) ELSE pts]
  /\ UNCHANGED <<now, members, closed, reqs, page>>

\* A member joins with a new session; it leaves, or its session ends.
Join(u) ==
  /\ Kind = "group" /\ u \notin members
  /\ members' = members \cup {u}
  /\ cache' = [cache EXCEPT ![u] = <<>>]
  /\ UNCHANGED <<now, phone, closed, reqs, page>>

Leave(u) ==
  /\ u \in members
  /\ members' = members \ {u}
  /\ UNCHANGED <<now, cache, phone, closed, reqs, page>>

Stop ==
  /\ ~closed
  /\ closed' = TRUE
  /\ UNCHANGED <<now, members, cache, phone, reqs, page>>

Tick ==
  /\ now < MaxTime
  /\ now' = now + 1
  /\ UNCHANGED <<share, reqs, page>>

Next ==
  \/ \E q \in Slots : Serve(q) \/ Fail(q) \/ Deliver(q)
  \/ \E t \in timers : Fire(t)
  \/ \E u \in Users : Post(u) \/ Join(u) \/ Leave(u)
  \/ Stop \/ Tick

Spec == Init /\ [][Next]_vars

\* Time passes, the browser runs the timers, and it ends each request when
\* REQUEST_TIMEOUT is over if the server does not answer before.
Fairness ==
  /\ WF_vars(Tick)
  /\ WF_vars(\E t \in timers : Fire(t))
  /\ \A q \in Slots : WF_vars(Serve(q) \/ Fail(q) \/ Deliver(q))

LiveSpec == Spec /\ Fairness

------------------------------------------------------------------------------

\* A trail never goes back in time, in whatever order answers come.
TrailAscends ==
  \A u \in Users : \A i \in 1..(Len(shown[u]) - 1) : shown[u][i] < shown[u][i + 1]

\* A trail has no gap the server could fill, in whatever order answers come.
TrailHasNoGap ==
  \A u \in Users : shown[u] # <<>> =>
     \A t \in Range(cache[u]) :
        Head(shown[u]) < t /\ t < Last(shown[u]) => t \in Range(shown[u])

\* "Schedule a task that fetches data once per interval time": no timer runs
\* beside the one the page knows and can clear.
OneTimer == \A t \in timers : t.id = fetchIntv

\* A page that has shown the share, and does not say it is over, is polling.
KeepsPolling == fetchIntv # NoTimer /\ message = "none" => timers # {}

\* A share the page says is over is over.
NoEarlyEnd == message = "expired" => ~Found

\* A page that has stopped polling does not start again, whatever answers are
\* still under way.
OverIsFinal == [][message = "expired" /\ timers = {} => timers' = {}]_vars

\* Once the share has expired the page stops polling for good, even when no
\* request gets through any more.
EndIsNoticed == <>[](timers = {})
==============================================================================
