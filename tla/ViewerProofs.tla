----------------------------- MODULE ViewerProofs -----------------------------
(***************************************************************************)
(* The timers of the page and what it says of the share, for any number of *)
(* users and of requests in flight, answered in any order or not at all.   *)
(* The second part is about shares of one user: there the page ends when   *)
(* the share does and not before, unless its clock is ahead.  The third    *)
(* has the types, and what is drawn: the trail of a user ascends, and that *)
(* of a share of one user has no gap.                                      *)
(***************************************************************************)
EXTENDS Viewer, SelectionProofs

------------------------------------------------------------------------------
(* Timers *)

\* The requests are records with the fields of Free, whatever they carry.
ReqsShaped ==
  /\ DOMAIN reqs = Slots
  /\ \A q \in Slots : DOMAIN reqs[q] = DOMAIN Free

\* The request of init() is alone as long as it is in flight: nothing polls yet.
FirstAlone ==
  \A q \in Slots : reqs[q].pc # "free" /\ reqs[q].first =>
     /\ timers = {} /\ fetchIntv = NoTimer /\ message = "none"
     /\ \A p \in Slots : p # q => reqs[p].pc = "free"

TimerInv == ReqsShaped /\ FirstAlone /\ OneTimer /\ KeepsPolling

\* One request changes, and is not the first unless it was.
LEMMA ReqStep ==
  ASSUME ReqsShaped, NEW q \in Slots, NEW r, reqs' = [reqs EXCEPT ![q] = r],
         DOMAIN r = DOMAIN Free
  PROVE  /\ ReqsShaped'
         /\ \A p \in Slots : reqs'[p] = IF p = q THEN r ELSE reqs[p]
BY DEF ReqsShaped

LEMMA FreeStep ==
  ASSUME ReqsShaped, NEW q \in Slots, reqs' = [reqs EXCEPT ![q] = Free]
  PROVE  \A p \in Slots : reqs'[p] = IF p = q THEN Free ELSE reqs[p]
BY DEF ReqsShaped

LEMMA FreeFields ==
  /\ Free.pc = "free" /\ Free.first = FALSE
  /\ DOMAIN Free = {"pc", "first", "expire", "ivl", "since", "ans"}
BY DEF Free

\* With one timer at most, clearing the one the page knows clears all.
LEMMA ClearedAll == ASSUME OneTimer PROVE Cleared(timers) = {}
BY DEF OneTimer, Cleared

\* A timer set beside no other is the only one.
LEMMA SetStep ==
  ASSUME NEW d, SetNewInterval({}, d)
  PROVE  /\ \A t \in timers' : t.id = fetchIntv'
         /\ timers' # {} /\ fetchIntv' \in TimerIds
         /\ timers' = {NewTimer(fetchIntv', d)}
BY DEF SetNewInterval, WithTimer, NewTimer

\* A timer sends its request: there is no first one in flight.
LEMMA FireStep ==
  ASSUME TimerInv, NEW t \in timers, Fire(t)
  PROVE  TimerInv'
<1>1. PICK q \in Slots :
        reqs' = [reqs EXCEPT ![q] = [Free EXCEPT !.pc = "sent", !.expire = t.expire,
                                       !.ivl = t.ivl, !.since = OldestPointTime]]
  BY DEF Fire
<1> DEFINE r == [Free EXCEPT !.pc = "sent", !.expire = t.expire, !.ivl = t.ivl,
                             !.since = OldestPointTime]
<1>2. DOMAIN r = DOMAIN Free /\ r.first = FALSE
  BY FreeFields
<1> HIDE DEF r
<1>3. ReqsShaped' /\ \A p \in Slots : reqs'[p] = IF p = q THEN r ELSE reqs[p]
  BY <1>1, <1>2, ReqStep DEF TimerInv, r
<1>4. FirstAlone'
  BY <1>2, <1>3 DEF TimerInv, FirstAlone
<1>5. OneTimer' /\ KeepsPolling'
  BY ClearedAll DEF Fire, TimerInv, OneTimer, KeepsPolling
<1> QED BY <1>3, <1>4, <1>5 DEF TimerInv

\* An answer on its way, or a request given up.
LEMMA WayStep ==
  ASSUME TimerInv, NEW q \in Slots, Serve(q) \/ Fail(q)
  PROVE  TimerInv'
<1>1. UNCHANGED page
  BY DEF Serve, Fail
<1>2. PICK r : /\ reqs' = [reqs EXCEPT ![q] = r] /\ DOMAIN r = DOMAIN Free
               /\ r.pc # "free" => reqs[q].pc # "free" /\ r.first = reqs[q].first
  <2>1. CASE Serve(q)
    <3> DEFINE r == [reqs[q] EXCEPT !.pc = "answered", !.ans = Served(reqs[q].since)]
    <3>1. DOMAIN r = DOMAIN Free /\ r.first = reqs[q].first /\ reqs[q].pc # "free"
      BY <2>1, FreeFields DEF Serve, TimerInv, ReqsShaped
    <3>2. reqs' = [reqs EXCEPT ![q] = r]
      BY <2>1 DEF Serve, TimerInv, ReqsShaped
    <3> HIDE DEF r
    <3> QED BY <3>1, <3>2
  <2>2. CASE Fail(q)
    BY <2>2, FreeFields DEF Fail
  <2> QED BY <2>1, <2>2
<1>3. ReqsShaped' /\ \A p \in Slots : reqs'[p] = IF p = q THEN r ELSE reqs[p]
  BY <1>2, ReqStep DEF TimerInv
<1> QED BY <1>1, <1>2, <1>3 DEF TimerInv, FirstAlone, OneTimer, KeepsPolling, page

\* The callbacks of getJSON.
LEMMA DeliverStep ==
  ASSUME TimerInv, NEW q \in Slots, Deliver(q)
  PROVE  TimerInv'
<1>1. reqs[q].pc = "answered" /\ reqs' = [reqs EXCEPT ![q] = Free]
  BY DEF Deliver
<1>2. ReqsShaped' /\ \A p \in Slots : reqs'[p] = IF p = q THEN Free ELSE reqs[p]
  BY <1>1, ReqStep DEF TimerInv
<1> DEFINE r == reqs[q]
           d == reqs[q].ans
<1>3. ~r.first => \A p \in Slots : ~(reqs[p].pc # "free" /\ reqs[p].first)
  BY <1>1 DEF TimerInv, FirstAlone
<1>4. r.first => timers = {} /\ \A p \in Slots : p # q => reqs[p].pc = "free"
  BY <1>1 DEF TimerInv, FirstAlone
<1>5. FirstAlone'
  BY <1>2, <1>3, <1>4, FreeFields DEF FirstAlone
<1>6. Cleared(timers) = {}
  BY ClearedAll DEF TimerInv
<1>7. CASE FirstAnswer(r, d)
  <2>1. CASE d.ok
    <3>1. SetNewInterval({}, d)
      BY <1>4, <1>7, <2>1 DEF FirstAnswer
    <3> QED BY <1>2, <1>5, <3>1, SetStep DEF TimerInv, OneTimer, KeepsPolling
  <2>2. CASE ~d.ok
    BY <1>2, <1>5, <1>7, <2>2 DEF FirstAnswer, TimerInv, OneTimer, KeepsPolling
  <2> QED BY <2>1, <2>2
<1>8. CASE PollAnswer(r, d)
  <2>1. CASE Changed(r, d)
    <3>1. SetNewInterval({}, d)
      BY <1>6, <1>8, <2>1 DEF PollAnswer
    <3> QED BY <1>2, <1>5, <3>1, SetStep DEF TimerInv, OneTimer, KeepsPolling
  <2>2. CASE ~Changed(r, d)
    BY <1>2, <1>5, <1>8, <2>2 DEF PollAnswer, TimerInv, OneTimer, KeepsPolling
  <2> QED BY <2>1, <2>2
<1>9. CASE PollThrows(r, d) \/ PollRefused(r, d)
  <2>1. timers' = {} /\ message' = "expired"
    BY <1>6, <1>9 DEF PollThrows, PollRefused
  <2> QED BY <1>2, <1>5, <2>1 DEF TimerInv, OneTimer, KeepsPolling
<1> QED BY <1>7, <1>8, <1>9 DEF Deliver

LEMMA TimerStep ==
  ASSUME TimerInv, [Next]_vars
  PROVE  TimerInv'
<1>1. CASE UNCHANGED <<reqs, page>>
  BY <1>1 DEF page, TimerInv, ReqsShaped, FirstAlone, OneTimer, KeepsPolling
<1>2. ASSUME NEW u \in Users, Post(u) \/ Join(u) \/ Leave(u)
      PROVE  UNCHANGED <<reqs, page>>
  BY <1>2 DEF Post, Join, Leave
<1>3. Stop \/ Tick \/ UNCHANGED vars => UNCHANGED <<reqs, page>>
  BY DEF Stop, Tick, vars
<1> QED BY <1>1, <1>2, <1>3, FireStep, WayStep, DeliverStep DEF Next

LEMMA TimerInit == Init => TimerInv
<1> SUFFICES ASSUME Init PROVE TimerInv
  OBVIOUS
<1>1. PICK q \in Slots :
        reqs = [x \in Slots |-> IF x = q THEN [Free EXCEPT !.pc = "sent", !.first = TRUE]
                                         ELSE Free]
  BY DEF Init
<1>2. DOMAIN [Free EXCEPT !.pc = "sent", !.first = TRUE] = DOMAIN Free
  BY FreeFields
<1>3. ReqsShaped
  BY <1>1, <1>2 DEF ReqsShaped
<1>4. FirstAlone
  BY <1>1, FreeFields DEF Init, FirstAlone
<1> QED BY <1>3, <1>4 DEF Init, TimerInv, OneTimer, KeepsPolling

LEMMA TimerSoundness == Spec => []TimerInv
BY TimerInit, TimerStep, PTL DEF Spec

\* No timer ever runs beside the one the page knows and can clear.
THEOREM OneTimerCorrect == Spec => []OneTimer
<1>1. TimerInv => OneTimer
  BY DEF TimerInv
<1> QED BY <1>1, TimerSoundness, PTL

\* A page that has shown the share and does not say it is over is polling.
THEOREM KeepsPollingCorrect == Spec => []KeepsPolling
<1>1. TimerInv => KeepsPolling
  BY DEF TimerInv
<1> QED BY <1>1, TimerSoundness, PTL

------------------------------------------------------------------------------
(* Shares of one user *)

\* An answer that is on its way to the page at the time n is what the server said
\* then or before; it said no only if the share is over.
AnswerOK(d, n, found) ==
  /\ d.ok => /\ d.expire = End /\ \A u \in Users : d.ivl = Interval[u]
             /\ d.nulls = {} /\ d.serverTime \in Nat /\ d.serverTime <= n
  /\ ~d.ok => ~found

\* The timers know the end and the interval of the share and how far, at least, the
\* clock of the page is ahead.
SoloTimer(t) ==
  /\ t.expire = End /\ \A u \in Users : t.ivl = Interval[u]
  /\ t.offset \in Int /\ t.offset >= Skew

SoloInv ==
  /\ TimerInv
  /\ now \in Nat /\ members \subseteq Users
  /\ \A t \in timers : SoloTimer(t)
  /\ \A q \in Slots :
        /\ reqs[q].pc # "free" /\ ~reqs[q].first =>
              reqs[q].expire = End /\ \A u \in Users : reqs[q].ivl = Interval[u]
        /\ reqs[q].pc = "answered" => AnswerOK(reqs[q].ans, now, Found)
  /\ NoEarlyEnd

\* The only user's interval is the least.
LEMMA OneInterval ==
  ASSUME NEW u, Users = {u}, members \subseteq Users, members # {}
  PROVE  \A w \in Users : LeastInterval = Interval[w]
<1>1. members = {u} /\ Interval[u] \in Nat
  BY IntervalAssumption
<1>2. {Interval[w] : w \in members} = {Interval[u]}
  BY <1>1
<1>3. Min({Interval[u]}) = Interval[u]
  BY <1>1 DEF Min
<1> QED BY <1>1, <1>2, <1>3 DEF LeastInterval

\* What the server answers.
LEMMA ServedOK ==
  ASSUME Kind = "solo", NEW u, Users = {u}, SoloInv, NEW since
  PROVE  AnswerOK(Served(since), now, Found)
<1>1. CASE Found
  <2>1. members # {}
    BY <1>1 DEF Found
  <2> QED BY <1>1, <2>1, OneInterval DEF SoloInv, Served, AnswerOK, NullPoints
<1>2. CASE ~Found
  BY <1>2 DEF Served, Refusal, AnswerOK
<1> QED BY <1>1, <1>2

\* What is over stays over, and what was answered was so.
LEMMA OverStays ==
  ASSUME Kind = "solo", SoloInv, [Next]_vars
  PROVE  /\ ~Found => ~Found'
         /\ now' \in Nat /\ now <= now' /\ members' \subseteq Users
<1>1. CASE UNCHANGED <<now, share>>
  BY <1>1 DEF SoloInv, share, Found
<1>2. ASSUME NEW w \in Users, Post(w) \/ Join(w) \/ Leave(w)
      PROVE  /\ ~Found => ~Found'
             /\ now' \in Nat /\ now <= now' /\ members' \subseteq Users
  BY <1>2 DEF Post, Join, Leave, SoloInv, Found
<1>3. CASE Stop
  BY <1>3 DEF Stop, SoloInv, Found
<1>4. CASE Tick
  BY <1>4, NumbersAssumption DEF Tick, SoloInv, Found, share
<1>5. CASE UNCHANGED vars
  BY <1>1, <1>5 DEF vars
<1>6. ASSUME NEW q \in Slots, Serve(q) \/ Fail(q) \/ Deliver(q)
      PROVE  UNCHANGED <<now, share>>
  BY <1>6 DEF Serve, Fail, Deliver
<1>7. ASSUME NEW t \in timers, Fire(t) PROVE UNCHANGED <<now, share>>
  BY <1>7 DEF Fire
<1> QED BY <1>1, <1>2, <1>3, <1>4, <1>5, <1>6, <1>7 DEF Next

\* An answer set a timer for holds.
LEMMA NewTimerOK ==
  ASSUME SoloInv, NEW i, NEW d, d.ok, AnswerOK(d, now, Found)
  PROVE  SoloTimer(NewTimer(i, d))
<1>1. now \in Nat /\ Skew \in Int /\ d.serverTime \in Nat /\ d.serverTime <= now
  BY NumbersAssumption DEF SoloInv, AnswerOK
<1> QED BY <1>1 DEF AnswerOK, NewTimer, SoloTimer, PageClock

\* A timer whose test finds the share over is right.
LEMMA ExpiredIsOver ==
  ASSUME Skew <= 0, SoloInv, NEW t \in timers, Expired(t)
  PROVE  ~Found
<1>1. /\ t.expire = End /\ t.offset \in Int /\ t.offset >= Skew
      /\ now \in Nat /\ Skew \in Int /\ End \in Nat
  BY NumbersAssumption DEF SoloInv, SoloTimer
<1>2. 1000 * (now + Skew) - t.offset >= 1000 * End
  BY <1>1 DEF Expired, PageClock
<1>3. now >= End
  BY <1>1, <1>2
<1> QED BY <1>1, <1>3 DEF Found

\* It holds later, too.
LEMMA AnswerStays ==
  ASSUME NEW d, NEW n \in Nat, NEW m \in Nat, n <= m, NEW f, NEW g, ~f => ~g,
         AnswerOK(d, n, f)
  PROVE  AnswerOK(d, m, g)
BY DEF AnswerOK

\* The rest of the invariant is kept by whatever happens to one request, if the
\* timers and the message are right afterwards.
LEMMA SoloKeep ==
  ASSUME Kind = "solo", SoloInv, [Next]_vars, NEW q \in Slots, NEW r,
         \A p \in Slots : reqs'[p] = IF p = q THEN r ELSE reqs[p],
         r.pc # "free" /\ ~r.first =>
            r.expire = End /\ \A u \in Users : r.ivl = Interval[u],
         r.pc = "answered" => AnswerOK(r.ans, now, Found),
         \A t \in timers' : SoloTimer(t),
         message' = "expired" => message = "expired" \/ ~Found
  PROVE  SoloInv'
<1>1. TimerInv' /\ now' \in Nat /\ now <= now' /\ members' \subseteq Users
      /\ (~Found => ~Found')
  BY TimerStep, OverStays DEF SoloInv
<1>2. ASSUME NEW d, AnswerOK(d, now, Found) PROVE AnswerOK(d, now', Found')
  BY <1>1, <1>2, AnswerStays DEF SoloInv
<1>3. NoEarlyEnd'
  BY <1>1 DEF NoEarlyEnd, SoloInv
<1>4. \A p \in Slots : reqs'[p].pc = "answered" => AnswerOK(reqs'[p].ans, now', Found')
  BY <1>2 DEF SoloInv
<1>5. \A p \in Slots : reqs'[p].pc # "free" /\ ~reqs'[p].first =>
         reqs'[p].expire = End /\ \A u \in Users : reqs'[p].ivl = Interval[u]
  BY DEF SoloInv
<1> QED BY <1>1, <1>3, <1>4, <1>5 DEF SoloInv

\* A timer that is there already, and a request with what it knows.
LEMMA SoloFire ==
  ASSUME Kind = "solo", Skew <= 0, SoloInv, NEW t \in timers, Fire(t)
  PROVE  SoloInv'
<1>1. PICK q \in Slots :
        reqs' = [reqs EXCEPT ![q] = [Free EXCEPT !.pc = "sent", !.expire = t.expire,
                                       !.ivl = t.ivl, !.since = OldestPointTime]]
  BY DEF Fire
<1> DEFINE r == [Free EXCEPT !.pc = "sent", !.expire = t.expire, !.ivl = t.ivl,
                             !.since = OldestPointTime]
<1>2. /\ DOMAIN r = DOMAIN Free /\ r.pc = "sent" /\ r.expire = t.expire /\ r.ivl = t.ivl
  BY DEF Free
<1> HIDE DEF r
<1>3. \A p \in Slots : reqs'[p] = IF p = q THEN r ELSE reqs[p]
  <2>1. ReqsShaped
    BY DEF SoloInv, TimerInv
  <2>2. reqs' = [reqs EXCEPT ![q] = r]
    BY <1>1 DEF r
  <2>3. DOMAIN r = DOMAIN Free
    BY <1>2
  <2> QED BY <2>1, <2>2, <2>3, ReqStep
<1>4. timers' \subseteq timers /\ (message' = "expired" => message = "expired" \/ ~Found)
  <2>1. CASE Expired(t)
    BY <2>1, ExpiredIsOver DEF Fire, Cleared
  <2>2. CASE ~Expired(t)
    BY <2>2 DEF Fire
  <2> QED BY <2>1, <2>2
<1>5. Next
  BY DEF Next
<1>6. \A x \in timers' : SoloTimer(x)
  BY <1>4 DEF SoloInv
<1>7. r.expire = End /\ \A u \in Users : r.ivl = Interval[u]
  BY <1>2 DEF SoloInv, SoloTimer
<1> QED BY <1>2, <1>3, <1>4, <1>5, <1>6, <1>7, SoloKeep

LEMMA SoloWay ==
  ASSUME Kind = "solo", NEW u, Users = {u}, SoloInv, NEW q \in Slots, Serve(q) \/ Fail(q)
  PROVE  SoloInv'
<1>1. Next /\ timers' = timers /\ message' = message
  BY DEF Next, Serve, Fail, page
<1>2. \A x \in timers' : SoloTimer(x)
  BY <1>1 DEF SoloInv
<1>3. CASE Serve(q)
  <2> DEFINE r == [reqs[q] EXCEPT !.pc = "answered", !.ans = Served(reqs[q].since)]
  <2>0. ReqsShaped
    BY DEF SoloInv, TimerInv
  <2>1. /\ DOMAIN r = DOMAIN Free /\ r.first = reqs[q].first /\ r.pc = "answered"
        /\ r.expire = reqs[q].expire /\ r.ivl = reqs[q].ivl
        /\ r.ans = Served(reqs[q].since) /\ reqs[q].pc # "free"
    BY <1>3, <2>0, FreeFields DEF Serve, ReqsShaped
  <2>2. reqs' = [reqs EXCEPT ![q] = r]
    BY <1>3, <2>0 DEF Serve, ReqsShaped
  <2> HIDE DEF r
  <2>3. \A p \in Slots : reqs'[p] = IF p = q THEN r ELSE reqs[p]
    BY <2>0, <2>1, <2>2, ReqStep
  <2>4. AnswerOK(r.ans, now, Found)
    BY <2>1, ServedOK
  <2>5. ~r.first => r.expire = End /\ \A w \in Users : r.ivl = Interval[w]
    BY <2>1 DEF SoloInv
  <2> QED BY <1>1, <1>2, <2>3, <2>4, <2>5, SoloKeep
<1>4. CASE Fail(q)
  <2>1. \A p \in Slots : reqs'[p] = IF p = q THEN Free ELSE reqs[p]
    <3>1. ReqsShaped
      BY DEF SoloInv, TimerInv
    <3>2. reqs' = [reqs EXCEPT ![q] = Free]
      BY <1>4 DEF Fail
    <3> QED BY <3>1, <3>2, FreeStep
  <2> QED BY <1>1, <1>2, <2>1, FreeFields, SoloKeep
<1> QED BY <1>3, <1>4

\* An answer to a poll has nothing new to say of the end and the interval.
LEMMA PollSame ==
  ASSUME SoloInv, NEW u, Users = {u}, NEW q \in Slots, reqs[q].pc = "answered",
         ~reqs[q].first, reqs[q].ans.ok
  PROVE  ~Changed(reqs[q], reqs[q].ans)
BY DEF SoloInv, AnswerOK, Changed

LEMMA SoloDeliver ==
  ASSUME Kind = "solo", NEW u, Users = {u}, SoloInv, NEW q \in Slots, Deliver(q)
  PROVE  SoloInv'
<1> DEFINE r == reqs[q]
           d == reqs[q].ans
<1>1. r.pc = "answered" /\ reqs' = [reqs EXCEPT ![q] = Free] /\ Next
  BY DEF Deliver, Next
<1>2. \A p \in Slots : reqs'[p] = IF p = q THEN Free ELSE reqs[p]
  <2>1. ReqsShaped
    BY DEF SoloInv, TimerInv
  <2> QED BY <1>1, <2>1, FreeStep
<1>3. AnswerOK(d, now, Found)
  BY <1>1 DEF SoloInv
<1>4. /\ \A t \in timers' : SoloTimer(t)
      /\ message' = "expired" => message = "expired" \/ ~Found
  <2>1. CASE FirstAnswer(r, d)
    <3>1. timers = {}
      BY <1>1, <2>1 DEF FirstAnswer, SoloInv, TimerInv, FirstAlone
    <3>2. CASE d.ok
      <4>1. SetNewInterval({}, d) /\ message' = message
        BY <2>1, <3>1, <3>2 DEF FirstAnswer
      <4>2. timers' = {NewTimer(fetchIntv', d)}
        BY <4>1, SetStep
      <4> QED BY <1>3, <3>2, <4>1, <4>2, NewTimerOK
    <3>3. CASE ~d.ok
      BY <2>1, <3>1, <3>3 DEF FirstAnswer
    <3> QED BY <3>2, <3>3
  <2>2. CASE PollAnswer(r, d)
    BY <1>1, <2>2, PollSame DEF PollAnswer, SoloInv
  <2>3. CASE PollThrows(r, d)
    BY <1>3, <2>3 DEF PollThrows, AnswerOK
  <2>4. CASE PollRefused(r, d)
    BY <1>3, <2>4 DEF PollRefused, AnswerOK, SoloInv, Cleared
  <2> QED BY <2>1, <2>2, <2>3, <2>4 DEF Deliver
<1> QED BY <1>1, <1>2, <1>4, FreeFields, SoloKeep

LEMMA SoloStep ==
  ASSUME Kind = "solo", NEW u, Users = {u}, Skew <= 0, SoloInv, [Next]_vars
  PROVE  SoloInv'
<1>1. CASE UNCHANGED <<reqs, page>>
  <2>1. TimerInv' /\ now' \in Nat /\ now <= now' /\ members' \subseteq Users
        /\ (~Found => ~Found')
    BY TimerStep, OverStays DEF SoloInv
  <2>2. ASSUME NEW d, AnswerOK(d, now, Found) PROVE AnswerOK(d, now', Found')
    BY <2>1, <2>2, AnswerStays DEF SoloInv
  <2>3. UNCHANGED <<reqs, timers, message>>
    BY <1>1 DEF page
  <2>4. NoEarlyEnd'
    BY <2>1, <2>3 DEF NoEarlyEnd, SoloInv
  <2> QED BY <2>1, <2>2, <2>3, <2>4 DEF SoloInv
<1>2. ASSUME NEW w \in Users, Post(w) \/ Join(w) \/ Leave(w)
      PROVE  UNCHANGED <<reqs, page>>
  BY <1>2 DEF Post, Join, Leave
<1>3. Stop \/ Tick \/ UNCHANGED vars => UNCHANGED <<reqs, page>>
  BY DEF Stop, Tick, vars
<1> QED BY <1>1, <1>2, <1>3, SoloFire, SoloWay, SoloDeliver DEF Next

LEMMA SoloInit ==
  ASSUME Kind = "solo", Init
  PROVE  SoloInv
<1>1. \A q \in Slots : reqs[q].pc # "answered" /\ (reqs[q].pc # "free" => reqs[q].first)
  BY FreeFields DEF Init
<1> QED BY <1>1, TimerInit DEF Init, SoloInv, NoEarlyEnd

\* The page of a solo share says that it is over only when it is, for any interval
\* and any order of answers, unless its clock is ahead of the server's.
THEOREM NoEarlyEndCorrect ==
  ASSUME Kind = "solo", NEW u, Users = {u}, Skew <= 0
  PROVE  Spec => []NoEarlyEnd
<1>1. Init => SoloInv
  BY SoloInit
<1>2. SoloInv /\ [Next]_vars => SoloInv'
  BY SoloStep
<1>3. SoloInv => NoEarlyEnd
  BY DEF SoloInv
<1> QED BY <1>1, <1>2, <1>3, PTL DEF Spec

\* A page that has stopped polling does not start again.
THEOREM OverIsFinalCorrect ==
  ASSUME Kind = "solo", NEW u, Users = {u}, Skew <= 0
  PROVE  Spec => OverIsFinal
<1>1. Init => SoloInv
  BY SoloInit
<1>2. SoloInv /\ [Next]_vars => SoloInv'
  BY SoloStep
<1>3. ASSUME SoloInv, Next, message = "expired", timers = {} PROVE timers' = {}
  <2>1. ASSUME NEW q \in Slots, Deliver(q) PROVE timers' = {}
    <3>1. reqs[q].pc = "answered" /\ ~reqs[q].first
      BY <1>3, <2>1 DEF Deliver, SoloInv, TimerInv, FirstAlone
    <3> QED BY <1>3, <2>1, <3>1, PollSame DEF Deliver, FirstAnswer, PollAnswer, PollThrows,
               PollRefused, Cleared
  <2>2. ASSUME NEW q \in Slots, Serve(q) \/ Fail(q) PROVE timers' = {}
    BY <1>3, <2>2 DEF Serve, Fail, page
  <2>3. ASSUME NEW w \in Users, Post(w) \/ Join(w) \/ Leave(w) PROVE timers' = {}
    BY <1>3, <2>3 DEF Post, Join, Leave, page
  <2>4. CASE Stop \/ Tick
    BY <1>3, <2>4 DEF Stop, Tick, page
  <2> QED BY <1>3, <2>1, <2>2, <2>3, <2>4 DEF Next
<1>4. SoloInv /\ [Next]_vars => [message = "expired" /\ timers = {} => timers' = {}]_vars
  BY <1>3
<1> QED BY <1>1, <1>2, <1>4, PTL DEF Spec, OverIsFinal

------------------------------------------------------------------------------
(* Trails *)

Ascending(s) == \A i, j \in 1..Len(s) : i < j => s[i] < s[j]

\* What the loop has made of the trail after each location.
Lengthens(h, trail, pts) ==
  /\ h[0] = trail
  /\ \A k \in 1..Len(pts) :
        h[k] = IF pts[k] > LastTime(h[k-1]) THEN Append(h[k-1], pts[k]) ELSE h[k-1]

LEMMA LongerSteps ==
  ASSUME NEW trail \in Seq(Times), NEW pts \in Seq(Times)
  PROVE  \E h \in [0..Len(pts) -> Seq(Times)] :
            Lengthens(h, trail, pts) /\ Longer(trail, pts) = h[Len(pts)]
<1> DEFINE n == Len(pts)
           A == Seq(Times)
           F == [x \in A \X (1..n) |->
                   IF pts[x[2]] > LastTime(x[1]) THEN Append(x[1], pts[x[2]]) ELSE x[1]]
           Body(it) == [k \in 0..n |->
                          IF k = 0 THEN trail
                          ELSE IF pts[k] > LastTime(it[k - 1]) THEN Append(it[k - 1], pts[k])
                               ELSE it[k - 1]]
           h == CHOOSE it : it = Body(it)
<1>1. n \in Nat /\ trail \in A
  OBVIOUS
<1>2. F \in [A \X (1..n) -> A]
  <2>1. ASSUME NEW x \in A, NEW k \in 1..n PROVE Append(x, pts[k]) \in A
    BY <1>1
  <2> QED BY <2>1
<1>3. Longer(trail, pts) = h[n]
  BY DEF Longer
<1>4. PICK g \in [0..n -> A] : Recurs(g, trail, n, F)
  <2> HIDE DEF F
  <2> QED BY <1>1, <1>2, RecursExists
<1>5. g = Body(g)
  <2>1. ASSUME NEW k \in 0..n
        PROVE  g[k] = IF k = 0 THEN trail
                      ELSE IF pts[k] > LastTime(g[k - 1]) THEN Append(g[k - 1], pts[k])
                           ELSE g[k - 1]
    <3>1. CASE k = 0
      BY <1>4, <3>1 DEF Recurs
    <3>2. CASE k # 0
      <4>1. k - 1 \in 0..n /\ k \in 1..n
        BY <1>1, <3>2
      <4>2. g[k] = F[<<g[k-1], k>>]
        BY <1>4, <3>2 DEF Recurs
      <4>3. <<g[k-1], k>> \in A \X (1..n)
        BY <4>1
      <4> QED BY <3>2, <4>2, <4>3
    <3> QED BY <3>1, <3>2
  <2>2. g = [k \in 0..n |-> g[k]]
    OBVIOUS
  <2> QED BY <2>1, <2>2
<1>6. h = Body(h)
  <2> HIDE DEF Body
  <2> QED BY <1>5
<1> HIDE DEF h
<1>7. h[0] = trail
  BY <1>1, <1>6
<1>8. \A k \in 1..n :
         h[k] = IF pts[k] > LastTime(h[k-1]) THEN Append(h[k-1], pts[k]) ELSE h[k-1]
  <2>1. \A k \in 1..n : k \in 0..n /\ k # 0
    BY <1>1
  <2>2. \A k \in 0..n : h[k] = Body(h)[k]
    <3> HIDE DEF Body
    <3> QED BY <1>6
  <2> QED BY <2>1, <2>2
<1>9. \A k \in 0..n : h[k] \in A
  <2> DEFINE I == {k \in 0..n : h[k] \in A}
  <2>1. 0 \in I
    BY <1>1, <1>7
  <2>2. ASSUME NEW k \in 0..(n - 1), k \in I PROVE k + 1 \in I
    <3>1. k + 1 \in 1..n /\ (k + 1) - 1 = k /\ k + 1 \in 0..n
      BY <1>1
    <3>2. h[k] \in A /\ pts[k+1] \in Times
      BY <2>2, <3>1
    <3>3. h[k+1] \in {h[k], Append(h[k], pts[k+1])}
      BY <1>8, <3>1
    <3>4. Append(h[k], pts[k+1]) \in A
      BY <3>2
    <3> QED BY <3>1, <3>2, <3>3, <3>4
  <2>3. 0..n \subseteq I
    <3> HIDE DEF I
    <3> QED BY <1>1, <2>1, <2>2, UpTo
  <2> QED BY <2>3
<1>10. h \in [0..n -> A]
  <2>1. h = [k \in 0..n |-> h[k]]
    BY <1>6
  <2> QED BY <1>9, <2>1
<1>11. Lengthens(h, trail, pts)
  BY <1>7, <1>8 DEF Lengthens
<1> QED BY <1>3, <1>10, <1>11

\* The last of an ascending sequence is the greatest.
LEMMA LastTimeIs ==
  ASSUME NEW s \in Seq(Times)
  PROVE  /\ LastTime(s) \in Nat
         /\ s = <<>> => LastTime(s) = 0
         /\ s # <<>> => Len(s) \in 1..Len(s) /\ LastTime(s) = s[Len(s)]
         /\ Ascending(s) => \A i \in 1..Len(s) : s[i] <= LastTime(s)
<1>1. s # <<>> => Len(s) \in 1..Len(s) /\ LastTime(s) = s[Len(s)]
  BY DEF LastTime, Last
<1>2. \A i \in 1..Len(s) : s[i] \in Nat
  BY DEF Times
<1>3. ASSUME Ascending(s), NEW i \in 1..Len(s) PROVE s[i] <= LastTime(s)
  <2>1. s # <<>>
    OBVIOUS
  <2>2. i = Len(s) \/ i < Len(s)
    OBVIOUS
  <2> QED BY <1>1, <1>2, <1>3, <2>1, <2>2 DEF Ascending
<1> QED BY <1>1, <1>2, <1>3 DEF LastTime

\* A longer trail: what was there stays in front, what is added is from the locations
\* and newer, and of ascending locations all are there that were newer.
Extends(longer, trail, pts, k) ==
  /\ Ascending(longer)
  /\ Len(trail) <= Len(longer) /\ \A i \in 1..Len(trail) : longer[i] = trail[i]
  /\ \A i \in 1..Len(longer) : i <= Len(trail) \/ \E j \in 1..k : longer[i] = pts[j]
  /\ Ascending(pts) => \A j \in 1..k : pts[j] > LastTime(trail) =>
                          \E i \in 1..Len(longer) : longer[i] = pts[j]

LEMMA LongerProperties ==
  ASSUME NEW trail \in Seq(Times), NEW pts \in Seq(Times), Ascending(trail)
  PROVE  /\ Longer(trail, pts) \in Seq(Times)
         /\ Extends(Longer(trail, pts), trail, pts, Len(pts))
<1> DEFINE n == Len(pts)
<1>1. n \in Nat /\ \A i \in 1..n : pts[i] \in Times
  OBVIOUS
<1>2. PICK h \in [0..Len(pts) -> Seq(Times)] :
         Lengthens(h, trail, pts) /\ Longer(trail, pts) = h[Len(pts)]
  BY LongerSteps
<1> DEFINE I == {k \in 0..n : Extends(h[k], trail, pts, k)}
<1>3. 0 \in I
  <2>1. h[0] = trail /\ 0 \in 0..n
    BY <1>1, <1>2 DEF Lengthens
  <2> QED BY <2>1 DEF Extends
<1>4. ASSUME NEW k \in 0..(n - 1), k \in I PROVE k + 1 \in I
  <2> DEFINE old == h[k]
             p == pts[k+1]
  <2>1. k \in Nat /\ k + 1 \in 1..n /\ (k + 1) - 1 = k /\ k \in 0..n /\ k + 1 \in 0..n
    BY <1>1
  <2>2. old \in Seq(Times) /\ p \in Times /\ Extends(old, trail, pts, k) /\ Len(old) \in Nat
    BY <1>4, <2>1
  <2>3. h[k+1] = IF p > LastTime(old) THEN Append(old, p) ELSE old
    BY <1>2, <2>1 DEF Lengthens
  <2> HIDE DEF old, p
  <2>4. \A j \in 1..(k+1) : j = k + 1 \/ j \in 1..k
    BY <2>1
  <2>5. LastTime(old) \in Nat /\ \A i \in 1..Len(old) : old[i] \in Nat /\ old[i] <= LastTime(old)
    BY <2>2, LastTimeIs DEF Extends, Times
  <2>6. CASE ~(p > LastTime(old))
    <3>1. h[k+1] = old
      BY <2>3, <2>6
    <3>2. ASSUME Ascending(pts), p > LastTime(trail)
          PROVE  \E i \in 1..Len(old) : old[i] = p
      <4>1. old # <<>>
        BY <2>2, <2>5, <2>6, LastTimeIs, <3>2 DEF Times
      <4>2. Len(old) \in 1..Len(old) /\ LastTime(old) = old[Len(old)]
        BY <2>2, <4>1, LastTimeIs
      <4>3. ~(Len(old) <= Len(trail))
        <5>1. SUFFICES ASSUME Len(old) <= Len(trail) PROVE FALSE
          OBVIOUS
        <5>2. Len(old) = Len(trail) /\ old[Len(old)] = trail[Len(trail)] /\ trail # <<>>
          BY <2>2, <4>2, <5>1 DEF Extends
        <5>3. LastTime(old) = LastTime(trail)
          BY <4>2, <5>2, LastTimeIs
        <5> QED BY <2>5, <2>6, <3>2, <5>3 DEF Times
      <4>4. PICK j \in 1..k : old[Len(old)] = pts[j]
        BY <2>2, <4>2, <4>3 DEF Extends
      <4>5. pts[j] < p
        BY <1>1, <2>1, <3>2 DEF Ascending, p
      <4> QED BY <1>1, <2>1, <2>2, <2>6, <4>2, <4>4, <4>5 DEF Times
    <3>3. Extends(old, trail, pts, k + 1)
      <4>1. \A i \in 1..Len(old) : i <= Len(trail) \/ \E j \in 1..(k+1) : old[i] = pts[j]
        BY <2>1, <2>2 DEF Extends
      <4>2. Ascending(pts) => \A j \in 1..(k+1) : pts[j] > LastTime(trail) =>
                                 \E i \in 1..Len(old) : old[i] = pts[j]
        BY <2>2, <2>4, <3>2 DEF Extends, p
      <4> QED BY <2>2, <4>1, <4>2 DEF Extends
    <3> QED BY <2>1, <3>1, <3>3
  <2>7. CASE p > LastTime(old)
    <3> DEFINE new == h[k+1]
               m == Len(old)
    <3>1. /\ new = Append(old, p) /\ Len(new) = m + 1 /\ m \in Nat /\ new[m+1] = p
          /\ \A i \in 1..m : new[i] = old[i]
      BY <2>2, <2>3, <2>7
    <3>2. \A i \in 1..(m+1) : i = m + 1 \/ i \in 1..m
      BY <3>1
    <3> HIDE DEF new
    <3>3. Ascending(new)
      <4> SUFFICES ASSUME NEW i \in 1..(m+1), NEW j \in 1..(m+1), i < j PROVE new[i] < new[j]
        BY <3>1 DEF Ascending
      <4>1. i \in 1..m /\ new[i] = old[i]
        BY <3>1
      <4>2. CASE j = m + 1
        BY <2>2, <2>5, <2>7, <3>1, <4>1, <4>2 DEF Times
      <4>3. CASE j \in 1..m
        BY <2>2, <3>1, <4>1, <4>3 DEF Ascending, Extends
      <4> QED BY <3>2, <4>2, <4>3
    <3>4. Len(trail) <= Len(new) /\ \A i \in 1..Len(trail) : new[i] = trail[i]
      <4>1. Len(trail) \in Nat /\ Len(trail) <= m /\ \A i \in 1..Len(trail) : old[i] = trail[i]
        BY <2>2 DEF Extends
      <4> QED BY <3>1, <4>1
    <3>5. \A i \in 1..Len(new) : i <= Len(trail) \/ \E j \in 1..(k+1) : new[i] = pts[j]
      <4> SUFFICES ASSUME NEW i \in 1..(m+1), ~(i <= Len(trail))
                   PROVE  \E j \in 1..(k+1) : new[i] = pts[j]
        BY <3>1
      <4>1. CASE i = m + 1
        BY <2>1, <3>1, <4>1 DEF p
      <4>2. CASE i \in 1..m
        <5>1. PICK j \in 1..k : old[i] = pts[j]
          BY <2>2, <4>2 DEF Extends
        <5> QED BY <2>1, <3>1, <4>2, <5>1
      <4> QED BY <3>2, <4>1, <4>2
    <3>6. ASSUME Ascending(pts), NEW j \in 1..(k+1), pts[j] > LastTime(trail)
          PROVE  \E i \in 1..Len(new) : new[i] = pts[j]
      <4>1. CASE j = k + 1
        BY <3>1, <4>1 DEF p
      <4>2. CASE j \in 1..k
        <5>1. PICK i \in 1..m : old[i] = pts[j]
          BY <2>2, <3>6, <4>2 DEF Extends
        <5>2. i \in 1..(m+1) /\ new[i] = pts[j]
          BY <3>1, <5>1
        <5> QED BY <3>1, <5>2
      <4> QED BY <2>4, <4>1, <4>2
    <3>7. Extends(new, trail, pts, k + 1)
      BY <3>3, <3>4, <3>5, <3>6 DEF Extends
    <3> QED BY <2>1, <3>7 DEF new
  <2> QED BY <2>6, <2>7
<1>5. n \in I
  <2> HIDE DEF I
  <2>1. 0..n \subseteq I
    BY <1>1, <1>3, <1>4, UpTo
  <2> QED BY <1>1, <2>1
<1> QED BY <1>1, <1>2, <1>5

\* What the page keeps of it: all but a number of the oldest locations, and never none.
LEMMA ExtendedProperties ==
  ASSUME NEW trail \in Seq(Times), NEW pts \in Seq(Times), Ascending(trail)
  PROVE  /\ Extended(trail, pts) \in Seq(Times)
         /\ Ascending(Extended(trail, pts))
         /\ \E o \in Nat :
               /\ Len(Extended(trail, pts)) = Len(Longer(trail, pts)) - o
               /\ \A i \in 1..Len(Extended(trail, pts)) :
                     Extended(trail, pts)[i] = Longer(trail, pts)[i + o]
         /\ Extended(trail, pts) = <<>> => Longer(trail, pts) = <<>>
<1> DEFINE longer == Longer(trail, pts)
           kept == Extended(trail, pts)
           over == Len(longer) - MaxPoints
<1>1. longer \in Seq(Times) /\ Ascending(longer)
  BY LongerProperties DEF Extends
<1>2. MaxPoints \in Nat \ {0}
  BY NumbersAssumption
<1>3. kept = IF over > 0 THEN SubSeq(longer, over + 1, Len(longer)) ELSE longer
  BY DEF Extended
<1> HIDE DEF longer, kept
<1>4. Len(longer) \in Nat
  BY <1>1
<1>5. CASE over > 0
  <2>1. over \in Nat /\ over + 1 \in 1..(Len(longer) + 1) /\ Len(longer) \in (over + 1)..Len(longer)
    BY <1>2, <1>4, <1>5
  <2>2. /\ kept \in Seq(Times) /\ Len(kept) = Len(longer) - over
        /\ \A i \in 1..Len(kept) : kept[i] = longer[i + over]
    <3>1. kept = SubSeq(longer, over + 1, Len(longer))
      BY <1>3, <1>5
    <3>2. Len(kept) = Len(longer) - over
      BY <1>1, <1>4, <2>1, <3>1
    <3>3. \A i \in 1..Len(kept) : kept[i] = longer[i + over] /\ i + over \in 1..Len(longer)
      BY <1>1, <1>4, <2>1, <3>1, <3>2
    <3>4. kept \in Seq(Times)
      BY <1>1, <1>4, <2>1, <3>1
    <3> QED BY <3>2, <3>3, <3>4
  <2>3. Ascending(kept)
    <3> SUFFICES ASSUME NEW i \in 1..Len(kept), NEW j \in 1..Len(kept), i < j
                 PROVE  kept[i] < kept[j]
      BY DEF Ascending
    <3>1. i + over \in 1..Len(longer) /\ j + over \in 1..Len(longer) /\ i + over < j + over
      BY <1>4, <2>1, <2>2
    <3> QED BY <1>1, <2>2, <3>1 DEF Ascending
  <2>4. kept # <<>>
    BY <1>2, <1>4, <2>2
  <2> HIDE DEF over
  <2> QED BY <2>1, <2>2, <2>3, <2>4 DEF longer, kept
<1>6. CASE ~(over > 0)
  <2>1. kept = longer
    BY <1>3, <1>6
  <2>2. /\ Len(kept) = Len(longer) - 0
        /\ \A i \in 1..Len(kept) : kept[i] = longer[i + 0]
    BY <1>4, <2>1
  <2> QED BY <1>1, <2>1, <2>2 DEF longer, kept
<1> QED BY <1>5, <1>6

------------------------------------------------------------------------------
(* Types, and the order of the trails *)

TrailInv == TypeOK /\ \A u \in Users : Ascending(shown[u])

\* The locations of a user that are newer than since.
LEMMA PointsSinceType ==
  ASSUME TypeOK, NEW u \in Users, NEW since
  PROVE  PointsSince(u, since) \in Seq(Times)
<1> DEFINE places == {i \in DOMAIN cache[u] : cache[u][i] > since}
<1>1. cache[u] \in Seq(Times) /\ places \in SUBSET (1..Len(cache[u]))
  BY DEF TypeOK
<1> HIDE DEF places
<1>2. Selected(cache[u], places) \in Seq(Times)
  BY <1>1, SelectedEntries
<1> QED BY <1>1, <1>2 DEF PointsSince, places

LEMMA ServedType ==
  ASSUME TypeOK, NEW since \in Nat
  PROVE  Served(since) \in Answer
<1>1. LeastInterval \in Nat
  <2>1. CASE members = {}
    BY <2>1 DEF LeastInterval
  <2>2. CASE members # {}
    <3> DEFINE T == {Interval[u] : u \in members}
    <3>1. T \subseteq Nat /\ T # {}
      BY <2>2, IntervalAssumption DEF TypeOK
    <3>2. Min(T) \in T
      <4> HIDE DEF T
      <4> QED BY <3>1, NatMin
    <3>3. Min(T) \in Nat
      BY <3>1, <3>2
    <3> QED BY <2>2, <3>3 DEF LeastInterval
  <2> QED BY <2>1, <2>2
<1>2. [u \in Users |-> IF u \in members THEN PointsSince(u, since) ELSE <<>>]
         \in [Users -> Seq(Times)]
  BY PointsSinceType
<1>3. NullPoints(since) \in SUBSET Users
  BY DEF NullPoints, TypeOK
<1>4. Refusal \in Answer
  BY DEF Refusal, Answer
<1>5. now \in Nat /\ End \in Nat
  BY NumbersAssumption DEF TypeOK
<1> QED BY <1>1, <1>2, <1>3, <1>4, <1>5 DEF Served, Answer

LEMMA OldestType ==
  ASSUME TypeOK
  PROVE  OldestPointTime \in Nat
<1> DEFINE known == {u \in Users : shown[u] # <<>>}
           T == {Last(shown[u]) : u \in known}
<1>1. CASE known = {}
  BY <1>1 DEF OldestPointTime
<1>2. CASE known # {}
  <2>1. T \subseteq Nat
    <3> SUFFICES ASSUME NEW u \in known PROVE Last(shown[u]) \in Nat
      OBVIOUS
    <3>1. shown[u] \in Seq(Times) /\ shown[u] # <<>>
      BY DEF TypeOK
    <3> QED BY <3>1, LastTimeIs DEF LastTime
  <2>2. T # {}
    BY <1>2
  <2>3. Min(T) \in T
    <3> HIDE DEF T
    <3> QED BY <2>1, <2>2, NatMin
  <2> QED BY <1>2, <2>1, <2>3 DEF OldestPointTime
<1> QED BY <1>1, <1>2

LEMMA NewTimerType ==
  ASSUME TypeOK, NEW i \in TimerIds, NEW d \in Answer
  PROVE  NewTimer(i, d) \in Timer
<1>1. now \in Nat /\ Skew \in Int /\ d.serverTime \in Nat /\ d.expire \in Nat /\ d.ivl \in Nat
  BY NumbersAssumption DEF TypeOK, Answer
<1>2. PageClock - d.serverTime \in Int
  BY <1>1 DEF PageClock
<1> QED BY <1>1, <1>2 DEF NewTimer, Timer

LEMMA FreeType == Free \in Request /\ Refusal \in Answer
BY DEF Free, Request, Refusal, Answer

LEMMA TrailFire ==
  ASSUME TrailInv, NEW t \in timers, Fire(t)
  PROVE  TrailInv'
<1>1. PICK q \in Slots :
        reqs' = [reqs EXCEPT ![q] = [Free EXCEPT !.pc = "sent", !.expire = t.expire,
                                       !.ivl = t.ivl, !.since = OldestPointTime]]
  BY DEF Fire
<1>2. t \in Timer /\ OldestPointTime \in Nat
  BY OldestType DEF TrailInv, TypeOK
<1>3. [Free EXCEPT !.pc = "sent", !.expire = t.expire, !.ivl = t.ivl,
                   !.since = OldestPointTime] \in Request
  BY <1>2, FreeType DEF Free, Request, Timer
<1>4. reqs' \in [Slots -> Request]
  BY <1>1, <1>3 DEF TrailInv, TypeOK
<1>5. timers' \subseteq Timer /\ message' \in {"none", "notfound", "expired"}
  BY DEF Fire, TrailInv, TypeOK, Cleared
<1> QED BY <1>4, <1>5 DEF Fire, TrailInv, TypeOK, share

LEMMA TrailWay ==
  ASSUME TrailInv, NEW q \in Slots, Serve(q) \/ Fail(q)
  PROVE  TrailInv'
<1>1. reqs' \in [Slots -> Request]
  <2>1. CASE Serve(q)
    <3>1. reqs[q] \in Request /\ Served(reqs[q].since) \in Answer
      BY ServedType DEF TrailInv, TypeOK, Request
    <3>2. [reqs[q] EXCEPT !.pc = "answered", !.ans = Served(reqs[q].since)] \in Request
      BY <3>1 DEF Request
    <3>3. reqs' = [reqs EXCEPT ![q] = [reqs[q] EXCEPT !.pc = "answered",
                                                      !.ans = Served(reqs[q].since)]]
      BY <2>1 DEF Serve, TrailInv, TypeOK
    <3> QED BY <3>2, <3>3 DEF TrailInv, TypeOK
  <2>2. CASE Fail(q)
    BY <2>2, FreeType DEF Fail, TrailInv, TypeOK
  <2> QED BY <2>1, <2>2
<1> QED BY <1>1 DEF Serve, Fail, TrailInv, TypeOK, share, page

LEMMA DrawType ==
  ASSUME TrailInv, NEW d \in Answer, NEW us, Draw(d, us)
  PROVE  shown' \in [Users -> Seq(Times)] /\ \A u \in Users : Ascending(shown'[u])
<1>1. ASSUME NEW u \in Users
      PROVE  Extended(shown[u], d.points[u]) \in Seq(Times)
             /\ Ascending(Extended(shown[u], d.points[u]))
  <2>1. shown[u] \in Seq(Times) /\ d.points[u] \in Seq(Times) /\ Ascending(shown[u])
    BY DEF TrailInv, TypeOK, Answer
  <2> QED BY <2>1, ExtendedProperties
<1> QED BY <1>1 DEF Draw, TrailInv, TypeOK

LEMMA TrailDeliver ==
  ASSUME TrailInv, NEW q \in Slots, Deliver(q)
  PROVE  TrailInv'
<1> DEFINE r == reqs[q]
           d == reqs[q].ans
<1>1. d \in Answer
  BY DEF TrailInv, TypeOK, Request
<1>2. reqs' \in [Slots -> Request]
  BY FreeType DEF Deliver, TrailInv, TypeOK
<1>3. shown' \in [Users -> Seq(Times)] /\ \A u \in Users : Ascending(shown'[u])
  <2>1. CASE \E us : Draw(d, us)
    BY <1>1, <2>1, DrawType
  <2>2. CASE UNCHANGED shown
    BY <2>2 DEF TrailInv, TypeOK
  <2> QED BY <2>1, <2>2 DEF Deliver, FirstAnswer, PollAnswer, PollThrows, PollRefused
<1>4. ASSUME NEW ts, ts \subseteq Timer, SetNewInterval(ts, d)
      PROVE  timers' \subseteq Timer /\ fetchIntv' \in TimerIds
  BY <1>1, <1>4, NewTimerType DEF SetNewInterval, WithTimer, TrailInv
<1>5. timers \subseteq Timer /\ Cleared(timers) \subseteq Timer
      /\ fetchIntv \in TimerIds \cup {NoTimer} /\ message \in {"none", "notfound", "expired"}
  BY DEF Cleared, TrailInv, TypeOK
<1>6. timers' \subseteq Timer /\ fetchIntv' \in TimerIds \cup {NoTimer}
      /\ message' \in {"none", "notfound", "expired"}
  <2>1. CASE FirstAnswer(r, d)
    BY <1>4, <1>5, <2>1 DEF FirstAnswer
  <2>2. CASE PollAnswer(r, d)
    BY <1>4, <1>5, <2>2 DEF PollAnswer
  <2>3. CASE PollThrows(r, d)
    BY <1>5, <2>3 DEF PollThrows
  <2>4. CASE PollRefused(r, d)
    BY <1>5, <2>4 DEF PollRefused
  <2> QED BY <2>1, <2>2, <2>3, <2>4 DEF Deliver
<1> QED BY <1>2, <1>3, <1>6 DEF Deliver, TrailInv, TypeOK, share

\* The clients keep the cache a sequence of times.
LEMMA TrailPost ==
  ASSUME TrailInv, NEW u \in Users, Post(u)
  PROVE  TrailInv'
<1>1. PICK t \in (phone[u] + 1)..(now + 1) :
        /\ phone' = [phone EXCEPT ![u] = t]
        /\ cache' = [cache EXCEPT ![u] =
                       IF Len(Append(cache[u], t)) - MaxCachedPts > 0
                       THEN Tail(Append(cache[u], t)) ELSE Append(cache[u], t)]
  BY DEF Post
<1>2. phone[u] \in Nat /\ now \in Nat /\ cache[u] \in Seq(Times)
  BY DEF TrailInv, TypeOK
<1>3. t \in Times
  BY <1>2 DEF Times
<1>4. Append(cache[u], t) \in Seq(Times) /\ Append(cache[u], t) # <<>>
  <2>1. Append(cache[u], t) \in Seq(Times) /\ Len(Append(cache[u], t)) = Len(cache[u]) + 1
    BY <1>2, <1>3
  <2>2. Len(<<>>) = 0 /\ Len(cache[u]) \in Nat
    BY <1>2
  <2> QED BY <2>1, <2>2
<1>5. Tail(Append(cache[u], t)) \in Seq(Times)
  BY <1>4
<1>6. cache' \in [Users -> Seq(Times)] /\ phone' \in [Users -> Nat]
  BY <1>1, <1>3, <1>4, <1>5 DEF TrailInv, TypeOK, Times
<1> QED BY <1>6 DEF Post, TrailInv, TypeOK, page

LEMMA TrailStep ==
  ASSUME TrailInv, [Next]_vars
  PROVE  TrailInv'
<1>1. ASSUME NEW u \in Users, Join(u) \/ Leave(u) PROVE TrailInv'
  <2>1. CASE Join(u)
    <3>1. <<>> \in Seq(Times)
      OBVIOUS
    <3>2. cache' \in [Users -> Seq(Times)] /\ members' \subseteq Users
      BY <2>1, <3>1 DEF Join, TrailInv, TypeOK
    <3> QED BY <2>1, <3>2 DEF Join, TrailInv, TypeOK, page
  <2>2. CASE Leave(u)
    BY <2>2 DEF Leave, TrailInv, TypeOK, page
  <2> QED BY <1>1, <2>1, <2>2
<1>2. CASE Stop
  BY <1>2 DEF Stop, TrailInv, TypeOK, page
<1>3. CASE Tick
  <2>1. now' \in Nat
    BY <1>3 DEF Tick, TrailInv, TypeOK
  <2> QED BY <1>3, <2>1 DEF Tick, TrailInv, TypeOK, page, share
<1>4. CASE UNCHANGED vars
  BY <1>4 DEF vars, TrailInv, TypeOK, page, share
<1> QED BY <1>1, <1>2, <1>4, <1>3, TrailFire, TrailWay, TrailDeliver, TrailPost DEF Next

LEMMA TrailInit == Init => TrailInv
<1> SUFFICES ASSUME Init PROVE TrailInv
  OBVIOUS
<1>1. [Free EXCEPT !.pc = "sent", !.first = TRUE] \in Request
  BY FreeType DEF Free, Request
<1>2. reqs \in [Slots -> Request]
  BY <1>1, FreeType DEF Init
<1>3. members \subseteq Users
  BY DEF Init
<1>4. <<>> \in Seq(Times) /\ Ascending(<<>>)
  BY DEF Ascending
<1> QED BY <1>2, <1>3, <1>4 DEF Init, TrailInv, TypeOK

LEMMA TrailSoundness == Spec => []TrailInv
BY TrailInit, TrailStep, PTL DEF Spec

\* The variables keep their types.
THEOREM TypeCorrect == Spec => []TypeOK
<1>1. TrailInv => TypeOK
  BY DEF TrailInv
<1> QED BY <1>1, TrailSoundness, PTL

\* A trail never goes back in time, for any number of users and of requests in
\* flight, in whatever order their answers come.
THEOREM TrailAscendsCorrect == Spec => []TrailAscends
<1>1. TrailInv => TrailAscends
  <2> SUFFICES ASSUME TrailInv, NEW u \in Users, NEW i \in 1..(Len(shown[u]) - 1)
               PROVE  shown[u][i] < shown[u][i + 1]
    BY DEF TrailAscends
  <2>1. Len(shown[u]) \in Nat /\ Ascending(shown[u])
    BY DEF TrailInv, TypeOK
  <2>2. i \in 1..Len(shown[u]) /\ i + 1 \in 1..Len(shown[u]) /\ i < i + 1
    BY <2>1
  <2> QED BY <2>1, <2>2 DEF Ascending
<1> QED BY <1>1, TrailSoundness, PTL

------------------------------------------------------------------------------
(* Trails of one user have no gaps *)

\* The locations pts, answered for since, lack none of c up to their last.
Whole(pts, since, c) ==
  \A k \in 1..Len(c) : since < c[k] /\ c[k] <= LastTime(pts) =>
     \E j \in 1..Len(pts) : pts[j] = c[k]

NoGap(trail, c) ==
  trail # <<>> => \A k \in 1..Len(c) : trail[1] < c[k] /\ c[k] < LastTime(trail) =>
                     \E i \in 1..Len(trail) : trail[i] = c[k]

\* A request asks for what is newer than a location that is drawn, and its answer has
\* all of that.  Clients post ascending times and the server drops the oldest.
GapInv ==
  /\ TrailInv
  /\ \A u \in Users :
        /\ Ascending(cache[u]) /\ LastTime(cache[u]) <= phone[u]
        /\ LastTime(shown[u]) <= phone[u]
        /\ NoGap(shown[u], cache[u])
        /\ \A q \in Slots : reqs[q].pc # "free" => reqs[q].since <= LastTime(shown[u])
        /\ \A q \in Slots : reqs[q].pc = "answered" =>
              /\ Ascending(reqs[q].ans.points[u])
              /\ LastTime(reqs[q].ans.points[u]) <= phone[u]
              /\ Whole(reqs[q].ans.points[u], reqs[q].since, cache[u])

\* Drawing an answer that is whole leaves no gap.
LEMMA DrawsNoGap ==
  ASSUME NEW trail \in Seq(Times), NEW pts \in Seq(Times), NEW c \in Seq(Times),
         NEW since \in Nat, since <= LastTime(trail), Ascending(trail), Ascending(pts),
         Whole(pts, since, c), NoGap(trail, c)
  PROVE  /\ NoGap(Extended(trail, pts), c)
         /\ LastTime(trail) <= LastTime(Extended(trail, pts))
         /\ \A n \in Nat : LastTime(trail) <= n /\ LastTime(pts) <= n =>
               LastTime(Extended(trail, pts)) <= n
<1> DEFINE longer == Longer(trail, pts)
           kept == Extended(trail, pts)
           L == LastTime(trail)
<1>1. longer \in Seq(Times) /\ Extends(longer, trail, pts, Len(pts))
  BY LongerProperties
<1>2. kept \in Seq(Times) /\ Ascending(kept) /\ (kept = <<>> => longer = <<>>)
  BY ExtendedProperties
<1>3. PICK o \in Nat : Len(kept) = Len(longer) - o
                       /\ \A i \in 1..Len(kept) : kept[i] = longer[i + o]
  BY ExtendedProperties
<1> HIDE DEF longer, kept
<1>4. /\ L \in Nat /\ LastTime(pts) \in Nat /\ Len(longer) \in Nat /\ Len(kept) \in Nat
      /\ \A i \in 1..Len(longer) : longer[i] \in Nat
      /\ \A i \in 1..Len(kept) : kept[i] \in Nat
      /\ \A k \in 1..Len(c) : c[k] \in Nat
      /\ \A j \in 1..Len(pts) : pts[j] \in Nat /\ pts[j] <= LastTime(pts)
  <2>1. L \in Nat /\ LastTime(pts) \in Nat /\ \A j \in 1..Len(pts) : pts[j] <= LastTime(pts)
    BY LastTimeIs
  <2>2. ASSUME NEW s \in Seq(Times)
        PROVE  Len(s) \in Nat /\ \A i \in 1..Len(s) : s[i] \in Nat
    BY DEF Times
  <2>3. Len(longer) \in Nat /\ \A i \in 1..Len(longer) : longer[i] \in Nat
    BY <1>1, <2>2
  <2>4. Len(kept) \in Nat /\ \A i \in 1..Len(kept) : kept[i] \in Nat
    BY <1>2, <2>2
  <2>5. (\A k \in 1..Len(c) : c[k] \in Nat) /\ \A j \in 1..Len(pts) : pts[j] \in Nat
    BY <2>2
  <2> QED BY <2>1, <2>3, <2>4, <2>5
<1>5. LastTime(kept) = LastTime(longer)
  <2>1. CASE kept = <<>>
    BY <1>2, <2>1
  <2>2. CASE kept # <<>>
    <3>1. Len(kept) \in 1..Len(kept) /\ LastTime(kept) = kept[Len(kept)]
      BY <1>2, <2>2, LastTimeIs
    <3>2. Len(kept) + o = Len(longer) /\ kept[Len(kept)] = longer[Len(longer)]
      <4>1. Len(kept) + o = Len(longer)
        BY <1>3, <1>4
      <4>2. kept[Len(kept)] = longer[Len(kept) + o]
        BY <1>3, <3>1
      <4> QED BY <4>1, <4>2
    <3>3. longer # <<>>
      BY <1>3, <1>4, <3>1, <3>2
    <3> QED BY <1>1, <3>1, <3>2, <3>3, LastTimeIs
  <2> QED BY <2>1, <2>2
\* What the last of the longer trail is.
<1>6. LastTime(longer) = L \/ (L < LastTime(longer) /\ LastTime(longer) <= LastTime(pts))
  <2>1. CASE longer = <<>>
    <3>1. Len(trail) = 0 /\ trail = <<>>
      BY <1>1, <2>1 DEF Extends
    <3> QED BY <2>1, <3>1
  <2>2. CASE longer # <<>>
    <3> DEFINE m == Len(longer)
    <3>1. m \in 1..m /\ LastTime(longer) = longer[m]
      BY <1>1, <2>2, LastTimeIs
    <3>2. CASE m <= Len(trail)
      <4>1. m = Len(trail) /\ trail # <<>> /\ longer[m] = trail[m]
        BY <1>1, <1>4, <3>1, <3>2 DEF Extends
      <4> QED BY <3>1, <4>1, LastTimeIs
    <3>3. CASE ~(m <= Len(trail))
      <4>1. PICK j \in 1..Len(pts) : longer[m] = pts[j]
        BY <1>1, <3>1, <3>3 DEF Extends
      <4>2. L < longer[m]
        <5>1. CASE trail = <<>>
          <6>1. L = 0
            BY <5>1, LastTimeIs
          <6>2. longer[m] \in Times
            <7> HIDE DEF m
            <7> QED BY <1>1, <3>1 DEF m
          <6> QED BY <6>1, <6>2 DEF Times
        <5>2. CASE trail # <<>>
          <6>1. Len(trail) \in 1..Len(trail) /\ L = trail[Len(trail)]
            BY <5>2, LastTimeIs
          <6>2. longer[Len(trail)] = trail[Len(trail)] /\ Len(trail) \in 1..m /\ Len(trail) < m
            BY <1>1, <1>4, <3>3, <6>1 DEF Extends
          <6> QED BY <1>1, <3>1, <6>1, <6>2 DEF Extends, Ascending
        <5> QED BY <5>1, <5>2
      <4> QED BY <1>4, <3>1, <4>1, <4>2
    <3> QED BY <3>2, <3>3
  <2> QED BY <2>1, <2>2
<1>7. LastTime(longer) \in Nat
  BY <1>1, LastTimeIs
\* The longer trail has no gap.
<1>8. ASSUME NEW k \in 1..Len(c), longer # <<>>, longer[1] < c[k], c[k] < LastTime(longer)
      PROVE  \E i \in 1..Len(longer) : longer[i] = c[k]
  <2>1. CASE c[k] > L
    <3>1. since < c[k] /\ c[k] <= LastTime(pts)
      BY <1>4, <1>6, <1>7, <1>8, <2>1
    <3>2. PICK j \in 1..Len(pts) : pts[j] = c[k]
      BY <3>1 DEF Whole
    <3> QED BY <1>1, <2>1, <3>2 DEF Extends
  <2>2. CASE c[k] <= L
    <3>1. trail # <<>>
      <4>1. c[k] \in Times
        OBVIOUS
      <4> QED BY <2>2, <4>1, LastTimeIs DEF Times
    <3>2. Len(trail) \in 1..Len(trail) /\ L = trail[Len(trail)] /\ 1 \in 1..Len(trail)
      BY <3>1, LastTimeIs
    <3>3. longer[1] = trail[1] /\ \A i \in 1..Len(trail) : longer[i] = trail[i] /\ i \in 1..Len(longer)
      BY <1>1, <1>4, <3>2 DEF Extends
    <3>4. CASE c[k] = L
      BY <3>2, <3>3, <3>4
    <3>5. CASE c[k] < L
      <4>1. PICK i \in 1..Len(trail) : trail[i] = c[k]
        BY <1>8, <3>1, <3>3, <3>5 DEF NoGap
      <4> QED BY <3>3, <4>1
    <3> QED BY <1>4, <2>2, <3>4, <3>5
  <2> QED BY <1>4, <2>1, <2>2
\* What is cut off is older than its first.
<1>9. NoGap(kept, c)
  <2> SUFFICES ASSUME kept # <<>>, NEW k \in 1..Len(c), kept[1] < c[k], c[k] < LastTime(kept)
               PROVE  \E i \in 1..Len(kept) : kept[i] = c[k]
    BY DEF NoGap
  <2>1. 1 \in 1..Len(kept) /\ 1 + o \in 1..Len(longer) /\ kept[1] = longer[1 + o]
    BY <1>2, <1>3, <1>4
  <2>2. longer # <<>> /\ 1 \in 1..Len(longer)
    BY <1>4, <2>1
  <2>3. longer[1] <= longer[1 + o]
    <3>1. CASE o = 0
      BY <1>4, <2>2, <3>1
    <3>2. CASE o # 0
      <4>1. 1 < 1 + o
        BY <3>2
      <4>2. longer[1] < longer[1 + o]
        BY <1>1, <2>1, <2>2, <4>1 DEF Extends, Ascending
      <4> QED BY <1>4, <2>1, <2>2, <4>2
    <3> QED BY <3>1, <3>2
  <2>4. longer[1] < c[k]
    BY <1>4, <2>1, <2>2, <2>3
  <2>5. PICK i \in 1..Len(longer) : longer[i] = c[k]
    BY <1>5, <1>8, <2>2, <2>4
  <2>6. i > 1 + o
    <3>1. SUFFICES ASSUME i <= 1 + o PROVE FALSE
      BY <1>4
    <3>2. CASE i = 1 + o
      BY <1>4, <2>1, <2>5, <3>2
    <3>3. CASE i < 1 + o
      <4>1. longer[i] < longer[1 + o]
        BY <1>1, <2>1, <3>3 DEF Extends, Ascending
      <4> QED BY <1>4, <2>1, <2>5, <4>1
    <3> QED BY <3>1, <3>2, <3>3
  <2>7. i - o \in 1..Len(kept) /\ (i - o) + o = i
    BY <1>3, <1>4, <2>6
  <2> QED BY <1>3, <2>5, <2>7
<1>10. L <= LastTime(longer) /\ \A n \in Nat : L <= n /\ LastTime(pts) <= n => LastTime(longer) <= n
  BY <1>4, <1>6, <1>7
<1> QED BY <1>5, <1>9, <1>10 DEF kept

\* What the server answers is whole.
LEMMA ServedWhole ==
  ASSUME GapInv, NEW u \in Users, NEW since \in Nat
  PROVE  /\ Served(since).points[u] \in Seq(Times)
         /\ Ascending(Served(since).points[u])
         /\ LastTime(Served(since).points[u]) <= phone[u]
         /\ Whole(Served(since).points[u], since, cache[u])
<1> DEFINE c == cache[u]
<1>1. c \in Seq(Times) /\ Ascending(c) /\ LastTime(c) <= phone[u] /\ phone[u] \in Nat
  BY DEF GapInv, TrailInv, TypeOK
<1>2. \A k \in 1..Len(c) : c[k] \in Nat /\ c[k] > 0 /\ c[k] <= phone[u]
  <2>1. \A k \in 1..Len(c) : c[k] <= LastTime(c) /\ LastTime(c) \in Nat
    BY <1>1, LastTimeIs
  <2> QED BY <1>1, <2>1 DEF Times
<1>3. CASE Served(since).points[u] = <<>>
  <2>1. LastTime(<<>>) = 0 /\ Ascending(<<>>) /\ <<>> \in Seq(Times)
    BY DEF LastTime, Ascending
  <2>2. Whole(<<>>, since, c)
    BY <1>2, <2>1 DEF Whole
  <2> QED BY <1>1, <1>3, <2>1, <2>2
<1>4. CASE Served(since).points[u] = PointsSince(u, since)
  <2>1. CASE since = 0
    <3>1. PointsSince(u, since) = c
      BY <2>1 DEF PointsSince
    <3>2. Whole(c, since, c)
      BY DEF Whole
    <3> QED BY <1>1, <1>4, <3>1, <3>2
  <2>2. CASE since # 0
    <3> DEFINE places == {i \in DOMAIN c : c[i] > since}
               sel == Selected(c, places)
    <3>1. PointsSince(u, since) = sel
      BY <2>2 DEF PointsSince
    <3>2. DOMAIN c = 1..Len(c) /\ places \in SUBSET (1..Len(c))
      BY <1>1
    <3>3. \A i \in 1..Len(c) : c[i] > since => i \in places
      BY <3>2
    <3> HIDE DEF c, places
    <3>4. /\ sel \in Seq(Times)
          /\ \A i \in places : \E j \in 1..Len(sel) : sel[j] = c[i]
          /\ \A j \in 1..Len(sel) : \E i \in places : sel[j] = c[i]
      BY <1>1, <3>2, SelectedEntries
    <3>5. Ascending(sel)
      <4> SUFFICES ASSUME NEW i \in 1..Len(sel), NEW j \in 1..Len(sel), i < j
                   PROVE  sel[i] < sel[j]
        BY DEF Ascending
      <4>1. InOrder(sel, c, places)
        BY <1>1, <3>2, SelectedOrder
      <4>2. PICK a \in places, b \in places : a < b /\ sel[i] = c[a] /\ sel[j] = c[b]
        BY <4>1 DEF InOrder
      <4> HIDE DEF sel
      <4> QED BY <1>1, <3>2, <4>2 DEF Ascending
    <3> HIDE DEF sel
    <3>6. LastTime(sel) <= phone[u]
      <4>1. CASE sel = <<>>
        <5>1. LastTime(sel) = 0
          BY <4>1 DEF LastTime
        <5> QED BY <1>1, <5>1
      <4>2. CASE sel # <<>>
        <5>1. Len(sel) \in 1..Len(sel) /\ LastTime(sel) = sel[Len(sel)]
          BY <3>4, <4>2, LastTimeIs
        <5>2. PICK i \in places : sel[Len(sel)] = c[i]
          BY <3>4, <5>1
        <5> QED BY <1>2, <3>2, <5>1, <5>2
      <4> QED BY <4>1, <4>2
    <3>7. Whole(sel, since, c)
      BY <1>2, <3>3, <3>4 DEF Whole
    <3> QED BY <1>4, <3>1, <3>4, <3>5, <3>6, <3>7 DEF c
  <2> QED BY <2>1, <2>2
<1>5. Served(since).points[u] \in {<<>>, PointsSince(u, since)}
  BY DEF Served, Refusal
<1> QED BY <1>3, <1>4, <1>5

\* With one user, since is the time of the last location drawn.
LEMMA OldestOfOne ==
  ASSUME NEW u, Users = {u}, GapInv
  PROVE  OldestPointTime = LastTime(shown[u])
<1> DEFINE known == {w \in Users : shown[w] # <<>>}
<1>1. CASE shown[u] = <<>>
  <2>1. known = {}
    BY <1>1
  <2> QED BY <1>1, <2>1 DEF OldestPointTime, LastTime
<1>2. CASE shown[u] # <<>>
  <2>1. known = {u}
    BY <1>2
  <2>2. {Last(shown[w]) : w \in known} = {Last(shown[u])}
    BY <2>1
  <2>3. LastTime(shown[u]) = Last(shown[u]) /\ Last(shown[u]) \in Nat
    <3>1. shown[u] \in Seq(Times) /\ LastTime(shown[u]) = Last(shown[u])
      BY <1>2 DEF GapInv, TrailInv, TypeOK, LastTime
    <3> QED BY <3>1, LastTimeIs
  <2>4. Min({Last(shown[u])}) = Last(shown[u])
    BY <2>3 DEF Min
  <2> QED BY <2>1, <2>2, <2>3, <2>4 DEF OldestPointTime
<1> QED BY <1>1, <1>2

\* What the requests say of a user is kept if what was said of the one that changes is.
LEMMA GapKeep ==
  ASSUME GapInv, TrailInv', UNCHANGED share, NEW q \in Slots, NEW r,
         \A p \in Slots : reqs'[p] = IF p = q THEN r ELSE reqs[p],
         \A u \in Users :
            /\ LastTime(shown[u]) <= LastTime(shown'[u]) /\ LastTime(shown'[u]) <= phone[u]
            /\ NoGap(shown'[u], cache[u])
            /\ r.pc # "free" => r.since <= LastTime(shown[u])
            /\ r.pc = "answered" => /\ Ascending(r.ans.points[u])
                                    /\ LastTime(r.ans.points[u]) <= phone[u]
                                    /\ Whole(r.ans.points[u], r.since, cache[u]),
         r.pc # "free" => r.since \in Nat
  PROVE  GapInv'
<1> SUFFICES ASSUME NEW u \in Users
             PROVE  /\ Ascending(cache'[u]) /\ LastTime(cache'[u]) <= phone'[u]
                    /\ LastTime(shown'[u]) <= phone'[u]
                    /\ NoGap(shown'[u], cache'[u])
                    /\ \A p \in Slots : reqs'[p].pc # "free" =>
                          reqs'[p].since <= LastTime(shown'[u])
                    /\ \A p \in Slots : reqs'[p].pc = "answered" =>
                          /\ Ascending(reqs'[p].ans.points[u])
                          /\ LastTime(reqs'[p].ans.points[u]) <= phone'[u]
                          /\ Whole(reqs'[p].ans.points[u], reqs'[p].since, cache'[u])
  BY DEF GapInv
<1>1. cache' = cache /\ phone' = phone
  BY DEF share
<1>2. LastTime(shown[u]) \in Nat /\ LastTime(shown'[u]) \in Nat
  BY LastTimeIs DEF GapInv, TrailInv, TypeOK
<1>3. ASSUME NEW p \in Slots, reqs'[p].pc # "free"
      PROVE  reqs'[p].since <= LastTime(shown'[u])
  <2>1. reqs'[p].since \in Nat
    BY <1>3 DEF TrailInv, TypeOK, Request
  <2>2. reqs'[p].since <= LastTime(shown[u])
    BY <1>3 DEF GapInv
  <2> QED BY <1>2, <2>1, <2>2
<1> QED BY <1>1, <1>3 DEF GapInv

\* The trails that are there have no gap and are not newer than the clients.
LEMMA SameTrails ==
  ASSUME GapInv, UNCHANGED shown
  PROVE  \A u \in Users :
            /\ LastTime(shown[u]) <= LastTime(shown'[u]) /\ LastTime(shown'[u]) <= phone[u]
            /\ NoGap(shown'[u], cache[u])
BY LastTimeIs DEF GapInv, TrailInv, TypeOK

LEMMA GapFire ==
  ASSUME NEW u, Users = {u}, GapInv, NEW t \in timers, Fire(t)
  PROVE  GapInv'
<1>1. PICK q \in Slots :
        reqs' = [reqs EXCEPT ![q] = [Free EXCEPT !.pc = "sent", !.expire = t.expire,
                                       !.ivl = t.ivl, !.since = OldestPointTime]]
  BY DEF Fire
<1> DEFINE r == [Free EXCEPT !.pc = "sent", !.expire = t.expire, !.ivl = t.ivl,
                             !.since = OldestPointTime]
<1>2. r.pc = "sent" /\ r.since = LastTime(shown[u])
  BY OldestOfOne DEF Free
<1> HIDE DEF r
<1>3. \A p \in Slots : reqs'[p] = IF p = q THEN r ELSE reqs[p]
  BY <1>1 DEF GapInv, TrailInv, TypeOK, r
<1>4. TrailInv' /\ UNCHANGED share /\ UNCHANGED shown
  BY TrailFire DEF GapInv, Fire
<1>5. LastTime(shown[u]) \in Nat
  BY LastTimeIs DEF GapInv, TrailInv, TypeOK
<1> QED BY <1>2, <1>3, <1>4, <1>5, SameTrails, GapKeep

LEMMA GapServe ==
  ASSUME GapInv, NEW q \in Slots, Serve(q)
  PROVE  GapInv'
<1> DEFINE r == [reqs[q] EXCEPT !.pc = "answered", !.ans = Served(reqs[q].since)]
<1>1. reqs[q] \in Request /\ reqs[q].since \in Nat /\ reqs[q].pc = "sent"
  BY DEF Serve, GapInv, TrailInv, TypeOK, Request
<1>2. r.since = reqs[q].since /\ r.ans = Served(reqs[q].since)
  BY <1>1 DEF Request
<1>3. reqs' = [reqs EXCEPT ![q] = r]
  BY <1>1 DEF Serve, GapInv, TrailInv, TypeOK
<1> HIDE DEF r
<1>4. \A p \in Slots : reqs'[p] = IF p = q THEN r ELSE reqs[p]
  BY <1>3 DEF GapInv, TrailInv, TypeOK
<1>5. TrailInv' /\ UNCHANGED share /\ UNCHANGED shown
  BY TrailWay DEF GapInv, Serve, page
<1>6. \A u \in Users : /\ r.since <= LastTime(shown[u])
                       /\ Ascending(r.ans.points[u])
                       /\ LastTime(r.ans.points[u]) <= phone[u]
                       /\ Whole(r.ans.points[u], r.since, cache[u])
  BY <1>1, <1>2, ServedWhole DEF GapInv
<1> QED BY <1>1, <1>2, <1>4, <1>5, <1>6, SameTrails, GapKeep

LEMMA GapFail ==
  ASSUME GapInv, NEW q \in Slots, Fail(q)
  PROVE  GapInv'
<1>1. \A p \in Slots : reqs'[p] = IF p = q THEN Free ELSE reqs[p]
  BY DEF Fail, GapInv, TrailInv, TypeOK
<1>2. TrailInv' /\ UNCHANGED share /\ UNCHANGED shown
  BY TrailWay DEF GapInv, Fail, page
<1> QED BY <1>1, <1>2, FreeFields, SameTrails, GapKeep

LEMMA GapDeliver ==
  ASSUME GapInv, NEW q \in Slots, Deliver(q)
  PROVE  GapInv'
<1> DEFINE r == reqs[q]
           d == reqs[q].ans
<1>1. /\ r \in Request /\ r.pc = "answered" /\ r.since \in Nat
      /\ \A u \in Users : d.points[u] \in Seq(Times)
  BY DEF Deliver, GapInv, TrailInv, TypeOK, Request, Answer
<1>2. \A p \in Slots : reqs'[p] = IF p = q THEN Free ELSE reqs[p]
  BY DEF Deliver, GapInv, TrailInv, TypeOK
<1>3. TrailInv' /\ UNCHANGED share
  BY TrailDeliver DEF GapInv, Deliver
<1>4. \A u \in Users :
         /\ LastTime(shown[u]) <= LastTime(shown'[u]) /\ LastTime(shown'[u]) <= phone[u]
         /\ NoGap(shown'[u], cache[u])
  <2>1. CASE UNCHANGED shown
    BY <2>1, SameTrails
  <2>2. ASSUME NEW us, Draw(d, us), NEW u \in Users
        PROVE  /\ LastTime(shown[u]) <= LastTime(shown'[u]) /\ LastTime(shown'[u]) <= phone[u]
               /\ NoGap(shown'[u], cache[u])
    <3>1. shown'[u] = IF u \in us THEN Extended(shown[u], d.points[u]) ELSE shown[u]
      BY <2>2 DEF Draw
    <3>2. /\ shown[u] \in Seq(Times) /\ cache[u] \in Seq(Times) /\ phone[u] \in Nat
          /\ Ascending(shown[u]) /\ NoGap(shown[u], cache[u]) /\ LastTime(shown[u]) <= phone[u]
          /\ r.since <= LastTime(shown[u])
          /\ Ascending(d.points[u]) /\ LastTime(d.points[u]) <= phone[u]
          /\ Whole(d.points[u], r.since, cache[u])
      BY <1>1 DEF GapInv, TrailInv, TypeOK
    <3>3. CASE u \in us
      <4>1. /\ NoGap(Extended(shown[u], d.points[u]), cache[u])
            /\ LastTime(shown[u]) <= LastTime(Extended(shown[u], d.points[u]))
            /\ LastTime(Extended(shown[u], d.points[u])) <= phone[u]
        BY <1>1, <3>2, DrawsNoGap
      <4> QED BY <3>1, <3>3, <4>1
    <3>4. CASE u \notin us
      BY <3>1, <3>2, <3>4, LastTimeIs
    <3> QED BY <3>3, <3>4
  <2> QED BY <2>1, <2>2 DEF Deliver, FirstAnswer, PollAnswer, PollThrows, PollRefused
<1> QED BY <1>2, <1>3, <1>4, FreeFields, GapKeep

\* A new location is newer than all that is known; the oldest may be dropped for it.
LEMMA GapPost ==
  ASSUME GapInv, NEW w \in Users, Post(w)
  PROVE  GapInv'
<1>1. PICK t \in (phone[w] + 1)..(now + 1) :
        /\ phone' = [phone EXCEPT ![w] = t]
        /\ cache' = [cache EXCEPT ![w] =
                       IF Len(Append(cache[w], t)) - MaxCachedPts > 0
                       THEN Tail(Append(cache[w], t)) ELSE Append(cache[w], t)]
  BY DEF Post
<1> DEFINE old == cache[w]
           long == Append(old, t)
           new == cache'[w]
<1>2. /\ old \in Seq(Times) /\ Ascending(old) /\ LastTime(old) <= phone[w]
      /\ phone[w] \in Nat /\ now \in Nat
  BY DEF GapInv, TrailInv, TypeOK
<1>3. t \in Times /\ t \in Nat /\ phone[w] < t
  BY <1>2 DEF Times
<1>4. /\ new = Tail(long) \/ new = long
      /\ phone'[w] = t
      /\ \A u \in Users : u # w => cache'[u] = cache[u] /\ phone'[u] = phone[u]
  BY <1>1 DEF GapInv, TrailInv, TypeOK
<1> HIDE DEF old, new
<1>5. /\ long \in Seq(Times) /\ Len(long) = Len(old) + 1 /\ Len(old) \in Nat
      /\ long[Len(old) + 1] = t
      /\ \A i \in 1..Len(old) : long[i] = old[i] /\ old[i] \in Nat /\ old[i] < t
  <2>1. \A i \in 1..Len(old) : old[i] <= LastTime(old) /\ LastTime(old) \in Nat /\ old[i] \in Nat
    BY <1>2, LastTimeIs DEF Times
  <2> QED BY <1>2, <1>3, <2>1
<1> HIDE DEF long
<1>6. /\ new \in Seq(Times)
      /\ \E o \in Nat : /\ Len(new) = Len(long) - o
                        /\ \A i \in 1..Len(new) : new[i] = long[i + o] /\ i + o \in 1..Len(long)
  <2>1. CASE new = long
    <3>1. Len(new) = Len(long) - 0 /\ \A i \in 1..Len(new) : new[i] = long[i + 0] /\ i + 0 \in 1..Len(long)
      BY <1>5, <2>1
    <3> QED BY <1>5, <2>1, <3>1
  <2>2. CASE new = Tail(long)
    <3>1. long # <<>>
      BY <1>5
    <3>2. new \in Seq(Times) /\ Len(new) = Len(long) - 1
          /\ \A i \in 1..Len(new) : new[i] = long[i + 1] /\ i + 1 \in 1..Len(long)
      BY <1>5, <2>2, <3>1
    <3> QED BY <3>2
  <2> QED BY <1>4, <2>1, <2>2
<1>7. PICK o \in Nat : /\ Len(new) = Len(long) - o
                       /\ \A i \in 1..Len(new) : new[i] = long[i + o] /\ i + o \in 1..Len(long)
  BY <1>6
<1>8. \A i \in 1..Len(long) : i = Len(old) + 1 \/ i \in 1..Len(old)
  BY <1>5
<1>9. Ascending(long)
  <2> SUFFICES ASSUME NEW i \in 1..Len(long), NEW j \in 1..Len(long), i < j
               PROVE  long[i] < long[j]
    BY DEF Ascending
  <2>1. i \in 1..Len(old)
    BY <1>5
  <2> QED BY <1>2, <1>5, <1>8, <2>1 DEF Ascending
<1>10. Ascending(new)
  <2> SUFFICES ASSUME NEW i \in 1..Len(new), NEW j \in 1..Len(new), i < j
               PROVE  new[i] < new[j]
    BY DEF Ascending
  <2>1. i + o \in 1..Len(long) /\ j + o \in 1..Len(long) /\ i + o < j + o
    BY <1>7
  <2> QED BY <1>7, <1>9, <2>1 DEF Ascending
<1>11. \A k \in 1..Len(new) : new[k] = t \/ \E i \in 1..Len(old) : new[k] = old[i]
  BY <1>5, <1>7, <1>8
<1>12. LastTime(new) <= t
  <2>1. CASE new = <<>>
    BY <1>3, <2>1, LastTimeIs DEF LastTime
  <2>2. CASE new # <<>>
    <3>1. Len(new) \in 1..Len(new) /\ LastTime(new) = new[Len(new)]
      BY <1>6, <2>2, LastTimeIs
    <3> QED BY <1>3, <1>5, <1>11, <3>1
  <2> QED BY <2>1, <2>2
<1>13. TrailInv'
  BY TrailPost DEF GapInv
<1>14. UNCHANGED <<reqs, shown>>
  BY DEF Post, page
<1>15. /\ LastTime(shown[w]) <= phone[w] /\ LastTime(shown[w]) \in Nat
       /\ NoGap(shown[w], old)
       /\ \A q \in Slots : reqs[q].pc = "answered" =>
             /\ LastTime(reqs[q].ans.points[w]) <= phone[w]
             /\ LastTime(reqs[q].ans.points[w]) \in Nat
             /\ Whole(reqs[q].ans.points[w], reqs[q].since, old)
  BY LastTimeIs DEF GapInv, TrailInv, TypeOK, Request, Answer, old
<1>16. NoGap(shown[w], new)
  BY <1>2, <1>3, <1>11, <1>15 DEF NoGap
<1>17. ASSUME NEW q \in Slots, reqs[q].pc = "answered"
       PROVE  /\ LastTime(reqs[q].ans.points[w]) <= t
              /\ Whole(reqs[q].ans.points[w], reqs[q].since, new)
  BY <1>2, <1>3, <1>11, <1>15, <1>17 DEF Whole
<1>18. LastTime(shown[w]) <= t
  BY <1>2, <1>3, <1>15
<1> QED BY <1>4, <1>10, <1>12, <1>13, <1>14, <1>16, <1>17, <1>18 DEF GapInv, new

\* A member comes back with nothing.
LEMMA GapJoin ==
  ASSUME GapInv, NEW w \in Users, Join(w)
  PROVE  GapInv'
<1>1. TrailInv'
  <2>1. [Next]_vars
    BY DEF Next
  <2> QED BY <2>1, TrailStep DEF GapInv
<1>2. /\ cache'[w] = <<>> /\ \A u \in Users : u # w => cache'[u] = cache[u]
      /\ UNCHANGED <<phone, reqs, shown>>
  BY DEF Join, page, GapInv, TrailInv, TypeOK
<1>3. Ascending(<<>>) /\ LastTime(<<>>) = 0 /\ Len(<<>>) = 0
  BY DEF Ascending, LastTime
<1>4. \A trail, pts, since : NoGap(trail, <<>>) /\ Whole(pts, since, <<>>)
  BY <1>3 DEF NoGap, Whole
<1>5. phone[w] \in Nat
  BY DEF GapInv, TrailInv, TypeOK
<1> QED BY <1>1, <1>2, <1>3, <1>4, <1>5 DEF GapInv

LEMMA GapStep ==
  ASSUME NEW u, Users = {u}, GapInv, [Next]_vars
  PROVE  GapInv'
<1>1. CASE UNCHANGED <<cache, phone, reqs, shown>>
  BY <1>1, TrailStep DEF GapInv
<1>2. ASSUME NEW w \in Users, Leave(w) PROVE UNCHANGED <<cache, phone, reqs, shown>>
  BY <1>2 DEF Leave, page
<1>3. Stop \/ Tick \/ UNCHANGED vars => UNCHANGED <<cache, phone, reqs, shown>>
  BY DEF Stop, Tick, vars, share, page
<1> QED BY <1>1, <1>2, <1>3, GapFire, GapServe, GapFail, GapDeliver, GapPost, GapJoin DEF Next

LEMMA GapInit == Init => GapInv
<1> SUFFICES ASSUME Init PROVE GapInv
  OBVIOUS
<1>1. \A q \in Slots : reqs[q].pc # "answered" /\ reqs[q].since = 0
  BY DEF Init, Free
<1>2. Ascending(<<>>) /\ LastTime(<<>>) = 0 /\ NoGap(<<>>, <<>>)
  BY DEF Ascending, LastTime, NoGap
<1> QED BY <1>1, <1>2, TrailInit DEF Init, GapInv

\* For a share of one user a trail lacks nothing the server could fill in, however
\* many requests overlap and in whatever order their answers come.
THEOREM TrailHasNoGapCorrect ==
  ASSUME NEW u, Users = {u}
  PROVE  Spec => []TrailHasNoGap
<1>1. Init => GapInv
  BY GapInit
<1>2. GapInv /\ [Next]_vars => GapInv'
  BY GapStep
<1>3. GapInv => TrailHasNoGap
  <2> SUFFICES ASSUME GapInv, shown[u] # <<>>, NEW t \in Range(cache[u]),
                      Head(shown[u]) < t, t < Last(shown[u])
               PROVE  t \in Range(shown[u])
    BY DEF TrailHasNoGap
  <2>1. cache[u] \in Seq(Times) /\ shown[u] \in Seq(Times) /\ NoGap(shown[u], cache[u])
    BY DEF GapInv, TrailInv, TypeOK
  <2>2. PICK k \in 1..Len(cache[u]) : t = cache[u][k]
    BY <2>1 DEF Range
  <2>3. Head(shown[u]) = shown[u][1] /\ Last(shown[u]) = LastTime(shown[u])
    BY <2>1 DEF LastTime
  <2>4. PICK i \in 1..Len(shown[u]) : shown[u][i] = t
    BY <2>1, <2>2, <2>3 DEF NoGap
  <2> QED BY <2>1, <2>4 DEF Range
<1> QED BY <1>1, <1>2, <1>3, PTL DEF Spec
==============================================================================
