--------------------------- MODULE HaukServerProofs ---------------------------
(***************************************************************************)
(* What viewers are shown and what clients are promised.                   *)
(*                                                                         *)
(* A viewer, beside any number of others and of requests in flight, is     *)
(* shown only sessions that were put under the link asked for, and in the  *)
(* answer for a group none that is encrypted: a fetch holds a copy of the  *)
(* share while the writers go on, so that the copy is compared with the    *)
(* histories, as the copies of the writers are in HaukApiProofs.  A viewer *)
(* is shown nothing of a session that was gone when the viewer asked.      *)
(*                                                                         *)
(* Every end the creator of a session set is kept, however requests        *)
(* overlap and fail, on Redis as long as the clock stands still while one  *)
(* is in flight.                                                           *)
(*                                                                         *)
(* HaukApi implements Sharing: one request at a time and on Redis, every   *)
(* store operation of every handler is a step of Sharing or changes        *)
(* nothing there.                                                          *)
(***************************************************************************)
EXTENDS HaukFetch, HaukSeqProofs

USE DEF FetchAt, FetchGoto

------------------------------------------------------------------------------
(* Viewers: the inductive invariant *)

\* What the copies of a fetch are worth, b being born and g granted.
FetchOK(b, g, f) ==
  /\ f.pc # "idle" => f.link \in Links
  /\ f.pc \in {"solo", "points", "ivl", "reply"} => ShareOK(b, g, f.link, f.share)
  /\ f.pc \in {"points", "ivl"} => f.todo \subseteq Members(f.share)
  /\ \A x \in f.shown : <<f.link, x[1]>> \in g
  /\ f.pc \in {"share", "solo"} => f.shown = {}
  /\ f.share.type = "group" => \A x \in f.shown : Plain(b, x[1])

FetchInv ==
  /\ IInv
  /\ fq \in [Viewers -> FetchFrame]
  /\ \A v \in Viewers : FetchOK(born, granted, fq[v])

------------------------------------------------------------------------------
(* Frames *)

\* A viewer that waits for nothing.
LEMMA NoFetchOK ==
  ASSUME NEW b, NEW g
  PROVE  NoFetch \in FetchFrame /\ FetchOK(b, g, NoFetch)
<1>1. EmptyShare \in Share
  BY DEF EmptyShare, SoloShare, NoHosts, Share
<1> QED BY <1>1 DEF NoFetch, FetchFrame, FetchOK

\* A fetch that was sound stays sound when the histories grow.
LEMMA FetchGrows ==
  ASSUME NEW b, NEW g, NEW c, NEW h, Grows(b, g, c, h),
         NEW f \in FetchFrame, FetchOK(b, g, f)
  PROVE  FetchOK(c, h, f)
<1>1. \A s \in Sids : Plain(b, s) => Plain(c, s)
  BY DEF Grows, Plain
<1>2. ShareSound(b, f.share) => ShareSound(c, f.share)
  BY <1>1 DEF ShareSound, FetchFrame, Share, Grows
<1>3. ShareOK(b, g, f.link, f.share) => ShareOK(c, h, f.link, f.share)
  BY <1>2 DEF ShareOK, Grows
<1>4. \A x \in f.shown : x[1] \in Sids
  BY DEF FetchFrame
<1> QED BY <1>1, <1>3, <1>4 DEF FetchOK, Grows

\* A step of one viewer.
LEMMA FetchStep ==
  ASSUME FetchInv, NEW v \in Viewers, NEW f \in FetchFrame, FetchGoto(v, f),
         FetchOK(born, granted, f), UNCHANGED vars
  PROVE  FetchInv'
<1>1. fq' \in [Viewers -> FetchFrame]
  BY DEF FetchInv
<1>2. \A w \in Viewers : fq'[w] = IF w = v THEN f ELSE fq[w]
  BY DEF FetchInv
<1>3. IInv' /\ born' = born /\ granted' = granted
  BY SafeStep DEF FetchInv, vars, history
<1> QED BY <1>1, <1>2, <1>3 DEF FetchInv

\* What FetchInv says of one fetch.
LEMMA FetchFacts ==
  ASSUME FetchInv, NEW v \in Viewers
  PROVE  fq[v] \in FetchFrame /\ FetchOK(born, granted, fq[v]) /\ IInv
BY DEF FetchInv

\* A turn to one of the loops, or past it.
LEMMA LoopOK ==
  ASSUME NEW b, NEW g, NEW f \in FetchFrame, FetchOK(b, g, f), NEW pc \in {"points", "ivl"},
         f.link \in Links, ShareOK(b, g, f.link, f.share)
  PROVE  Loop(f, pc) \in FetchFrame /\ FetchOK(b, g, Loop(f, pc))
<1>1. Members(f.share) \subseteq Nicks
  BY DEF Members
<1>2. CASE Members(f.share) = {}
  <2> DEFINE h == [f EXCEPT !.pc = "reply"]
  <2>1. h \in FetchFrame /\ h.pc = "reply" /\ h.link = f.link /\ h.share = f.share
        /\ h.shown = f.shown
    BY DEF FetchFrame
  <2>2. Loop(f, pc) = h
    BY <1>2 DEF Loop
  <2> HIDE DEF h
  <2> QED BY <2>1, <2>2 DEF FetchOK
<1>3. CASE Members(f.share) # {}
  <2> DEFINE h == [f EXCEPT !.pc = pc, !.todo = Members(f.share)]
  <2>1. h \in FetchFrame /\ h.pc = pc /\ h.link = f.link /\ h.share = f.share
        /\ h.shown = f.shown /\ h.todo = Members(f.share)
    BY <1>1 DEF FetchFrame
  <2>2. Loop(f, pc) = h
    BY <1>3 DEF Loop
  <2> HIDE DEF h
  <2> QED BY <2>1, <2>2 DEF FetchOK
<1> QED BY <1>2, <1>3

\* GetPoints returns locations of the session.
LEMMA GetPointsType ==
  ASSUME NEW sess \in Session, NEW t \in Nat
  PROVE  GetPoints(sess, t) \in Seq(Points)
<1> DEFINE places == {i \in DOMAIN sess.points : sess.points[i] > t}
<1>1. sess.points \in Seq(Points) /\ places \in SUBSET (1..Len(sess.points))
  BY DEF Session
<1> HIDE DEF places
<1>2. Selected(sess.points, places) \in Seq(Points)
  BY <1>1, SelectedEntries
<1> QED BY <1>1, <1>2 DEF GetPoints, places

\* A session of the share is added to what is shown.
LEMMA ShowingOK ==
  ASSUME FetchInv, NEW v \in Viewers, NEW s \in Sids, Live(sessionKV[s], now),
         fq[v].pc # "idle", <<fq[v].link, s>> \in granted,
         fq[v].share.type = "group" => Plain(born, s)
  PROVE  LET shown == Showing(fq[v], s, sessionKV[s].val)
         IN  /\ shown \subseteq Sids \X Seq(Points)
             /\ \A x \in shown : <<fq[v].link, x[1]>> \in granted
             /\ fq[v].share.type = "group" => \A x \in shown : Plain(born, x[1])
<1> DEFINE p == GetPoints(sessionKV[s].val, fq[v].since)
<1>1. fq[v] \in FetchFrame /\ FetchOK(born, granted, fq[v]) /\ IInv
  BY FetchFacts
<1>2. sessionKV[s].val \in Session
  BY <1>1, LiveSound
<1>3. p \in Seq(Points)
  BY <1>1, <1>2, GetPointsType DEF FetchFrame
<1>4. Showing(fq[v], s, sessionKV[s].val) = fq[v].shown \cup {<<s, p>>}
  BY DEF Showing
<1> HIDE DEF p
<1> QED BY <1>1, <1>3, <1>4 DEF FetchFrame, FetchOK

------------------------------------------------------------------------------
(* The steps *)

\* The type is read; nothing is held yet.
LEMMA BeginFetchOK ==
  ASSUME FetchInv, NEW v \in Viewers, BeginFetch(v), UNCHANGED vars
  PROVE  FetchInv'
<1>1. PICK l \in Links, t \in Sinces :
        /\ Live(locdataKV[l], now)
        /\ FetchGoto(v, [NoFetch EXCEPT !.pc = "share", !.link = l, !.since = t,
                                        !.type = locdataKV[l].val.type, !.gone = GoneSids])
  BY DEF BeginFetch
<1> DEFINE f == [NoFetch EXCEPT !.pc = "share", !.link = l, !.since = t,
                                !.type = locdataKV[l].val.type, !.gone = GoneSids]
<1>2. locdataKV[l].val.type \in {"solo", "group"}
  BY <1>1, FetchFacts, LiveSound DEF Share
<1>3. GoneSids \subseteq Sids
  BY FetchFacts DEF GoneSids, IInv, TypeInv, TypeOK
<1>4. t \in Nat
  BY SincesAssumption
<1>5. /\ NoFetch \in FetchFrame /\ NoFetch.shown = {}
  BY NoFetchOK DEF NoFetch
<1>6. f \in FetchFrame /\ f.pc = "share" /\ f.link = l /\ f.shown = {}
  BY <1>2, <1>3, <1>4, <1>5 DEF FetchFrame
<1>7. FetchGoto(v, f)
  BY <1>1
<1> HIDE DEF f
<1>8. FetchOK(born, granted, f)
  BY <1>6 DEF FetchOK
<1> QED BY <1>6, <1>7, <1>8, FetchStep

\* The share is loaded: as a record of the store it is sound.
LEMMA FetchShareOK ==
  ASSUME FetchInv, NEW v \in Viewers, FetchShare(v), UNCHANGED vars
  PROVE  FetchInv'
<1> DEFINE e == locdataKV[fq[v].link]
           k == [fq[v] EXCEPT !.share = e.val]
           f == [fq[v] EXCEPT !.pc = "solo", !.share = e.val]
<1>1. fq[v] \in FetchFrame /\ FetchOK(born, granted, fq[v]) /\ IInv
  BY FetchFacts
<1>2. fq[v].pc = "share" /\ fq[v].link \in Links /\ fq[v].shown = {}
  BY <1>1 DEF FetchShare, FetchOK
<1>3. \/ NotFound(v)
      \/ Live(e, now) /\ FetchGoto(v, f)
      \/ Live(e, now) /\ FetchGoto(v, Loop(k, "points"))
  BY DEF FetchShare
<1>4. Live(e, now) => e.val \in Share /\ ShareOK(born, granted, fq[v].link, e.val)
  BY <1>1, <1>2, LiveSound
<1> HIDE DEF e
<1>5. CASE NotFound(v)
  BY <1>5, NoFetchOK, FetchStep DEF NotFound
<1>6. CASE Live(e, now) /\ FetchGoto(v, f)
  <2>1. /\ f \in FetchFrame /\ f.pc = "solo" /\ f.link = fq[v].link /\ f.share = e.val
        /\ f.shown = {}
    BY <1>1, <1>2, <1>4, <1>6 DEF FetchFrame
  <2> HIDE DEF f
  <2>2. FetchOK(born, granted, f)
    BY <1>2, <1>4, <1>6, <2>1 DEF FetchOK
  <2> QED BY <1>6, <2>1, <2>2, FetchStep
<1>7. CASE Live(e, now) /\ FetchGoto(v, Loop(k, "points"))
  <2>1. /\ k \in FetchFrame /\ k.pc = "share" /\ k.link = fq[v].link /\ k.share = e.val
        /\ k.shown = {}
    BY <1>1, <1>2, <1>4, <1>7 DEF FetchFrame
  <2> HIDE DEF k
  <2>2. FetchOK(born, granted, k)
    BY <1>2, <2>1 DEF FetchOK
  <2>3. Loop(k, "points") \in FetchFrame /\ FetchOK(born, granted, Loop(k, "points"))
    BY <1>2, <1>4, <1>7, <2>1, <2>2, LoopOK
  <2> QED BY <1>7, <2>3, FetchStep
<1> QED BY <1>3, <1>5, <1>6, <1>7

\* The host of a solo share is shown; a group decoded as one has none.
LEMMA FetchSoloOK ==
  ASSUME FetchInv, NEW v \in Viewers, FetchSolo(v), UNCHANGED vars
  PROVE  FetchInv'
<1> DEFINE s == fq[v].share.host
           f == [fq[v] EXCEPT !.pc = "reply", !.ivl = sessionKV[s].val.ivl,
                              !.shown = Showing(fq[v], s, sessionKV[s].val)]
<1>1. fq[v] \in FetchFrame /\ FetchOK(born, granted, fq[v]) /\ IInv
  BY FetchFacts
<1>2. fq[v].pc = "solo" /\ fq[v].link \in Links
      /\ ShareOK(born, granted, fq[v].link, fq[v].share)
  BY <1>1 DEF FetchSolo, FetchOK
<1>3. \/ NotFound(v)
      \/ s # NoSid /\ Live(sessionKV[s], now) /\ FetchGoto(v, f)
  BY DEF FetchSolo
<1>4. CASE NotFound(v)
  BY <1>4, NoFetchOK, FetchStep DEF NotFound
<1>5. CASE s # NoSid /\ Live(sessionKV[s], now) /\ FetchGoto(v, f)
  <2>1. fq[v].share \in Share /\ s \in Sids
    BY <1>1, <1>5 DEF FetchFrame, Share
  <2>2. fq[v].share.type = "solo"
    BY <1>2, <1>5, <2>1 DEF ShareOK, ShareSound, Share
  <2>3. <<fq[v].link, s>> \in granted
    BY <1>2, <1>5, <2>1, <2>2 DEF ShareOK, Exposed
  <2>4. sessionKV[s].val.ivl \in Nat
    BY <1>1, <1>5, <2>1, LiveSound DEF Session
  <2>5. /\ Showing(fq[v], s, sessionKV[s].val) \subseteq Sids \X Seq(Points)
        /\ \A x \in Showing(fq[v], s, sessionKV[s].val) : <<fq[v].link, x[1]>> \in granted
    BY <1>2, <1>5, <2>1, <2>2, <2>3, ShowingOK
  <2>6. /\ f \in FetchFrame /\ f.pc = "reply" /\ f.link = fq[v].link
        /\ f.share = fq[v].share /\ f.shown = Showing(fq[v], s, sessionKV[s].val)
    BY <1>1, <2>4, <2>5 DEF FetchFrame
  <2> HIDE DEF f, s
  <2>7. FetchOK(born, granted, f)
    BY <1>2, <2>2, <2>5, <2>6 DEF FetchOK
  <2> QED BY <1>5, <2>6, <2>7, FetchStep
<1> QED BY <1>3, <1>4, <1>5

\* One member of a group is shown.
LEMMA FetchPointsOK ==
  ASSUME FetchInv, NEW v \in Viewers, FetchPoints(v), UNCHANGED vars
  PROVE  FetchInv'
<1>1. fq[v] \in FetchFrame /\ FetchOK(born, granted, fq[v]) /\ IInv
  BY FetchFacts
<1>2. /\ fq[v].pc = "points" /\ fq[v].link \in Links
      /\ ShareOK(born, granted, fq[v].link, fq[v].share)
      /\ fq[v].todo \subseteq Members(fq[v].share)
  BY <1>1 DEF FetchPoints, FetchOK
<1>3. PICK n \in fq[v].todo :
        LET s == fq[v].share.hosts[n]
            f == [fq[v] EXCEPT !.todo = @ \ {n},
                    !.shown = IF Live(sessionKV[s], now)
                              THEN Showing(fq[v], s, sessionKV[s].val) ELSE @]
        IN  FetchGoto(v, IF f.todo = {} THEN Loop(f, "ivl") ELSE f)
  BY DEF FetchPoints
<1> DEFINE s == fq[v].share.hosts[n]
           sn == IF Live(sessionKV[s], now) THEN Showing(fq[v], s, sessionKV[s].val)
                 ELSE fq[v].shown
           f == [fq[v] EXCEPT !.todo = @ \ {n}, !.shown = sn]
<1>4. FetchGoto(v, IF f.todo = {} THEN Loop(f, "ivl") ELSE f)
  BY <1>3
<1>5. n \in Nicks /\ s \in Sids /\ fq[v].share \in Share
  BY <1>1, <1>2 DEF Members, FetchFrame, Share
<1>6. s \in HostsOf(fq[v].share) /\ Plain(born, s)
  BY <1>2, <1>5, NoSidAssumption DEF ShareOK, ShareSound, HostsOf
<1>7. fq[v].share.type = "group"
  BY <1>2, <1>5, <1>6 DEF ShareOK, ShareSound, Share
<1>8. <<fq[v].link, s>> \in granted
  BY <1>2, <1>6, <1>7 DEF ShareOK, Exposed
<1>9. /\ sn \subseteq Sids \X Seq(Points)
      /\ \A x \in sn : <<fq[v].link, x[1]>> \in granted
      /\ \A x \in sn : Plain(born, x[1])
  <2> HIDE DEF s
  <2>1. CASE Live(sessionKV[s], now)
    BY <1>2, <1>5, <1>6, <1>7, <1>8, <2>1, ShowingOK
  <2>2. CASE ~Live(sessionKV[s], now)
    BY <1>1, <1>7, <2>2 DEF FetchOK, FetchFrame
  <2> QED BY <2>1, <2>2
<1> HIDE DEF sn
<1>10. /\ f \in FetchFrame /\ f.pc = "points" /\ f.link = fq[v].link
       /\ f.share = fq[v].share /\ f.shown = sn /\ f.todo = fq[v].todo \ {n}
  BY <1>1, <1>2, <1>9 DEF FetchFrame
<1> HIDE DEF f, s
<1>11. FetchOK(born, granted, f)
  BY <1>2, <1>9, <1>10 DEF FetchOK
<1>12. Loop(f, "ivl") \in FetchFrame /\ FetchOK(born, granted, Loop(f, "ivl"))
  BY <1>2, <1>10, <1>11, LoopOK
<1> QED BY <1>4, <1>10, <1>11, <1>12, FetchStep

\* The interval is looked for, and the answer sent.
LEMMA FetchRestOK ==
  ASSUME FetchInv, NEW v \in Viewers, FetchIvl(v) \/ Reply(v), UNCHANGED vars
  PROVE  FetchInv'
<1>1. fq[v] \in FetchFrame /\ FetchOK(born, granted, fq[v]) /\ IInv
  BY FetchFacts
<1>2. CASE FetchIvl(v)
  <2>1. PICK n \in fq[v].todo :
          LET e == sessionKV[fq[v].share.hosts[n]]
              f == [fq[v] EXCEPT !.todo = @ \ {n},
                      !.ivl = IF Live(e, now) THEN LeastInterval(@, e.val.ivl) ELSE @]
          IN  FetchGoto(v, IF f.todo = {} THEN [f EXCEPT !.pc = "reply"] ELSE f)
    BY <1>2 DEF FetchIvl
  <2> DEFINE s == fq[v].share.hosts[n]
             i == IF Live(sessionKV[s], now)
                  THEN LeastInterval(fq[v].ivl, sessionKV[s].val.ivl) ELSE fq[v].ivl
             f == [fq[v] EXCEPT !.todo = @ \ {n}, !.ivl = i]
             g == [f EXCEPT !.pc = "reply"]
  <2>2. FetchGoto(v, IF f.todo = {} THEN g ELSE f)
    BY <2>1
  <2>3. /\ fq[v].pc = "ivl" /\ fq[v].link \in Links
        /\ ShareOK(born, granted, fq[v].link, fq[v].share)
        /\ fq[v].todo \subseteq Members(fq[v].share)
    BY <1>1, <1>2 DEF FetchIvl, FetchOK
  <2>4. s \in Sids
    BY <1>1, <2>3 DEF Members, FetchFrame, Share
  <2>5. Live(sessionKV[s], now) => sessionKV[s].val.ivl \in Nat
    BY <1>1, <2>4, LiveSound DEF Session
  <2>6. i \in Nat
    BY <1>1, <2>5 DEF LeastInterval, FetchFrame
  <2> HIDE DEF i
  <2>7. /\ f \in FetchFrame /\ f.pc = "ivl" /\ f.link = fq[v].link
        /\ f.share = fq[v].share /\ f.shown = fq[v].shown /\ f.todo = fq[v].todo \ {n}
    BY <1>1, <2>3, <2>6 DEF FetchFrame
  <2> HIDE DEF f
  <2>8. /\ g \in FetchFrame /\ g.pc = "reply" /\ g.link = fq[v].link
        /\ g.share = fq[v].share /\ g.shown = fq[v].shown
    BY <2>7 DEF FetchFrame
  <2> HIDE DEF g
  <2>9. FetchOK(born, granted, f) /\ FetchOK(born, granted, g)
    BY <1>1, <2>3, <2>7, <2>8 DEF FetchOK
  <2> QED BY <2>2, <2>7, <2>8, <2>9, FetchStep
<1>3. CASE Reply(v)
  BY <1>3, NoFetchOK, FetchStep DEF Reply
<1> QED BY <1>2, <1>3

\* The histories never shrink.
LEMMA HistoriesGrow ==
  ASSUME IInv, [Next]_vars
  PROVE  Grows(born, granted, born', granted')
<1>1. ASSUME NEW r \in Reqs, NEW mode, NEW s \in Sids, NEW f, Create(r, mode, s, f)
      PROVE  Grows(born, granted, born', granted')
  <2>1. PICK d, enc : born' = [born EXCEPT ![s] = [exp |-> now + d, enc |-> enc]]
    BY <1>1 DEF Create
  <2>2. born[s] = Absent /\ granted' = granted
    BY <1>1 DEF Create
  <2> QED BY <2>1, <2>2 DEF Grows, IInv, TypeInv, TypeOK
<1>2. ASSUME NEW r \in Reqs, Begin(r)
      PROVE  Grows(born, granted, born', granted')
  <2>1. CASE BeginSolo(r) \/ BeginGroup(r) \/ BeginJoin(r)
    BY <1>1, <2>1 DEF BeginSolo, BeginGroup, BeginJoin
  <2>2. CASE ~(BeginSolo(r) \/ BeginGroup(r) \/ BeginJoin(r))
    <3>1. UNCHANGED history
      BY <1>2, <2>2 DEF Begin, BeginPost, BeginNewLink, BeginAdopt, BeginStopLink,
         BeginStopAll
    <3> QED BY <3>1 DEF Grows, history
  <2> QED BY <2>1, <2>2
<1>3. ASSUME NEW r \in Reqs, Step(r) \/ Abort(r) \/ StopSkip(r)
      PROVE  Grows(born, granted, born', granted')
  <2>1. born' = born /\ granted \subseteq granted'
    BY <1>3 DEF Step, GenLink, TryLink, Settle, AdoptType, AdoptShare, GetPin, GetGroup,
       StopType, StopShare, DelPin, DelShare, DelSession, SetShare, SetPin, SaveSession,
       Abort, StopSkip, history
  <2> QED BY <2>1 DEF Grows
<1>4. CASE Tick \/ UNCHANGED vars
  BY <1>4 DEF Tick, vars, history, Grows
<1> QED BY <1>2, <1>3, <1>4 DEF Next

\* Writers and viewers keep the invariant.
LEMMA FetchInvStep ==
  ASSUME FetchInv, [FetchNext]_fetchVars
  PROVE  FetchInv'
<1>1. CASE [Next]_vars /\ UNCHANGED fq
  <2>1. IInv' /\ Grows(born, granted, born', granted')
    BY <1>1, SafeStep, HistoriesGrow DEF FetchInv
  <2>2. ASSUME NEW v \in Viewers PROVE FetchOK(born', granted', fq[v])
    BY <2>1, FetchFacts, FetchGrows
  <2> QED BY <1>1, <2>1, <2>2 DEF FetchInv
<1>2. CASE \E v \in Viewers :
             /\ \/ BeginFetch(v) \/ FetchShare(v) \/ FetchSolo(v) \/ FetchPoints(v)
                \/ FetchIvl(v) \/ Reply(v)
             /\ UNCHANGED vars
  BY <1>2, BeginFetchOK, FetchShareOK, FetchSoloOK, FetchPointsOK, FetchRestOK
<1> QED BY <1>1, <1>2 DEF FetchNext, Served, Failed, Next, fetchVars

LEMMA FetchInvInit == FetchInit => FetchInv
<1> SUFFICES ASSUME FetchInit PROVE FetchInv
  OBVIOUS
<1>1. IInv
  BY SafeInit DEF FetchInit
<1>2. \A v \in Viewers : NoFetch \in FetchFrame /\ FetchOK(born, granted, NoFetch)
  BY NoFetchOK
<1> QED BY <1>1, <1>2 DEF FetchInit, FetchInv

------------------------------------------------------------------------------
(* The theorems *)

\* What every fetch holds agrees with what was born and granted.
THEOREM FetchSoundness == FetchSpec => []FetchInv
BY FetchInvInit, FetchInvStep, PTL DEF FetchSpec

\* A fetch keeps what it has read in its frame, and reads nothing but locations.
THEOREM FetchTypeCorrect == FetchSpec => []FetchTypeOK
<1>1. FetchInv => FetchTypeOK
  BY DEF FetchInv, FetchTypeOK
<1> QED BY <1>1, FetchSoundness, PTL

\* An answer holds locations only of sessions that were put under the link asked
\* for, whatever writers do between the loads of a fetch.
THEOREM FetchConsentCorrect == FetchSpec => []FetchConsent
<1>1. FetchInv => FetchConsent
  BY DEF FetchInv, FetchOK, FetchConsent, Replying
<1> QED BY <1>1, FetchSoundness, PTL

\* An answer for a group holds nothing of an encrypted session.
THEOREM FetchPlainCorrect == FetchSpec => []FetchPlain
<1>1. FetchInv => FetchPlain
  BY DEF FetchInv, FetchOK, FetchPlain, Replying, Plain
<1> QED BY <1>1, FetchSoundness, PTL

------------------------------------------------------------------------------
(* Sessions that are gone.  On Redis the clock must not tick within a      *)
(* request, or an entry may be stored without an expiry.                   *)

ClockWaits == Backend = "memory" \/ ~TickBusy

\* Every session is stored until the end it was created with; on Redis a request that
\* is at work on a session is so before that.  No stop was of an unknown session.
EndsKept ==
  /\ \A s \in Sids : sessionKV[s] # Absent => sessionKV[s].exp = born[s].exp
  /\ Backend = "redis" => \A r \in Reqs : rq[r].pc # "idle" => now < born[rq[r].sid].exp
  /\ \A s \in stopped : born[s] # Absent

\* What a fetch took for gone is gone still, and it shows nothing of it.
Fresh(gs, f) == f.gone \subseteq gs /\ \A x \in f.shown : x[1] \notin f.gone

FreshInv ==
  /\ FetchInv /\ EndsKept
  /\ \A v \in Viewers : Fresh(GoneSids, fq[v])

\* The store finds no session that is gone.
LEMMA GoneNotLive ==
  ASSUME IInv, EndsKept, NEW s \in GoneSids
  PROVE  s \in Sids /\ ~Live(sessionKV[s], now)
<1>1. CASE sessionKV[s] = Absent
  BY <1>1 DEF GoneSids, IInv, TypeInv, TypeOK, Live
<1>2. CASE sessionKV[s] # Absent
  <2>1. s \in Sids /\ born[s] # Absent /\ ~Alive(born[s], now)
    BY <1>2 DEF GoneSids
  <2>2. sessionKV[s].exp = born[s].exp
    BY <1>2, <2>1 DEF EndsKept
  <2> QED BY <2>1, <2>2 DEF Live, Alive
<1> QED BY <1>1, <1>2

\* A request answered, or gone on with the session it is of.
Goes(f, g) == g.pc = "idle" \/ g.sid = f.sid

\* After a share is saved the request is still of its session.
LEMMA ShareSavedSid ==
  ASSUME NEW f \in Frame
  PROVE  ShareSaved(f).sid = f.sid /\ ShareSaved(f).pc # "setShare"
<1>1. CASE Stopping(f)
  BY <1>1, NextTargetKeeps DEF ShareSaved
<1>2. CASE ~Stopping(f)
  <2>1. ShareSaved(f) = [f EXCEPT !.pc = "saveSession", !.share = EmptyShare,
                                  !.sess = AddTarget(f.sess, f.link)]
    BY <1>2 DEF ShareSaved
  <2> QED BY <2>1 DEF Frame
<1> QED BY <1>1, <1>2

\* A handler stays with the session its request is of.
LEMMA StepGoes ==
  ASSUME IInv, NEW r \in Reqs, Step(r)
  PROVE  /\ rq[r].pc # "idle" /\ now' = now /\ born' = born
         /\ \E g : Goto(r, g) /\ Goes(rq[r], g)
<1>1. rq[r] \in Frame /\ WellFormed(rq[r])
  BY FrameFacts DEF IInv
<1>2. CASE GenLink(r) \/ TryLink(r)
  <2>1. PICK l, p, k : Goto(r, [rq[r] EXCEPT !.link = l, !.lid = k, !.pc = p])
    <3>1. CASE GenLink(r)
      <4>1. PICK l : Goto(r, [rq[r] EXCEPT !.link = l,
                       !.pc = IF rq[r].lid = NoLink THEN "setShare" ELSE "tryLink"])
        BY <3>1 DEF GenLink
      <4>2. [rq[r] EXCEPT !.link = l,
               !.pc = IF rq[r].lid = NoLink THEN "setShare" ELSE "tryLink"]
            = [rq[r] EXCEPT !.link = l, !.lid = rq[r].lid,
                 !.pc = IF rq[r].lid = NoLink THEN "setShare" ELSE "tryLink"]
        BY <1>1 DEF Frame
      <4> QED BY <4>1, <4>2
    <3>2. CASE TryLink(r)
      BY <3>2 DEF TryLink
    <3> QED BY <1>2, <3>1, <3>2
  <2>2. Goes(rq[r], [rq[r] EXCEPT !.link = l, !.lid = k, !.pc = p])
    BY <1>1 DEF Goes, Frame
  <2>3. rq[r].pc # "idle" /\ now' = now /\ born' = born
    BY <1>2 DEF GenLink, TryLink, At
  <2> QED BY <2>1, <2>2, <2>3
<1>3. CASE AdoptType(r) \/ AdoptShare(r) \/ GetPin(r) \/ DelPin(r)
  <2>1. rq[r].pc # "idle" /\ now' = now /\ born' = born
    BY <1>3 DEF AdoptType, AdoptShare, GetPin, DelPin, At, history
  <2>2. \/ Answer(r) \/ Goto(r, [rq[r] EXCEPT !.pc = "adoptShare"])
        \/ Goto(r, [rq[r] EXCEPT !.pc = "getPin", !.share = locdataKV[rq[r].lid].val])
        \/ Goto(r, [rq[r] EXCEPT !.pc = "getGroup", !.link = groupidKV[rq[r].pin].val])
        \/ Goto(r, [rq[r] EXCEPT !.pc = "delShare"])
    BY <1>3 DEF AdoptType, AdoptShare, GetPin, DelPin
  <2>3. Answer(r) => Goto(r, Idle) /\ Goes(rq[r], Idle)
    BY IdleFrame DEF Answer, Goes
  <2>4. \A p, x : /\ Goes(rq[r], [rq[r] EXCEPT !.pc = p])
                  /\ Goes(rq[r], [rq[r] EXCEPT !.pc = p, !.share = x])
                  /\ Goes(rq[r], [rq[r] EXCEPT !.pc = p, !.link = x])
    BY <1>1 DEF Frame, Goes
  <2> QED BY <2>1, <2>2, <2>3, <2>4
<1>4. CASE GetGroup(r)
  <2>1. rq[r].pc # "idle" /\ now' = now /\ born' = born
    BY <1>4 DEF GetGroup, At
  <2>2. Answer(r) \/ \E sh : Goto(r, [rq[r] EXCEPT !.pc = "setShare", !.share = sh])
    BY <1>4 DEF GetGroup
  <2>3. Answer(r) => Goto(r, Idle) /\ Goes(rq[r], Idle)
    BY IdleFrame DEF Answer, Goes
  <2>4. \A sh : Goes(rq[r], [rq[r] EXCEPT !.pc = "setShare", !.share = sh])
    BY <1>1 DEF Frame, Goes
  <2> QED BY <2>1, <2>2, <2>3, <2>4
<1>5. CASE StopType(r) \/ StopShare(r) \/ DelShare(r)
  <2>1. rq[r].pc # "idle" /\ Stopping(rq[r]) /\ now' = now /\ born' = born
    BY <1>1, <1>5 DEF StopType, StopShare, DelShare, At, history, WellFormed
  <2>2. \/ Goto(r, NextTarget(rq[r]))
        \/ Goto(r, [rq[r] EXCEPT !.pc = "stopShare",
                                 !.share.type = locdataKV[rq[r].link].val.type])
        \/ \E sh, p : Goto(r, [rq[r] EXCEPT !.pc = p, !.share = sh])
    <3>1. CASE StopType(r)
      BY <3>1 DEF StopType
    <3>2. CASE StopShare(r)
      <4> DEFINE e == locdataKV[rq[r].link]
                 pc(sh) == IF Abandoned(sh) THEN "delPin" ELSE "setShare"
      <4>1. \/ Goto(r, NextTarget(rq[r]))
            \/ Goto(r, [rq[r] EXCEPT !.pc = "delShare", !.share = e.val])
            \/ \E sh : Goto(r, [rq[r] EXCEPT !.share = sh, !.pc = pc(sh)])
        BY <3>2 DEF StopShare
      <4>2. \A sh : [rq[r] EXCEPT !.share = sh, !.pc = pc(sh)]
                      = [rq[r] EXCEPT !.pc = pc(sh), !.share = sh]
        BY <1>1 DEF Frame
      <4> HIDE DEF pc
      <4> QED BY <4>1, <4>2
    <3>3. CASE DelShare(r)
      BY <3>3 DEF DelShare
    <3> QED BY <1>5, <3>1, <3>2, <3>3
  <2>3. Goes(rq[r], NextTarget(rq[r]))
    BY <1>1, <2>1, NextTargetKeeps DEF Goes
  <2>4. \A p, x : /\ Goes(rq[r], [rq[r] EXCEPT !.pc = p, !.share = x])
                  /\ Goes(rq[r], [rq[r] EXCEPT !.pc = p, !.share.type = x])
    BY <1>1 DEF Frame, Goes
  <2> QED BY <2>1, <2>2, <2>3, <2>4
<1>6. CASE SetShare(r) \/ SetPin(r)
  <2>1. rq[r].pc # "idle" /\ now' = now /\ born' = born
    BY <1>6 DEF SetShare, SetPin, At, history
  <2>2. Goto(r, ShareSaved(rq[r])) \/ Goto(r, [rq[r] EXCEPT !.pc = "setPin"])
    BY <1>6 DEF SetShare, SetPin
  <2>3. Goes(rq[r], ShareSaved(rq[r])) /\ Goes(rq[r], [rq[r] EXCEPT !.pc = "setPin"])
    BY <1>1, ShareSavedSid DEF Goes, Frame
  <2> QED BY <2>1, <2>2, <2>3
<1>7. CASE SaveSession(r) \/ DelSession(r)
  <2>1. rq[r].pc # "idle" /\ now' = now /\ born' = born /\ Goto(r, Idle)
    BY <1>7 DEF SaveSession, DelSession, At, Answer, history
  <2> QED BY <2>1, IdleFrame DEF Goes
<1> QED BY <1>2, <1>3, <1>4, <1>5, <1>6, <1>7 DEF Step

\* So does one that is cut off or skips an operation that failed.
LEMMA FailGoes ==
  ASSUME IInv, NEW r \in Reqs, Abort(r) \/ StopSkip(r)
  PROVE  /\ rq[r].pc # "idle" /\ now' = now /\ born' = born
         /\ \E g : Goto(r, g) /\ Goes(rq[r], g)
<1>1. rq[r] \in Frame
  BY FrameFacts DEF IInv
<1>2. rq[r].pc # "idle" /\ now' = now /\ born' = born
  BY DEF Abort, StopSkip, At, history
<1>3. \/ Goto(r, Idle) \/ Goto(r, [rq[r] EXCEPT !.pc = "delShare"])
      \/ Stopping(rq[r]) /\ Goto(r, NextTarget(rq[r]))
  BY DEF Abort, StopSkip, Answer
<1>4. Goes(rq[r], Idle) /\ Goes(rq[r], [rq[r] EXCEPT !.pc = "delShare"])
      /\ (Stopping(rq[r]) => Goes(rq[r], NextTarget(rq[r])))
  BY <1>1, IdleFrame, NextTargetKeeps DEF Goes, Frame
<1> QED BY <1>2, <1>3, <1>4

\* What is stored of sessions changes only when a handler saves or deletes its own.
LEMMA SessionWrites ==
  ASSUME IInv, NEW r \in Reqs, Step(r) \/ Abort(r) \/ StopSkip(r)
  PROVE  /\ \A s \in Sids \ {rq[r].sid} : sessionKV'[s] = sessionKV[s]
         /\ \/ sessionKV'[rq[r].sid] = sessionKV[rq[r].sid]
            \/ sessionKV'[rq[r].sid] = Absent
            \/ /\ rq[r].sess.exp = born[rq[r].sid].exp
               /\ sessionKV'[rq[r].sid] = Write(rq[r].sess, rq[r].sess.exp, now)
         /\ stopped \subseteq stopped' /\ stopped' \subseteq stopped \cup {rq[r].sid}
<1>1. WellFormed(rq[r]) /\ FrameOK(born, granted, rq[r])
      /\ sessionKV \in [Sids -> EntryOf(Session) \cup {Absent}]
  BY FrameFacts DEF IInv, FramesOK, TypeInv, TypeOK
<1>2. CASE SaveSession(r)
  <2>1. rq[r].sid \in Sids /\ rq[r].sess.exp = born[rq[r].sid].exp
    BY <1>1, <1>2 DEF SaveSession, At, WellFormed, FrameOK, SessionOK
  <2>2. sessionKV' = [sessionKV EXCEPT ![rq[r].sid] = Write(rq[r].sess, rq[r].sess.exp, now)]
        /\ stopped' = stopped
    BY <1>2 DEF SaveSession, history
  <2> QED BY <1>1, <2>1, <2>2
<1>3. CASE DelSession(r)
  <2>1. rq[r].sid \in Sids
    BY <1>1, <1>3 DEF DelSession, At, WellFormed
  <2> QED BY <1>1, <1>3, <2>1 DEF DelSession
<1>4. CASE ~SaveSession(r) /\ ~DelSession(r)
  <2>1. sessionKV' = sessionKV /\ stopped \subseteq stopped'
        /\ stopped' \subseteq stopped \cup {rq[r].sid}
    BY <1>4 DEF Step, GenLink, TryLink, AdoptType, AdoptShare, GetPin, GetGroup, StopType,
       StopShare, DelPin, DelShare, SetShare, SetPin, Abort, StopSkip, stores, history
  <2> QED BY <2>1
<1> QED BY <1>2, <1>3, <1>4

\* A request that arrives is of a new session or of one that is stored.
NewSid(s) ==
  /\ born[s] = Absent
  /\ \E e : \E d \in Durations :
        d > 0 /\ born' = [born EXCEPT ![s] = [exp |-> now + d, enc |-> e]]

KnownSid(s) == Live(sessionKV[s], now) /\ born' = born

Arrived(r) ==
  /\ now' = now /\ stores' = stores /\ stopped' = stopped
  /\ \E g : \E s \in Sids : Goto(r, g) /\ g.sid = s /\ (NewSid(s) \/ KnownSid(s))

LEMMA CreateArrives ==
  ASSUME NEW r, NEW mode, NEW s \in Sids, NEW f, "sid" \in DOMAIN f, Create(r, mode, s, f)
  PROVE  Arrived(r)
<1>1. PICK d \in Durations, i \in Intervals, enc \in Encrypted :
        /\ d > 0
        /\ born' = [born EXCEPT ![s] = [exp |-> now + d, enc |-> enc]]
        /\ Goto(r, [f EXCEPT !.op = mode, !.sid = s,
                             !.sess = NewSession(now + d, i, enc),
                             !.share.exp = now + d])
  BY DEF Create, CreateValid
<1> DEFINE g == [f EXCEPT !.op = mode, !.sid = s, !.sess = NewSession(now + d, i, enc),
                          !.share.exp = now + d]
<1>2. g.sid = s
  OBVIOUS
<1>3. Goto(r, g)
  BY <1>1
<1> HIDE DEF g
<1>4. NewSid(s)
  BY <1>1 DEF Create, NewSid
<1>5. now' = now /\ stores' = stores /\ stopped' = stopped
  BY DEF Create
<1> QED BY <1>2, <1>3, <1>4, <1>5 DEF Arrived

LEMMA LoadArrives ==
  ASSUME NEW r, NEW s \in Sids, Live(sessionKV[s], now), UNCHANGED <<now, stores, history>>,
         NEW g, Goto(r, g), g.sid = s
  PROVE  Arrived(r)
BY DEF Arrived, KnownSid, history

LEMMA Arrives ==
  ASSUME IInv, NEW r \in Reqs, Begin(r)
  PROVE  Arrived(r)
<1>1. /\ "sid" \in DOMAIN Idle
      /\ \A p, l, x : "sid" \in DOMAIN [Idle EXCEPT !.pc = p, !.lid = l, !.share = x]
      /\ \A p, n, x : "sid" \in DOMAIN [Idle EXCEPT !.pc = p, !.nick = n, !.pin = x]
  BY IdleFrame DEF Frame
<1>2. \A op, s, x : [Idle EXCEPT !.op = op, !.sid = s, !.sess = x].sid = s
                    /\ Request(op, s, x).sid = s /\ "sid" \in DOMAIN Request(op, s, x)
  BY <1>1 DEF Request
<1>3. CASE BeginSolo(r)
  <2>1. PICK s \in Sids, ado \in Adoptable, lid \in CustomLinks :
          Create(r, "solo", s, [Idle EXCEPT !.pc = "genLink", !.lid = lid,
                                            !.share = SoloShare(s, 0, ado)])
    BY <1>3 DEF BeginSolo
  <2> QED BY <1>1, <2>1, CreateArrives
<1>4. CASE BeginGroup(r)
  <2>1. PICK s \in Sids, n \in Nicks, p \in Pins, lid \in CustomLinks :
          Create(r, "group", s, [Idle EXCEPT !.pc = "genLink", !.lid = lid,
                                             !.share = AddHost(GroupShare(0, p), n, s)])
    BY <1>4 DEF BeginGroup
  <2> QED BY <1>1, <2>1, CreateArrives
<1>5. CASE BeginJoin(r)
  <2>1. PICK s \in Sids, n \in Nicks, p \in Pins :
          Create(r, "join", s, [Idle EXCEPT !.pc = "getPin", !.nick = n, !.pin = p])
    BY <1>5 DEF BeginJoin
  <2> QED BY <1>1, <2>1, CreateArrives
<1>6. CASE BeginPost(r)
  <2>1. PICK s \in Sids, p \in Points :
          /\ Live(sessionKV[s], now) /\ UNCHANGED <<now, stores, history>>
          /\ Goto(r, [Request("post", s, AddPoint(sessionKV[s].val, p))
                        EXCEPT !.pc = "saveSession"])
    BY <1>6 DEF BeginPost, Load
  <2>2. [Request("post", s, AddPoint(sessionKV[s].val, p)) EXCEPT !.pc = "saveSession"].sid = s
    BY <1>2
  <2> QED BY <2>1, <2>2, LoadArrives
<1>7. CASE BeginNewLink(r)
  <2>1. PICK s \in Sids, ado \in Adoptable :
          /\ Live(sessionKV[s], now) /\ UNCHANGED <<now, stores, history>>
          /\ Goto(r, [Request("newLink", s, sessionKV[s].val)
                        EXCEPT !.pc = "genLink", !.share = NewLinkShare(s, ado)])
    BY <1>7 DEF BeginNewLink, Load
  <2>2. [Request("newLink", s, sessionKV[s].val)
           EXCEPT !.pc = "genLink", !.share = NewLinkShare(s, ado)].sid = s
    BY <1>2
  <2> QED BY <2>1, <2>2, LoadArrives
<1>8. CASE BeginAdopt(r)
  <2>1. PICK s \in Sids, l \in Links, n \in Nicks, p \in Pins :
          /\ Live(sessionKV[s], now) /\ UNCHANGED <<now, stores, history>>
          /\ Goto(r, [Request("adopt", s, sessionKV[s].val)
                        EXCEPT !.pc = "adoptType", !.lid = l, !.nick = n, !.pin = p])
    BY <1>8 DEF BeginAdopt, Load
  <2>2. [Request("adopt", s, sessionKV[s].val)
           EXCEPT !.pc = "adoptType", !.lid = l, !.nick = n, !.pin = p].sid = s
    BY <1>2
  <2> QED BY <2>1, <2>2, LoadArrives
<1>9. CASE BeginStopLink(r)
  <2>1. PICK s \in Sids, l \in Links :
          /\ Live(sessionKV[s], now) /\ UNCHANGED <<now, stores, history>>
          /\ Goto(r, [Request("stopLink", s, sessionKV[s].val)
                        EXCEPT !.pc = "stopType", !.lid = l, !.link = l])
    BY <1>9 DEF BeginStopLink, Load
  <2>2. [Request("stopLink", s, sessionKV[s].val)
           EXCEPT !.pc = "stopType", !.lid = l, !.link = l].sid = s
    BY <1>2
  <2> QED BY <2>1, <2>2, LoadArrives
<1>10. CASE BeginStopAll(r)
  <2>1. PICK s \in Sids :
          /\ Live(sessionKV[s], now) /\ UNCHANGED <<now, stores, history>>
          /\ Goto(r, NextTarget([Request("stopAll", s, EmptySession)
                                   EXCEPT !.todo = sessionKV[s].val.targets]))
    BY <1>10 DEF BeginStopAll, Load
  <2> DEFINE f == [Request("stopAll", s, EmptySession) EXCEPT !.todo = sessionKV[s].val.targets]
  <2>2. sessionKV[s].val.targets \in Seq(Links)
    BY <2>1 DEF IInv, TypeInv, TypeOK, EntryOf, Session, Live
  <2>3. f \in Frame /\ f.op = "stopAll" /\ f.sid = s
    BY <2>2, IdleFrame, NewSessionType DEF Request, Frame, Ops, EmptySession
  <2>4. NextTarget(f).sid = s
    BY <2>3, StopAllNextPc
  <2> QED BY <2>1, <2>4, LoadArrives
<1> QED BY <1>3, <1>4, <1>5, <1>6, <1>7, <1>8, <1>9, <1>10 DEF Begin

\* Sessions keep the ends they were created with.
LEMMA EndsStep ==
  ASSUME ClockWaits, IInv, EndsKept, [Next]_vars
  PROVE  EndsKept'
<1>1. /\ now \in Nat /\ Durations \subseteq Int /\ Never \notin Nat
      /\ Backend = "memory" \/ Backend = "redis"
      /\ rq \in [Reqs -> Frame]
      /\ sessionKV \in [Sids -> EntryOf(Session) \cup {Absent}]
      /\ born \in [Sids -> [exp : Nat, enc : BOOLEAN] \cup {Absent}]
  BY DurationsAssumption, NeverAssumption, BackendAssumption DEF IInv, TypeInv, TypeOK
<1>2. ASSUME NEW s \in Sids, sessionKV[s] # Absent
      PROVE  born[s] # Absent /\ sessionKV[s].exp = born[s].exp
  BY <1>2 DEF EndsKept, IInv, StoresOK, SessionOK
<1>3. ASSUME NEW r \in Reqs, Begin(r) PROVE EndsKept'
  <2>1. Arrived(r)
    BY <1>3, Arrives
  <2>2. PICK g, s : s \in Sids /\ Goto(r, g) /\ g.sid = s /\ (NewSid(s) \/ KnownSid(s))
    BY <2>1 DEF Arrived
  <2>3. now' = now /\ sessionKV' = sessionKV /\ stopped' = stopped
    BY <2>1 DEF Arrived, stores
  <2>4. \A x \in Sids : born[x] # Absent => born'[x] = born[x]
    BY <1>1, <2>2 DEF NewSid, KnownSid
  <2>5. \A x \in Sids : sessionKV'[x] # Absent => sessionKV'[x].exp = born'[x].exp
    BY <1>2, <2>3, <2>4
  <2>6. Backend = "redis" => now < born'[s].exp
    <3>1. CASE NewSid(s)
      BY <1>1, <2>2, <3>1 DEF NewSid
    <3>2. CASE KnownSid(s)
      BY <1>1, <1>2, <2>2, <3>2 DEF KnownSid, Live, Alive
    <3> QED BY <2>2, <3>1, <3>2
  <2>7. Backend = "redis" => \A q \in Reqs : rq'[q].pc # "idle" => now' < born'[rq'[q].sid].exp
    <3> SUFFICES ASSUME Backend = "redis", NEW q \in Reqs, rq'[q].pc # "idle"
                 PROVE  now' < born'[rq'[q].sid].exp
      OBVIOUS
    <3>1. CASE q = r
      BY <1>1, <2>2, <2>3, <2>6, <3>1 DEF Goto
    <3>2. CASE q # r
      <4>1. rq'[q] = rq[q]
        BY <1>1, <2>2, <3>2 DEF Goto
      <4>2. rq[q].sid \in Sids /\ born[rq[q].sid] # Absent
        BY <4>1, FrameFacts DEF IInv, FramesOK, FrameOK, WellFormed
      <4> QED BY <2>3, <2>4, <4>1, <4>2 DEF EndsKept
    <3> QED BY <3>1, <3>2
  <2>8. \A x \in stopped' : born'[x] # Absent
    BY <2>3, <2>4 DEF EndsKept, IInv, TypeInv, TypeOK
  <2> QED BY <2>5, <2>7, <2>8 DEF EndsKept
<1>4. ASSUME NEW r \in Reqs, Step(r) \/ Abort(r) \/ StopSkip(r) PROVE EndsKept'
  <2>1. rq[r].pc # "idle" /\ now' = now /\ born' = born
    BY <1>4, StepGoes, FailGoes
  <2>2. PICK g : Goto(r, g) /\ Goes(rq[r], g)
    BY <1>4, StepGoes, FailGoes
  <2>3. rq[r].sid \in Sids /\ born[rq[r].sid] # Absent
    BY <2>1, FrameFacts DEF IInv, FramesOK, FrameOK, WellFormed
  <2>4. ASSUME NEW x \in Sids, sessionKV'[x] # Absent
        PROVE  sessionKV'[x].exp = born'[x].exp
    <3>1. CASE sessionKV'[x] = sessionKV[x]
      BY <1>2, <2>1, <2>4, <3>1
    <3>2. CASE sessionKV'[x] # sessionKV[x]
      <4>1. x = rq[r].sid /\ rq[r].sess.exp = born[x].exp
            /\ sessionKV'[x] = Write(rq[r].sess, rq[r].sess.exp, now)
        BY <1>4, <2>4, <3>2, SessionWrites
      <4>2. Backend = "redis" => now < born[x].exp
        BY <2>1, <4>1 DEF EndsKept
      <4>3. born[x].exp \in Nat
        BY <1>1, <2>3, <4>1
      <4> QED BY <1>1, <2>1, <4>1, <4>2, <4>3 DEF Write, StoredExpiry
    <3> QED BY <3>1, <3>2
  <2>5. Backend = "redis" => \A q \in Reqs : rq'[q].pc # "idle" => now' < born'[rq'[q].sid].exp
    BY <1>1, <2>1, <2>2 DEF EndsKept, Goto, Goes
  <2>6. \A x \in stopped' : born'[x] # Absent
    <3>1. stopped' \subseteq stopped \cup {rq[r].sid}
      BY <1>4, SessionWrites
    <3> QED BY <2>1, <2>3, <3>1 DEF EndsKept
  <2> QED BY <2>4, <2>5, <2>6 DEF EndsKept
<1>5. CASE Tick
  BY <1>5 DEF Tick, EndsKept, ClockWaits, stores, history, At
<1>6. CASE UNCHANGED vars
  BY <1>6 DEF vars, EndsKept, stores, history
<1> QED BY <1>3, <1>4, <1>5, <1>6 DEF Next

\* Solo shares are stored until the end they name; the handler about to save one saves
\* that of its own session.
OwnShare(f) == f.pc = "setShare" /\ f.share.type = "solo" => f.share.host = f.sid

SoloKept ==
  /\ \A r \in Reqs : OwnShare(rq[r])
  /\ \A l \in Links : locdataKV[l] # Absent /\ locdataKV[l].val.type = "solo" =>
        locdataKV[l].exp = locdataKV[l].val.exp

\* No request begins with the saving of a share.
LEMMA CreatePc ==
  ASSUME NEW r, NEW mode, NEW s, NEW f, "pc" \in DOMAIN f, f.pc # "setShare",
         Create(r, mode, s, f)
  PROVE  \E g : Goto(r, g) /\ g.pc # "setShare"
<1>1. PICK d \in Durations, i \in Intervals, enc \in Encrypted :
        Goto(r, [f EXCEPT !.op = mode, !.sid = s, !.sess = NewSession(now + d, i, enc),
                          !.share.exp = now + d])
  BY DEF Create
<1> DEFINE g == [f EXCEPT !.op = mode, !.sid = s, !.sess = NewSession(now + d, i, enc),
                          !.share.exp = now + d]
<1>2. g.pc # "setShare" /\ Goto(r, g)
  BY <1>1
<1> HIDE DEF g
<1> QED BY <1>2

LEMMA BeginPc ==
  ASSUME IInv, NEW r \in Reqs, Begin(r)
  PROVE  /\ now' = now /\ locdataKV' = locdataKV
         /\ \E g : Goto(r, g) /\ g.pc # "setShare"
<1>1. now' = now /\ locdataKV' = locdataKV
  BY Arrives DEF Arrived, stores
<1>2. /\ \A p, l, x : /\ [Idle EXCEPT !.pc = p, !.lid = l, !.share = x].pc = p
                      /\ "pc" \in DOMAIN [Idle EXCEPT !.pc = p, !.lid = l, !.share = x]
      /\ \A p, n, x : /\ [Idle EXCEPT !.pc = p, !.nick = n, !.pin = x].pc = p
                      /\ "pc" \in DOMAIN [Idle EXCEPT !.pc = p, !.nick = n, !.pin = x]
      /\ \A op, s, x : "pc" \in DOMAIN Request(op, s, x)
  BY IdleFrame DEF Frame, Request
<1>3. CASE BeginSolo(r)
  <2>1. PICK s \in Sids, ado \in Adoptable, lid \in CustomLinks :
          Create(r, "solo", s, [Idle EXCEPT !.pc = "genLink", !.lid = lid,
                                            !.share = SoloShare(s, 0, ado)])
    BY <1>3 DEF BeginSolo
  <2> QED BY <1>1, <1>2, <2>1, CreatePc
<1>4. CASE BeginGroup(r)
  <2>1. PICK s \in Sids, n \in Nicks, p \in Pins, lid \in CustomLinks :
          Create(r, "group", s, [Idle EXCEPT !.pc = "genLink", !.lid = lid,
                                             !.share = AddHost(GroupShare(0, p), n, s)])
    BY <1>4 DEF BeginGroup
  <2> QED BY <1>1, <1>2, <2>1, CreatePc
<1>5. CASE BeginJoin(r)
  <2>1. PICK s \in Sids, n \in Nicks, p \in Pins :
          Create(r, "join", s, [Idle EXCEPT !.pc = "getPin", !.nick = n, !.pin = p])
    BY <1>5 DEF BeginJoin
  <2> QED BY <1>1, <1>2, <2>1, CreatePc
<1>6. CASE BeginPost(r) \/ BeginNewLink(r) \/ BeginAdopt(r) \/ BeginStopLink(r)
  <2>1. \/ \E s, x : Goto(r, [Request("post", s, x) EXCEPT !.pc = "saveSession"])
        \/ \E s, x, y : Goto(r, [Request("newLink", s, x) EXCEPT !.pc = "genLink", !.share = y])
        \/ \E s, x, l, n, p : Goto(r, [Request("adopt", s, x)
                                EXCEPT !.pc = "adoptType", !.lid = l, !.nick = n, !.pin = p])
        \/ \E s, x, l : Goto(r, [Request("stopLink", s, x)
                                EXCEPT !.pc = "stopType", !.lid = l, !.link = l])
    <3>1. BeginPost(r) => \E s, x : Goto(r, [Request("post", s, x) EXCEPT !.pc = "saveSession"])
      BY DEF BeginPost
    <3>2. BeginNewLink(r) =>
            \E s, x, y : Goto(r, [Request("newLink", s, x) EXCEPT !.pc = "genLink", !.share = y])
      BY DEF BeginNewLink
    <3>3. BeginAdopt(r) =>
            \E s, x, l, n, p : Goto(r, [Request("adopt", s, x)
                                EXCEPT !.pc = "adoptType", !.lid = l, !.nick = n, !.pin = p])
      BY DEF BeginAdopt
    <3>4. BeginStopLink(r) =>
            \E s, x, l : Goto(r, [Request("stopLink", s, x)
                                EXCEPT !.pc = "stopType", !.lid = l, !.link = l])
      BY DEF BeginStopLink
    <3> QED BY <1>6, <3>1, <3>2, <3>3, <3>4
  <2>2. \A op, s, x, y, l, n, p, q :
          /\ [Request(op, s, x) EXCEPT !.pc = q].pc = q
          /\ [Request(op, s, x) EXCEPT !.pc = q, !.share = y].pc = q
          /\ [Request(op, s, x) EXCEPT !.pc = q, !.lid = l, !.nick = n, !.pin = p].pc = q
          /\ [Request(op, s, x) EXCEPT !.pc = q, !.lid = l, !.link = l].pc = q
    BY <1>2
  <2>3. "saveSession" # "setShare" /\ "genLink" # "setShare" /\ "adoptType" # "setShare"
        /\ "stopType" # "setShare"
    OBVIOUS
  <2>4. ASSUME NEW g, Goto(r, g), g.pc # "setShare" PROVE \E k : Goto(r, k) /\ k.pc # "setShare"
    BY <2>4
  <2>5. \E g : Goto(r, g) /\ g.pc # "setShare"
    <3>1. ASSUME NEW s, NEW x, Goto(r, [Request("post", s, x) EXCEPT !.pc = "saveSession"])
          PROVE  \E g : Goto(r, g) /\ g.pc # "setShare"
      <4>1. [Request("post", s, x) EXCEPT !.pc = "saveSession"].pc # "setShare"
        BY <2>2, <2>3
      <4> QED BY <3>1, <4>1, <2>4, Zenon
    <3>2. ASSUME NEW s, NEW x, NEW y,
                 Goto(r, [Request("newLink", s, x) EXCEPT !.pc = "genLink", !.share = y])
          PROVE  \E g : Goto(r, g) /\ g.pc # "setShare"
      <4>1. [Request("newLink", s, x) EXCEPT !.pc = "genLink", !.share = y].pc # "setShare"
        BY <2>2, <2>3
      <4> QED BY <3>2, <4>1, <2>4, Zenon
    <3>3. ASSUME NEW s, NEW x, NEW l, NEW n, NEW p,
                 Goto(r, [Request("adopt", s, x)
                            EXCEPT !.pc = "adoptType", !.lid = l, !.nick = n, !.pin = p])
          PROVE  \E g : Goto(r, g) /\ g.pc # "setShare"
      <4>1. [Request("adopt", s, x)
               EXCEPT !.pc = "adoptType", !.lid = l, !.nick = n, !.pin = p].pc # "setShare"
        BY <2>2, <2>3
      <4> QED BY <3>3, <4>1, <2>4, Zenon
    <3>4. ASSUME NEW s, NEW x, NEW l,
                 Goto(r, [Request("stopLink", s, x) EXCEPT !.pc = "stopType", !.lid = l, !.link = l])
          PROVE  \E g : Goto(r, g) /\ g.pc # "setShare"
      <4>1. [Request("stopLink", s, x)
               EXCEPT !.pc = "stopType", !.lid = l, !.link = l].pc # "setShare"
        BY <2>2, <2>3
      <4> QED BY <3>4, <4>1, <2>4, Zenon
    <3> QED BY <2>1, <3>1, <3>2, <3>3, <3>4, Zenon
  <2> QED BY <1>1, <2>5
<1>7. CASE BeginStopAll(r)
  <2>1. PICK s \in Sids :
          /\ Live(sessionKV[s], now)
          /\ Goto(r, NextTarget([Request("stopAll", s, EmptySession)
                                   EXCEPT !.todo = sessionKV[s].val.targets]))
    BY <1>7 DEF BeginStopAll, Load
  <2> DEFINE f == [Request("stopAll", s, EmptySession) EXCEPT !.todo = sessionKV[s].val.targets]
  <2>2. sessionKV[s].val.targets \in Seq(Links)
    BY <2>1 DEF IInv, TypeInv, TypeOK, EntryOf, Session, Live
  <2>3. f \in Frame /\ f.op = "stopAll"
    BY <2>2, IdleFrame, NewSessionType DEF Request, Frame, Ops, EmptySession
  <2>4. NextTarget(f).pc # "setShare" /\ Goto(r, NextTarget(f))
    BY <2>1, <2>3, StopAllNextPc
  <2> HIDE DEF f
  <2> QED BY <1>1, <2>4
<1> QED BY <1>3, <1>4, <1>5, <1>6, <1>7 DEF Begin

\* A handler comes to the saving of a solo share only with one of its own session.
LEMMA StepOwn ==
  ASSUME IInv, SoloKept, NEW r \in Reqs, Step(r) \/ Abort(r) \/ StopSkip(r)
  PROVE  \E g : Goto(r, g) /\ OwnShare(g)
<1>1. rq[r] \in Frame /\ WellFormed(rq[r]) /\ FrameOK(born, granted, rq[r])
      /\ locdataKV \in [Links -> EntryOf(Share) \cup {Absent}]
  BY FrameFacts DEF IInv, FramesOK, TypeInv, TypeOK
<1>2. ASSUME Answer(r) PROVE \E g : Goto(r, g) /\ OwnShare(g)
  BY <1>2, IdleFrame DEF Answer, OwnShare
<1>3. ASSUME Goto(r, NextTarget(rq[r])), Stopping(rq[r])
      PROVE  \E g : Goto(r, g) /\ OwnShare(g)
  BY <1>1, <1>3, NextTargetKeeps DEF OwnShare
<1>4. \A p, x : p # "setShare" =>
        /\ OwnShare([rq[r] EXCEPT !.pc = p])
        /\ OwnShare([rq[r] EXCEPT !.pc = p, !.share = x])
        /\ OwnShare([rq[r] EXCEPT !.pc = p, !.share.type = x])
        /\ OwnShare([rq[r] EXCEPT !.pc = p, !.link = x])
  BY <1>1 DEF Frame, OwnShare
<1>5. CASE GenLink(r) \/ TryLink(r)
  <2>1. rq[r].pc \in {"genLink", "tryLink"}
    BY <1>5 DEF GenLink, TryLink, At
  <2>2. rq[r].share.type = "solo" => rq[r].share.host = rq[r].sid
    BY <1>1, <2>1, NoSidAssumption DEF FrameOK, ShareSound, Exposed
  <2>3. \A l, k, p : /\ [rq[r] EXCEPT !.link = l, !.pc = p].share = rq[r].share
                     /\ [rq[r] EXCEPT !.link = l, !.pc = p].sid = rq[r].sid
                     /\ [rq[r] EXCEPT !.link = l, !.lid = k, !.pc = p].share = rq[r].share
                     /\ [rq[r] EXCEPT !.link = l, !.lid = k, !.pc = p].sid = rq[r].sid
    BY <1>1 DEF Frame
  <2>4. \/ \E l, p : Goto(r, [rq[r] EXCEPT !.link = l, !.pc = p])
        \/ \E l, k, p : Goto(r, [rq[r] EXCEPT !.link = l, !.lid = k, !.pc = p])
    <3>1. GenLink(r) => \E l, p : Goto(r, [rq[r] EXCEPT !.link = l, !.pc = p])
      BY DEF GenLink
    <3>2. TryLink(r) => \E l, k, p : Goto(r, [rq[r] EXCEPT !.link = l, !.lid = k, !.pc = p])
      BY DEF TryLink
    <3> QED BY <1>5, <3>1, <3>2
  <2>5. ASSUME NEW l, NEW k, NEW p
        PROVE  /\ OwnShare([rq[r] EXCEPT !.link = l, !.pc = p])
               /\ OwnShare([rq[r] EXCEPT !.link = l, !.lid = k, !.pc = p])
    <3>1. OwnShare([rq[r] EXCEPT !.link = l, !.pc = p])
      BY <2>2, <2>3 DEF OwnShare
    <3>2. OwnShare([rq[r] EXCEPT !.link = l, !.lid = k, !.pc = p])
      BY <2>2, <2>3 DEF OwnShare
    <3> QED BY <3>1, <3>2
  <2> QED BY <2>4, <2>5, Zenon
<1>6. CASE AdoptType(r) \/ AdoptShare(r) \/ GetPin(r) \/ DelPin(r)
  BY <1>2, <1>4, <1>6 DEF AdoptType, AdoptShare, GetPin, DelPin
<1>7. CASE GetGroup(r)
  <2>1. Answer(r) \/ (/\ locdataKV[rq[r].link].val.type = "group"
                      /\ Goto(r, [rq[r] EXCEPT !.pc = "setShare",
                             !.share = AddHost(locdataKV[rq[r].link].val, rq[r].nick, Joiner(rq[r]))]))
    BY <1>7 DEF GetGroup
  <2> DEFINE e == locdataKV[rq[r].link].val
             g == [rq[r] EXCEPT !.pc = "setShare", !.share = AddHost(e, rq[r].nick, Joiner(rq[r]))]
  <2>2. g.share = AddHost(e, rq[r].nick, Joiner(rq[r]))
    BY <1>1 DEF Frame
  <2> HIDE DEF e
  <2>3. AddHost(e, rq[r].nick, Joiner(rq[r])).type = e.type
    BY DEF AddHost
  <2>4. Answer(r) \/ (e.type = "group" /\ Goto(r, g))
    BY <2>1 DEF e
  <2>5. e.type = "group" => g.share.type # "solo"
    BY <2>2, <2>3
  <2> HIDE DEF g
  <2>6. e.type = "group" => OwnShare(g)
    BY <2>5 DEF OwnShare
  <2>7. CASE Answer(r)
    BY <1>2, <2>7
  <2>8. CASE e.type = "group" /\ Goto(r, g)
    BY <2>6, <2>8
  <2> QED BY <2>4, <2>7, <2>8
<1>8. CASE StopType(r) \/ DelShare(r)
  <2>1. Stopping(rq[r])
    BY <1>1, <1>8 DEF StopType, DelShare, At, WellFormed
  <2> QED BY <1>3, <1>4, <1>8, <2>1 DEF StopType, DelShare
<1>9. CASE StopShare(r)
  <2> DEFINE e == locdataKV[rq[r].link]
  <2>1. Stopping(rq[r])
    BY <1>1, <1>9 DEF StopShare, At, WellFormed
  <2>2. \/ Goto(r, NextTarget(rq[r]))
        \/ Goto(r, [rq[r] EXCEPT !.pc = "delShare", !.share = e.val])
        \/ Live(e, now) /\ \E sh \in RemoveHost(e.val, rq[r].sid) :
              Goto(r, [rq[r] EXCEPT !.share = sh,
                                    !.pc = IF Abandoned(sh) THEN "delPin" ELSE "setShare"])
    BY <1>9 DEF StopShare
  <2>3. ASSUME Live(e, now), NEW sh \in RemoveHost(e.val, rq[r].sid),
               Goto(r, [rq[r] EXCEPT !.share = sh,
                                     !.pc = IF Abandoned(sh) THEN "delPin" ELSE "setShare"])
        PROVE  \E g : Goto(r, g) /\ OwnShare(g)
    <3>1. rq[r].link \in Links
      BY <1>1, <1>9 DEF StopShare, At, WellFormed
    <3>2. e.val \in Share /\ ShareOK(born, granted, rq[r].link, e.val)
      BY <2>3, <3>1, LiveSound
    <3> HIDE DEF e
    <3>3. sh.type = e.val.type /\ \A n \in Nicks : sh.hosts[n] \in {NoSid, e.val.hosts[n]}
      BY <2>3, <3>2, RemoveHostProperties
    <3>4. sh.type = "solo" => Abandoned(sh)
      BY <3>2, <3>3 DEF ShareOK, ShareSound, HostsOf, Abandoned
    <3> DEFINE g == [rq[r] EXCEPT !.share = sh,
                                  !.pc = IF Abandoned(sh) THEN "delPin" ELSE "setShare"]
    <3>5. g.share = sh /\ g.pc = IF Abandoned(sh) THEN "delPin" ELSE "setShare"
      BY <1>1 DEF Frame
    <3>6. Goto(r, g)
      BY <2>3
    <3> HIDE DEF g
    <3> QED BY <3>4, <3>5, <3>6 DEF OwnShare
  <2> QED BY <1>3, <1>4, <2>1, <2>2, <2>3
<1>10. CASE SetShare(r) \/ SetPin(r)
  <2>1. Goto(r, ShareSaved(rq[r])) \/ Goto(r, [rq[r] EXCEPT !.pc = "setPin"])
    BY <1>10 DEF SetShare, SetPin
  <2>2. OwnShare(ShareSaved(rq[r]))
    BY <1>1, ShareSavedSid DEF OwnShare
  <2> QED BY <1>4, <2>1, <2>2
<1>11. CASE SaveSession(r) \/ DelSession(r) \/ Abort(r)
  BY <1>2, <1>11 DEF SaveSession, DelSession, Abort
<1>12. CASE StopSkip(r)
  BY <1>2, <1>3, <1>4, <1>12 DEF StopSkip
<1> QED BY <1>5, <1>6, <1>7, <1>8, <1>9, <1>10, <1>11, <1>12 DEF Step

\* What is stored of shares changes only when a handler saves its copy or deletes.
LEMMA ShareWrites ==
  ASSUME IInv, NEW r \in Reqs, Step(r) \/ Abort(r) \/ StopSkip(r), NEW l \in Links
  PROVE  \/ locdataKV'[l] = locdataKV[l] \/ locdataKV'[l] = Absent
         \/ /\ rq[r].pc = "setShare" /\ ShareSound(born, rq[r].share)
            /\ locdataKV'[l] = Write(rq[r].share, rq[r].share.exp, now)
<1>1. FrameOK(born, granted, rq[r]) /\ locdataKV \in [Links -> EntryOf(Share) \cup {Absent}]
  BY DEF IInv, FramesOK, TypeInv, TypeOK
<1>2. CASE SetShare(r)
  <2>1. rq[r].pc = "setShare" /\ ShareSound(born, rq[r].share)
    BY <1>1, <1>2 DEF SetShare, At, FrameOK, ShareOK
  <2>2. locdataKV' = [locdataKV EXCEPT ![rq[r].link] = Write(rq[r].share, rq[r].share.exp, now)]
    BY <1>2 DEF SetShare
  <2> QED BY <1>1, <2>1, <2>2
<1>3. CASE DelShare(r)
  BY <1>1, <1>3 DEF DelShare
<1>4. CASE ~SetShare(r) /\ ~DelShare(r)
  BY <1>4 DEF Step, GenLink, TryLink, AdoptType, AdoptShare, GetPin, GetGroup, StopType,
     StopShare, DelPin, DelSession, SaveSession, SetPin, Abort, StopSkip, stores, history
<1> QED BY <1>2, <1>3, <1>4

\* Solo shares keep the ends of their sessions.
LEMMA SoloStep ==
  ASSUME IInv, EndsKept, SoloKept, [Next]_vars
  PROVE  SoloKept'
<1>1. /\ rq \in [Reqs -> Frame] /\ Never \notin Nat /\ now \in Nat
      /\ Backend = "memory" \/ Backend = "redis"
      /\ born \in [Sids -> [exp : Nat, enc : BOOLEAN] \cup {Absent}]
  BY NeverAssumption, BackendAssumption DEF IInv, TypeInv, TypeOK
<1>2. ASSUME NEW r \in Reqs, NEW g, Goto(r, g), OwnShare(g)
      PROVE  \A q \in Reqs : OwnShare(rq'[q])
  BY <1>1, <1>2 DEF Goto, SoloKept
<1>3. ASSUME NEW r \in Reqs, Begin(r) PROVE SoloKept'
  <2>1. \A q \in Reqs : OwnShare(rq'[q])
    BY <1>2, <1>3, BeginPc DEF OwnShare
  <2> QED BY <1>3, <2>1, BeginPc DEF SoloKept
<1>4. ASSUME NEW r \in Reqs, Step(r) \/ Abort(r) \/ StopSkip(r) PROVE SoloKept'
  <2>1. \A q \in Reqs : OwnShare(rq'[q])
    BY <1>2, <1>4, StepOwn
  <2>2. ASSUME NEW l \in Links, locdataKV'[l] # Absent, locdataKV'[l].val.type = "solo"
        PROVE  locdataKV'[l].exp = locdataKV'[l].val.exp
    <3>1. CASE locdataKV'[l] = locdataKV[l]
      BY <2>2, <3>1 DEF SoloKept
    <3>2. CASE locdataKV'[l] # locdataKV[l]
      <4> DEFINE sh == rq[r].share
      <4>1. /\ rq[r].pc = "setShare" /\ ShareSound(born, sh)
            /\ locdataKV'[l] = Write(sh, sh.exp, now)
        BY <1>4, <2>2, <3>2, ShareWrites
      <4> HIDE DEF sh
      <4>2. locdataKV'[l].val = sh /\ locdataKV'[l].exp = StoredExpiry(sh.exp, now)
        BY <4>1 DEF Write
      <4>3. sh.type = "solo" /\ sh.host \in Sids /\ born[sh.host] # Absent
            /\ sh.exp = born[sh.host].exp
        BY <2>2, <4>1, <4>2 DEF ShareSound
      <4>4. sh.host = rq[r].sid
        BY <4>1, <4>3 DEF SoloKept, OwnShare, sh
      <4>5. Backend = "redis" => now < sh.exp
        BY <4>1, <4>3, <4>4 DEF EndsKept
      <4>6. sh.exp \in Nat
        BY <1>1, <4>3
      <4> QED BY <1>1, <4>2, <4>5, <4>6 DEF StoredExpiry
    <3> QED BY <3>1, <3>2
  <2> QED BY <2>1, <2>2 DEF SoloKept
<1>5. CASE Tick \/ UNCHANGED vars
  BY <1>5 DEF Tick, vars, stores, SoloKept
<1> QED BY <1>3, <1>4, <1>5 DEF Next

\* Every end the creator of a session set is kept, of the session and of its solo shares,
\* however requests overlap and fail: on Redis as long as the clock stands still while
\* one is in flight, in memory always.
THEOREM ExpiredIsGoneCorrect == ASSUME ClockWaits PROVE Spec => []ExpiredIsGone
<1> DEFINE EndInv == IInv /\ EndsKept /\ SoloKept
<1>1. Init => EndInv
  BY SafeInit, IdleFrame DEF Init, EndsKept, SoloKept, OwnShare
<1>2. EndInv /\ [Next]_vars => EndInv'
  BY SafeStep, EndsStep, SoloStep
<1>3. EndInv => ExpiredIsGone
  <2> SUFFICES ASSUME EndInv, NEW s \in Sids, born[s] # Absent, ~Alive(born[s], now)
               PROVE  /\ ~Live(sessionKV[s], now)
                      /\ \A l \in Links : Visible(l, s) => locdataKV[l].val.type = "group"
    BY DEF ExpiredIsGone
  <2>1. ~Live(sessionKV[s], now)
    BY DEF EndsKept, Live, Alive
  <2>2. ASSUME NEW l \in Links, Visible(l, s) PROVE locdataKV[l].val.type = "group"
    <3> DEFINE e == locdataKV[l]
    <3>1. e # Absent /\ Alive(e, now) /\ s \in Exposed(e.val)
      BY <2>2 DEF Visible, Live
    <3>2. e.val.type \in {"solo", "group"}
      BY <3>1 DEF IInv, TypeInv, TypeOK, EntryOf, Share
    <3>3. ASSUME e.val.type = "solo" PROVE FALSE
      <4>1. e.exp = e.val.exp /\ e.val.host = s
        BY <3>1, <3>3 DEF SoloKept, Exposed
      <4>2. e.val.exp = born[s].exp
        BY <3>1, <3>3, <4>1 DEF IInv, StoresOK, ShareOK, ShareSound
      <4> QED BY <3>1, <4>1, <4>2 DEF Alive
    <3> QED BY <3>2, <3>3
  <2> QED BY <2>1, <2>2
<1> HIDE DEF EndInv
<1> QED BY <1>1, <1>2, <1>3, PTL DEF Spec

\* What is gone stays gone: a stop is not taken back, an end does not move.
LEMMA GoneGrows ==
  ASSUME IInv, EndsKept, [Next]_vars
  PROVE  GoneSids \subseteq GoneSids'
<1>1. rq \in [Reqs -> Frame] /\ stopped \subseteq Sids /\ now \in Nat
      /\ born \in [Sids -> [exp : Nat, enc : BOOLEAN] \cup {Absent}]
  BY DEF IInv, TypeInv, TypeOK
<1>2. ASSUME NEW s \in Sids, born[s] # Absent, ~Alive(born[s], now)
      PROVE  s \in GoneSids'
  <2>1. born'[s] = born[s] /\ born[s].exp \in Nat
    BY <1>1, <1>2, HistoriesGrow DEF Grows
  <2>2. now' \in Nat /\ now <= now'
    <3>1. ASSUME NEW r \in Reqs, Begin(r) \/ Step(r) \/ Abort(r) \/ StopSkip(r)
          PROVE  now' = now
      BY <3>1, Arrives, StepGoes, FailGoes DEF Arrived
    <3>2. CASE Tick \/ UNCHANGED vars
      BY <1>1, <3>2 DEF Tick, vars
    <3> QED BY <1>1, <3>1, <3>2 DEF Next
  <2> QED BY <1>1, <1>2, <2>1, <2>2 DEF Alive, GoneSids
<1>3. ASSUME NEW s \in stopped, sessionKV[s] = Absent, Unattended(s)
      PROVE  s \in stopped' /\ sessionKV'[s] = Absent /\ Unattended(s)'
  <2>1. s \in Sids /\ born[s] # Absent
    BY <1>1 DEF EndsKept
  <2>2. ASSUME NEW r \in Reqs, Begin(r)
        PROVE  s \in stopped' /\ sessionKV'[s] = Absent /\ Unattended(s)'
    <3>1. Arrived(r)
      BY <2>2, Arrives
    <3>2. PICK g, x : x \in Sids /\ Goto(r, g) /\ g.sid = x /\ (NewSid(x) \/ KnownSid(x))
      BY <3>1 DEF Arrived
    <3>3. x # s
      BY <1>3, <2>1, <3>2 DEF NewSid, KnownSid, Live
    <3>4. Unattended(s)'
      BY <1>1, <1>3, <3>2, <3>3 DEF Unattended, Goto, At
    <3> QED BY <1>3, <3>1, <3>4 DEF Arrived, stores
  <2>3. ASSUME NEW r \in Reqs, Step(r) \/ Abort(r) \/ StopSkip(r)
        PROVE  s \in stopped' /\ sessionKV'[s] = Absent /\ Unattended(s)'
    <3>1. rq[r].pc # "idle"
      BY <2>3, StepGoes, FailGoes
    <3>2. PICK g : Goto(r, g) /\ Goes(rq[r], g)
      BY <2>3, StepGoes, FailGoes
    <3>3. rq[r].sid # s
      BY <1>3, <3>1 DEF Unattended, At
    <3>4. Unattended(s)'
      BY <1>1, <1>3, <3>2, <3>3 DEF Unattended, Goto, At, Goes
    <3> QED BY <1>3, <2>1, <2>3, <3>3, <3>4, SessionWrites
  <2>4. CASE Tick \/ UNCHANGED vars
    BY <1>3, <2>4 DEF Tick, vars, stores, history, Unattended, At
  <2> QED BY <2>2, <2>3, <2>4 DEF Next
<1> QED BY <1>1, <1>2, <1>3 DEF GoneSids

\* A turn to a loop leaves what is shown alone.
LEMMA LoopKeeps ==
  ASSUME NEW f, {"gone", "shown"} \subseteq DOMAIN f, NEW pc
  PROVE  Loop(f, pc).gone = f.gone /\ Loop(f, pc).shown = f.shown
BY DEF Loop

\* What is shown is of a session the store had just now, or was shown before.
Found(f, g) ==
  /\ g.gone = f.gone
  /\ \A x \in g.shown : x \in f.shown \/ Live(sessionKV[x[1]], now)

LEMMA FoundShowing ==
  ASSUME NEW f, NEW s, Live(sessionKV[s], now), NEW x \in Showing(f, s, sessionKV[s].val)
  PROVE  x \in f.shown \/ Live(sessionKV[x[1]], now)
<1>1. x \in f.shown \/ x = <<s, GetPoints(sessionKV[s].val, f.since)>>
  BY DEF Showing
<1>2. x = <<s, GetPoints(sessionKV[s].val, f.since)>> => x[1] = s
  OBVIOUS
<1> QED BY <1>1, <1>2

\* A viewer goes on with what it took for gone, and adds at most a session that the
\* store has.
LEMMA FetchAdds ==
  ASSUME FetchInv, NEW v \in Viewers,
         FetchShare(v) \/ FetchSolo(v) \/ FetchPoints(v) \/ FetchIvl(v)
  PROVE  NotFound(v) \/ \E g : FetchGoto(v, g) /\ Found(fq[v], g)
<1>1. DOMAIN fq[v] = {"pc", "link", "since", "type", "share", "todo", "shown", "ivl", "gone"}
  BY FetchFacts DEF FetchFrame
<1>2. CASE FetchShare(v)
  <2> DEFINE k == [fq[v] EXCEPT !.share = locdataKV[fq[v].link].val]
             f == [fq[v] EXCEPT !.pc = "solo", !.share = locdataKV[fq[v].link].val]
  <2>1. NotFound(v) \/ FetchGoto(v, f) \/ FetchGoto(v, Loop(k, "points"))
    BY <1>2 DEF FetchShare
  <2>2. Found(fq[v], f)
    BY <1>1 DEF Found
  <2>3. DOMAIN k = DOMAIN fq[v] /\ k.gone = fq[v].gone /\ k.shown = fq[v].shown
    BY <1>1
  <2> HIDE DEF k
  <2>4. Found(fq[v], Loop(k, "points"))
    BY <1>1, <2>3, LoopKeeps DEF Found
  <2> HIDE DEF f
  <2> QED BY <2>1, <2>2, <2>4
<1>3. CASE FetchSolo(v)
  <2> DEFINE s == fq[v].share.host
             sn == Showing(fq[v], s, sessionKV[s].val)
             f == [fq[v] EXCEPT !.pc = "reply", !.ivl = sessionKV[s].val.ivl, !.shown = sn]
  <2>1. NotFound(v) \/ (Live(sessionKV[s], now) /\ FetchGoto(v, f))
    BY <1>3 DEF FetchSolo
  <2>2. Live(sessionKV[s], now) =>
          \A x \in sn : x \in fq[v].shown \/ Live(sessionKV[x[1]], now)
    BY FoundShowing
  <2> HIDE DEF sn, s
  <2>3. f.gone = fq[v].gone /\ f.shown = sn
    BY <1>1
  <2> QED BY <2>1, <2>2, <2>3 DEF Found
<1>4. CASE FetchPoints(v)
  <2>1. PICK n \in fq[v].todo :
          LET s == fq[v].share.hosts[n]
              f == [fq[v] EXCEPT !.todo = @ \ {n},
                      !.shown = IF Live(sessionKV[s], now)
                                THEN Showing(fq[v], s, sessionKV[s].val) ELSE @]
          IN  FetchGoto(v, IF f.todo = {} THEN Loop(f, "ivl") ELSE f)
    BY <1>4 DEF FetchPoints
  <2> DEFINE s == fq[v].share.hosts[n]
             sn == IF Live(sessionKV[s], now) THEN Showing(fq[v], s, sessionKV[s].val)
                   ELSE fq[v].shown
             f == [fq[v] EXCEPT !.todo = @ \ {n}, !.shown = sn]
  <2>2. FetchGoto(v, IF f.todo = {} THEN Loop(f, "ivl") ELSE f)
    BY <2>1
  <2>3. \A x \in sn : x \in fq[v].shown \/ Live(sessionKV[x[1]], now)
    BY FoundShowing
  <2> HIDE DEF sn
  <2>4. DOMAIN f = DOMAIN fq[v] /\ f.gone = fq[v].gone /\ f.shown = sn
    BY <1>1
  <2> HIDE DEF f
  <2>5. Found(fq[v], f) /\ Found(fq[v], Loop(f, "ivl"))
    BY <1>1, <2>3, <2>4, LoopKeeps DEF Found
  <2> QED BY <2>2, <2>5
<1>5. CASE FetchIvl(v)
  <2>1. PICK n \in fq[v].todo :
          LET e == sessionKV[fq[v].share.hosts[n]]
              f == [fq[v] EXCEPT !.todo = @ \ {n},
                      !.ivl = IF Live(e, now) THEN LeastInterval(@, e.val.ivl) ELSE @]
          IN  FetchGoto(v, IF f.todo = {} THEN [f EXCEPT !.pc = "reply"] ELSE f)
    BY <1>5 DEF FetchIvl
  <2> DEFINE e == sessionKV[fq[v].share.hosts[n]]
             i == IF Live(e, now) THEN LeastInterval(fq[v].ivl, e.val.ivl) ELSE fq[v].ivl
             f == [fq[v] EXCEPT !.todo = @ \ {n}, !.ivl = i]
             g == [f EXCEPT !.pc = "reply"]
  <2>2. FetchGoto(v, IF f.todo = {} THEN g ELSE f)
    BY <2>1
  <2> HIDE DEF i
  <2>3. f.gone = fq[v].gone /\ f.shown = fq[v].shown /\ g.gone = f.gone /\ g.shown = f.shown
    BY <1>1
  <2> HIDE DEF f, g
  <2>4. Found(fq[v], f) /\ Found(fq[v], g)
    BY <2>3 DEF Found
  <2> QED BY <2>2, <2>4
<1> QED BY <1>2, <1>3, <1>4, <1>5

\* No step breaks the invariant.
LEMMA FreshStep ==
  ASSUME ClockWaits, FreshInv, [FetchNext]_fetchVars
  PROVE  FreshInv'
<1>1. FetchInv' /\ IInv /\ fq \in [Viewers -> FetchFrame]
  BY FetchInvStep DEF FreshInv, FetchInv
<1>2. EndsKept' /\ GoneSids \subseteq GoneSids'
  <2>1. [Next]_vars
    BY DEF FetchNext, Served, Failed, Next, fetchVars
  <2> QED BY <1>1, <2>1, EndsStep, GoneGrows DEF FreshInv
<1>3. ASSUME NEW v \in Viewers, Fresh(GoneSids, fq'[v])
      PROVE  Fresh(GoneSids, fq[v])'
  BY <1>2, <1>3 DEF Fresh
<1>4. \A v \in Viewers : Fresh(GoneSids, fq[v])
  BY DEF FreshInv
<1>5. ASSUME NEW v \in Viewers, NEW f, FetchGoto(v, f), Fresh(GoneSids, f)
      PROVE  \A w \in Viewers : Fresh(GoneSids, fq'[w])
  BY <1>1, <1>4, <1>5
<1>6. Fresh(GoneSids, NoFetch)
  BY DEF Fresh, NoFetch
<1>7. CASE UNCHANGED fq
  BY <1>1, <1>2, <1>3, <1>4, <1>7 DEF FreshInv
<1>8. ASSUME NEW v \in Viewers, BeginFetch(v) PROVE \A w \in Viewers : Fresh(GoneSids, fq'[w])
  <2>1. PICK l \in Links, t \in Sinces :
          FetchGoto(v, [NoFetch EXCEPT !.pc = "share", !.link = l, !.since = t,
                                       !.type = locdataKV[l].val.type, !.gone = GoneSids])
    BY <1>8 DEF BeginFetch
  <2> DEFINE f == [NoFetch EXCEPT !.pc = "share", !.link = l, !.since = t,
                                  !.type = locdataKV[l].val.type, !.gone = GoneSids]
  <2>2. f.gone = GoneSids /\ f.shown = {}
    BY DEF NoFetch
  <2>3. FetchGoto(v, f)
    BY <2>1
  <2> HIDE DEF f
  <2> QED BY <1>5, <2>2, <2>3 DEF Fresh
<1>9. ASSUME NEW v \in Viewers, FetchShare(v) \/ FetchSolo(v) \/ FetchPoints(v) \/ FetchIvl(v)
      PROVE  \A w \in Viewers : Fresh(GoneSids, fq'[w])
  <2>1. NotFound(v) \/ \E g : FetchGoto(v, g) /\ Found(fq[v], g)
    BY <1>9, FetchAdds DEF FreshInv
  <2>2. ASSUME NEW g, FetchGoto(v, g), Found(fq[v], g)
        PROVE  Fresh(GoneSids, g)
    BY <1>4, <2>2, GoneNotLive DEF Found, Fresh, FreshInv, FetchInv
  <2> QED BY <1>5, <1>6, <2>1, <2>2 DEF NotFound
<1>10. ASSUME NEW v \in Viewers, Reply(v) PROVE \A w \in Viewers : Fresh(GoneSids, fq'[w])
  BY <1>5, <1>6, <1>10 DEF Reply
<1>11. UNCHANGED fq \/ \A w \in Viewers : Fresh(GoneSids, fq'[w])
  BY <1>8, <1>9, <1>10 DEF FetchNext, Served, Failed, Next, fetchVars
<1> QED BY <1>1, <1>2, <1>3, <1>7, <1>11 DEF FreshInv

LEMMA FreshInit == FetchInit => FreshInv
<1>1. FetchInit => FetchInv
  BY FetchInvInit
<1>2. Init => EndsKept
  BY IdleFrame DEF Init, EndsKept
<1>3. \A gs : Fresh(gs, NoFetch)
  BY DEF Fresh, NoFetch
<1> QED BY <1>1, <1>2, <1>3 DEF FreshInv, FetchInit

\* Whatever requests of others overlap or fail, a viewer who asks after a session was
\* deleted by a stop, or has ended, gets no location of it.
THEOREM FetchNotGoneCorrect == ASSUME ClockWaits PROVE FetchSpec => []FetchNotGone
<1>1. FreshInv /\ [FetchNext]_fetchVars => FreshInv'
  BY FreshStep
<1>2. FreshInv => FetchNotGone
  BY DEF FreshInv, Fresh, FetchNotGone
<1> QED BY <1>1, <1>2, FreshInit, PTL DEF FetchSpec

USE DEF At, Goto, Answer

------------------------------------------------------------------------------
(* The promise: the board *)

\* The entry of session s under link l as n, until u.
Entry(l, n, s, u) == [link |-> l, name |-> n, sid |-> s, until |-> u]

\* The entries of link l, given what is stored under it.
EntriesAt(t, e, l) ==
  IF Live(e, t)
  THEN {Entry(l, x[1], x[2], e.exp) : x \in Shown(e.val)}
  ELSE {}

\* The board at time t, given the shares that are stored.
Board(t, loc) == UNION {EntriesAt(t, loc[l], l) : l \in Links}

LEMMA EntriesBoard == Entries = Board(now, locdataKV)
BY DEF Entries, Board, EntriesAt, Entry

LEMMA BoardMember ==
  ASSUME NEW t, NEW loc, NEW b
  PROVE  b \in Board(t, loc) <=> \E l \in Links : b \in EntriesAt(t, loc[l], l)
BY DEF Board

\* An entry names the link it is under and the end of what is stored there.
LEMMA EntryFields ==
  ASSUME NEW t, NEW e, NEW l, NEW b, b \in EntriesAt(t, e, l)
  PROVE  Live(e, t) /\ b.link = l /\ b.until = e.exp
BY DEF EntriesAt, Entry

LEMMA EntryForm ==
  ASSUME NEW t, NEW e, NEW l, NEW b, b \in EntriesAt(t, e, l)
  PROVE  /\ <<b.name, b.sid>> \in Shown(e.val)
         /\ b = Entry(l, b.name, b.sid, e.exp)
<1>1. \E x \in Shown(e.val) : b = Entry(l, x[1], x[2], e.exp)
  BY DEF EntriesAt
<1>2. PICK x \in Shown(e.val) : b = Entry(l, x[1], x[2], e.exp)
  BY <1>1
<1>3. x = <<x[1], x[2]>>
  BY DEF Shown
<1>4. b.name = x[1] /\ b.sid = x[2]
  BY <1>2 DEF Entry
<1> QED BY <1>2, <1>3, <1>4

\* And every name a live share shows a session by is an entry.
LEMMA EntryIs ==
  ASSUME NEW t, NEW e, NEW l, Live(e, t), NEW n, NEW s, <<n, s>> \in Shown(e.val)
  PROVE  Entry(l, n, s, e.exp) \in EntriesAt(t, e, l)
<1> DEFINE x == <<n, s>>
<1>1. x[1] = n /\ x[2] = s /\ x \in Shown(e.val)
  OBVIOUS
<1> HIDE DEF x
<1> QED BY <1>1 DEF EntriesAt

\* The entries of one link on the board.
LEMMA BoardUnder ==
  ASSUME NEW t, NEW loc, NEW l \in Links
  PROVE  \A b : b \in Board(t, loc) /\ b.link = l <=> b \in EntriesAt(t, loc[l], l)
<1>1. ASSUME NEW b \in Board(t, loc), b.link = l PROVE b \in EntriesAt(t, loc[l], l)
  <2>1. PICK k \in Links : b \in EntriesAt(t, loc[k], k)
    BY <1>1, BoardMember
  <2>2. b.link = k
    BY <2>1, EntryFields
  <2> QED BY <1>1, <2>1, <2>2
<1>2. ASSUME NEW b \in EntriesAt(t, loc[l], l) PROVE b \in Board(t, loc) /\ b.link = l
  <2>1. b.link = l
    BY <1>2, EntryFields
  <2> QED BY <1>2, <2>1, BoardMember
<1> QED BY <1>1, <1>2

\* What is stored under one link changes the entries of that link only.
LEMMA BoardChange ==
  ASSUME NEW t, NEW loc, NEW loc2, NEW l \in Links,
         \A k \in Links : k # l => loc2[k] = loc[k]
  PROVE  \A b : b \in Board(t, loc2)
                  <=> (b \in Board(t, loc) /\ b.link # l) \/ b \in EntriesAt(t, loc2[l], l)
<1>1. ASSUME NEW b \in Board(t, loc2)
      PROVE  (b \in Board(t, loc) /\ b.link # l) \/ b \in EntriesAt(t, loc2[l], l)
  <2>1. PICK k \in Links : b \in EntriesAt(t, loc2[k], k)
    BY <1>1, BoardMember
  <2>2. CASE k = l
    BY <2>1, <2>2
  <2>3. CASE k # l
    <3>1. b \in EntriesAt(t, loc[k], k) /\ b.link = k
      BY <2>1, <2>3, EntryFields
    <3>2. b \in Board(t, loc)
      BY <3>1, BoardMember
    <3> QED BY <2>3, <3>1, <3>2
  <2> QED BY <2>2, <2>3
<1>2. ASSUME NEW b \in Board(t, loc), b.link # l PROVE b \in Board(t, loc2)
  <2>1. PICK k \in Links : b \in EntriesAt(t, loc[k], k)
    BY <1>2, BoardMember
  <2>2. b.link = k
    BY <2>1, EntryFields
  <2>3. b \in EntriesAt(t, loc2[k], k)
    BY <1>2, <2>1, <2>2
  <2> QED BY <2>3, BoardMember
<1>3. EntriesAt(t, loc2[l], l) \subseteq Board(t, loc2)
  BY BoardMember
<1> QED BY <1>1, <1>2, <1>3

\* A session has an entry where a live share shows it, and nowhere else.
LEMMA EntryShows ==
  ASSUME NEW t, NEW e, NEW l, e.val \in Share, NEW s \in Sids
  PROVE  (\E b \in EntriesAt(t, e, l) : b.sid = s) <=> Shows(e, t, s)
<1>1. (\E n : <<n, s>> \in Shown(e.val)) <=> s \in Exposed(e.val)
  <2>1. CASE e.val.type = "solo"
    BY <2>1, NoSidAssumption DEF Shown, Exposed
  <2>2. CASE e.val.type # "solo"
    <3>1. ASSUME NEW n, <<n, s>> \in Shown(e.val) PROVE s \in Exposed(e.val)
      BY <2>2, <3>1, NoSidAssumption DEF Shown, Exposed, HostsOf
    <3>2. ASSUME s \in Exposed(e.val) PROVE \E n : <<n, s>> \in Shown(e.val)
      <4>1. PICK n \in Nicks : e.val.hosts[n] = s /\ s # NoSid
        BY <2>2, <3>2 DEF Exposed, HostsOf
      <4> QED BY <2>2, <4>1 DEF Shown
    <3> QED BY <3>1, <3>2
  <2> QED BY <2>1, <2>2
<1>2. ASSUME NEW b \in EntriesAt(t, e, l), b.sid = s PROVE Shows(e, t, s)
  <2>1. Live(e, t)
    BY <1>2, EntryFields
  <2>2. <<b.name, b.sid>> \in Shown(e.val)
    BY <1>2, EntryForm
  <2> QED BY <1>1, <1>2, <2>1, <2>2 DEF Shows
<1>3. ASSUME Shows(e, t, s) PROVE \E b \in EntriesAt(t, e, l) : b.sid = s
  <2>1. PICK n : <<n, s>> \in Shown(e.val)
    BY <1>1, <1>3 DEF Shows
  <2>2. Entry(l, n, s, e.exp) \in EntriesAt(t, e, l)
    BY <1>3, <2>1, EntryIs DEF Shows
  <2>3. Entry(l, n, s, e.exp).sid = s
    BY DEF Entry
  <2> QED BY <2>2, <2>3
<1> QED BY <1>2, <1>3

------------------------------------------------------------------------------
(* Sessions *)

\* On Redis an entry with a deadline is found until then, and not at it.
LEMMA RedisLive ==
  ASSUME Backend = "redis", NEW e, NEW t \in Nat, e # Absent, e.exp \in Nat
  PROVE  Live(e, t) <=> t < e.exp
BY NeverAssumption DEF Live, Alive

\* What the invariant says of the session of a request.
LEMMA OwnSession ==
  ASSUME SeqInv, NEW s \in Sids, sessionKV[s] # Absent
  PROVE  /\ sessionKV[s].exp \in Nat /\ born[s] # Absent
         /\ sessionKV[s].exp = born[s].exp
<1>1. /\ sessionKV[s] \in EntryOf(Session) /\ Kept(sessionKV[s], now)
      /\ SessionOK(born, granted, s, sessionKV[s].val)
  BY DEF SeqInv, IInv, TypeInv, TypeOK, StoresOK, StoresSeq, ExpiryKept
<1>2. sessionKV[s].exp = sessionKV[s].val.exp /\ sessionKV[s].val.exp \in Nat
  BY <1>1 DEF Kept, EntryOf, Session
<1> QED BY <1>1, <1>2 DEF SessionOK

\* A session is open if and only if it is found, and over when it is gone for good.
LEMMA OpenFacts ==
  ASSUME SeqInv, Backend = "redis", NEW s \in Sids
  PROVE  /\ Live(sessionKV[s], now) =>
              /\ OpenUntil[s] = sessionKV[s].exp /\ OpenUntil[s] # 0 /\ s \notin Ended
         /\ ~Live(sessionKV[s], now) => OpenUntil[s] = 0
         /\ sessionKV[s] = Absent => OpenUntil[s] = 0 /\ (s \in Ended <=> s \in stopped)
<1>1. Live(sessionKV[s], now) => OpenUntil[s] = sessionKV[s].exp
  BY DEF OpenUntil
<1>2. ~Live(sessionKV[s], now) => OpenUntil[s] = 0
  BY DEF OpenUntil
<1>3. ASSUME Live(sessionKV[s], now) PROVE sessionKV[s].exp # 0 /\ s \notin Ended
  <2>1. sessionKV[s] # Absent /\ sessionKV[s].exp \in Nat /\ s \notin stopped
        /\ Within(sessionKV[s].exp, now)
    BY <1>3, SeqStores
  <2>2. now \in Nat
    BY DEF SeqInv, IInv, TypeInv, TypeOK
  <2> QED BY <1>3, <2>1, <2>2 DEF Ended, Within, Ahead
<1> QED BY <1>1, <1>2, <1>3 DEF Ended, Live

------------------------------------------------------------------------------
(* Steps *)

\* A step that leaves time, sessions, shares and the stopped sessions alone.
LEMMA SameView ==
  ASSUME UNCHANGED <<now, sessionKV, locdataKV, stopped>>
  PROVE  UNCHANGED Promise!vars
BY DEF OpenUntil, Ended, Entries, Promise!vars

\* The session is deleted when no entry of it is left.
LEMMA PromiseClose ==
  ASSUME OneAtATime, SeqInv, IInv', Backend = "redis", NEW r \in Reqs, DelSession(r)
  PROVE  Promise!Next
<1> DEFINE s == rq[r].sid
<1>1. rq[r].pc = "delSession" /\ rq[r].pc # "idle"
  BY DEF DelSession
<1>2. /\ s \in Sids /\ CallerKnown(now, sessionKV, stopped, rq[r])
      /\ rq[r].op = "stopAll"
  BY <1>1, BusyFacts, SeqFacts DEF WellFormed
<1>3. Live(sessionKV[s], now)
  BY <1>2 DEF CallerKnown, Creating
<1>4. \A l \in Links : ~Shows(locdataKV[l], now, s)
  BY SeqDelSession
<1>5. /\ UNCHANGED <<now, locdataKV>> /\ stopped' = stopped \cup {s}
      /\ sessionKV' = [sessionKV EXCEPT ![s] = Absent]
  BY DEF DelSession
<1>6. sessionKV \in [Sids -> EntryOf(Session) \cup {Absent}]
  BY DEF SeqInv, IInv, TypeInv, TypeOK
<1> HIDE DEF s
<1>7. OpenUntil[s] # 0 /\ s \notin Ended
  BY <1>2, <1>3, OpenFacts
<1>8. {b \in Entries : b.sid = s} = {}
  <2> SUFFICES ASSUME NEW b \in Entries, b.sid = s PROVE FALSE
    OBVIOUS
  <2>1. PICK l \in Links : b \in EntriesAt(now, locdataKV[l], l)
    BY EntriesBoard, BoardMember
  <2>2. Live(locdataKV[l], now)
    BY <2>1, EntryFields
  <2>3. locdataKV[l].val \in Share
    BY <2>2, SeqStores
  <2>4. Shows(locdataKV[l], now, s)
    BY <1>2, <2>1, <2>3, EntryShows
  <2> QED BY <1>4, <2>4
<1>9. OpenUntil' = [OpenUntil EXCEPT ![s] = 0]
  BY <1>2, <1>5, <1>6 DEF OpenUntil, Live
<1>10. Ended' = Ended \cup {s}
  BY <1>2, <1>3, <1>5, <1>6 DEF Ended, Live
<1>11. Entries' = Entries
  BY <1>5 DEF Entries
<1>12. Promise!Close(s)
  BY <1>5, <1>7, <1>8, <1>9, <1>10, <1>11 DEF Promise!Close, Promise!Of
<1> QED BY <1>2, <1>12 DEF Promise!Next

\* A share that needs one entry for a session shows it by one name.
LEMMA OneName ==
  ASSUME NEW sh \in Share, FewNames(sh), NEW s \in Sids, s \in Exposed(sh), Needed(sh, s) <= 1
  PROVE  \E n : \A m : <<m, s>> \in Shown(sh) <=> m = n
<1>1. CASE sh.type = "solo"
  BY <1>1, NoSidAssumption DEF Shown, Exposed
<1>2. CASE sh.type # "solo"
  <2>1. IsFiniteSet(HostNicks(sh, s)) /\ Cardinality(HostNicks(sh, s)) \in Nat
    BY FS_CardinalityType DEF FewNames
  <2>2. Cardinality(HostNicks(sh, s)) <= 1 /\ HostNicks(sh, s) # {}
    BY <1>2 DEF Needed, Exposed, HostsOf, HostNicks
  <2>3. PICK n : n \in HostNicks(sh, s)
    BY <2>2
  <2>4. HostNicks(sh, s) \ {n} = {}
    <3>1. /\ IsFiniteSet(HostNicks(sh, s) \ {n})
          /\ Cardinality(HostNicks(sh, s) \ {n}) = Cardinality(HostNicks(sh, s)) - 1
      BY <2>1, <2>3, FS_RemoveElement
    <3>2. Cardinality(HostNicks(sh, s) \ {n}) \in Nat
      BY <3>1, FS_CardinalityType
    <3>3. Cardinality(HostNicks(sh, s) \ {n}) = 0
      BY <2>1, <2>2, <3>1, <3>2
    <3> QED BY <3>1, <3>3, FS_EmptySet
  <2>5. \A m : <<m, s>> \in Shown(sh) <=> m \in HostNicks(sh, s)
    <3>1. s # NoSid
      BY NoSidAssumption
    <3> QED BY <1>2, <3>1 DEF Shown, HostNicks
  <2>6. \A m : m \in HostNicks(sh, s) <=> m = n
    BY <2>3, <2>4
  <2> QED BY <2>5, <2>6
<1> QED BY <1>1, <1>2

\* The only entry of a session whose create request is about to save it.
LEMMA OneEntry ==
  ASSUME SeqInv, NEW r \in Reqs, rq[r].pc = "saveSession", Creating(rq[r])
  PROVE  LET s == rq[r].sid
         IN  \E l \in Links : \E e \in EntriesAt(now, locdataKV[l], l) :
               Live(locdataKV[l], now) /\ {b \in Entries : b.sid = s} = {e}
<1> DEFINE f == rq[r]
           s == f.sid
<1>1. /\ EntryMade(now, locdataKV, f) /\ FrameCovers(now, locdataKV, f) /\ s \in Sids
      /\ f.sess.targets \in Seq(Links) /\ f.op # "stopAll"
  BY BusyFacts, SeqFacts DEF Creating
<1>2. PICK l \in Links : f.sess.targets = <<l>> /\ Shows(locdataKV[l], now, s)
  BY <1>1 DEF EntryMade
<1>3. ASSUME NEW k \in Links PROVE Listed(f, k) = IF k = l THEN 1 ELSE 0
  <2>1. Listed(f, k) = Count(f.sess.targets, k)
    BY <1>1, ListedTargets
  <2>2. Append(<<>>, l) = <<l>>
    OBVIOUS
  <2>3. Count(Append(<<>>, l), k) = Count(<<>>, k) + (IF l = k THEN 1 ELSE 0)
    <3>1. <<>> \in Seq(Links)
      OBVIOUS
    <3> QED BY <3>1, CountAppend
  <2>4. Count(<<>>, k) = 0
    BY CountEmpty
  <2> QED BY <1>2, <2>1, <2>2, <2>3, <2>4
<1>4. ASSUME NEW k \in Links, Shows(locdataKV[k], now, s)
      PROVE  k = l /\ Needed(locdataKV[k].val, s) <= 1
  <2>1. Needed(locdataKV[k].val, s) <= Listed(f, k)
    BY <1>1, <1>4 DEF FrameCovers
  <2>2. Needed(locdataKV[k].val, s) \in Nat /\ Needed(locdataKV[k].val, s) >= 1
    BY <1>1, <1>4, ShowsNeeds
  <2> QED BY <1>3, <2>1, <2>2
<1>5. /\ locdataKV[l].val \in Share /\ FewNames(locdataKV[l].val)
      /\ Live(locdataKV[l], now) /\ s \in Exposed(locdataKV[l].val)
  BY <1>2, SeqStores DEF Shows
<1> HIDE DEF f, s
<1>6. PICK n : \A m : <<m, s>> \in Shown(locdataKV[l].val) <=> m = n
  BY <1>1, <1>2, <1>4, <1>5, OneName
<1> DEFINE e == Entry(l, n, s, locdataKV[l].exp)
<1>7. e \in EntriesAt(now, locdataKV[l], l) /\ e.sid = s
  BY <1>5, <1>6, EntryIs DEF Entry
<1>8. e \in Entries
  BY <1>7, EntriesBoard, BoardMember
<1>9. ASSUME NEW b \in Entries, b.sid = s PROVE b = e
  <2>1. PICK k \in Links : b \in EntriesAt(now, locdataKV[k], k)
    BY EntriesBoard, BoardMember
  <2>2. Live(locdataKV[k], now)
    BY <2>1, EntryFields
  <2>3. locdataKV[k].val \in Share
    BY <2>2, SeqStores
  <2>4. Shows(locdataKV[k], now, s)
    BY <1>1, <1>9, <2>1, <2>3, EntryShows
  <2>5. k = l
    BY <1>4, <2>4
  <2>6. /\ <<b.name, b.sid>> \in Shown(locdataKV[l].val)
        /\ b = Entry(l, b.name, b.sid, locdataKV[l].exp)
    BY <2>1, <2>5, EntryForm
  <2>7. b.name = n
    BY <1>6, <1>9, <2>6
  <2> QED BY <1>9, <2>6, <2>7
<1> HIDE DEF e
<1> QED BY <1>5, <1>7, <1>8, <1>9 DEF f, s

\* The session of a create request is saved, or that of another request again.
LEMMA PromiseOpen ==
  ASSUME OneAtATime, SeqInv, IInv', Backend = "redis", NEW r \in Reqs, SaveSession(r)
  PROVE  [Promise!Next]_Promise!vars
<1> DEFINE f == rq[r]
           s == f.sid
           w == Write(f.sess, f.sess.exp, now)
<1>1. /\ f.pc = "saveSession" /\ f.pc # "idle" /\ f.sess \in Session /\ f.sess.exp \in Nat
      /\ now \in Nat /\ WellFormed(f) /\ FrameOK(born, granted, f)
  BY SeqFacts DEF SaveSession
<1>2. /\ s \in Sids /\ CallerKnown(now, sessionKV, stopped, f) /\ f.op # "stopAll"
  BY <1>1, BusyFacts DEF WellFormed
<1>3. Within(f.sess.exp, now) /\ s \notin stopped /\ f.sess.exp = born[s].exp
  BY <1>1, <1>2 DEF CallerKnown, FrameOK, SessionOK
<1>4. w.exp = f.sess.exp /\ Live(w, now) /\ w # Absent
  BY <1>1, <1>3, AheadWrite, AbsentAssumption DEF Within, Live
<1>5. /\ UNCHANGED <<now, locdataKV, stopped>> /\ sessionKV' = [sessionKV EXCEPT ![s] = w]
  BY DEF SaveSession, history
<1>6. sessionKV \in [Sids -> EntryOf(Session) \cup {Absent}]
  BY DEF SeqInv, IInv, TypeInv, TypeOK
<1>7. Creating(f) \/ Live(sessionKV[s], now)
  BY <1>2 DEF CallerKnown
<1>8. Creating(f) => sessionKV[s] = Absent
  BY <1>2 DEF CallerKnown
<1> HIDE DEF w
<1>9. OpenUntil' = [OpenUntil EXCEPT ![s] = f.sess.exp]
  BY <1>2, <1>4, <1>5, <1>6 DEF OpenUntil
<1>10. Entries' = Entries
  BY <1>5 DEF Entries
<1>11. Ended' = Ended
  BY <1>2, <1>4, <1>5, <1>6, <1>7, <1>8 DEF Ended, Live
<1>12. CASE ~Creating(f)
  <2>1. Live(sessionKV[s], now) /\ OpenUntil[s] = f.sess.exp
    BY <1>2, <1>3, <1>7, <1>12, OwnSession, OpenFacts DEF Live
  <2>2. OpenUntil' = OpenUntil
    BY <1>9, <2>1 DEF OpenUntil
  <2> QED BY <1>5, <1>10, <1>11, <2>2 DEF Promise!vars
<1>13. CASE Creating(f)
  <2>1. OpenUntil[s] = 0 /\ s \notin Ended
    BY <1>2, <1>3, <1>8, <1>13, OpenFacts
  <2>2. PICK l \in Links : \E x \in EntriesAt(now, locdataKV[l], l) :
          Live(locdataKV[l], now) /\ {b \in Entries : b.sid = s} = {x}
    BY <1>1, <1>13, OneEntry
  <2>3. PICK e \in EntriesAt(now, locdataKV[l], l) :
          Live(locdataKV[l], now) /\ {b \in Entries : b.sid = s} = {e}
    BY <2>2
  <2>4. ASSUME e.name = NoNick PROVE f.sess.exp = e.until
    <3>1. /\ <<e.name, e.sid>> \in Shown(locdataKV[l].val)
          /\ e.until = locdataKV[l].exp /\ e.sid = s
      BY <2>3, EntryForm, EntryFields
    <3>2. locdataKV[l].val.type = "solo" /\ locdataKV[l].val.host = s
      BY <2>4, <3>1, NoneAssumption DEF Shown
    <3>3. locdataKV[l].exp = locdataKV[l].val.exp /\ locdataKV[l] # Absent
      BY <2>3, SeqStores
    <3>4. locdataKV[l].val.exp = born[s].exp
      BY <3>2, <3>3 DEF SeqInv, IInv, StoresOK, ShareOK, ShareSound
    <3> QED BY <1>3, <3>1, <3>3, <3>4
  <2>5. f.sess.exp \in (now + 1)..(now + MaxDuration)
    BY <1>1, <1>3, LimitsAssumption DEF Within, Ahead
  <2> HIDE DEF f, s
  <2>6. Promise!Open(s)
    BY <1>5, <1>9, <1>10, <1>11, <2>1, <2>3, <2>4, <2>5
       DEF Promise!Open, Promise!Of, Promise!Ends
  <2> QED BY <1>2, <2>6 DEF Promise!Next
<1> QED BY <1>12, <1>13

------------------------------------------------------------------------------
(* Entries that come and go *)

\* A share that loses one of its names loses that entry.
LEMMA EntriesLess ==
  ASSUME NEW t, NEW e, NEW d, NEW l, NEW n, NEW s, Live(e, t),
         \/ Live(d, t) /\ d.exp = e.exp /\ Shown(d.val) = Shown(e.val) \ {<<n, s>>}
         \/ ~Live(d, t) /\ Shown(e.val) = {<<n, s>>}
  PROVE  EntriesAt(t, d, l) = EntriesAt(t, e, l) \ {Entry(l, n, s, e.exp)}
<1>1. ASSUME NEW b, b \in EntriesAt(t, d, l)
      PROVE  b \in EntriesAt(t, e, l) /\ b # Entry(l, n, s, e.exp)
  <2>1. Live(d, t) /\ d.exp = e.exp /\ Shown(d.val) = Shown(e.val) \ {<<n, s>>}
    BY <1>1, EntryFields
  <2>2. /\ <<b.name, b.sid>> \in Shown(d.val) /\ b = Entry(l, b.name, b.sid, d.exp)
    BY <1>1, EntryForm
  <2>3. b \in EntriesAt(t, e, l)
    BY <2>1, <2>2, EntryIs
  <2>4. Entry(l, n, s, e.exp).name = n /\ Entry(l, n, s, e.exp).sid = s
    BY DEF Entry
  <2> QED BY <2>1, <2>2, <2>3, <2>4
<1>2. ASSUME NEW b, b \in EntriesAt(t, e, l), b # Entry(l, n, s, e.exp)
      PROVE  b \in EntriesAt(t, d, l)
  <2>1. /\ <<b.name, b.sid>> \in Shown(e.val) /\ b = Entry(l, b.name, b.sid, e.exp)
    BY <1>2, EntryForm
  <2>2. <<b.name, b.sid>> # <<n, s>>
    BY <1>2, <2>1
  <2>3. Live(d, t) /\ d.exp = e.exp /\ <<b.name, b.sid>> \in Shown(d.val)
    BY <2>1, <2>2
  <2> QED BY <2>1, <2>3, EntryIs
<1> QED BY <1>1, <1>2

\* What a step that writes under one link does to the entries.
LEMMA EntriesChange ==
  ASSUME now' = now, NEW l \in Links,
         \A k \in Links : k # l => locdataKV'[k] = locdataKV[k]
  PROVE  /\ {b \in Entries : b.link = l} = EntriesAt(now, locdataKV[l], l)
         /\ Entries' = {b \in Entries : b.link # l} \cup EntriesAt(now, locdataKV'[l], l)
<1>1. Entries = Board(now, locdataKV) /\ Entries' = Board(now, locdataKV')
  <2>1. Entries' = Board(now', locdataKV')
    BY DEF Entries, Board, EntriesAt, Entry
  <2> QED BY <2>1, EntriesBoard
<1>2. ASSUME NEW t, NEW loc, NEW loc2, t = now, loc = locdataKV, loc2 = locdataKV'
      PROVE  /\ {b \in Board(t, loc) : b.link = l} = EntriesAt(t, loc[l], l)
             /\ Board(t, loc2) = {b \in Board(t, loc) : b.link # l} \cup EntriesAt(t, loc2[l], l)
  <2>1. \A k \in Links : k # l => loc2[k] = loc[k]
    BY <1>2
  <2>2. \A b : b \in Board(t, loc2)
                 <=> (b \in Board(t, loc) /\ b.link # l) \/ b \in EntriesAt(t, loc2[l], l)
    BY <2>1, BoardChange
  <2>3. \A b : b \in Board(t, loc) /\ b.link = l <=> b \in EntriesAt(t, loc[l], l)
    BY BoardUnder
  <2> QED BY <2>2, <2>3
<1> QED BY <1>1, <1>2

\* An entry whose session is open is taken off.
LEMMA PromiseTake ==
  ASSUME SeqInv, Backend = "redis", UNCHANGED <<now, sessionKV, stopped>>,
         NEW l \in Links, NEW n, NEW s \in Sids,
         Live(locdataKV[l], now), <<n, s>> \in Shown(locdataKV[l].val),
         Live(sessionKV[s], now),
         \A k \in Links : k # l => locdataKV'[k] = locdataKV[k],
         \/ /\ Live(locdataKV'[l], now) /\ locdataKV'[l].exp = locdataKV[l].exp
            /\ Shown(locdataKV'[l].val) = Shown(locdataKV[l].val) \ {<<n, s>>}
         \/ ~Live(locdataKV'[l], now) /\ Shown(locdataKV[l].val) = {<<n, s>>}
  PROVE  Promise!Next
<1> DEFINE e == Entry(l, n, s, locdataKV[l].exp)
<1>1. e \in EntriesAt(now, locdataKV[l], l)
  BY EntryIs
<1>2. e.sid = s /\ e.link = l
  BY DEF Entry
<1>3. EntriesAt(now, locdataKV'[l], l) = EntriesAt(now, locdataKV[l], l) \ {e}
  BY EntriesLess
<1> HIDE DEF e
<1>4. /\ {b \in Entries : b.link = l} = EntriesAt(now, locdataKV[l], l)
      /\ Entries' = {b \in Entries : b.link # l} \cup EntriesAt(now, locdataKV'[l], l)
  BY EntriesChange
<1>5. Entries' = Entries \ {e}
  BY <1>2, <1>3, <1>4
<1>6. e \in Entries
  BY <1>1, <1>4
<1>7. OpenUntil[s] # 0
  BY OpenFacts
<1>8. OpenUntil' = OpenUntil /\ Ended' = Ended
  BY DEF OpenUntil, Ended
<1>9. Promise!Take(e)
  BY <1>2, <1>5, <1>7, <1>8 DEF Promise!Take
<1> QED BY <1>6, <1>9 DEF Promise!Next

\* A name given up, and a name given.
LEMMA ShownLess ==
  ASSUME NEW sh \in Share, sh.type = "group", NEW s \in Sids, NEW n \in HostNicks(sh, s)
  PROVE  /\ Shown([sh EXCEPT !.hosts[n] = NoSid]) = Shown(sh) \ {<<n, s>>}
         /\ <<n, s>> \in Shown(sh)
<1> DEFINE x == [sh EXCEPT !.hosts[n] = NoSid]
<1>1. /\ x.type = "group" /\ n \in Nicks /\ sh.hosts[n] = s /\ s # NoSid
      /\ \A k \in Nicks : x.hosts[k] = IF k = n THEN NoSid ELSE sh.hosts[k]
  BY NoSidAssumption DEF Share, HostNicks
<1> HIDE DEF x
<1>2. Shown(x) = Shown(sh) \ {<<n, s>>} /\ <<n, s>> \in Shown(sh)
  BY <1>1 DEF Shown
<1> QED BY <1>2 DEF x

LEMMA ShownMore ==
  ASSUME NEW sh \in Share, sh.type = "group", NEW s \in Sids, NEW n \in Nicks
  PROVE  Shown(AddHost(sh, n, s)) = {x \in Shown(sh) : x[1] # n} \cup {<<n, s>>}
<1> DEFINE y == AddHost(sh, n, s)
<1>1. /\ y.type = "group" /\ s # NoSid
      /\ \A k \in Nicks : y.hosts[k] = IF k = n THEN s ELSE sh.hosts[k]
  BY NoSidAssumption DEF AddHost, Share
<1> HIDE DEF y
<1>2. Shown(y) = {x \in Shown(sh) : x[1] # n} \cup {<<n, s>>}
  BY <1>1 DEF Shown
<1> QED BY <1>2 DEF y

LEMMA LeaveShown ==
  ASSUME NEW sh \in Share, sh.type = "group", NEW s \in Sids, HostNicks(sh, s) # {},
         NEW x \in RemoveHost(sh, s)
  PROVE  \E n : Shown(x) = Shown(sh) \ {<<n, s>>} /\ <<n, s>> \in Shown(sh)
<1>1. PICK n \in HostNicks(sh, s) : x = [sh EXCEPT !.hosts[n] = NoSid]
  BY DEF RemoveHost
<1>2. Shown(x) = Shown(sh) \ {<<n, s>>} /\ <<n, s>> \in Shown(sh)
  BY <1>1, ShownLess
<1> QED BY <1>2

\* The last member of a group is its only entry.
LEMMA LastShown ==
  ASSUME NEW sh \in Share, sh.type = "group", HostsOf(sh) # {}, NEW s \in Sids,
         NEW x \in RemoveHost(sh, s), Abandoned(x)
  PROVE  \E n : Shown(sh) = {<<n, s>>}
<1>1. \A k \in Nicks : x.hosts[k] = NoSid
  BY DEF Abandoned, HostsOf
<1>2. CASE HostNicks(sh, s) = {}
  BY <1>1, <1>2 DEF RemoveHost, HostsOf
<1>3. CASE HostNicks(sh, s) # {}
  <2>1. PICK n : Shown(x) = Shown(sh) \ {<<n, s>>} /\ <<n, s>> \in Shown(sh)
    BY <1>3, LeaveShown
  <2>2. x.type = "group"
    BY RemoveHostProperties
  <2>3. Shown(x) = {}
    BY <1>1, <2>2 DEF Shown
  <2> QED BY <2>1, <2>3
<1> QED BY <1>2, <1>3

\* Live solo shares are of sessions that are found.
LEMMA SoloHost ==
  ASSUME SeqInv, Backend = "redis", NEW r \in Reqs, ~Creating(rq[r]), NEW l \in Links,
         Live(locdataKV[l], now), locdataKV[l].val.type = "solo"
  PROVE  LET s == locdataKV[l].val.host
         IN  s \in Sids /\ Live(sessionKV[s], now) /\ Shown(locdataKV[l].val) = {<<NoNick, s>>}
<1> DEFINE s == locdataKV[l].val.host
<1>1. locdataKV[l] # Absent /\ locdataKV[l].exp = locdataKV[l].val.exp
      /\ locdataKV[l].exp \in Nat
  BY SeqStores
<1>2. /\ s \in Sids /\ born[s] # Absent /\ locdataKV[l].val.exp = born[s].exp
  BY <1>1 DEF SeqInv, IInv, StoresOK, ShareOK, ShareSound
<1>3. Shows(locdataKV[l], now, s)
  BY <1>2, NoSidAssumption DEF Shows, Exposed
<1>4. ShownKnown(now, sessionKV, locdataKV, rq[r])
  BY SeqFacts DEF FrameSeq
<1>5. sessionKV[s] # Absent
  BY <1>2, <1>3, <1>4 DEF ShownKnown
<1>6. sessionKV[s].exp = born[s].exp /\ now \in Nat
  BY <1>2, <1>5, OwnSession DEF SeqInv, IInv, TypeInv, TypeOK
<1>7. Live(sessionKV[s], now)
  BY <1>1, <1>2, <1>5, <1>6, RedisLive
<1> QED BY <1>2, <1>7 DEF Shown

\* A share is deleted: a solo link, or a group whose last member leaves.
LEMMA PromiseDelShare ==
  ASSUME OneAtATime, SeqInv, IInv', Backend = "redis", NEW r \in Reqs, DelShare(r)
  PROVE  Promise!Next
<1> DEFINE f == rq[r]
           e == locdataKV[f.link]
<1>1. f.pc = "delShare" /\ f.pc # "idle" /\ WellFormed(f)
  BY SeqFacts DEF DelShare
<1>2. f.link \in Links /\ Stopping(f) /\ ~Creating(f)
  BY <1>1 DEF WellFormed, Stopping, Creating
<1>3. /\ f.sid \in Sids /\ Live(sessionKV[f.sid], now) /\ ShareFits(now, locdataKV, groupidKV, f)
  BY <1>1, <1>2, BusyFacts DEF CallerKnown
<1>4. /\ UNCHANGED <<now, sessionKV, stopped>>
      /\ \A k \in Links : locdataKV'[k] = IF k = f.link THEN Absent ELSE locdataKV[k]
  BY DEF DelShare, history, SeqInv, IInv, TypeInv, TypeOK
<1>5. ~Live(locdataKV'[f.link], now) /\ \A k \in Links : k # f.link => locdataKV'[k] = locdataKV[k]
  BY <1>2, <1>4 DEF Live
<1>6. CASE Live(e, now) /\ e.val.type = "solo"
  <2>1. /\ e.val.host \in Sids /\ Live(sessionKV[e.val.host], now)
        /\ Shown(e.val) = {<<NoNick, e.val.host>>}
    BY <1>2, <1>6, SoloHost
  <2>2. <<NoNick, e.val.host>> \in Shown(e.val)
    BY <2>1
  <2> HIDE DEF f
  <2> QED BY <1>2, <1>4, <1>5, <1>6, <2>1, <2>2, PromiseTake
<1>7. CASE ShareChanged(now, e, f) /\ Abandoned(f.share)
  <2>1. /\ Live(e, now) /\ e.val.type = "group" /\ f.share \in RemoveHost(e.val, f.sid)
    BY <1>2, <1>7 DEF ShareChanged
  <2>2. e.val \in Share /\ HostsOf(e.val) # {}
    BY <1>2, <2>1, SeqStores DEF SeqInv, IInv, StoresOK, ShareOK, ShareSound
  <2>3. PICK n : Shown(e.val) = {<<n, f.sid>>}
    BY <1>3, <1>7, <2>1, <2>2, LastShown
  <2>4. <<n, f.sid>> \in Shown(e.val)
    BY <2>3
  <2> HIDE DEF f
  <2> QED BY <1>2, <1>3, <1>4, <1>5, <2>1, <2>3, <2>4, PromiseTake
<1>8. (Live(e, now) /\ e.val.type = "solo") \/ (ShareChanged(now, e, f) /\ Abandoned(f.share))
  BY <1>1, <1>3 DEF ShareFits
<1> QED BY <1>6, <1>7, <1>8

\* An entry is put under a link, in the place of one of that name if there is one.
LEMMA PromisePut ==
  ASSUME SeqInv, UNCHANGED <<now, sessionKV, stopped>>,
         NEW l \in Links, NEW n \in Nicks \cup {NoNick}, NEW s \in Sids, NEW u,
         s \notin Ended, Within(u, now), Backend = "redis", u \in Nat,
         n = NoNick => /\ ~Live(locdataKV[l], now)
                       /\ OpenUntil[s] # 0 => u = OpenUntil[s],
         \A b \in EntriesAt(now, locdataKV[l], l) : b.name # NoNick /\ b.until = u,
         \A k \in Links : k # l => locdataKV'[k] = locdataKV[k],
         EntriesAt(now, locdataKV'[l], l)
           = {b \in EntriesAt(now, locdataKV[l], l) : b.name # n} \cup {Entry(l, n, s, u)}
  PROVE  Promise!Next
<1>1. /\ {b \in Entries : b.link = l} = EntriesAt(now, locdataKV[l], l)
      /\ Entries' = {b \in Entries : b.link # l} \cup EntriesAt(now, locdataKV'[l], l)
  BY EntriesChange
<1>2. Promise!Under(l) = EntriesAt(now, locdataKV[l], l)
  BY <1>1 DEF Promise!Under
<1>3. Entries' = {b \in Entries : b.link # l \/ b.name # n} \cup {Entry(l, n, s, u)}
  BY <1>1
<1>4. n = NoNick => Promise!Under(l) = {} /\ (OpenUntil[s] # 0 => u = OpenUntil[s])
  BY <1>2 DEF EntriesAt
<1>5. OpenUntil' = OpenUntil /\ Ended' = Ended
  BY DEF OpenUntil, Ended
<1>6. u \in Promise!Ends
  <2>1. now \in Nat
    BY DEF SeqInv, IInv, TypeInv, TypeOK
  <2> QED BY <2>1, LimitsAssumption DEF Promise!Ends, Within, Ahead
<1>7. Promise!Put(s, l, n)
  BY <1>2, <1>3, <1>4, <1>5, <1>6 DEF Promise!Put, Entry
<1> QED BY <1>7 DEF Promise!Next

\* The caller of a request that makes or joins a share may be put under a link.
LEMMA CallerOpen ==
  ASSUME SeqInv, Backend = "redis", NEW r \in Reqs, rq[r].pc # "idle"
  PROVE  /\ rq[r].sid \in Sids /\ rq[r].sid \notin Ended
         /\ OpenUntil[rq[r].sid] # 0 => OpenUntil[rq[r].sid] = born[rq[r].sid].exp
<1>1. /\ rq[r].sid \in Sids /\ CallerKnown(now, sessionKV, stopped, rq[r])
  BY BusyFacts
<1>2. CASE Live(sessionKV[rq[r].sid], now)
  <2>1. sessionKV[rq[r].sid] # Absent
    BY <1>2 DEF Live
  <2> QED BY <1>1, <1>2, <2>1, OpenFacts, OwnSession
<1>3. CASE ~Live(sessionKV[rq[r].sid], now)
  <2>1. sessionKV[rq[r].sid] = Absent /\ rq[r].sid \notin stopped
    BY <1>1, <1>3 DEF CallerKnown
  <2> QED BY <1>1, <2>1, OpenFacts
<1> QED BY <1>2, <1>3

\* A new share with its one entry.
LEMMA PromiseNew ==
  ASSUME SeqInv, Backend = "redis", UNCHANGED <<now, sessionKV, stopped>>,
         NEW r \in Reqs, rq[r].pc = "setShare", rq[r].op \in {"solo", "group", "newLink"},
         NEW w, Live(w, now), w.val = rq[r].share, w.exp = rq[r].share.exp,
         \A k \in Links : locdataKV'[k] = IF k = rq[r].link THEN w ELSE locdataKV[k]
  PROVE  Promise!Next
<1> DEFINE f == rq[r]
           s == f.sid
<1>1. /\ ShareFits(now, locdataKV, groupidKV, f) /\ s \in Sids /\ s \notin Ended
      /\ OpenUntil[s] # 0 => OpenUntil[s] = born[s].exp
  BY BusyFacts, CallerOpen
<1>2. /\ FrameOK(born, granted, f) /\ f.share.exp \in Nat /\ f.link \in Links
      /\ now \in Nat /\ f.share \in Share
  BY SeqFacts DEF WellFormed
<1>3. /\ ShareMade(now, f) /\ ~Live(locdataKV[f.link], now) /\ Within(f.share.exp, now)
  BY <1>1 DEF ShareFits, ShareMade
<1>4. EntriesAt(now, locdataKV[f.link], f.link) = {}
  BY <1>3 DEF EntriesAt
<1>5. \E n \in Nicks \cup {NoNick} :
         /\ Shown(f.share) = {<<n, s>>}
         /\ n = NoNick => (OpenUntil[s] # 0 => f.share.exp = OpenUntil[s])
  <2>1. CASE f.op \in {"solo", "newLink"}
    <3>1. f.share.type = "solo" /\ f.share.host = s
      BY <1>3, <2>1 DEF ShareMade
    <3>2. f.share.exp = born[s].exp
      BY <1>2, <3>1 DEF FrameOK, ShareOK, ShareSound
    <3>3. Shown(f.share) = {<<NoNick, s>>}
      BY <3>1 DEF Shown
    <3> QED BY <1>1, <3>2, <3>3
  <2>2. CASE f.op = "group"
    <3>1. f.share.type = "group"
      BY <1>3, <2>2 DEF ShareMade
    <3>2. PICK n \in Nicks : f.share.hosts = [NoHosts EXCEPT ![n] = s]
      BY <1>3, <2>2 DEF ShareMade
    <3>3. \A k \in Nicks : f.share.hosts[k] = IF k = n THEN s ELSE NoSid
      BY <3>2 DEF NoHosts
    <3>4. s # NoSid /\ n # NoNick
      BY <1>1, NoSidAssumption, NoneAssumption
    <3> HIDE DEF f, s
    <3>5. Shown(f.share) = {<<n, s>>}
      BY <3>1, <3>3, <3>4 DEF Shown
    <3> QED BY <3>4, <3>5
  <2> QED BY <2>1, <2>2
<1>6. PICK n \in Nicks \cup {NoNick} :
         /\ Shown(f.share) = {<<n, s>>}
         /\ n = NoNick => (OpenUntil[s] # 0 => f.share.exp = OpenUntil[s])
  BY <1>5
<1>7. locdataKV'[f.link] = w /\ \A k \in Links : k # f.link => locdataKV'[k] = locdataKV[k]
  BY <1>2
<1>8. EntriesAt(now, w, f.link) = {Entry(f.link, n, s, f.share.exp)}
  <2> HIDE DEF f, s
  <2>1. Shown(w.val) = {<<n, s>>} /\ w.exp = f.share.exp
    BY <1>6 DEF f
  <2> QED BY <2>1 DEF EntriesAt
<1> HIDE DEF f, s
<1>9. EntriesAt(now, locdataKV'[f.link], f.link)
        = {b \in EntriesAt(now, locdataKV[f.link], f.link) : b.name # n}
             \cup {Entry(f.link, n, s, f.share.exp)}
  BY <1>4, <1>7, <1>8
<1> QED BY <1>1, <1>2, <1>3, <1>4, <1>6, <1>7, <1>9, PromisePut

\* A group that gives a name to a session has that entry and the others' as before.
LEMMA EntriesMore ==
  ASSUME NEW t, NEW e, NEW d, NEW l, NEW n \in Nicks, NEW s \in Sids,
         Live(e, t), Live(d, t), d.exp = e.exp,
         e.val \in Share, e.val.type = "group", d.val = AddHost(e.val, n, s)
  PROVE  \A b : b \in EntriesAt(t, d, l)
                  <=> (b \in EntriesAt(t, e, l) /\ b.name # n) \/ b = Entry(l, n, s, e.exp)
<1>1. \A m, q : <<m, q>> \in Shown(d.val)
                 <=> (<<m, q>> \in Shown(e.val) /\ m # n) \/ (m = n /\ q = s)
  <2>1. Shown(d.val) = {x \in Shown(e.val) : x[1] # n} \cup {<<n, s>>}
    BY ShownMore
  <2> QED BY <2>1
<1>2. ASSUME NEW b, b \in EntriesAt(t, d, l)
      PROVE  (b \in EntriesAt(t, e, l) /\ b.name # n) \/ b = Entry(l, n, s, e.exp)
  <2>1. /\ <<b.name, b.sid>> \in Shown(d.val) /\ b = Entry(l, b.name, b.sid, e.exp)
    BY <1>2, EntryForm
  <2>2. CASE b.name = n /\ b.sid = s
    BY <2>1, <2>2
  <2>3. CASE ~(b.name = n /\ b.sid = s)
    <3>1. <<b.name, b.sid>> \in Shown(e.val) /\ b.name # n
      BY <1>1, <2>1, <2>3
    <3>2. Entry(l, b.name, b.sid, e.exp) \in EntriesAt(t, e, l)
      BY <3>1, EntryIs
    <3> QED BY <2>1, <3>1, <3>2
  <2> QED BY <2>2, <2>3
<1>3. ASSUME NEW b, b \in EntriesAt(t, e, l), b.name # n
      PROVE  b \in EntriesAt(t, d, l)
  <2>1. /\ <<b.name, b.sid>> \in Shown(e.val) /\ b = Entry(l, b.name, b.sid, d.exp)
    BY <1>3, EntryForm
  <2>2. <<b.name, b.sid>> \in Shown(d.val)
    BY <1>1, <1>3, <2>1
  <2>3. Entry(l, b.name, b.sid, d.exp) \in EntriesAt(t, d, l)
    BY <2>2, EntryIs
  <2> QED BY <1>1, <2>1, <2>3
<1>4. Entry(l, n, s, e.exp) \in EntriesAt(t, d, l)
  <2>1. <<n, s>> \in Shown(d.val)
    BY <1>1
  <2> QED BY <2>1, EntryIs
<1> QED BY <1>2, <1>3, <1>4

\* A group with the caller added.
LEMMA PromiseJoin ==
  ASSUME SeqInv, Backend = "redis", UNCHANGED <<now, sessionKV, stopped>>,
         NEW r \in Reqs, rq[r].pc = "setShare", rq[r].op \in {"join", "adopt"},
         NEW w, Live(w, now), w.val = rq[r].share, w.exp = rq[r].share.exp,
         \A k \in Links : locdataKV'[k] = IF k = rq[r].link THEN w ELSE locdataKV[k]
  PROVE  Promise!Next
<1> DEFINE f == rq[r]
           s == f.sid
           n == f.nick
           e == locdataKV[f.link]
<1>1. /\ ShareFits(now, locdataKV, groupidKV, f) /\ s \in Sids /\ s \notin Ended
  BY BusyFacts, CallerOpen
<1>2. f.link \in Links
  BY SeqFacts DEF WellFormed
<1>3. /\ Live(e, now) /\ e.val.type = "group" /\ n \in Nicks
      /\ f.share = AddHost(e.val, n, s)
  BY <1>1 DEF ShareFits, ShareChanged, Stopping
<1>4. /\ e.val \in Share /\ e.exp = e.val.exp /\ e.exp \in Nat /\ Within(e.exp, now)
  BY <1>2, <1>3, SeqStores
<1>5. locdataKV'[f.link] = w /\ \A k \in Links : k # f.link => locdataKV'[k] = locdataKV[k]
  BY <1>2
<1>6. w.exp = e.exp
  BY <1>3, <1>4 DEF AddHost, Share
<1>7. w.val = AddHost(e.val, n, s)
  BY <1>3
<1> HIDE DEF f, s, n, e
<1>8. EntriesAt(now, w, f.link)
        = {b \in EntriesAt(now, e, f.link) : b.name # n} \cup {Entry(f.link, n, s, e.exp)}
  <2>1. \A b : b \in EntriesAt(now, w, f.link)
                 <=> \/ b \in EntriesAt(now, e, f.link) /\ b.name # n
                     \/ b = Entry(f.link, n, s, e.exp)
    BY <1>1, <1>3, <1>4, <1>6, <1>7, EntriesMore
  <2> QED BY <2>1
<1>9. ASSUME NEW b \in EntriesAt(now, e, f.link) PROVE b.name # NoNick /\ b.until = e.exp
  <2>1. <<b.name, b.sid>> \in Shown(e.val) /\ b.until = e.exp
    BY <1>9, EntryForm, EntryFields
  <2>2. b.name \in Nicks
    BY <1>3, <2>1 DEF Shown
  <2> QED BY <2>1, <2>2, NoneAssumption
<1>10. n # NoNick
  BY <1>3, NoneAssumption
<1>11. e = locdataKV[f.link]
  BY DEF e, f
<1> QED BY <1>1, <1>2, <1>3, <1>4, <1>5, <1>8, <1>9, <1>10, <1>11, PromisePut

\* A group with one name of the caller less, or as it was when another member has
\* taken over the last of them.
LEMMA PromiseLeave ==
  ASSUME SeqInv, Backend = "redis", UNCHANGED <<now, sessionKV, stopped>>,
         NEW r \in Reqs, rq[r].pc = "setShare", Stopping(rq[r]),
         NEW w, Live(w, now), w.val = rq[r].share, w.exp = rq[r].share.exp,
         \A k \in Links : locdataKV'[k] = IF k = rq[r].link THEN w ELSE locdataKV[k]
  PROVE  [Promise!Next]_Promise!vars
<1> DEFINE f == rq[r]
           s == f.sid
           e == locdataKV[f.link]
<1>1. /\ ShareFits(now, locdataKV, groupidKV, f) /\ s \in Sids
      /\ CallerKnown(now, sessionKV, stopped, f)
  BY BusyFacts
<1>2. f.link \in Links /\ ~Creating(f)
  BY SeqFacts DEF WellFormed, Stopping, Creating
<1>3. /\ Live(e, now) /\ e.val.type = "group" /\ f.share \in RemoveHost(e.val, s)
      /\ Live(sessionKV[s], now)
  BY <1>1, <1>2 DEF ShareFits, ShareChanged, Stopping, CallerKnown
<1>4. e.val \in Share /\ e.exp = e.val.exp /\ w.exp = e.exp /\ now' = now
  <2>1. e.val \in Share /\ e.exp = e.val.exp
    BY <1>2, <1>3, SeqStores
  <2>2. f.share.exp = e.val.exp
    BY <1>1, <1>3, <2>1, RemoveHostProperties
  <2> QED BY <2>1, <2>2
<1>5. locdataKV'[f.link] = w /\ \A k \in Links : k # f.link => locdataKV'[k] = locdataKV[k]
  BY <1>2
<1>6. CASE HostNicks(e.val, s) = {}
  <2>1. w.val = e.val
    BY <1>3, <1>6 DEF RemoveHost
  <2> HIDE DEF f, s
  <2>2. EntriesAt(now, w, f.link) = EntriesAt(now, e, f.link)
    BY <1>3, <1>4, <2>1 DEF EntriesAt
  <2>3. /\ {b \in Entries : b.link = f.link} = EntriesAt(now, locdataKV[f.link], f.link)
        /\ Entries' = {b \in Entries : b.link # f.link} \cup EntriesAt(now, locdataKV'[f.link], f.link)
    BY <1>2, <1>4, <1>5, EntriesChange
  <2>4. Entries' = Entries
    BY <1>5, <2>2, <2>3
  <2> QED BY <2>4 DEF OpenUntil, Ended, Promise!vars
<1>7. CASE HostNicks(e.val, s) # {}
  <2>1. w.val \in RemoveHost(e.val, s)
    BY <1>3
  <2> HIDE DEF f, s, e
  <2>2. PICK n : Shown(w.val) = Shown(e.val) \ {<<n, s>>} /\ <<n, s>> \in Shown(e.val)
    BY <1>1, <1>3, <1>4, <1>7, <2>1, LeaveShown
  <2>3. e = locdataKV[f.link]
    BY DEF e, f
  <2> QED BY <1>1, <1>2, <1>3, <1>4, <1>5, <2>2, <2>3, PromiseTake
<1> QED BY <1>6, <1>7

\* A share is saved.
LEMMA PromiseSetShare ==
  ASSUME OneAtATime, SeqInv, IInv', Backend = "redis", NEW r \in Reqs, SetShare(r)
  PROVE  [Promise!Next]_Promise!vars
<1> DEFINE f == rq[r]
           w == Write(f.share, f.share.exp, now)
<1>1. /\ f.pc = "setShare" /\ f.pc # "idle" /\ f.share \in Share /\ f.share.exp \in Nat
      /\ now \in Nat /\ f.op # "none"
  BY SeqFacts, BusyFacts DEF SetShare
<1>2. /\ Within(f.share.exp, now) /\ f.link \in Links
      /\ ~Stopping(f) => f.op \in {"solo", "group", "join", "newLink", "adopt"}
  BY <1>1, SetShareFacts
<1>3. w.val = f.share /\ w.exp = f.share.exp /\ Live(w, now)
  BY <1>1, <1>2, AheadWrite, AbsentAssumption DEF Within
<1>4. /\ UNCHANGED <<now, sessionKV, stopped>>
      /\ \A k \in Links : locdataKV'[k] = IF k = f.link THEN w ELSE locdataKV[k]
  BY DEF SetShare, history, SeqInv, IInv, TypeInv, TypeOK
<1> HIDE DEF w
<1>5. CASE Stopping(f)
  BY <1>1, <1>3, <1>4, <1>5, PromiseLeave
<1>6. CASE f.op \in {"solo", "group", "newLink"}
  BY <1>1, <1>3, <1>4, <1>6, PromiseNew
<1>7. CASE f.op \in {"join", "adopt"}
  BY <1>1, <1>3, <1>4, <1>7, PromiseJoin
<1> QED BY <1>2, <1>5, <1>6, <1>7

------------------------------------------------------------------------------
(* Time *)

\* What is kept until an end that time approaches is found until then.
LEMMA TickTimes ==
  ASSUME SeqInv, Backend = "redis"
  PROVE  /\ now \in Nat
         /\ \A s \in Sids : sessionKV[s] # Absent =>
               /\ sessionKV[s].exp \in Nat
               /\ Live(sessionKV[s], now) <=> now < sessionKV[s].exp
               /\ Live(sessionKV[s], now + 1) <=> now + 1 < sessionKV[s].exp
         /\ \A l \in Links : locdataKV[l] # Absent =>
               /\ locdataKV[l].exp \in Nat
               /\ Live(locdataKV[l], now) <=> now < locdataKV[l].exp
               /\ Live(locdataKV[l], now + 1) <=> now + 1 < locdataKV[l].exp
<1>1. now \in Nat /\ now + 1 \in Nat
  BY DEF SeqInv, IInv, TypeInv, TypeOK
<1>2. \A s \in Sids : sessionKV[s] # Absent => sessionKV[s].exp \in Nat
  BY OwnSession
<1>3. \A l \in Links : locdataKV[l] # Absent => locdataKV[l].exp \in Nat
  BY DEF SeqInv, StoresSeq, ExpiryKept, Kept, IInv, TypeInv, TypeOK, EntryOf, Share
<1> QED BY <1>1, <1>2, <1>3, RedisLive

\* A second later the entries are those whose end has not come.
LEMMA EntriesLater ==
  ASSUME SeqInv, Backend = "redis", NEW l \in Links
  PROVE  \A b : b \in EntriesAt(now + 1, locdataKV[l], l)
                  <=> b \in EntriesAt(now, locdataKV[l], l) /\ b.until > now + 1
<1> DEFINE e == locdataKV[l]
<1>1. CASE e = Absent
  BY <1>1 DEF EntriesAt, Live
<1>2. CASE e # Absent
  <2>1. /\ now \in Nat /\ e.exp \in Nat
        /\ Live(e, now) <=> now < e.exp
        /\ Live(e, now + 1) <=> now + 1 < e.exp
    BY <1>2, TickTimes
  <2> HIDE DEF e
  <2>2. ASSUME NEW b, b \in EntriesAt(now + 1, e, l)
        PROVE  b \in EntriesAt(now, e, l) /\ b.until > now + 1
    <3>1. Live(e, now + 1) /\ b.until = e.exp
      BY <2>2, EntryFields
    <3>2. Live(e, now)
      BY <2>1, <3>1
    <3>3. EntriesAt(now + 1, e, l) = EntriesAt(now, e, l)
      BY <3>1, <3>2 DEF EntriesAt
    <3> QED BY <2>1, <2>2, <3>1, <3>3
  <2>3. ASSUME NEW b, b \in EntriesAt(now, e, l), b.until > now + 1
        PROVE  b \in EntriesAt(now + 1, e, l)
    <3>1. Live(e, now) /\ b.until = e.exp
      BY <2>3, EntryFields
    <3>2. Live(e, now + 1)
      BY <2>1, <2>3, <3>1
    <3>3. EntriesAt(now + 1, e, l) = EntriesAt(now, e, l)
      BY <3>1, <3>2 DEF EntriesAt
    <3> QED BY <2>3, <3>3
  <2>4. e = locdataKV[l]
    BY DEF e
  <2> QED BY <2>2, <2>3, <2>4
<1> QED BY <1>1, <1>2

\* The clock ticks, with no request in flight.
LEMMA PromiseTick ==
  ASSUME SeqInv, Backend = "redis", Tick
  PROVE  Promise!Next
<1>1. now' = now + 1 /\ UNCHANGED <<sessionKV, locdataKV, stopped>> /\ now \in Nat
  BY TickTimes DEF Tick, stores, history
<1>2. ASSUME NEW s \in Sids
      PROVE  /\ OpenUntil'[s] = IF OpenUntil[s] > now + 1 THEN OpenUntil[s] ELSE 0
             /\ s \in Ended' <=> s \in Ended \/ OpenUntil[s] = now + 1
  <2>1. CASE sessionKV[s] = Absent
    BY <1>1, <2>1 DEF OpenUntil, Ended, Live
  <2>2. CASE sessionKV[s] # Absent
    <3>1. /\ sessionKV[s].exp \in Nat
          /\ Live(sessionKV[s], now) <=> now < sessionKV[s].exp
          /\ Live(sessionKV[s], now + 1) <=> now + 1 < sessionKV[s].exp
      BY <2>2, TickTimes
    <3>2. OpenUntil[s] = IF now < sessionKV[s].exp THEN sessionKV[s].exp ELSE 0
      BY <3>1 DEF OpenUntil
    <3>3. OpenUntil'[s] = IF now + 1 < sessionKV[s].exp THEN sessionKV[s].exp ELSE 0
      BY <1>1, <3>1 DEF OpenUntil
    <3>4. s \in Ended <=> s \in stopped \/ ~(now < sessionKV[s].exp)
      BY <2>2, <3>1 DEF Ended
    <3>5. s \in Ended' <=> s \in stopped \/ ~(now + 1 < sessionKV[s].exp)
      BY <1>1, <2>2, <3>1 DEF Ended
    <3> QED BY <1>1, <3>1, <3>2, <3>3, <3>4, <3>5
  <2> QED BY <2>1, <2>2
<1>3. OpenUntil' = [s \in Sids |-> IF OpenUntil[s] > now' THEN OpenUntil[s] ELSE 0]
  <2>1. OpenUntil' = [s \in Sids |-> OpenUntil'[s]]
    BY DEF OpenUntil
  <2> QED BY <1>1, <1>2, <2>1
<1>4. Ended' = Ended \cup {s \in Sids : OpenUntil[s] = now'}
  <2>1. Ended \subseteq Sids /\ Ended' \subseteq Sids
    BY <1>1 DEF Ended, SeqInv, IInv, TypeInv, TypeOK
  <2> QED BY <1>1, <1>2, <2>1
<1>5. Entries' = {e \in Entries : e.until > now'}
  <2>1. Entries' = Board(now', locdataKV')
    BY DEF Entries, Board, EntriesAt, Entry
  <2>2. \A b : b \in Board(now + 1, locdataKV) <=> b \in Board(now, locdataKV) /\ b.until > now + 1
    BY BoardMember, EntriesLater
  <2> QED BY <1>1, <2>1, <2>2, EntriesBoard
<1>6. Promise!Tick
  BY <1>1, <1>3, <1>4, <1>5 DEF Promise!Tick
<1> QED BY <1>6 DEF Promise!Next

------------------------------------------------------------------------------
(* The refinement *)

LEMMA PromiseInit == Init => Promise!Init
BY DEF Init, Promise!Init, OpenUntil, Ended, Entries, Live

\* A step that stores no session and no share.
LEMMA OtherSteps ==
  ASSUME NEW r \in Reqs,
         \/ Begin(r) \/ GenLink(r) \/ TryLink(r) \/ AdoptType(r) \/ AdoptShare(r)
         \/ GetPin(r) \/ GetGroup(r) \/ StopType(r) \/ StopShare(r) \/ DelPin(r) \/ SetPin(r)
  PROVE  UNCHANGED Promise!vars
<1>1. CASE Begin(r)
  <2>1. UNCHANGED <<now, sessionKV, locdataKV, stopped>>
    BY <1>1 DEF Begin, BeginSolo, BeginGroup, BeginJoin, BeginPost, BeginNewLink, BeginAdopt,
       BeginStopLink, BeginStopAll, Create, stores, history
  <2> QED BY <2>1, SameView
<1>2. CASE GenLink(r) \/ TryLink(r) \/ AdoptType(r) \/ AdoptShare(r) \/ GetPin(r) \/ GetGroup(r)
  <2>1. UNCHANGED <<now, sessionKV, locdataKV, stopped>>
    BY <1>2 DEF GenLink, TryLink, AdoptType, AdoptShare, GetPin, GetGroup, stores, history
  <2> QED BY <2>1, SameView
<1>3. CASE StopType(r) \/ StopShare(r) \/ DelPin(r) \/ SetPin(r)
  <2>1. UNCHANGED <<now, sessionKV, locdataKV, stopped>>
    BY <1>3 DEF StopType, StopShare, DelPin, SetPin, stores, history
  <2> QED BY <2>1, SameView
<1> QED BY <1>1, <1>2, <1>3

LEMMA PromiseNext ==
  ASSUME OneAtATime, SeqInv, Backend = "redis", [Next]_vars
  PROVE  [Promise!Next]_Promise!vars
<1>1. IInv'
  BY SafeStep DEF SeqInv
<1>2. CASE UNCHANGED vars
  BY <1>2, SameView DEF vars, stores, history
<1>3. CASE Tick
  BY <1>3, PromiseTick
<1>4. ASSUME NEW r \in Reqs, Begin(r) \/ Step(r) PROVE [Promise!Next]_Promise!vars
  BY <1>1, <1>4, OtherSteps, PromiseDelShare, PromiseClose, PromiseSetShare, PromiseOpen
     DEF Step
<1>5. ASSUME NEW r \in Reqs, Abort(r) \/ StopSkip(r) PROVE FALSE
  BY <1>5 DEF Abort, StopSkip, OneAtATime
<1> QED BY <1>2, <1>3, <1>4, <1>5 DEF Next

\* One request at a time and on Redis, the handlers keep what Sharing promises: an
\* entry is put up for a session that is open or about to be, goes while the session
\* is open or at its own end, a session is closed only when no link shows it, and a
\* solo link ends when its session does.
THEOREM KeepsPromiseCorrect ==
  ASSUME OneAtATime, Backend = "redis" PROVE Spec => KeepsPromise
<1>1. SeqInv /\ [Next]_vars => [Promise!Next]_Promise!vars
  BY PromiseNext
<1>2. Spec => []SeqInv
  BY SeqSoundness
<1> QED BY <1>1, <1>2, PromiseInit, PTL DEF Spec, KeepsPromise, Promise!Spec
==============================================================================
