---------------------------- MODULE HaukSeqProofs ----------------------------
(***************************************************************************)
(* What HaukApi promises between requests that do not overlap, for any     *)
(* sets of sessions, links, nicknames and PINs and any length of the run.  *)
(* "One request at a time" is OneAtATime throughout: no overlap, no        *)
(* failure, and no second of the clock within a request.                   *)
(***************************************************************************)
EXTENDS HaukSequential, HaukApiProofs

USE DEF At, Goto, Answer

------------------------------------------------------------------------------
(* Counting targets *)

\* The places of a link in a list of targets are finitely many.
LEMMA CountType ==
  ASSUME NEW q \in Seq(Links), NEW l
  PROVE  IsFiniteSet({i \in DOMAIN q : q[i] = l}) /\ Count(q, l) \in Nat
<1>1. DOMAIN q = 1..Len(q) /\ Len(q) \in Nat
  OBVIOUS
<1>2. IsFiniteSet({i \in DOMAIN q : q[i] = l})
  <2>1. IsFiniteSet(1..Len(q)) BY <1>1, FS_Interval
  <2> QED BY <1>1, <2>1, FS_Subset
<1> QED BY <1>2, FS_CardinalityType DEF Count

LEMMA CountEmpty == ASSUME NEW l PROVE Count(<<>>, l) = 0
<1>1. {i \in DOMAIN <<>> : <<>>[i] = l} = {}
  OBVIOUS
<1> QED BY <1>1, FS_EmptySet DEF Count

\* AddTarget counts once more.
LEMMA CountAppend ==
  ASSUME NEW q \in Seq(Links), NEW x \in Links, NEW l
  PROVE  Count(Append(q, x), l) = Count(q, l) + (IF x = l THEN 1 ELSE 0)
<1> DEFINE I == {i \in DOMAIN q : q[i] = l}
           J == {i \in DOMAIN Append(q, x) : Append(q, x)[i] = l}
<1>1. IsFiniteSet(I) /\ Cardinality(I) \in Nat
  BY CountType DEF Count
<1>4. Count(q, l) = Cardinality(I) /\ Count(Append(q, x), l) = Cardinality(J)
  BY DEF Count
<1>2. CASE x = l
  <2>1. J = I \cup {Len(q) + 1} /\ Len(q) + 1 \notin I
    BY <1>2
  <2> HIDE DEF I, J
  <2>2. Cardinality(J) = Cardinality(I) + 1
    BY <1>1, <2>1, FS_AddElement
  <2> QED BY <1>2, <1>4, <2>2
<1>3. CASE x # l
  <2>1. J = I
    BY <1>3
  <2> HIDE DEF I, J
  <2> QED BY <1>1, <1>3, <1>4, <2>1
<1> QED BY <1>2, <1>3

\* A list that lacks one place of another counts at most one fewer.
LEMMA CountSkip ==
  ASSUME NEW q \in Seq(Links), NEW p \in Seq(Links), NEW i \in 1..Len(q),
         Len(p) = Len(q) - 1,
         \A k \in 1..Len(p) : p[k] = IF k < i THEN q[k] ELSE q[k+1],
         NEW l
  PROVE  Count(p, l) >= Count(q, l) - (IF q[i] = l THEN 1 ELSE 0)
<1> DEFINE I == {k \in DOMAIN q : q[k] = l}
           J == {k \in DOMAIN p : p[k] = l}
           g == [k \in J |-> IF k < i THEN k ELSE k + 1]
<1>1. IsFiniteSet(I) /\ IsFiniteSet(J) /\ Cardinality(I) \in Nat /\ Cardinality(J) \in Nat
  BY CountType DEF Count
<1>2. g \in Surjection(J, I \ {i})
  <2>1. \A k \in J : g[k] \in I \ {i}
    OBVIOUS
  <2>2. ASSUME NEW m \in I \ {i} PROVE \E k \in J : g[k] = m
    <3>1. CASE m < i
      BY <3>1
    <3>2. CASE m > i
      <4>1. m - 1 \in 1..Len(p) /\ ~(m - 1 < i) /\ (m - 1) + 1 = m
        BY <3>2
      <4>2. m - 1 \in J
        BY <4>1
      <4> QED BY <4>1, <4>2
    <3>3. m \in Int /\ i \in Int /\ m # i
      OBVIOUS
    <3> HIDE DEF I, J, g
    <3> QED BY <3>1, <3>2, <3>3
  <2> HIDE DEF I
  <2> QED BY <2>1, <2>2 DEF Surjection
<1>3. Cardinality(I \ {i}) <= Cardinality(J)
  <2> HIDE DEF I, J, g
  <2> QED BY <1>1, <1>2, FS_Surjection
<1>4. Cardinality(I \ {i}) = IF q[i] = l THEN Cardinality(I) - 1 ELSE Cardinality(I)
  <2>1. i \in I <=> q[i] = l OBVIOUS
  <2> HIDE DEF I
  <2> QED BY <1>1, <2>1, FS_RemoveElement
<1>5. Count(q, l) = Cardinality(I) /\ Count(p, l) = Cardinality(J)
  BY DEF Count
<1> HIDE DEF I, J
<1> QED BY <1>1, <1>3, <1>4, <1>5

\* Going on to the next target.
LEMMA CountTail ==
  ASSUME NEW q \in Seq(Links), q # <<>>, NEW l
  PROVE  Count(Tail(q), l) + (IF Head(q) = l THEN 1 ELSE 0) >= Count(q, l)
<1>1. /\ Tail(q) \in Seq(Links) /\ Len(Tail(q)) = Len(q) - 1 /\ 1 \in 1..Len(q)
      /\ \A k \in 1..Len(Tail(q)) : Tail(q)[k] = IF k < 1 THEN q[k] ELSE q[k+1]
  OBVIOUS
<1>2. Count(Tail(q), l) >= Count(q, l) - (IF q[1] = l THEN 1 ELSE 0)
  BY <1>1, CountSkip
<1>3. Count(q, l) \in Nat /\ Count(Tail(q), l) \in Nat
  BY <1>1, CountType
<1>4. Head(q) = q[1]
  OBVIOUS
<1> QED BY <1>2, <1>3, <1>4

\* RemoveTarget.
LEMMA CountRemoveFirst ==
  ASSUME NEW q \in Seq(Links), NEW x, NEW l
  PROVE  /\ RemoveFirst(q, x) \in Seq(Links)
         /\ Count(RemoveFirst(q, x), l) >= Count(q, l) - (IF x = l THEN 1 ELSE 0)
<1>1. CASE \E i \in 1..Len(q) : q[i] = x
  <2> DEFINE T == {i \in 1..Len(q) : q[i] = x}
  <2>1. Min(T) \in T
    <3>1. T \subseteq Nat /\ T # {} BY <1>1
    <3> QED BY <3>1, NatMin
  <2>2. SelectInSeq(q, LAMBDA v : v = x) = Min(T)
    BY <1>1 DEF SelectInSeq
  <2>3. RemoveFirst(q, x) = RemoveAt(q, Min(T))
    BY <1>1, <2>2, Zenon DEF RemoveFirst
  <2>4. PICK i \in 1..Len(q) : q[i] = x /\ RemoveFirst(q, x) = RemoveAt(q, i)
    BY <2>1, <2>3
  <2>5. /\ RemoveAt(q, i) \in Seq(Links) /\ Len(RemoveAt(q, i)) = Len(q) - 1
        /\ \A k \in 1..Len(RemoveAt(q, i)) :
              RemoveAt(q, i)[k] = IF k < i THEN q[k] ELSE q[k+1]
    BY RemoveAtPlaces
  <2>6. Count(RemoveAt(q, i), l) >= Count(q, l) - (IF q[i] = l THEN 1 ELSE 0)
    BY <2>5, CountSkip
  <2> QED BY <2>4, <2>5, <2>6
<1>2. CASE ~ \E i \in 1..Len(q) : q[i] = x
  <2>1. RemoveFirst(q, x) = q
    BY <1>2 DEF RemoveFirst
  <2>2. Count(q, l) \in Nat
    BY CountType
  <2> QED BY <2>1, <2>2
<1> QED BY <1>1, <1>2

------------------------------------------------------------------------------
(* Names in a group *)

\* A nickname given to a session is one more for it and none more for the others.
LEMMA AddHostNames ==
  ASSUME NEW sh \in Share, NEW n \in Nicks, NEW sid \in Sids, FewNames(sh)
  PROVE  /\ FewNames(AddHost(sh, n, sid))
         /\ Cardinality(HostNicks(AddHost(sh, n, sid), sid))
              <= Cardinality(HostNicks(sh, sid)) + 1
         /\ \A s \in Sids \ {sid} : Cardinality(HostNicks(AddHost(sh, n, sid), s))
                                       <= Cardinality(HostNicks(sh, s))
<1> DEFINE H(s) == HostNicks(sh, s)
           G(s) == HostNicks(AddHost(sh, n, sid), s)
<1>1. \A s \in Sids : G(s) = IF s = sid THEN H(s) \cup {n} ELSE H(s) \ {n}
  BY DEF AddHost, HostNicks, Share
<1>2. \A s \in Sids : IsFiniteSet(H(s))
  BY DEF FewNames
<1> HIDE DEF H, G
<1>3. ASSUME NEW s \in Sids
      PROVE  /\ IsFiniteSet(G(s)) /\ Cardinality(H(s)) \in Nat
             /\ Cardinality(G(s)) <= IF s = sid THEN Cardinality(H(s)) + 1
                                                ELSE Cardinality(H(s))
  <2>1. IsFiniteSet(H(s)) /\ Cardinality(H(s)) \in Nat
    BY <1>2, FS_CardinalityType
  <2>2. CASE s = sid
    <3>1. G(s) = H(s) \cup {n} BY <1>1, <2>2
    <3>2. /\ IsFiniteSet(G(s))
          /\ Cardinality(G(s)) = IF n \in H(s) THEN Cardinality(H(s)) ELSE Cardinality(H(s)) + 1
      BY <2>1, <3>1, FS_AddElement
    <3> QED BY <2>1, <2>2, <3>2
  <2>3. CASE s # sid
    <3>1. G(s) = H(s) \ {n} BY <1>1, <2>3
    <3>2. /\ IsFiniteSet(G(s))
          /\ Cardinality(G(s)) = IF n \in H(s) THEN Cardinality(H(s)) - 1 ELSE Cardinality(H(s))
      BY <2>1, <3>1, FS_RemoveElement
    <3> QED BY <2>1, <2>3, <3>2
  <2> QED BY <2>2, <2>3
<1> QED BY <1>3 DEF FewNames, G, H

\* RemoveHost takes one name of the session, if it has one, and none of the others.
LEMMA RemoveHostNames ==
  ASSUME NEW sh \in Share, NEW sid \in Sids, NEW x \in RemoveHost(sh, sid), FewNames(sh)
  PROVE  /\ FewNames(x)
         /\ HostNicks(sh, sid) # {} =>
              Cardinality(HostNicks(x, sid)) <= Cardinality(HostNicks(sh, sid)) - 1
         /\ HostNicks(sh, sid) = {} => x = sh
         /\ \A s \in Sids \ {sid} : HostNicks(x, s) = HostNicks(sh, s)
<1>1. CASE HostNicks(sh, sid) = {}
  BY <1>1 DEF RemoveHost
<1>2. CASE HostNicks(sh, sid) # {}
  <2>1. PICK n \in HostNicks(sh, sid) : x = [sh EXCEPT !.hosts[n] = NoSid]
    BY <1>2 DEF RemoveHost
  <2>2. \A s \in Sids : HostNicks(x, s) = IF s = sid THEN HostNicks(sh, sid) \ {n}
                                          ELSE HostNicks(sh, s)
    BY <2>1, NoSidAssumption DEF HostNicks, Share
  <2>3. \A s \in Sids : IsFiniteSet(HostNicks(sh, s))
    BY DEF FewNames
  <2>4. /\ IsFiniteSet(HostNicks(sh, sid) \ {n})
        /\ Cardinality(HostNicks(sh, sid) \ {n}) = Cardinality(HostNicks(sh, sid)) - 1
        /\ Cardinality(HostNicks(sh, sid)) \in Nat
    BY <2>1, <2>3, FS_RemoveElement, FS_CardinalityType
  <2>5. FewNames(x)
    BY <2>2, <2>3, <2>4 DEF FewNames
  <2>6. HostNicks(x, sid) = HostNicks(sh, sid) \ {n}
        /\ \A s \in Sids \ {sid} : HostNicks(x, s) = HostNicks(sh, s)
    BY <2>2
  <2> QED BY <1>2, <2>4, <2>5, <2>6
<1> QED BY <1>1, <1>2

\* A session that a share shows has an entry there, one that it does not show
\* has none in a group.
LEMMA ExposedNeeds ==
  ASSUME NEW sh \in Share, FewNames(sh), NEW s \in Sids
  PROVE  /\ Needed(sh, s) \in Nat
         /\ s \in Exposed(sh) => Needed(sh, s) >= 1
         /\ sh.type = "group" /\ s \notin Exposed(sh) => HostNicks(sh, s) = {}
<1>1. IsFiniteSet(HostNicks(sh, s)) /\ Cardinality(HostNicks(sh, s)) \in Nat
  BY FS_CardinalityType DEF FewNames
<1>2. sh.type # "solo" /\ s \in Exposed(sh) => HostNicks(sh, s) # {}
  BY DEF Exposed, HostsOf, HostNicks
<1>3. Cardinality(HostNicks(sh, s)) = 0 <=> HostNicks(sh, s) = {}
  BY <1>1, FS_EmptySet
<1>4. sh.type = "group" /\ s \notin Exposed(sh) => HostNicks(sh, s) = {}
  BY NoSidAssumption DEF Exposed, HostsOf, HostNicks
<1>5. Needed(sh, s) \in Nat
  BY <1>1 DEF Needed
<1>6. s \in Exposed(sh) => Needed(sh, s) >= 1
  BY <1>1, <1>2, <1>3 DEF Needed
<1> QED BY <1>4, <1>5, <1>6

------------------------------------------------------------------------------
(* Entries that last *)

\* What is stored with its deadline ahead is kept until then.
LEMMA AheadWrite ==
  ASSUME NEW S, Absent \notin EntryOf(S), NEW v \in S, NEW d \in Nat, NEW t \in Nat,
         Ahead(d, t)
  PROVE  /\ Write(v, d, t).val = v /\ Write(v, d, t).exp = d
         /\ Live(Write(v, d, t), t)
<1>1. Write(v, d, t) \in EntryOf(S)
  BY WriteType
<1>2. Write(v, d, t) = [val |-> v, exp |-> d]
  BY DEF Write, StoredExpiry, Ahead
<1> QED BY <1>1, <1>2, NeverAssumption DEF Live, Alive, Ahead

\* What is found and was kept until its end has that end ahead.
LEMMA LiveAhead ==
  ASSUME NEW e, NEW t \in Nat, e.exp \in Nat, Live(e, t)
  PROVE  Ahead(e.exp, t)
BY NeverAssumption DEF Live, Alive, Ahead

\* Time makes nothing appear.
LEMMA LiveEarlier ==
  ASSUME NEW e, NEW t \in Nat, e.exp \in Expiry, Live(e, t + 1)
  PROVE  Live(e, t)
BY NeverAssumption DEF Live, Alive, Expiry

\* Entries that end together are found together.
LEMMA LiveTogether ==
  ASSUME NEW e, NEW g, NEW t, e # Absent, Live(g, t), e.exp = g.exp
  PROVE  Live(e, t)
BY DEF Live, Alive

------------------------------------------------------------------------------
(* The list of a request *)

\* Away from the PIN's save, the list is the session's copy of the targets.
LEMMA ListedTargets ==
  ASSUME NEW f, f.sess.targets \in Seq(Links), f.op # "stopAll", f.pc # "setPin", NEW l
  PROVE  Listed(f, l) = Count(f.sess.targets, l)
<1>1. Count(f.sess.targets, l) \in Nat
  BY CountType
<1> QED BY <1>1 DEF Listed

\* While the PIN is saved, the share's link is as good as on the list, or off it.
LEMMA ListedPin ==
  ASSUME NEW f, f.sess.targets \in Seq(Links), f.op # "stopAll", f.pc = "setPin", NEW l
  PROVE  Listed(f, l) = Count(f.sess.targets, l)
            + (IF f.link = l THEN IF f.op = "stopLink" THEN -1 ELSE 1 ELSE 0)
BY CountType DEF Listed

\* In a stop of all shares it is the target in progress and those to come.
LEMMA ListedTodo ==
  ASSUME NEW f, f.todo \in Seq(Links), f.op = "stopAll", NEW l
  PROVE  /\ Listed(f, l) \in Nat
         /\ f.pc \in InTarget => Listed(f, l) = Count(f.todo, l) + (IF f.link = l THEN 1 ELSE 0)
         /\ f.pc \notin InTarget => Listed(f, l) = Count(f.todo, l)
<1>1. Count(f.todo, l) \in Nat
  BY CountType
<1> QED BY <1>1 DEF Listed

\* The next of all targets is taken from those to come.
LEMMA StopAllListed ==
  ASSUME NEW f \in Frame, f.op = "stopAll", NEW l
  PROVE  /\ NextTarget(f).op = "stopAll" /\ NextTarget(f).todo \in Seq(Links)
         /\ Listed(NextTarget(f), l) >= Count(f.todo, l)
<1> DEFINE g == NextTarget(f)
<1>1. f.todo \in Seq(Links) /\ Count(f.todo, l) \in Nat
  BY CountType DEF Frame
<1>2. CASE f.todo = <<>>
  <2>1. g = [f EXCEPT !.share = EmptyShare, !.link = NoLink, !.pc = "delSession"]
    BY <1>2 DEF NextTarget
  <2>2. g.op = "stopAll" /\ g.todo = f.todo /\ g.pc \notin InTarget
    BY <2>1 DEF Frame, InTarget
  <2> HIDE DEF g
  <2>3. Listed(g, l) = Count(f.todo, l)
    BY <1>1, <2>2, ListedTodo
  <2> QED BY <1>1, <2>2, <2>3 DEF g
<1>3. CASE f.todo # <<>>
  <2>1. g = [f EXCEPT !.share = EmptyShare, !.link = Head(f.todo),
                      !.pc = "stopType", !.todo = Tail(f.todo)]
    BY <1>3 DEF NextTarget
  <2>2. /\ g.op = "stopAll" /\ g.todo = Tail(f.todo) /\ g.pc \in InTarget
        /\ g.link = Head(f.todo)
    BY <2>1 DEF Frame, InTarget
  <2> HIDE DEF g
  <2>3. Tail(f.todo) \in Seq(Links)
    BY <1>1, <1>3
  <2>4. Listed(g, l) = Count(Tail(f.todo), l) + (IF Head(f.todo) = l THEN 1 ELSE 0)
    BY <2>2, <2>3, ListedTodo
  <2>5. Count(Tail(f.todo), l) + (IF Head(f.todo) = l THEN 1 ELSE 0) >= Count(f.todo, l)
    BY <1>1, <1>3, CountTail
  <2> QED BY <2>2, <2>3, <2>4, <2>5 DEF g
<1> QED BY <1>2, <1>3

\* A stop request that is through with a target has the rest of its list left.
LEMMA NextListed ==
  ASSUME NEW f \in Frame, Stopping(f), f.link \in Links, f.op = "stopLink" => f.link = f.lid,
         f.pc \in InTarget \cup {"setPin"}, NEW l \in Links
  PROVE  /\ f.pc = "setPin" => Listed(NextTarget(f), l) >= Listed(f, l)
         /\ l # f.link => Listed(NextTarget(f), l) >= Listed(f, l)
<1> DEFINE g == NextTarget(f)
<1>0. f.todo \in Seq(Links) /\ f.sess \in Session /\ f.sess.targets \in Seq(Links)
  BY DEF Frame, Session
<1>1. CASE f.op = "stopLink"
  <2>1. g = [f EXCEPT !.share = EmptyShare, !.link = NoLink,
                      !.pc = "saveSession", !.sess = RemoveTarget(f.sess, f.lid)]
    BY <1>1 DEF NextTarget
  <2>2. /\ g.op = "stopLink" /\ g.pc = "saveSession"
        /\ g.sess.targets = RemoveFirst(f.sess.targets, f.lid)
    BY <1>0, <1>1, <2>1 DEF Frame, Session, RemoveTarget
  <2>3. /\ g.sess.targets \in Seq(Links)
        /\ Count(g.sess.targets, l) >= Count(f.sess.targets, l) - (IF f.link = l THEN 1 ELSE 0)
    BY <1>0, <1>1, <2>2, CountRemoveFirst
  <2>4. Count(f.sess.targets, l) \in Nat /\ Count(g.sess.targets, l) \in Nat
    BY <1>0, <2>3, CountType
  <2> HIDE DEF g
  <2>5. Listed(g, l) = Count(g.sess.targets, l)
    BY <2>2, <2>3, ListedTargets
  <2>6. CASE f.pc = "setPin"
    <3>1. Listed(f, l) = Count(f.sess.targets, l) + (IF f.link = l THEN -1 ELSE 0)
      BY <1>0, <1>1, <2>6, ListedPin
    <3> QED BY <2>3, <2>4, <2>5, <3>1 DEF g
  <2>7. CASE f.pc # "setPin"
    <3>1. Listed(f, l) = Count(f.sess.targets, l)
      BY <1>0, <1>1, <2>7, ListedTargets
    <3> QED BY <2>3, <2>4, <2>5, <2>7, <3>1 DEF g
  <2> QED BY <2>6, <2>7
<1>2. CASE f.op = "stopAll"
  <2>1. g.op = "stopAll" /\ g.todo \in Seq(Links) /\ Listed(g, l) >= Count(f.todo, l)
    BY <1>0, <1>2, StopAllListed
  <2>2. /\ f.pc = "setPin" => Listed(f, l) = Count(f.todo, l)
        /\ l # f.link => Listed(f, l) = Count(f.todo, l)
    <3>1. Count(f.todo, l) \in Nat BY <1>0, CountType
    <3> QED BY <1>0, <1>2, <3>1, ListedTodo DEF InTarget
  <2> QED BY <2>1, <2>2
<1> QED BY <1>1, <1>2 DEF Stopping

------------------------------------------------------------------------------
(* Steps of the one request *)

\* What the invariant says of the slot.
LEMMA SeqFacts ==
  ASSUME SeqInv, NEW r \in Reqs
  PROVE  /\ rq[r] \in Frame /\ WellFormed(rq[r]) /\ FrameOK(born, granted, rq[r])
         /\ rq[r].share \in Share /\ rq[r].sess \in Session /\ now \in Nat
         /\ rq[r].todo \in Seq(Links) /\ rq[r].sess.targets \in Seq(Links)
         /\ rq[r].share.exp \in Nat /\ rq[r].sess.exp \in Nat
         /\ FrameSeq(now, sessionKV, locdataKV, groupidKV, stopped, rq[r])
<1>1. rq[r] \in Frame /\ WellFormed(rq[r]) /\ FrameOK(born, granted, rq[r]) /\ now \in Nat
  BY FrameSound DEF SeqInv
<1> QED BY <1>1 DEF SeqInv, Frame, Session, Share

\* What it says of the records that are found.
LEMMA SeqStores ==
  ASSUME SeqInv
  PROVE  /\ \A s \in Sids : Live(sessionKV[s], now) =>
               /\ sessionKV[s] # Absent /\ sessionKV[s].val \in Session
               /\ sessionKV[s].val.targets \in Seq(Links)
               /\ sessionKV[s].exp = sessionKV[s].val.exp
               /\ sessionKV[s].exp \in Nat /\ Within(sessionKV[s].exp, now)
               /\ s \notin stopped
         /\ \A l \in Links : Live(locdataKV[l], now) =>
               /\ locdataKV[l] # Absent /\ locdataKV[l].val \in Share
               /\ FewNames(locdataKV[l].val)
               /\ locdataKV[l].exp = locdataKV[l].val.exp
               /\ locdataKV[l].exp \in Nat /\ Within(locdataKV[l].exp, now)
<1>1. TypeOK /\ now \in Nat /\ ExpiryKept(now, sessionKV, locdataKV)
      /\ StoppedGone(sessionKV, born, stopped)
  BY DEF SeqInv, IInv, TypeInv, StoresSeq, TypeOK
<1>2. ASSUME NEW s \in Sids, Live(sessionKV[s], now)
      PROVE  /\ sessionKV[s] # Absent /\ sessionKV[s].val \in Session
             /\ sessionKV[s].val.targets \in Seq(Links)
             /\ sessionKV[s].exp = sessionKV[s].val.exp
             /\ sessionKV[s].exp \in Nat /\ Within(sessionKV[s].exp, now)
             /\ s \notin stopped
  <2>1. sessionKV[s] \in EntryOf(Session) /\ sessionKV[s] # Absent
    BY <1>1, <1>2, LiveType DEF TypeOK
  <2>2. sessionKV[s].val \in Session
    BY <2>1 DEF EntryOf
  <2>3. sessionKV[s].exp = sessionKV[s].val.exp /\ sessionKV[s].exp <= now + MaxDuration
    BY <1>1, <2>1 DEF ExpiryKept, Kept
  <2>4. sessionKV[s].exp \in Nat /\ sessionKV[s].val.targets \in Seq(Links)
    BY <2>2, <2>3 DEF Session
  <2>5. Ahead(sessionKV[s].exp, now)
    BY <1>1, <1>2, <2>4, LiveAhead
  <2> QED BY <1>1, <2>1, <2>2, <2>3, <2>4, <2>5 DEF Within, StoppedGone
<1>3. ASSUME NEW l \in Links, Live(locdataKV[l], now)
      PROVE  /\ locdataKV[l] # Absent /\ locdataKV[l].val \in Share
             /\ FewNames(locdataKV[l].val)
             /\ locdataKV[l].exp = locdataKV[l].val.exp
             /\ locdataKV[l].exp \in Nat /\ Within(locdataKV[l].exp, now)
  <2>1. locdataKV[l] \in EntryOf(Share) /\ locdataKV[l] # Absent
    BY <1>1, <1>3, LiveType DEF TypeOK
  <2>2. locdataKV[l].val \in Share
    BY <2>1 DEF EntryOf
  <2>3. /\ locdataKV[l].exp = locdataKV[l].val.exp /\ locdataKV[l].exp <= now + MaxDuration
        /\ FewNames(locdataKV[l].val)
    BY <1>1, <2>1 DEF ExpiryKept, Kept
  <2>4. locdataKV[l].exp \in Nat
    BY <2>2, <2>3 DEF Share
  <2>5. Ahead(locdataKV[l].exp, now)
    BY <1>1, <1>3, <2>4, LiveAhead
  <2> QED BY <2>1, <2>2, <2>3, <2>4, <2>5 DEF Within
<1> QED BY <1>2, <1>3

\* A share that shows a session has an entry for it.
LEMMA ShowsNeeds ==
  ASSUME SeqInv, NEW l \in Links, NEW s \in Sids, Shows(locdataKV[l], now, s)
  PROVE  Needed(locdataKV[l].val, s) \in Nat /\ Needed(locdataKV[l].val, s) >= 1
<1>1. locdataKV[l].val \in Share /\ FewNames(locdataKV[l].val)
  BY SeqStores DEF Shows
<1> QED BY <1>1, ExposedNeeds DEF Shows

\* With one slot the new frame is all there is to say of the requests.
LEMMA SeqStep ==
  ASSUME OneAtATime, IInv, IInv', NEW r \in Reqs, NEW f, Goto(r, f), StoresSeq',
         FrameSeq(now', sessionKV', locdataKV', groupidKV', stopped', f)
  PROVE  SeqInv'
<1>1. \A q \in Reqs : rq'[q] = f
  BY DEF OneAtATime, IInv, TypeInv, TypeOK
<1> QED BY <1>1 DEF SeqInv

\* A step that stores nothing: the births it may record are new.
LEMMA StoresStay ==
  ASSUME StoresSeq, UNCHANGED <<now, sessionKV, locdataKV, groupidKV, stopped>>,
         \A s \in Sids : born[s] # Absent => born'[s] # Absent, stopped \subseteq Sids
  PROVE  StoresSeq'
BY DEF StoresSeq, StoppedGone

\* A request goes on without a change of the stores.
LEMMA SeqContinue ==
  ASSUME OneAtATime, SeqInv, IInv', NEW r \in Reqs, NEW f, Goto(r, f),
         UNCHANGED <<now, stores, born, stopped>>,
         rq[r].pc # "idle", f.pc # "idle", f.op = rq[r].op, f.sid = rq[r].sid,
         RequestSeq(now, sessionKV, locdataKV, groupidKV, stopped, f)
  PROVE  SeqInv'
<1>1. UNCHANGED <<now, sessionKV, locdataKV, groupidKV, stopped, born>>
  BY DEF stores
<1>2. StoresSeq'
  BY <1>1, StoresStay DEF SeqInv, IInv, TypeInv, TypeOK
<1>3. FrameSeq(now, sessionKV, locdataKV, groupidKV, stopped, rq[r])
  BY SeqFacts
<1>4. FrameSeq(now, sessionKV, locdataKV, groupidKV, stopped, f)
  BY <1>3 DEF FrameSeq, StoredCover, ShownKnown, Creating
<1>5. FrameSeq(now', sessionKV', locdataKV', groupidKV', stopped', f)
  BY <1>1, <1>4
<1> QED BY <1>2, <1>5, SeqStep DEF SeqInv

\* A request arrives.
LEMMA SeqArrive ==
  ASSUME OneAtATime, SeqInv, IInv', NEW r \in Reqs, NEW f, Goto(r, f),
         UNCHANGED <<now, stores, stopped>>,
         \A s \in Sids : born[s] # Absent => born'[s] # Absent,
         rq[r].pc = "idle", f.pc # "idle",
         RequestSeq(now, sessionKV, locdataKV, groupidKV, stopped, f)
  PROVE  SeqInv'
<1>1. UNCHANGED <<now, sessionKV, locdataKV, groupidKV, stopped>>
  BY DEF stores
<1>2. StoresSeq'
  BY <1>1, StoresStay DEF SeqInv, IInv, TypeInv, TypeOK
<1>3. FrameSeq(now, sessionKV, locdataKV, groupidKV, stopped, rq[r])
  BY SeqFacts
<1>4. rq[r].op = "none"
  BY <1>3 DEF FrameSeq, Idle
<1>5. FrameSeq(now, sessionKV, locdataKV, groupidKV, stopped, f)
  BY <1>3, <1>4 DEF FrameSeq, StoredCover, ShownKnown, Creating
<1>6. FrameSeq(now', sessionKV', locdataKV', groupidKV', stopped', f)
  BY <1>1, <1>5
<1> QED BY <1>2, <1>6, SeqStep DEF SeqInv

\* A join or an adoption is turned away: nothing shows the session of a join,
\* and that of an adoption is stored as it was loaded.
LEMMA SeqTurnedAway ==
  ASSUME OneAtATime, SeqInv, IInv', NEW r \in Reqs, Answer(r),
         UNCHANGED <<now, stores, born, stopped>>,
         rq[r].pc \in {"adoptType", "adoptShare", "getPin", "getGroup"}
  PROVE  SeqInv'
<1> DEFINE g == rq[r]
<1>1. UNCHANGED <<now, sessionKV, locdataKV, groupidKV, stopped, born>>
  BY DEF stores
<1>2. StoresSeq'
  BY <1>1, StoresStay DEF SeqInv, IInv, TypeInv, TypeOK
<1>3. /\ FrameSeq(now, sessionKV, locdataKV, groupidKV, stopped, g)
      /\ g.op \in {"join", "adopt"} /\ g.sid \in Sids /\ g.pc # "idle"
      /\ g.pc # "setPin" /\ g.pc # "saveSession"
  BY SeqFacts DEF WellFormed
<1> HIDE DEF g
<1>4. /\ CallerKnown(now, sessionKV, stopped, g) /\ FrameCovers(now, locdataKV, g)
      /\ StoredCover(now, sessionKV, locdataKV, g) /\ ShownKnown(now, sessionKV, locdataKV, g)
  BY <1>3 DEF FrameSeq, RequestSeq
<1>5. \A l \in Links : Listed(g, l) = Count(g.sess.targets, l)
  <2>1. g.sess.targets \in Seq(Links)
    BY SeqFacts DEF g
  <2> QED BY <1>3, <2>1, ListedTargets
<1>6. ASSUME g.op = "join" PROVE \A l \in Links : ~Shows(locdataKV[l], now, g.sid)
  <2>1. g.sess.targets = <<>>
    BY <1>3, <1>4, <1>6 DEF CallerKnown, Creating
  <2>2. \A l \in Links : Listed(g, l) = 0
    BY <1>5, <2>1, CountEmpty
  <2>3. ASSUME NEW l \in Links, Shows(locdataKV[l], now, g.sid) PROVE FALSE
    <3>1. Needed(locdataKV[l].val, g.sid) <= 0
      BY <1>4, <2>2, <2>3 DEF FrameCovers
    <3>2. Needed(locdataKV[l].val, g.sid) >= 1
      BY <1>3, <2>3, ShowsNeeds
    <3>3. Needed(locdataKV[l].val, g.sid) \in Nat
      BY <1>3, <2>3, ShowsNeeds
    <3> QED BY <3>1, <3>2, <3>3
  <2> QED BY <2>3
<1>7. ASSUME g.op = "adopt" PROVE g.sess = sessionKV[g.sid].val
  BY <1>4, <1>7 DEF CallerKnown, g
<1>8. g.op = "join" => sessionKV[g.sid] = Absent
  BY <1>4 DEF CallerKnown, Creating
<1>9. StoredCover(now, sessionKV, locdataKV, Idle)
  <2> SUFFICES ASSUME NEW s \in Sids, Live(sessionKV[s], now), NEW l \in Links,
                      Shows(locdataKV[l], now, s)
               PROVE  Needed(locdataKV[l].val, s) <= Count(sessionKV[s].val.targets, l)
    BY DEF StoredCover
  <2>1. CASE s # g.sid
    BY <1>4, <2>1 DEF StoredCover
  <2>2. CASE s = g.sid /\ g.op = "adopt"
    BY <1>4, <1>5, <1>7, <2>2 DEF FrameCovers
  <2>3. CASE s = g.sid /\ g.op = "join"
    BY <1>6, <2>3
  <2> QED BY <1>3, <2>1, <2>2, <2>3
<1>10. ShownKnown(now, sessionKV, locdataKV, Idle)
  BY <1>3, <1>4, <1>6 DEF ShownKnown, Creating
<1>11. FrameSeq(now, sessionKV, locdataKV, groupidKV, stopped, Idle)
  BY <1>9, <1>10, IdleFrame DEF FrameSeq
<1>12. FrameSeq(now', sessionKV', locdataKV', groupidKV', stopped', Idle)
  BY <1>1, <1>11
<1> QED BY <1>2, <1>12, SeqStep DEF SeqInv

------------------------------------------------------------------------------
(* Arrivals *)

\* A session that was never created is unknown to the stores.
LEMMA UnbornUnknown ==
  ASSUME SeqInv, NEW r \in Reqs, rq[r].pc = "idle", NEW s \in Sids, born[s] = Absent
  PROVE  /\ sessionKV[s] = Absent /\ s \notin stopped
         /\ \A l \in Links : ~Shows(locdataKV[l], now, s)
<1>1. sessionKV[s] = Absent
  BY DEF SeqInv, IInv, StoresOK, SessionOK
<1>2. s \notin stopped
  BY DEF SeqInv, StoresSeq, StoppedGone
<1>3. ShownKnown(now, sessionKV, locdataKV, rq[r]) /\ rq[r] = Idle
  BY SeqFacts DEF FrameSeq
<1>4. ~Creating(rq[r])
  BY <1>3 DEF Idle, Creating
<1> QED BY <1>1, <1>2, <1>3, <1>4 DEF ShownKnown

\* Shares that nobody is a member of.
LEMMA NoFewNames ==
  ASSUME NEW sh, sh.hosts = NoHosts
  PROVE  FewNames(sh)
<1>1. \A s \in Sids : HostNicks(sh, s) = {}
  BY NoSidAssumption DEF HostNicks, NoHosts
<1> QED BY <1>1, FS_EmptySet DEF FewNames

LEMMA SoloFewNames ==
  ASSUME NEW s, NEW e, NEW ado PROVE FewNames(SoloShare(s, e, ado))
BY NoFewNames DEF SoloShare

LEMMA GroupFewNames == ASSUME NEW e, NEW p PROVE FewNames(GroupShare(e, p))
BY NoFewNames DEF GroupShare

\* The requests that create a session.
LEMMA SeqCreate ==
  ASSUME OneAtATime, SeqInv, IInv', NEW r \in Reqs, NEW mode \in {"solo", "group", "join"},
         NEW s \in Sids, NEW f \in Frame,
         f.pc = IF mode = "join" THEN "getPin" ELSE "genLink",
         mode = "join" => f.nick \in Nicks,
         mode # "join" => FewNames(f.share),
         mode = "solo" => f.share.type = "solo" /\ f.share.host = s,
         mode = "group" =>
           \E n \in Nicks, p \in Pins : f.share = AddHost(GroupShare(0, p), n, s),
         Create(r, mode, s, f)
  PROVE  SeqInv'
<1>1. PICK d \in Durations, i \in Intervals, enc \in Encrypted :
        /\ CreateValid(mode, d, i, enc)
        /\ born' = [born EXCEPT ![s] = [exp |-> now + d, enc |-> enc]]
        /\ Goto(r, [f EXCEPT !.op = mode, !.sid = s,
                      !.sess = NewSession(now + d, i, enc), !.share.exp = now + d])
  BY DEF Create
<1> DEFINE u == now + d
           g == [f EXCEPT !.op = mode, !.sid = s, !.sess = NewSession(u, i, enc),
                          !.share.exp = u]
<1>2. now \in Nat /\ u \in Nat /\ d > 0 /\ d <= MaxDuration /\ enc \in BOOLEAN
  BY <1>1, DurationsAssumption, FlagsAssumption DEF CreateValid, SeqInv, IInv, TypeInv, TypeOK
<1>3. Within(u, now)
  BY <1>2, LimitsAssumption, DurationsAssumption DEF Within, Ahead
<1>4. /\ born[s] = Absent /\ UNCHANGED <<now, stores, granted, stopped>> /\ rq[r].pc = "idle"
  BY DEF Create
<1>5. /\ sessionKV[s] = Absent /\ s \notin stopped
      /\ \A l \in Links : ~Shows(locdataKV[l], now, s)
  BY <1>4, UnbornUnknown
<1>6. \A x \in Sids : born[x] # Absent => born'[x] # Absent
  <2>1. [exp |-> u, enc |-> enc] # Absent
    BY <1>2, AbsentAssumption
  <2> QED BY <1>1, <2>1 DEF SeqInv, IInv, TypeInv, TypeOK
<1>7. /\ g.pc = f.pc /\ g.op = mode /\ g.sid = s /\ g.nick = f.nick
      /\ g.sess.exp = u /\ g.sess.targets = <<>>
      /\ g.share = [f.share EXCEPT !.exp = u]
  BY DEF Frame, NewSession
<1>8. f.share \in Share
  BY DEF Frame
<1>9. Goto(r, g)
  BY <1>1
<1> HIDE DEF g, u
<1>10. CallerKnown(now, sessionKV, stopped, g)
  BY <1>3, <1>5, <1>7 DEF CallerKnown, Creating, InTarget, Stopping
<1>11. mode # "join" => ShareMade(now, g)
  <2>1. g.share.exp = u /\ g.share.type = f.share.type /\ g.share.host = f.share.host
        /\ g.share.hosts = f.share.hosts
    BY <1>7, <1>8 DEF Share
  <2>2. mode # "join" => FewNames(g.share)
    BY <2>1 DEF FewNames, HostNicks
  <2>3. mode = "group" => /\ g.share.type = "group"
                          /\ \E n \in Nicks : g.share.hosts = [NoHosts EXCEPT ![n] = s]
    BY <2>1 DEF AddHost, GroupShare
  <2> QED BY <1>3, <1>7, <2>1, <2>2, <2>3 DEF ShareMade
<1>12. ShareFits(now, locdataKV, groupidKV, g)
  BY <1>7, <1>11 DEF ShareFits
<1>13. EntryMade(now, locdataKV, g) /\ FrameCovers(now, locdataKV, g)
  BY <1>5, <1>7 DEF EntryMade, FrameCovers
<1>14. RequestSeq(now, sessionKV, locdataKV, groupidKV, stopped, g)
  BY <1>7, <1>10, <1>12, <1>13 DEF RequestSeq
<1>15. g.pc # "idle"
  BY <1>7
<1> QED BY <1>4, <1>6, <1>9, <1>14, <1>15, SeqArrive

\* What a request that loads the caller's session may rely on.
LEMMA LoadFacts ==
  ASSUME SeqInv, NEW r \in Reqs, rq[r].pc = "idle", NEW s \in Sids, Live(sessionKV[s], now)
  PROVE  /\ sessionKV[s].val \in Session /\ sessionKV[s].val.targets \in Seq(Links)
         /\ s \notin stopped /\ Within(sessionKV[s].val.exp, now)
         /\ \A l \in Links : Shows(locdataKV[l], now, s) =>
               Needed(locdataKV[l].val, s) <= Count(sessionKV[s].val.targets, l)
<1>1. StoredCover(now, sessionKV, locdataKV, rq[r])
  BY SeqFacts DEF FrameSeq
<1> QED BY <1>1, SeqStores DEF StoredCover

\* The requests that begin with the caller's session and go on with it.
LEMMA SeqLoad ==
  ASSUME OneAtATime, SeqInv, IInv', NEW r \in Reqs, rq[r].pc = "idle",
         NEW s \in Sids, Live(sessionKV[s], now),
         NEW f, Goto(r, f), UNCHANGED <<now, stores, history>>,
         f.sid = s, f.op \in {"post", "newLink", "adopt", "stopLink"},
         f.pc \in {"saveSession", "genLink", "adoptType", "stopType"},
         f.sess.exp = sessionKV[s].val.exp, f.sess.targets = sessionKV[s].val.targets,
         f.pc = "adoptType" => f.nick \in Nicks /\ f.sess = sessionKV[s].val,
         f.op = "stopLink" => f.link = f.lid, f.op = "post" => f.pc = "saveSession",
         f.pc = "genLink" => f.op = "newLink" /\ ShareMade(now, f)
  PROVE  SeqInv'
<1>1. /\ s \notin stopped /\ Within(f.sess.exp, now) /\ f.sess.targets \in Seq(Links)
      /\ \A l \in Links : Shows(locdataKV[l], now, s) =>
            Needed(locdataKV[l].val, s) <= Count(f.sess.targets, l)
  BY LoadFacts
<1>2. CallerKnown(now, sessionKV, stopped, f)
  BY <1>1 DEF CallerKnown, Creating
<1>3. ShareFits(now, locdataKV, groupidKV, f) /\ EntryMade(now, locdataKV, f)
  BY DEF ShareFits, EntryMade, Creating
<1>4. \A l \in Links : Listed(f, l) = Count(f.sess.targets, l)
  BY <1>1, ListedTargets
<1>5. FrameCovers(now, locdataKV, f)
  BY <1>1, <1>4 DEF FrameCovers
<1>6. RequestSeq(now, sessionKV, locdataKV, groupidKV, stopped, f)
  BY <1>2, <1>3, <1>5 DEF RequestSeq
<1>7. f.pc # "idle" /\ UNCHANGED <<now, stores, stopped>>
      /\ \A x \in Sids : born[x] # Absent => born'[x] # Absent
  BY DEF history
<1> QED BY <1>6, <1>7, SeqArrive

\* Where a stop of all shares is after one target.
LEMMA StopAllNextPc ==
  ASSUME NEW f \in Frame, f.op = "stopAll"
  PROVE  LET g == NextTarget(f)
         IN  /\ g.op = "stopAll" /\ g.sid = f.sid /\ g.todo \in Seq(Links)
             /\ g.pc = "stopType" \/ (g.pc = "delSession" /\ g.todo = <<>>)
<1>1. CASE f.todo = <<>>
  <2>1. NextTarget(f) = [f EXCEPT !.share = EmptyShare, !.link = NoLink, !.pc = "delSession"]
    BY <1>1 DEF NextTarget
  <2> QED BY <1>1, <2>1 DEF Frame
<1>2. CASE f.todo # <<>>
  <2>1. NextTarget(f) = [f EXCEPT !.share = EmptyShare, !.link = Head(f.todo),
                           !.pc = "stopType", !.todo = Tail(f.todo)]
    BY <1>2 DEF NextTarget
  <2>2. Tail(f.todo) \in Seq(Links)
    BY <1>2 DEF Frame
  <2> QED BY <2>1, <2>2 DEF Frame
<1> QED BY <1>1, <1>2

\* It relies on the targets to come and on the session being there.
LEMMA StopAllNextSeq ==
  ASSUME NEW t, NEW ses, NEW loc, NEW gid, NEW st, NEW f \in Frame, f.op = "stopAll",
         f.sid \notin st, Live(ses[f.sid], t),
         \A l \in Links : Shows(loc[l], t, f.sid) =>
            /\ Needed(loc[l].val, f.sid) \in Int
            /\ Needed(loc[l].val, f.sid) <= Count(f.todo, l)
  PROVE  RequestSeq(t, ses, loc, gid, st, NextTarget(f))
<1> DEFINE g == NextTarget(f)
<1>1. /\ g.op = "stopAll" /\ g.sid = f.sid /\ g.todo \in Seq(Links)
      /\ g.pc = "stopType" \/ (g.pc = "delSession" /\ g.todo = <<>>)
  BY StopAllNextPc
<1>2. \A l \in Links : Listed(g, l) >= Count(f.todo, l)
  BY StopAllListed
<1>3. \A l \in Links : Count(f.todo, l) \in Nat /\ Listed(g, l) \in Nat
  <2>1. f.todo \in Seq(Links) BY DEF Frame
  <2> HIDE DEF g
  <2> QED BY <1>1, <2>1, CountType, ListedTodo
<1> HIDE DEF g
<1>4. FrameCovers(t, loc, g)
  BY <1>1, <1>2, <1>3 DEF FrameCovers
<1>5. CallerKnown(t, ses, st, g)
  BY <1>1 DEF CallerKnown, Creating
<1>6. ShareFits(t, loc, gid, g) /\ EntryMade(t, loc, g)
  BY <1>1 DEF ShareFits, EntryMade, Creating
<1>7. RequestSeq(t, ses, loc, gid, st, g)
  BY <1>1, <1>4, <1>5, <1>6 DEF RequestSeq
<1> QED BY <1>7 DEF g

\* A request arrives: with a new session, or with the caller's own.
LEMMA SeqBegin ==
  ASSUME OneAtATime, SeqInv, IInv', NEW r \in Reqs, Begin(r)
  PROVE  SeqInv'
<1>0. rq[r].pc = "idle"
  BY DEF Begin, BeginSolo, BeginGroup, BeginJoin, BeginPost, BeginNewLink, BeginAdopt,
         BeginStopLink, BeginStopAll, Create, Load
<1>1. CASE BeginSolo(r)
  <2>1. PICK s \in Sids, ado \in Adoptable, lid \in CustomLinks :
          Create(r, "solo", s, [Idle EXCEPT !.pc = "genLink", !.lid = lid,
                                            !.share = SoloShare(s, 0, ado)])
    BY <1>1 DEF BeginSolo
  <2> DEFINE f == [Idle EXCEPT !.pc = "genLink", !.lid = lid, !.share = SoloShare(s, 0, ado)]
  <2>2. SoloShare(s, 0, ado) \in Share
    BY FlagsAssumption DEF SoloShare, Share, NoHosts
  <2>3. f \in Frame /\ f.pc = "genLink" /\ f.share = SoloShare(s, 0, ado)
    BY <2>2, IdleFrame DEF Frame, Pcs, CustomLinks
  <2>4. f.share.type = "solo" /\ f.share.host = s /\ FewNames(f.share)
    BY <2>3, SoloFewNames DEF SoloShare
  <2> HIDE DEF f
  <2>5. Create(r, "solo", s, f) BY <2>1 DEF f
  <2> QED BY <2>3, <2>4, <2>5, SeqCreate
<1>2. CASE BeginGroup(r)
  <2>1. PICK s \in Sids, n \in Nicks, p \in Pins, lid \in CustomLinks :
          Create(r, "group", s, [Idle EXCEPT !.pc = "genLink", !.lid = lid,
                                   !.share = AddHost(GroupShare(0, p), n, s)])
    BY <1>2 DEF BeginGroup
  <2> DEFINE sh == AddHost(GroupShare(0, p), n, s)
             f == [Idle EXCEPT !.pc = "genLink", !.lid = lid, !.share = sh]
  <2>2. GroupShare(0, p) \in Share /\ FewNames(GroupShare(0, p))
    BY NewShareType, GroupFewNames
  <2>3. sh \in Share /\ FewNames(sh)
    BY <2>2, AddHostProperties, AddHostNames
  <2> HIDE DEF sh
  <2>4. f \in Frame /\ f.pc = "genLink" /\ f.share = sh
    BY <2>3, IdleFrame DEF Frame, Pcs, CustomLinks
  <2> HIDE DEF f
  <2>5. Create(r, "group", s, f) BY <2>1 DEF f, sh
  <2>6. f.share = AddHost(GroupShare(0, p), n, s)
    BY <2>4 DEF sh
  <2> QED BY <2>3, <2>4, <2>5, <2>6, SeqCreate
<1>3. CASE BeginJoin(r)
  <2>1. PICK s \in Sids, n \in Nicks, p \in Pins :
          Create(r, "join", s, [Idle EXCEPT !.pc = "getPin", !.nick = n, !.pin = p])
    BY <1>3 DEF BeginJoin
  <2> DEFINE f == [Idle EXCEPT !.pc = "getPin", !.nick = n, !.pin = p]
  <2>2. f \in Frame /\ f.pc = "getPin" /\ f.nick \in Nicks
    BY IdleFrame DEF Frame, Pcs
  <2> HIDE DEF f
  <2>3. Create(r, "join", s, f) BY <2>1 DEF f
  <2> QED BY <2>2, <2>3, SeqCreate
<1>4. CASE BeginPost(r)
  <2>1. PICK s \in Sids, p \in Points :
          /\ Live(sessionKV[s], now)
          /\ Goto(r, [Request("post", s, AddPoint(sessionKV[s].val, p))
                        EXCEPT !.pc = "saveSession"])
          /\ UNCHANGED <<now, stores, history>>
    BY <1>4 DEF BeginPost, Load
  <2> DEFINE f == [Request("post", s, AddPoint(sessionKV[s].val, p))
                     EXCEPT !.pc = "saveSession"]
  <2>2. /\ f.pc = "saveSession" /\ f.op = "post" /\ f.sid = s
        /\ f.sess = AddPoint(sessionKV[s].val, p)
    BY DEF Request, Idle
  <2>3. f.sess.exp = sessionKV[s].val.exp /\ f.sess.targets = sessionKV[s].val.targets
    BY <2>1, <2>2, SeqStores, AddPointProperties
  <2>4. Goto(r, f) BY <2>1
  <2> HIDE DEF f
  <2> QED BY <1>0, <2>1, <2>2, <2>3, <2>4, SeqLoad
<1>5. CASE BeginNewLink(r)
  <2>1. PICK s \in Sids, ado \in Adoptable :
          /\ Live(sessionKV[s], now)
          /\ Goto(r, [Request("newLink", s, sessionKV[s].val)
                        EXCEPT !.pc = "genLink", !.share = NewLinkShare(s, ado)])
          /\ UNCHANGED <<now, stores, history>>
    BY <1>5 DEF BeginNewLink, Load
  <2> DEFINE f == [Request("newLink", s, sessionKV[s].val)
                     EXCEPT !.pc = "genLink", !.share = NewLinkShare(s, ado)]
  <2>2. /\ f.pc = "genLink" /\ f.op = "newLink" /\ f.sid = s
        /\ f.sess = sessionKV[s].val /\ f.share = NewLinkShare(s, ado)
    BY DEF Request, Idle
  <2>4. Goto(r, f) BY <2>1
  <2> HIDE DEF f
  <2>3. ShareMade(now, f)
    <3>1. Within(f.share.exp, now)
      BY <1>0, <2>1, <2>2, LoadFacts DEF NewLinkShare, SoloShare
    <3>2. FewNames(f.share) /\ f.share.type = "solo" /\ f.share.host = s
      BY <2>2, SoloFewNames DEF NewLinkShare, SoloShare
    <3> QED BY <2>2, <3>1, <3>2 DEF ShareMade
  <2> QED BY <1>0, <2>1, <2>2, <2>3, <2>4, SeqLoad
<1>6. CASE BeginAdopt(r)
  <2>1. PICK s \in Sids, l \in Links, n \in Nicks, p \in Pins :
          /\ Live(sessionKV[s], now)
          /\ Goto(r, [Request("adopt", s, sessionKV[s].val)
                        EXCEPT !.pc = "adoptType", !.lid = l, !.nick = n, !.pin = p])
          /\ UNCHANGED <<now, stores, history>>
    BY <1>6 DEF BeginAdopt, Load
  <2> DEFINE f == [Request("adopt", s, sessionKV[s].val)
                     EXCEPT !.pc = "adoptType", !.lid = l, !.nick = n, !.pin = p]
  <2>2. /\ f.pc = "adoptType" /\ f.op = "adopt" /\ f.sid = s
        /\ f.sess = sessionKV[s].val /\ f.nick = n
    BY DEF Request, Idle
  <2>3. Goto(r, f) BY <2>1
  <2> HIDE DEF f
  <2> QED BY <1>0, <2>1, <2>2, <2>3, SeqLoad
<1>7. CASE BeginStopLink(r)
  <2>1. PICK s \in Sids, l \in Links :
          /\ Live(sessionKV[s], now)
          /\ Goto(r, [Request("stopLink", s, sessionKV[s].val)
                        EXCEPT !.pc = "stopType", !.lid = l, !.link = l])
          /\ UNCHANGED <<now, stores, history>>
    BY <1>7 DEF BeginStopLink, Load
  <2> DEFINE f == [Request("stopLink", s, sessionKV[s].val)
                     EXCEPT !.pc = "stopType", !.lid = l, !.link = l]
  <2>2. /\ f.pc = "stopType" /\ f.op = "stopLink" /\ f.sid = s
        /\ f.sess = sessionKV[s].val /\ f.link = f.lid
    BY DEF Request, Idle
  <2>3. Goto(r, f) BY <2>1
  <2> HIDE DEF f
  <2> QED BY <1>0, <2>1, <2>2, <2>3, SeqLoad
<1>8. CASE BeginStopAll(r)
  <2>1. PICK s \in Sids :
          /\ Live(sessionKV[s], now)
          /\ Goto(r, NextTarget([Request("stopAll", s, EmptySession)
                                   EXCEPT !.todo = sessionKV[s].val.targets]))
          /\ UNCHANGED <<now, stores, history>>
    BY <1>8 DEF BeginStopAll, Load
  <2> DEFINE f == [Request("stopAll", s, EmptySession) EXCEPT !.todo = sessionKV[s].val.targets]
  <2>2. f \in Frame /\ f.op = "stopAll" /\ f.sid = s /\ f.todo = sessionKV[s].val.targets
    <3>1. EmptySession \in Session
      BY NewSessionType DEF EmptySession
    <3>2. sessionKV[s].val.targets \in Seq(Links)
      BY <2>1, SeqStores
    <3> QED BY <3>1, <3>2, IdleFrame DEF Request, Frame, Ops
  <2>3. Goto(r, NextTarget(f)) BY <2>1
  <2> HIDE DEF f
  <2>4. RequestSeq(now, sessionKV, locdataKV, groupidKV, stopped, NextTarget(f))
    <3>1. /\ s \notin stopped
          /\ \A l \in Links : Shows(locdataKV[l], now, s) =>
                Needed(locdataKV[l].val, s) <= Count(f.todo, l)
      BY <1>0, <2>1, <2>2, LoadFacts
    <3>2. Live(sessionKV[f.sid], now) /\ f.sid \notin stopped
          /\ \A l \in Links : Shows(locdataKV[l], now, f.sid) =>
                /\ Needed(locdataKV[l].val, f.sid) \in Int
                /\ Needed(locdataKV[l].val, f.sid) <= Count(f.todo, l)
      BY <2>1, <2>2, <3>1, ShowsNeeds
    <3> QED BY <2>2, <3>2, StopAllNextSeq
  <2>5. NextTarget(f).pc # "idle" /\ UNCHANGED <<now, stores, stopped>>
        /\ \A x \in Sids : born[x] # Absent => born'[x] # Absent
    BY <2>1, <2>2, StopAllNextPc DEF history
  <2> QED BY <1>0, <2>3, <2>4, <2>5, SeqArrive
<1> QED BY <1>1, <1>2, <1>3, <1>4, <1>5, <1>6, <1>7, <1>8 DEF Begin

------------------------------------------------------------------------------
(* Steps that only load *)

\* What the invariant says of a request in flight.
LEMMA BusyFacts ==
  ASSUME SeqInv, NEW r \in Reqs, rq[r].pc # "idle"
  PROVE  /\ rq[r].sid \in Sids /\ rq[r].op # "none"
         /\ rq[r].op = "post" => rq[r].pc = "saveSession"
         /\ CallerKnown(now, sessionKV, stopped, rq[r])
         /\ rq[r].pc \in {"getPin", "getGroup", "adoptType", "adoptShare"} => rq[r].nick \in Nicks
         /\ ShareFits(now, locdataKV, groupidKV, rq[r])
         /\ EntryMade(now, locdataKV, rq[r])
         /\ FrameCovers(now, locdataKV, rq[r])
         /\ StoredCover(now, sessionKV, locdataKV, rq[r])
         /\ ShownKnown(now, sessionKV, locdataKV, rq[r])
BY SeqFacts DEF FrameSeq, RequestSeq, WellFormed

\* The list of a request that moves on in its program only.
LEMMA ListedSame ==
  ASSUME NEW f, NEW g, g.op = f.op, g.sess = f.sess, g.todo = f.todo,
         f.pc # "setPin", g.pc # "setPin",
         f.op = "stopAll" => g.link = f.link /\ f.pc \in InTarget /\ g.pc \in InTarget,
         NEW l
  PROVE  Listed(g, l) = Listed(f, l)
BY DEF Listed

\* What covers the caller's entries goes on covering them.
LEMMA CoversSame ==
  ASSUME NEW f, NEW g, g.op = f.op, g.sid = f.sid, g.sess = f.sess, g.todo = f.todo,
         f.pc # "setPin", g.pc # "setPin",
         f.op = "stopAll" => g.link = f.link /\ f.pc \in InTarget /\ g.pc \in InTarget,
         NEW t, NEW loc, FrameCovers(t, loc, f)
  PROVE  FrameCovers(t, loc, g)
<1>1. \A l \in Links : Listed(g, l) = Listed(f, l)
  BY ListedSame
<1> QED BY <1>1 DEF FrameCovers

\* A link is settled: nothing live is under it.
LEMMA SeqLink ==
  ASSUME OneAtATime, SeqInv, IInv', NEW r \in Reqs, GenLink(r) \/ TryLink(r)
  PROVE  SeqInv'
<1> DEFINE f == rq[r]
<1>1. f \in Frame /\ WellFormed(f)
  BY SeqFacts
<1>2. f.pc \in {"genLink", "tryLink"} /\ f.op \in {"solo", "group", "newLink"}
  BY <1>1 DEF GenLink, TryLink, WellFormed
<1>3. /\ CallerKnown(now, sessionKV, stopped, f)
      /\ ShareFits(now, locdataKV, groupidKV, f)
      /\ FrameCovers(now, locdataKV, f)
  BY <1>2, BusyFacts
<1>4. ShareMade(now, f)
  BY <1>2, <1>3 DEF ShareFits
<1>5. UNCHANGED <<now, stores, born, stopped>>
  BY DEF GenLink, TryLink
<1>6. \E l \in Links, k \in Links \cup {NoLink}, pc \in {"setShare", "tryLink"} :
        /\ Goto(r, [f EXCEPT !.link = l, !.lid = k, !.pc = pc])
        /\ ~Live(locdataKV[l], now)
  <2>1. CASE GenLink(r)
    <3>1. PICK l \in Links :
            /\ Generated(l)
            /\ Goto(r, [f EXCEPT !.link = l,
                           !.pc = IF f.lid = NoLink THEN "setShare" ELSE "tryLink"])
      BY <2>1 DEF GenLink
    <3>2. [f EXCEPT !.link = l, !.pc = IF f.lid = NoLink THEN "setShare" ELSE "tryLink"]
            = [f EXCEPT !.link = l, !.lid = f.lid,
                        !.pc = IF f.lid = NoLink THEN "setShare" ELSE "tryLink"]
      BY <1>1 DEF Frame
    <3>3. f.lid \in Links \cup {NoLink}
      BY <1>1 DEF Frame
    <3> HIDE DEF f
    <3> QED BY <3>1, <3>2, <3>3 DEF Generated
  <2>2. CASE TryLink(r)
    <3>1. PICK l \in {f.lid, f.link} :
            /\ l = f.lid => ~Live(locdataKV[l], now)
            /\ Goto(r, [f EXCEPT !.link = l, !.lid = NoLink, !.pc = "setShare"])
      BY <2>2 DEF TryLink
    <3>2. f.lid \in Links /\ f.link \in Links /\ ~Live(locdataKV[f.link], now)
      BY <1>1, <1>3, <2>2 DEF TryLink, WellFormed, ShareFits
    <3> QED BY <3>1, <3>2
  <2> QED BY <2>1, <2>2
<1>7. PICK l \in Links, k \in Links \cup {NoLink}, pc \in {"setShare", "tryLink"} :
        /\ Goto(r, [f EXCEPT !.link = l, !.lid = k, !.pc = pc])
        /\ ~Live(locdataKV[l], now)
  BY <1>6
<1> DEFINE g == [f EXCEPT !.link = l, !.lid = k, !.pc = pc]
<1>8. /\ g.pc = pc /\ g.op = f.op /\ g.sid = f.sid /\ g.link = l /\ g.sess = f.sess
      /\ g.share = f.share /\ g.todo = f.todo
  BY <1>1 DEF Frame
<1>9. Goto(r, g)
  BY <1>7
<1> HIDE DEF g
<1>10. CallerKnown(now, sessionKV, stopped, g)
  BY <1>2, <1>3, <1>8 DEF CallerKnown, Creating
<1>11. ShareMade(now, g)
  BY <1>4, <1>8 DEF ShareMade
<1>12. ShareFits(now, locdataKV, groupidKV, g)
  BY <1>2, <1>7, <1>8, <1>11 DEF ShareFits
<1>13. FrameCovers(now, locdataKV, g)
  BY <1>2, <1>3, <1>8, CoversSame
<1>14. RequestSeq(now, sessionKV, locdataKV, groupidKV, stopped, g)
  BY <1>2, <1>8, <1>10, <1>12, <1>13 DEF RequestSeq, EntryMade
<1>15. f.pc # "idle" /\ g.pc # "idle"
  BY <1>2, <1>8
<1> QED BY <1>5, <1>8, <1>9, <1>14, <1>15, SeqContinue

\* An adoption or a join looks for the share and the group.
LEMMA SeqSearch ==
  ASSUME OneAtATime, SeqInv, IInv', NEW r \in Reqs, AdoptType(r) \/ AdoptShare(r) \/ GetPin(r)
  PROVE  SeqInv'
<1> DEFINE f == rq[r]
<1>1. f \in Frame /\ WellFormed(f)
  BY SeqFacts
<1>2. f.pc \in {"adoptType", "adoptShare", "getPin"} /\ f.op \in {"join", "adopt"}
  BY <1>1 DEF AdoptType, AdoptShare, GetPin, WellFormed
<1>3. /\ CallerKnown(now, sessionKV, stopped, f) /\ f.nick \in Nicks
      /\ FrameCovers(now, locdataKV, f)
  BY <1>2, BusyFacts
<1>4. UNCHANGED <<now, stores, born, stopped>>
  BY DEF AdoptType, AdoptShare, GetPin, history
<1>5. CASE Answer(r)
  BY <1>2, <1>4, <1>5, SeqTurnedAway
<1>6. ASSUME NEW g, Goto(r, g), g.pc \in {"adoptShare", "getPin", "getGroup"},
             g.op = f.op, g.sid = f.sid, g.sess = f.sess, g.nick = f.nick, g.todo = f.todo
      PROVE  SeqInv'
  <2>1. CallerKnown(now, sessionKV, stopped, g)
    BY <1>2, <1>3, <1>6 DEF CallerKnown, Creating
  <2>2. FrameCovers(now, locdataKV, g)
    BY <1>2, <1>3, <1>6, CoversSame
  <2>3. ShareFits(now, locdataKV, groupidKV, g) /\ EntryMade(now, locdataKV, g)
    BY <1>6 DEF ShareFits, EntryMade
  <2>4. RequestSeq(now, sessionKV, locdataKV, groupidKV, stopped, g)
    BY <1>2, <1>3, <1>6, <2>1, <2>2, <2>3 DEF RequestSeq
  <2>5. f.pc # "idle" /\ g.pc # "idle"
    BY <1>2, <1>6
  <2> QED BY <1>4, <1>6, <2>4, <2>5, SeqContinue
<1>7. CASE AdoptType(r)
  <2> DEFINE g == [f EXCEPT !.pc = "adoptShare"]
  <2>1. Goto(r, g) \/ Answer(r)
    BY <1>7 DEF AdoptType
  <2>2. /\ g.pc = "adoptShare" /\ g.op = f.op /\ g.sid = f.sid /\ g.sess = f.sess
        /\ g.nick = f.nick /\ g.todo = f.todo
    BY <1>1 DEF Frame
  <2> HIDE DEF f, g
  <2> QED BY <1>5, <1>6, <2>1, <2>2
<1>8. CASE AdoptShare(r)
  <2> DEFINE g == [f EXCEPT !.pc = "getPin", !.share = locdataKV[f.lid].val]
  <2>1. Goto(r, g) \/ Answer(r)
    BY <1>8 DEF AdoptShare
  <2>2. /\ g.pc = "getPin" /\ g.op = f.op /\ g.sid = f.sid /\ g.sess = f.sess
        /\ g.nick = f.nick /\ g.todo = f.todo
    BY <1>1 DEF Frame
  <2> HIDE DEF f, g
  <2> QED BY <1>5, <1>6, <2>1, <2>2
<1>9. CASE GetPin(r)
  <2> DEFINE g == [f EXCEPT !.pc = "getGroup", !.link = groupidKV[f.pin].val]
  <2>1. Goto(r, g) \/ Answer(r)
    BY <1>9 DEF GetPin
  <2>2. /\ g.pc = "getGroup" /\ g.op = f.op /\ g.sid = f.sid /\ g.sess = f.sess
        /\ g.nick = f.nick /\ g.todo = f.todo
    BY <1>1 DEF Frame
  <2> HIDE DEF f, g
  <2> QED BY <1>5, <1>6, <2>1, <2>2
<1> QED BY <1>7, <1>8, <1>9

\* The group is found: the caller is added to the handler's copy.
LEMMA SeqGroup ==
  ASSUME OneAtATime, SeqInv, IInv', NEW r \in Reqs, GetGroup(r)
  PROVE  SeqInv'
<1> DEFINE f == rq[r]
           e == locdataKV[f.link]
           sh == AddHost(e.val, f.nick, Joiner(f))
           g == [f EXCEPT !.pc = "setShare", !.share = sh]
<1>1. f \in Frame /\ WellFormed(f) /\ FrameOK(born, granted, f)
  BY SeqFacts
<1>2. f.pc = "getGroup" /\ f.op \in {"join", "adopt"} /\ f.link \in Links /\ Joiner(f) = f.sid
  BY <1>1 DEF GetGroup, WellFormed, FrameOK
<1>3. /\ CallerKnown(now, sessionKV, stopped, f) /\ f.nick \in Nicks
      /\ FrameCovers(now, locdataKV, f)
  BY <1>2, BusyFacts
<1>4. UNCHANGED <<now, stores, born, stopped>>
  BY DEF GetGroup
<1>5. CASE Answer(r)
  BY <1>2, <1>4, <1>5, SeqTurnedAway
<1>6. CASE Live(e, now) /\ e.val.type = "group" /\ Goto(r, g)
  <2>1. /\ g.pc = "setShare" /\ g.op = f.op /\ g.sid = f.sid /\ g.sess = f.sess
        /\ g.nick = f.nick /\ g.todo = f.todo /\ g.link = f.link /\ g.share = sh
    BY <1>1 DEF Frame
  <2>2. ~Stopping(g) /\ sh = AddHost(locdataKV[g.link].val, g.nick, g.sid)
    BY <1>2, <2>1 DEF Stopping
  <2>3. Live(locdataKV[g.link], now) /\ locdataKV[g.link].val.type = "group" /\ Goto(r, g)
    BY <1>6, <2>1
  <2> HIDE DEF g, sh, e
  <2>4. ShareChanged(now, locdataKV[g.link], g)
    BY <1>3, <2>1, <2>2, <2>3 DEF ShareChanged
  <2>5. CallerKnown(now, sessionKV, stopped, g)
    BY <1>2, <1>3, <2>1 DEF CallerKnown, Creating
  <2>6. FrameCovers(now, locdataKV, g)
    BY <1>2, <1>3, <2>1, CoversSame
  <2>7. ShareFits(now, locdataKV, groupidKV, g) /\ EntryMade(now, locdataKV, g)
    BY <1>2, <2>1, <2>4 DEF ShareFits, EntryMade
  <2>8. RequestSeq(now, sessionKV, locdataKV, groupidKV, stopped, g)
    BY <1>2, <1>3, <2>1, <2>5, <2>6, <2>7 DEF RequestSeq
  <2>9. f.pc # "idle" /\ g.pc # "idle"
    BY <1>2, <2>1
  <2> QED BY <1>4, <2>1, <2>3, <2>8, <2>9, SeqContinue
<1> QED BY <1>5, <1>6 DEF GetGroup

\* A stop request that is through with a target relies on the rest of its list.
LEMMA NextTargetSeq ==
  ASSUME NEW t, NEW ses, NEW loc, NEW gid, NEW st, NEW f \in Frame, Stopping(f),
         f.link \in Links, f.pc \in InTarget \cup {"setPin"}, CallerKnown(t, ses, st, f),
         \A l \in Links : Shows(loc[l], t, f.sid) =>
            /\ Needed(loc[l].val, f.sid) \in Int
            /\ Needed(loc[l].val, f.sid) <= Listed(f, l)
            /\ l # f.link \/ f.pc = "setPin"
  PROVE  RequestSeq(t, ses, loc, gid, st, NextTarget(f))
<1>1. f.todo \in Seq(Links) /\ f.sess \in Session /\ f.sess.targets \in Seq(Links)
  BY DEF Frame, Session
<1>2. f.sid \notin st /\ Live(ses[f.sid], t) /\ (f.op = "stopLink" => f.link = f.lid)
  BY DEF CallerKnown, Creating, Stopping
<1>3. CASE f.op = "stopAll"
  <2>1. ASSUME NEW l \in Links, Shows(loc[l], t, f.sid)
        PROVE  Needed(loc[l].val, f.sid) \in Int /\ Needed(loc[l].val, f.sid) <= Count(f.todo, l)
    <3>1. Listed(f, l) = Count(f.todo, l)
      <4>1. Count(f.todo, l) \in Nat BY <1>1, CountType
      <4>2. l # f.link \/ f.pc = "setPin" BY <2>1
      <4> QED BY <1>1, <1>3, <4>1, <4>2, ListedTodo DEF InTarget
    <3> QED BY <2>1, <3>1
  <2> QED BY <1>2, <1>3, <2>1, StopAllNextSeq
<1>4. CASE f.op = "stopLink"
  <2> DEFINE g == NextTarget(f)
  <2>1. g = [f EXCEPT !.share = EmptyShare, !.link = NoLink,
                      !.pc = "saveSession", !.sess = RemoveTarget(f.sess, f.lid)]
    BY <1>4 DEF NextTarget
  <2>2. /\ g.op = "stopLink" /\ g.pc = "saveSession" /\ g.sid = f.sid
        /\ g.sess.exp = f.sess.exp /\ g.sess.targets = RemoveFirst(f.sess.targets, f.lid)
    BY <1>1, <1>4, <2>1 DEF Frame, Session, RemoveTarget
  <2>3. ASSUME NEW l \in Links, Shows(loc[l], t, f.sid)
        PROVE  Needed(loc[l].val, f.sid) <= Listed(g, l)
    <3>1. Listed(g, l) >= Listed(f, l)
      BY <1>2, <2>3, NextListed
    <3>2. RemoveFirst(f.sess.targets, f.lid) \in Seq(Links)
      BY <1>1, CountRemoveFirst
    <3> HIDE DEF g
    <3>3. Listed(g, l) = Count(g.sess.targets, l) /\ Count(g.sess.targets, l) \in Nat
      BY <2>2, <3>2, ListedTargets, CountType
    <3>4. Listed(f, l) \in Int
      <4>1. Count(f.sess.targets, l) \in Nat BY <1>1, CountType
      <4> QED BY <1>4, <4>1 DEF Listed
    <3> QED BY <2>3, <3>1, <3>3, <3>4
  <2> HIDE DEF g
  <2>4. FrameCovers(t, loc, g)
    BY <2>2, <2>3 DEF FrameCovers
  <2>5. CallerKnown(t, ses, st, g)
    BY <1>4, <2>2 DEF CallerKnown, Creating, InTarget
  <2>6. ShareFits(t, loc, gid, g) /\ EntryMade(t, loc, g)
    BY <2>2 DEF ShareFits, EntryMade, Creating
  <2>7. RequestSeq(t, ses, loc, gid, st, g)
    BY <2>2, <2>4, <2>5, <2>6 DEF RequestSeq
  <2> QED BY <2>7 DEF g
<1> QED BY <1>3, <1>4 DEF Stopping

\* Going on to the next target keeps the request what it is.
LEMMA NextTargetKeeps ==
  ASSUME NEW f \in Frame, Stopping(f)
  PROVE  /\ NextTarget(f).op = f.op /\ NextTarget(f).sid = f.sid
         /\ NextTarget(f).pc \in {"saveSession", "stopType", "delSession"}
<1>1. CASE f.op = "stopLink"
  <2>1. NextTarget(f) = [f EXCEPT !.share = EmptyShare, !.link = NoLink,
                           !.pc = "saveSession", !.sess = RemoveTarget(f.sess, f.lid)]
    BY <1>1 DEF NextTarget
  <2> QED BY <2>1 DEF Frame
<1>2. CASE f.op = "stopAll"
  BY <1>2, StopAllNextPc
<1> QED BY <1>1, <1>2 DEF Stopping

\* Working on a target: the frame moves on within it.
LEMMA SeqInTarget ==
  ASSUME OneAtATime, SeqInv, IInv', NEW r \in Reqs, UNCHANGED <<now, stores, born, stopped>>,
         Stopping(rq[r]), rq[r].pc \in InTarget, NEW g, Goto(r, g), g.pc \in InTarget,
         g.op = rq[r].op, g.sid = rq[r].sid, g.sess = rq[r].sess, g.todo = rq[r].todo,
         g.link = rq[r].link, g.lid = rq[r].lid,
         ShareFits(now, locdataKV, groupidKV, g)
  PROVE  SeqInv'
<1>1. rq[r].pc # "idle" /\ g.pc # "idle" /\ rq[r].pc # "setPin" /\ g.pc # "setPin"
  BY DEF InTarget
<1>2. /\ CallerKnown(now, sessionKV, stopped, rq[r]) /\ FrameCovers(now, locdataKV, rq[r])
  BY <1>1, BusyFacts
<1>3. CallerKnown(now, sessionKV, stopped, g)
  BY <1>2 DEF CallerKnown, Creating, InTarget, Stopping
<1>4. FrameCovers(now, locdataKV, g)
  BY <1>1, <1>2, CoversSame
<1>5. EntryMade(now, locdataKV, g) /\ g.op # "none" /\ g.op # "post"
      /\ g.pc \notin {"getPin", "getGroup", "adoptType", "adoptShare"}
  BY DEF EntryMade, Creating, Stopping, InTarget
<1>6. RequestSeq(now, sessionKV, locdataKV, groupidKV, stopped, g)
  BY <1>3, <1>4, <1>5 DEF RequestSeq
<1> QED BY <1>1, <1>6, SeqContinue

\* A target that is not found any more is left.
LEMMA SeqGoneTarget ==
  ASSUME OneAtATime, SeqInv, IInv', NEW r \in Reqs, UNCHANGED <<now, stores, born, stopped>>,
         Stopping(rq[r]), rq[r].pc \in InTarget, rq[r].link \in Links,
         ~Live(locdataKV[rq[r].link], now), Goto(r, NextTarget(rq[r]))
  PROVE  SeqInv'
<1> DEFINE f == rq[r]
<1>1. f \in Frame /\ f.pc # "idle"
  BY SeqFacts DEF InTarget
<1>2. /\ CallerKnown(now, sessionKV, stopped, f) /\ FrameCovers(now, locdataKV, f)
      /\ f.sid \in Sids
  BY <1>1, BusyFacts
<1>3. ASSUME NEW l \in Links, Shows(locdataKV[l], now, f.sid)
      PROVE  /\ Needed(locdataKV[l].val, f.sid) \in Int
             /\ Needed(locdataKV[l].val, f.sid) <= Listed(f, l)
             /\ l # f.link
  <2>1. Needed(locdataKV[l].val, f.sid) \in Int
    BY <1>2, <1>3, ShowsNeeds
  <2> QED BY <1>2, <1>3, <2>1 DEF FrameCovers, Shows
<1>4. RequestSeq(now, sessionKV, locdataKV, groupidKV, stopped, NextTarget(f))
  <2> HIDE DEF f
  <2>1. Stopping(f) /\ f.pc \in InTarget /\ f.link \in Links
    BY DEF f
  <2> QED BY <1>1, <1>2, <1>3, <2>1, NextTargetSeq
<1>5. /\ NextTarget(f).op = f.op /\ NextTarget(f).sid = f.sid /\ NextTarget(f).pc # "idle"
  BY <1>1, NextTargetKeeps
<1> QED BY <1>1, <1>4, <1>5, SeqContinue

\* A target is loaded, and the caller taken out of the handler's copy of a group.
LEMMA SeqTarget ==
  ASSUME OneAtATime, SeqInv, IInv', NEW r \in Reqs, StopType(r) \/ StopShare(r)
  PROVE  SeqInv'
<1> DEFINE f == rq[r]
           e == locdataKV[f.link]
<1>1. f \in Frame /\ WellFormed(f) /\ f.share \in Share
  BY SeqFacts
<1>2. f.link \in Links /\ Stopping(f) /\ f.pc \in {"stopType", "stopShare"}
  BY <1>1 DEF StopType, StopShare, WellFormed
<1>3. UNCHANGED <<now, stores, born, stopped>> /\ f.pc \in InTarget /\ f.pc # "idle"
  BY <1>2 DEF StopType, StopShare, history, InTarget
<1>4. CASE ~Live(e, now)
  <2>1. Goto(r, NextTarget(f))
    BY <1>4 DEF StopType, StopShare
  <2> QED BY <1>2, <1>3, <1>4, <2>1, SeqGoneTarget
<1>5. CASE Live(e, now) /\ StopType(r)
  <2> DEFINE g == [f EXCEPT !.pc = "stopShare", !.share.type = e.val.type]
  <2>1. /\ g.pc = "stopShare" /\ g.op = f.op /\ g.sid = f.sid /\ g.sess = f.sess
        /\ g.todo = f.todo /\ g.link = f.link /\ g.lid = f.lid /\ g.share.type = e.val.type
    BY <1>1 DEF Frame, Share
  <2>2. Goto(r, g)
    BY <1>5 DEF StopType
  <2> HIDE DEF g
  <2>3. ShareFits(now, locdataKV, groupidKV, g) /\ g.pc \in InTarget
    BY <1>5, <2>1 DEF ShareFits, InTarget
  <2> QED BY <1>2, <1>3, <2>1, <2>2, <2>3, SeqInTarget
<1>6. CASE Live(e, now) /\ StopShare(r)
  <2>0. f.share.type = e.val.type
    <3>1. ShareFits(now, locdataKV, groupidKV, f) /\ f.pc = "stopShare"
      BY <1>3, <1>6, BusyFacts DEF StopShare
    <3> QED BY <3>1 DEF ShareFits
  <2>1. CASE f.share.type = "solo"
    <3> DEFINE g == [f EXCEPT !.pc = "delShare", !.share = e.val]
    <3>1. /\ g.pc = "delShare" /\ g.op = f.op /\ g.sid = f.sid /\ g.sess = f.sess
          /\ g.todo = f.todo /\ g.link = f.link /\ g.lid = f.lid /\ g.share = e.val
      BY <1>1 DEF Frame
    <3>2. Goto(r, g)
      BY <1>6, <2>1 DEF StopShare
    <3> HIDE DEF g
    <3>3. ShareFits(now, locdataKV, groupidKV, g) /\ g.pc \in InTarget
      BY <1>6, <2>0, <2>1, <3>1 DEF ShareFits, InTarget
    <3> QED BY <1>2, <1>3, <3>1, <3>2, <3>3, SeqInTarget
  <2>2. CASE f.share.type = "group"
    <3>0. PICK sh \in RemoveHost(e.val, f.sid) :
            Goto(r, [f EXCEPT !.share = sh,
                       !.pc = IF Abandoned(sh) THEN "delPin" ELSE "setShare"])
      BY <1>6, <2>2 DEF StopShare
    <3> DEFINE g == [f EXCEPT !.share = sh,
                       !.pc = IF Abandoned(sh) THEN "delPin" ELSE "setShare"]
    <3>1. /\ g.pc = (IF Abandoned(sh) THEN "delPin" ELSE "setShare") /\ g.op = f.op
          /\ g.sid = f.sid /\ g.sess = f.sess
          /\ g.todo = f.todo /\ g.link = f.link /\ g.lid = f.lid /\ g.share = sh
      BY <1>1 DEF Frame
    <3>2. Goto(r, g)
      BY <3>0
    <3> HIDE DEF g
    <3>3. Stopping(g)
      BY <1>2, <3>1 DEF Stopping
    <3>4. ShareChanged(now, locdataKV[g.link], g)
      BY <1>6, <2>0, <2>2, <3>0, <3>1, <3>3 DEF ShareChanged
    <3>5. ShareFits(now, locdataKV, groupidKV, g) /\ g.pc \in InTarget
      BY <3>1, <3>3, <3>4 DEF ShareFits, InTarget, Stopping
    <3> QED BY <1>2, <1>3, <3>1, <3>2, <3>5, SeqInTarget
  <2> QED BY <1>1, <2>1, <2>2 DEF Share
<1> QED BY <1>4, <1>5, <1>6

------------------------------------------------------------------------------
(* Steps that delete *)

\* The PIN of a group that is given up goes; no other is touched.
LEMMA SeqDelPin ==
  ASSUME OneAtATime, SeqInv, IInv', NEW r \in Reqs, DelPin(r)
  PROVE  SeqInv'
<1> DEFINE f == rq[r]
           g == [f EXCEPT !.pc = "delShare"]
<1>1. f \in Frame /\ WellFormed(f) /\ f.pc = "delPin"
  BY SeqFacts DEF DelPin
<1>2. f.link \in Links /\ Stopping(f)
  BY <1>1 DEF WellFormed
<1>3. /\ CallerKnown(now, sessionKV, stopped, f) /\ FrameCovers(now, locdataKV, f)
      /\ ShareFits(now, locdataKV, groupidKV, f)
      /\ StoredCover(now, sessionKV, locdataKV, f) /\ ShownKnown(now, sessionKV, locdataKV, f)
  BY <1>1, BusyFacts
<1>4. /\ UNCHANGED <<now, sessionKV, locdataKV, born, stopped>> /\ Goto(r, g)
      /\ \A p \in Pins : groupidKV'[p] = IF p = f.share.pin THEN Absent ELSE groupidKV[p]
  BY DEF DelPin, history
<1>5. /\ g.pc = "delShare" /\ g.op = f.op /\ g.sid = f.sid /\ g.sess = f.sess
      /\ g.todo = f.todo /\ g.link = f.link /\ g.lid = f.lid /\ g.share = f.share
      /\ g.nick = f.nick
  BY <1>1 DEF Frame
<1> HIDE DEF g
<1>6. StoresSeq'
  <2>1. PinsLead(now, locdataKV, groupidKV)
    BY DEF SeqInv, StoresSeq
  <2>2. PinsLead(now, locdataKV, groupidKV')
    BY <1>4, <2>1 DEF PinsLead, Live
  <2> QED BY <1>4, <2>2 DEF SeqInv, StoresSeq
<1>7. CallerKnown(now, sessionKV, stopped, g)
  BY <1>1, <1>3, <1>5 DEF CallerKnown, Creating, InTarget
<1>8. FrameCovers(now, locdataKV, g)
  BY <1>1, <1>3, <1>5, CoversSame DEF InTarget
<1>9. ShareFits(now, locdataKV, groupidKV', g)
  <2>1. ShareChanged(now, locdataKV[f.link], f) /\ Abandoned(f.share)
    BY <1>1, <1>3 DEF ShareFits
  <2>2. ShareChanged(now, locdataKV[g.link], g) /\ Abandoned(g.share)
    BY <1>2, <1>5, <2>1 DEF ShareChanged, Stopping
  <2> QED BY <1>4, <1>5, <2>2 DEF ShareFits
<1>10. RequestSeq(now, sessionKV, locdataKV, groupidKV', stopped, g)
  BY <1>2, <1>5, <1>7, <1>8, <1>9 DEF RequestSeq, EntryMade, Creating, Stopping
<1>11. FrameSeq(now, sessionKV, locdataKV, groupidKV', stopped, g)
  BY <1>1, <1>3, <1>5, <1>10 DEF FrameSeq, StoredCover, ShownKnown, Creating
<1>12. FrameSeq(now', sessionKV', locdataKV', groupidKV', stopped', g)
  BY <1>4, <1>11
<1> QED BY <1>4, <1>6, <1>12, SeqStep DEF SeqInv

\* A share that is given up goes: its PIN, if it has one, is gone already.
LEMMA SeqDelShare ==
  ASSUME OneAtATime, SeqInv, IInv', NEW r \in Reqs, DelShare(r)
  PROVE  SeqInv'
<1> DEFINE f == rq[r]
           g == NextTarget(f)
<1>1. f \in Frame /\ WellFormed(f) /\ f.pc = "delShare" /\ f.pc # "idle"
  BY SeqFacts DEF DelShare
<1>2. f.link \in Links /\ Stopping(f) /\ f.pc \in InTarget
  BY <1>1 DEF WellFormed, InTarget
<1>3. /\ CallerKnown(now, sessionKV, stopped, f) /\ FrameCovers(now, locdataKV, f)
      /\ ShareFits(now, locdataKV, groupidKV, f) /\ f.sid \in Sids
      /\ StoredCover(now, sessionKV, locdataKV, f) /\ ShownKnown(now, sessionKV, locdataKV, f)
  BY <1>1, BusyFacts
<1>4. /\ UNCHANGED <<now, sessionKV, groupidKV, born, stopped>> /\ Goto(r, g)
      /\ \A l \in Links : locdataKV'[l] = IF l = f.link THEN Absent ELSE locdataKV[l]
  BY DEF DelShare, history, SeqInv, IInv, TypeInv, TypeOK
<1>5. \A l \in Links : Live(locdataKV'[l], now) =>
         l # f.link /\ locdataKV'[l] = locdataKV[l]
  BY <1>4 DEF Live
<1>6. PinsLead(now, locdataKV', groupidKV)
  <2> SUFFICES ASSUME NEW p \in Pins, Live(groupidKV[p], now)
               PROVE  groupidKV[p].val # f.link /\ groupidKV[p].val \in Links
    <3>1. PinsLead(now, locdataKV, groupidKV)
      BY DEF SeqInv, StoresSeq
    <3> HIDE DEF f
    <3> QED BY <1>4, <3>1 DEF PinsLead
  <2>1. groupidKV[p].val \in Links
    BY LiveType DEF SeqInv, IInv, TypeInv, TypeOK
  <2>2. /\ locdataKV[groupidKV[p].val].val.type = "group"
        /\ locdataKV[groupidKV[p].val].val.pin = p
    BY DEF SeqInv, StoresSeq, PinsLead
  <2>3. ASSUME groupidKV[p].val = f.link PROVE FALSE
    <3>1. CASE f.share = locdataKV[f.link].val /\ f.share.type = "solo"
      BY <2>2, <2>3, <3>1
    <3>2. CASE ShareChanged(now, locdataKV[f.link], f)
               /\ \A q \in Pins : q = f.share.pin => groupidKV[q] = Absent
      <4>1. f.share \in RemoveHost(locdataKV[f.link].val, f.sid)
            /\ locdataKV[f.link].val \in Share
        BY <1>2, <3>2, SeqStores DEF ShareChanged
      <4>2. f.share.pin = p
        BY <2>2, <2>3, <4>1, RemoveHostProperties
      <4> QED BY <3>2, <4>2 DEF Live
    <3> QED BY <1>1, <1>3, <3>1, <3>2 DEF ShareFits
  <2> QED BY <2>1, <2>3
<1>7. StoresSeq'
  <2>1. ExpiryKept(now, sessionKV, locdataKV')
    BY <1>4 DEF SeqInv, StoresSeq, ExpiryKept, Kept
  <2> QED BY <1>4, <1>6, <2>1 DEF SeqInv, StoresSeq
<1>8. \A l \in Links, s \in Sids : Shows(locdataKV'[l], now, s) =>
         l # f.link /\ Shows(locdataKV[l], now, s) /\ locdataKV'[l] = locdataKV[l]
  BY <1>5 DEF Shows
<1>9. RequestSeq(now, sessionKV, locdataKV', groupidKV, stopped, g)
  <2> HIDE DEF f
  <2>1. ASSUME NEW l \in Links, Shows(locdataKV'[l], now, f.sid)
        PROVE  /\ Needed(locdataKV'[l].val, f.sid) \in Int
               /\ Needed(locdataKV'[l].val, f.sid) <= Listed(f, l) /\ l # f.link
    <3>1. l # f.link /\ Shows(locdataKV[l], now, f.sid) /\ locdataKV'[l] = locdataKV[l]
      BY <1>3, <1>8, <2>1
    <3>2. Needed(locdataKV[l].val, f.sid) \in Int
      BY <1>3, <3>1, ShowsNeeds
    <3> QED BY <1>3, <3>1, <3>2 DEF FrameCovers
  <2> QED BY <1>1, <1>2, <1>3, <2>1, NextTargetSeq
<1>10. g.op = f.op /\ g.sid = f.sid /\ g.pc # "idle"
  BY <1>1, <1>2, NextTargetKeeps
<1> HIDE DEF f, g
<1>11. FrameSeq(now, sessionKV, locdataKV', groupidKV, stopped, g)
  <2>1. StoredCover(now, sessionKV, locdataKV', g)
    BY <1>1, <1>3, <1>8, <1>10 DEF StoredCover
  <2>2. ShownKnown(now, sessionKV, locdataKV', g)
    BY <1>3, <1>8, <1>10 DEF ShownKnown, Creating
  <2> QED BY <1>9, <1>10, <2>1, <2>2 DEF FrameSeq
<1>12. FrameSeq(now', sessionKV', locdataKV', groupidKV', stopped', g)
  BY <1>4, <1>11
<1> QED BY <1>4, <1>7, <1>12, SeqStep DEF SeqInv

\* The session goes last, when nothing shows it any more.
LEMMA SeqDelSession ==
  ASSUME OneAtATime, SeqInv, IInv', NEW r \in Reqs, DelSession(r)
  PROVE  /\ SeqInv'
         /\ \A l \in Links : ~Shows(locdataKV[l], now, rq[r].sid)
<1> DEFINE f == rq[r]
<1>1. f \in Frame /\ WellFormed(f) /\ f.pc = "delSession" /\ f.pc # "idle"
      /\ FrameOK(born, granted, f)
  BY SeqFacts DEF DelSession
<1>2. /\ CallerKnown(now, sessionKV, stopped, f) /\ FrameCovers(now, locdataKV, f)
      /\ f.sid \in Sids /\ f.op = "stopAll" /\ born[f.sid] # Absent
      /\ StoredCover(now, sessionKV, locdataKV, f) /\ ShownKnown(now, sessionKV, locdataKV, f)
  BY <1>1, BusyFacts DEF WellFormed, FrameOK
<1>3. /\ UNCHANGED <<now, locdataKV, groupidKV, born>> /\ Goto(r, Idle)
      /\ \A s \in Sids : sessionKV'[s] = IF s = f.sid THEN Absent ELSE sessionKV[s]
      /\ stopped' = stopped \cup {f.sid}
  BY DEF DelSession, SeqInv, IInv, TypeInv, TypeOK
<1>4. \A l \in Links : ~Shows(locdataKV[l], now, f.sid)
  <2>1. f.todo = <<>> /\ f.pc \notin InTarget /\ f.todo \in Seq(Links)
    BY <1>1, <1>2 DEF CallerKnown, InTarget, Frame
  <2> HIDE DEF f
  <2>2. \A l \in Links : Listed(f, l) = 0
    BY <1>2, <2>1, ListedTodo, CountEmpty
  <2>3. ASSUME NEW l \in Links, Shows(locdataKV[l], now, f.sid) PROVE FALSE
    <3>1. Needed(locdataKV[l].val, f.sid) <= 0
      BY <1>2, <2>2, <2>3 DEF FrameCovers
    <3>2. Needed(locdataKV[l].val, f.sid) >= 1 /\ Needed(locdataKV[l].val, f.sid) \in Nat
      BY <1>2, <2>3, ShowsNeeds
    <3> QED BY <3>1, <3>2
  <2> QED BY <2>3
<1>5. StoresSeq'
  <2>1. ExpiryKept(now, sessionKV', locdataKV)
    BY <1>3 DEF SeqInv, StoresSeq, ExpiryKept, Kept
  <2>2. StoppedGone(sessionKV', born, stopped')
    <3>1. stopped \subseteq Sids /\ StoppedGone(sessionKV, born, stopped)
      BY DEF SeqInv, IInv, TypeInv, TypeOK, StoresSeq
    <3> HIDE DEF f
    <3> QED BY <1>2, <1>3, <3>1 DEF StoppedGone
  <2> QED BY <1>3, <2>1, <2>2 DEF SeqInv, StoresSeq
<1> HIDE DEF f
<1>6. FrameSeq(now, sessionKV', locdataKV, groupidKV, stopped', Idle)
  <2>1. StoredCover(now, sessionKV', locdataKV, Idle)
    BY <1>2, <1>3 DEF StoredCover, Live
  <2>2. ShownKnown(now, sessionKV', locdataKV, Idle)
    BY <1>2, <1>3, <1>4 DEF ShownKnown, Creating
  <2> QED BY <2>1, <2>2, IdleFrame DEF FrameSeq
<1>7. FrameSeq(now', sessionKV', locdataKV', groupidKV', stopped', Idle)
  BY <1>3, <1>6
<1> QED BY <1>3, <1>4, <1>5, <1>7, SeqStep DEF SeqInv, f

------------------------------------------------------------------------------
(* Steps that save *)

\* A session is saved with the list the request has made of its targets.
LEMMA SeqSaveSession ==
  ASSUME OneAtATime, SeqInv, IInv', NEW r \in Reqs, SaveSession(r)
  PROVE  SeqInv'
<1> DEFINE f == rq[r]
           w == Write(f.sess, f.sess.exp, now)
<1>1. /\ f \in Frame /\ WellFormed(f) /\ f.pc = "saveSession" /\ f.pc # "idle"
      /\ f.sess \in Session /\ f.sess.exp \in Nat /\ now \in Nat
      /\ f.sess.targets \in Seq(Links)
  BY SeqFacts DEF SaveSession
<1>2. /\ CallerKnown(now, sessionKV, stopped, f) /\ FrameCovers(now, locdataKV, f)
      /\ f.sid \in Sids /\ f.op # "stopAll"
      /\ StoredCover(now, sessionKV, locdataKV, f) /\ ShownKnown(now, sessionKV, locdataKV, f)
  BY <1>1, BusyFacts DEF WellFormed
<1>3. Within(f.sess.exp, now) /\ f.sid \notin stopped
  BY <1>2 DEF CallerKnown
<1>4. w.val = f.sess /\ w.exp = f.sess.exp /\ Live(w, now)
  BY <1>1, <1>3, AheadWrite, AbsentAssumption DEF Within
<1>5. /\ UNCHANGED <<now, locdataKV, groupidKV, born, stopped>> /\ Goto(r, Idle)
      /\ \A s \in Sids : sessionKV'[s] = IF s = f.sid THEN w ELSE sessionKV[s]
  BY DEF SaveSession, history, SeqInv, IInv, TypeInv, TypeOK
<1>6. \A l \in Links : Listed(f, l) = Count(f.sess.targets, l)
  BY <1>1, <1>2, ListedTargets
<1> HIDE DEF w
<1>7. StoresSeq'
  <2>1. ExpiryKept(now, sessionKV', locdataKV)
    BY <1>3, <1>4, <1>5 DEF SeqInv, StoresSeq, ExpiryKept, Kept, Within
  <2>2. StoppedGone(sessionKV', born, stopped)
    <3>1. stopped \subseteq Sids /\ StoppedGone(sessionKV, born, stopped)
      BY DEF SeqInv, IInv, TypeInv, TypeOK, StoresSeq
    <3> HIDE DEF f
    <3> QED BY <1>3, <1>5, <3>1 DEF StoppedGone
  <2> QED BY <1>5, <2>1, <2>2 DEF SeqInv, StoresSeq
<1> HIDE DEF f
<1>8. FrameSeq(now, sessionKV', locdataKV, groupidKV, stopped, Idle)
  <2>1. StoredCover(now, sessionKV', locdataKV, Idle)
    BY <1>2, <1>4, <1>5, <1>6 DEF StoredCover, FrameCovers
  <2>2. ShownKnown(now, sessionKV', locdataKV, Idle)
    BY <1>2, <1>4, <1>5 DEF ShownKnown, Live
  <2> QED BY <2>1, <2>2, IdleFrame DEF FrameSeq
<1>9. FrameSeq(now', sessionKV', locdataKV', groupidKV', stopped', Idle)
  BY <1>5, <1>8
<1> QED BY <1>5, <1>7, <1>9, SeqStep DEF SeqInv

\* A share is stored: its link is added to the session that is saved next.
LEMMA SavedSeq ==
  ASSUME NEW t, NEW ses, NEW loc, NEW gid, NEW st, NEW f \in Frame,
         f.op \in {"solo", "group", "join", "newLink", "adopt"}, f.link \in Links,
         f.pc \in {"setShare", "setPin"}, CallerKnown(t, ses, st, f),
         Creating(f) => Shows(loc[f.link], t, f.sid),
         \A l \in Links : Shows(loc[l], t, f.sid) =>
            Needed(loc[l].val, f.sid)
              <= Count(f.sess.targets, l) + (IF f.link = l THEN 1 ELSE 0)
  PROVE  /\ RequestSeq(t, ses, loc, gid, st, ShareSaved(f))
         /\ ShareSaved(f).op = f.op /\ ShareSaved(f).sid = f.sid
         /\ ShareSaved(f).pc = "saveSession"
<1> DEFINE g == ShareSaved(f)
<1>0. f.sess \in Session /\ f.sess.targets \in Seq(Links) /\ ~Stopping(f)
  BY DEF Frame, Session, Stopping
<1>1. /\ g.op = f.op /\ g.sid = f.sid /\ g.pc = "saveSession"
      /\ g.sess.exp = f.sess.exp /\ g.sess.targets = Append(f.sess.targets, f.link)
  BY <1>0 DEF Frame, Session, ShareSaved, AddTarget
<1> HIDE DEF g
<1>2. CallerKnown(t, ses, st, g)
  BY <1>1 DEF CallerKnown, Creating, InTarget
<1>3. ShareFits(t, loc, gid, g)
  BY <1>1 DEF ShareFits
<1>4. EntryMade(t, loc, g)
  <2>1. Creating(f) => f.sess.targets = <<>>
    BY DEF CallerKnown
  <2>2. Append(<<>>, f.link) = <<f.link>>
    OBVIOUS
  <2>3. Creating(f) => g.sess.targets = <<f.link>>
    BY <1>1, <2>1, <2>2, Zenon
  <2> QED BY <1>1, <2>3 DEF EntryMade, Creating
<1>5. FrameCovers(t, loc, g)
  <2> SUFFICES ASSUME NEW l \in Links, Shows(loc[l], t, f.sid)
               PROVE  Needed(loc[l].val, f.sid) <= Listed(g, l)
    BY <1>1 DEF FrameCovers
  <2>1. Listed(g, l) = Count(g.sess.targets, l)
    <3>1. g.sess.targets \in Seq(Links)
      BY <1>0, <1>1
    <3> QED BY <1>1, <3>1, ListedTargets
  <2>2. Count(g.sess.targets, l) = Count(f.sess.targets, l) + (IF f.link = l THEN 1 ELSE 0)
    BY <1>0, <1>1, CountAppend
  <2> QED BY <2>1, <2>2
<1>6. RequestSeq(t, ses, loc, gid, st, g)
  BY <1>1, <1>2, <1>3, <1>4, <1>5 DEF RequestSeq
<1> QED BY <1>1, <1>6 DEF g

\* The PIN of a group leads to the share that was stored before.
LEMMA SeqSetPin ==
  ASSUME OneAtATime, SeqInv, IInv', NEW r \in Reqs, SetPin(r)
  PROVE  SeqInv'
<1> DEFINE f == rq[r]
           g == ShareSaved(f)
           p == f.share.pin
           w == Write(f.link, f.share.exp, now)
<1>1. /\ f \in Frame /\ WellFormed(f) /\ f.pc = "setPin" /\ f.pc # "idle"
      /\ f.share \in Share /\ f.share.exp \in Nat /\ now \in Nat
      /\ f.sess.targets \in Seq(Links)
  BY SeqFacts DEF SetPin
<1>2. /\ CallerKnown(now, sessionKV, stopped, f) /\ FrameCovers(now, locdataKV, f)
      /\ ShareFits(now, locdataKV, groupidKV, f) /\ EntryMade(now, locdataKV, f)
      /\ f.sid \in Sids /\ f.op \notin {"none", "post"} /\ f.link \in Links
      /\ StoredCover(now, sessionKV, locdataKV, f) /\ ShownKnown(now, sessionKV, locdataKV, f)
  BY <1>1, BusyFacts DEF WellFormed
<1>3. Live(locdataKV[f.link], now) /\ locdataKV[f.link].val = f.share /\ f.share.type = "group"
  BY <1>1, <1>2 DEF ShareFits
<1>4. Within(f.share.exp, now) /\ locdataKV[f.link].exp = f.share.exp
  BY <1>2, <1>3, SeqStores
<1>5. w.val = f.link /\ w.exp = f.share.exp /\ Live(w, now)
  BY <1>1, <1>2, <1>4, AheadWrite, AbsentAssumption DEF Within
<1>6. /\ UNCHANGED <<now, sessionKV, locdataKV, born, stopped>> /\ Goto(r, g)
      /\ \A q \in Pins : groupidKV'[q] = IF q = p THEN w ELSE groupidKV[q]
  BY DEF SetPin, history, SeqInv, IInv, TypeInv, TypeOK
<1> HIDE DEF w
<1>7. StoresSeq'
  <2>1. PinsLead(now, locdataKV, groupidKV)
    BY DEF SeqInv, StoresSeq
  <2>2. PinsLead(now, locdataKV, groupidKV')
    BY <1>3, <1>4, <1>5, <1>6, <2>1 DEF PinsLead
  <2> QED BY <1>6, <2>2 DEF SeqInv, StoresSeq
<1>8. \A l \in Links : Shows(locdataKV[l], now, f.sid) =>
         /\ Needed(locdataKV[l].val, f.sid) \in Int
         /\ Needed(locdataKV[l].val, f.sid) <= Listed(f, l)
  BY <1>2, ShowsNeeds DEF FrameCovers
<1>9. /\ RequestSeq(now, sessionKV, locdataKV, groupidKV', stopped, g)
      /\ g.op = f.op /\ g.sid = f.sid /\ g.pc # "idle"
  <2> HIDE DEF f
  <2>1. CASE Stopping(f)
    <3>1. g = NextTarget(f)
      BY <2>1 DEF ShareSaved
    <3>2. RequestSeq(now, sessionKV, locdataKV, groupidKV', stopped, NextTarget(f))
      BY <1>1, <1>2, <1>8, <2>1, NextTargetSeq
    <3> QED BY <1>1, <2>1, <3>1, <3>2, NextTargetKeeps
  <2>2. CASE ~Stopping(f)
    <3>1. f.op \in {"solo", "group", "join", "newLink", "adopt"}
      BY <1>1, <1>2, <2>2 DEF Frame, Ops, Stopping
    <3>2. \A l \in Links : Listed(f, l) = Count(f.sess.targets, l)
                                            + (IF f.link = l THEN 1 ELSE 0)
      BY <1>1, <3>1, ListedPin
    <3>3. Creating(f) => Shows(locdataKV[f.link], now, f.sid)
      BY <1>1, <1>2 DEF EntryMade
    <3>4. \A l \in Links : Shows(locdataKV[l], now, f.sid) =>
            Needed(locdataKV[l].val, f.sid)
              <= Count(f.sess.targets, l) + (IF f.link = l THEN 1 ELSE 0)
      BY <1>8, <3>2
    <3>5. /\ RequestSeq(now, sessionKV, locdataKV, groupidKV', stopped, ShareSaved(f))
          /\ ShareSaved(f).op = f.op /\ ShareSaved(f).sid = f.sid
          /\ ShareSaved(f).pc = "saveSession"
      BY <1>1, <1>2, <3>1, <3>3, <3>4, SavedSeq
    <3> QED BY <3>5
  <2> QED BY <2>1, <2>2
<1> HIDE DEF f, g
<1>10. FrameSeq(now, sessionKV, locdataKV, groupidKV', stopped, g)
  BY <1>1, <1>2, <1>9 DEF FrameSeq, StoredCover, ShownKnown, Creating
<1>11. FrameSeq(now', sessionKV', locdataKV', groupidKV', stopped', g)
  BY <1>6, <1>10
<1> QED BY <1>6, <1>7, <1>11, SeqStep DEF SeqInv

\* A share that is new has the caller as its only entry.
LEMMA ShareMadeNames ==
  ASSUME NEW t, NEW f, f.share \in Share, f.sid \in Sids, ShareMade(t, f),
         f.op \in {"solo", "group", "newLink"}
  PROVE  Exposed(f.share) = {f.sid} /\ Needed(f.share, f.sid) = 1
<1>1. CASE f.op \in {"solo", "newLink"}
  BY <1>1, NoSidAssumption DEF ShareMade, Exposed, Needed
<1>2. CASE f.op = "group"
  <2>1. f.share.type = "group" /\ \E n \in Nicks : f.share.hosts = [NoHosts EXCEPT ![n] = f.sid]
    BY <1>2 DEF ShareMade
  <2>2. PICK n \in Nicks : f.share.hosts = [NoHosts EXCEPT ![n] = f.sid]
    BY <2>1
  <2>3. \A k \in Nicks : f.share.hosts[k] = IF k = n THEN f.sid ELSE NoSid
    BY <2>2 DEF NoHosts
  <2>4. HostNicks(f.share, f.sid) = {n} /\ HostsOf(f.share) = {f.sid}
    BY <2>3, NoSidAssumption DEF HostNicks, HostsOf
  <2>5. Cardinality({n}) = 1
    BY FS_Singleton
  <2> QED BY <2>1, <2>4, <2>5 DEF Exposed, Needed
<1> QED BY <1>1, <1>2

\* A group to which the caller is added, or from which it is taken.
LEMMA ShareChangedNames ==
  ASSUME SeqInv, NEW f, f.sid \in Sids, f.link \in Links,
         ShareChanged(now, locdataKV[f.link], f)
  PROVE  LET e == locdataKV[f.link]
         IN  /\ f.share \in Share /\ f.share.type = "group" /\ FewNames(f.share)
             /\ f.share.pin = e.val.pin /\ f.share.exp = e.exp /\ Within(f.share.exp, now)
             /\ \A s \in Sids : s # f.sid /\ s \in Exposed(f.share) =>
                   Shows(e, now, s) /\ Needed(f.share, s) <= Needed(e.val, s)
             /\ ~Stopping(f) => f.sid \in Exposed(f.share)
             /\ f.sid \in Exposed(f.share) =>
                   Needed(f.share, f.sid)
                     <= (IF Shows(e, now, f.sid) THEN Needed(e.val, f.sid) ELSE 0)
                          + (IF Stopping(f) THEN -1 ELSE 1)
<1> DEFINE e == locdataKV[f.link]
<1>1. Live(e, now) /\ e.val.type = "group"
  BY DEF ShareChanged
<1>2. /\ e.val \in Share /\ FewNames(e.val) /\ e.exp = e.val.exp /\ Within(e.exp, now)
  BY <1>1, SeqStores
<1> HIDE DEF e
<1>3. \A s \in Sids : /\ Needed(e.val, s) \in Nat
                      /\ s \notin Exposed(e.val) => HostNicks(e.val, s) = {}
                      /\ Needed(e.val, s) = Cardinality(HostNicks(e.val, s))
                      /\ s \in Exposed(e.val) <=> Shows(e, now, s)
  BY <1>1, <1>2, ExposedNeeds DEF Needed, Shows
<1>4. CASE ~Stopping(f)
  <2>1. f.nick \in Nicks /\ f.share = AddHost(e.val, f.nick, f.sid)
    BY <1>4 DEF ShareChanged, e
  <2>2. /\ f.share \in Share /\ f.share.type = "group" /\ f.share.pin = e.val.pin
        /\ f.share.exp = e.val.exp /\ FewNames(f.share)
    BY <1>1, <1>2, <2>1, AddHostProperties, AddHostNames
  <2>3. /\ Cardinality(HostNicks(f.share, f.sid)) <= Cardinality(HostNicks(e.val, f.sid)) + 1
        /\ \A s \in Sids \ {f.sid} : Cardinality(HostNicks(f.share, s))
                                       <= Cardinality(HostNicks(e.val, s))
    BY <1>2, <2>1, AddHostNames
  <2>4. \A s \in Sids : s # f.sid /\ s \in Exposed(f.share) => s \in Exposed(e.val)
    BY <1>1, <1>2, <2>1, <2>2 DEF AddHost, Exposed, HostsOf, Share
  <2>5. f.sid \in Exposed(f.share)
    BY <1>2, <2>1, <2>2, NoSidAssumption DEF AddHost, Exposed, HostsOf, Share
  <2>6. Needed(f.share, f.sid)
          <= (IF Shows(e, now, f.sid) THEN Needed(e.val, f.sid) ELSE 0) + 1
    <3>1. Needed(f.share, f.sid) <= Needed(e.val, f.sid) + 1
      BY <1>3, <2>2, <2>3 DEF Needed
    <3>2. ~Shows(e, now, f.sid) => Needed(e.val, f.sid) = 0
      BY <1>3, FS_EmptySet
    <3> QED BY <1>3, <3>1, <3>2
  <2>7. \A s \in Sids : s # f.sid /\ s \in Exposed(f.share) =>
           Shows(e, now, s) /\ Needed(f.share, s) <= Needed(e.val, s)
    BY <1>3, <2>2, <2>3, <2>4 DEF Needed
  <2> QED BY <1>2, <1>4, <2>2, <2>5, <2>6, <2>7 DEF e
<1>5. CASE Stopping(f)
  <2>1. f.share \in RemoveHost(e.val, f.sid)
    BY <1>5 DEF ShareChanged, e
  <2>2. /\ f.share \in Share /\ f.share.type = "group" /\ f.share.pin = e.val.pin
        /\ f.share.exp = e.val.exp /\ FewNames(f.share)
    BY <1>1, <1>2, <2>1, RemoveHostProperties, RemoveHostNames
  <2>3. /\ HostNicks(e.val, f.sid) # {} =>
             Cardinality(HostNicks(f.share, f.sid)) <= Cardinality(HostNicks(e.val, f.sid)) - 1
        /\ HostNicks(e.val, f.sid) = {} => f.share = e.val
        /\ \A s \in Sids \ {f.sid} : HostNicks(f.share, s) = HostNicks(e.val, s)
    BY <1>2, <2>1, RemoveHostNames
  <2>4. \A s \in Sids : s \in Exposed(f.share) => HostNicks(f.share, s) # {}
    BY <2>2 DEF Exposed, HostsOf, HostNicks
  <2>5. \A s \in Sids : s # f.sid /\ s \in Exposed(f.share) =>
           Shows(e, now, s) /\ Needed(f.share, s) <= Needed(e.val, s)
    BY <1>3, <2>2, <2>3, <2>4 DEF Needed
  <2>6. ASSUME f.sid \in Exposed(f.share)
        PROVE  Shows(e, now, f.sid) /\ Needed(f.share, f.sid) <= Needed(e.val, f.sid) - 1
    <3>1. HostNicks(e.val, f.sid) # {}
      BY <2>3, <2>4, <2>6
    <3> QED BY <1>3, <2>2, <2>3, <3>1 DEF Needed
  <2>7. f.sid \in Exposed(f.share) =>
           Needed(f.share, f.sid)
             <= (IF Shows(e, now, f.sid) THEN Needed(e.val, f.sid) ELSE 0) + (-1)
    BY <1>3, <2>6
  <2> QED BY <1>2, <1>5, <2>2, <2>5, <2>7 DEF e
<1> QED BY <1>4, <1>5

\* What the share that is about to be stored does to the link.
LEMMA SetShareFacts ==
  ASSUME SeqInv, NEW r \in Reqs, rq[r].pc = "setShare"
  PROVE  LET f == rq[r]
             e == locdataKV[f.link]
         IN  /\ f.link \in Links /\ Within(f.share.exp, now) /\ FewNames(f.share)
             /\ Live(e, now) => /\ f.share.type = "group" /\ f.share.pin = e.val.pin
                                /\ f.share.exp = e.exp
             /\ \A s \in Sids : s # f.sid /\ s \in Exposed(f.share) =>
                   Shows(e, now, s) /\ Needed(f.share, s) <= Needed(e.val, s)
             /\ ~Stopping(f) => /\ f.op \in {"solo", "group", "join", "newLink", "adopt"}
                                /\ f.sid \in Exposed(f.share)
                                /\ Needed(f.share, f.sid) <= Count(f.sess.targets, f.link) + 1
             /\ Stopping(f) => /\ f.share.type = "group" /\ Live(e, now)
                               /\ f.sid \in Exposed(f.share) =>
                                    Needed(f.share, f.sid) <= Listed(f, f.link) - 1
<1> DEFINE f == rq[r]
           e == locdataKV[f.link]
<1>1. /\ f \in Frame /\ WellFormed(f) /\ f.share \in Share
      /\ f.sess.targets \in Seq(Links) /\ f.todo \in Seq(Links)
      /\ f.pc = "setShare" /\ f.pc # "idle"
  BY SeqFacts
<1>2. /\ ShareFits(now, locdataKV, groupidKV, f) /\ FrameCovers(now, locdataKV, f)
      /\ f.sid \in Sids /\ f.op \notin {"none", "post"} /\ f.link \in Links
  BY <1>1, BusyFacts DEF WellFormed
<1>3. f.op \in {"solo", "group", "newLink", "join", "adopt", "stopLink", "stopAll"}
  BY <1>1, <1>2 DEF Frame, Ops
<1>4. Count(f.sess.targets, f.link) \in Nat
  BY <1>1, CountType
<1> HIDE DEF f
<1>5. CASE f.op \in {"solo", "group", "newLink"}
  <2>1. ShareMade(now, f) /\ ~Live(e, now)
    BY <1>1, <1>2, <1>5 DEF ShareFits
  <2>2. Exposed(f.share) = {f.sid} /\ Needed(f.share, f.sid) = 1
    BY <1>1, <1>2, <1>5, <2>1, ShareMadeNames
  <2>3. ~Stopping(f) /\ Within(f.share.exp, now) /\ FewNames(f.share)
    BY <1>5, <2>1 DEF Stopping, ShareMade
  <2> QED BY <1>2, <1>4, <1>5, <2>1, <2>2, <2>3 DEF f
<1>6. CASE f.op \in {"join", "adopt", "stopLink", "stopAll"}
  <2>1. ShareChanged(now, locdataKV[f.link], f)
    BY <1>1, <1>2, <1>6 DEF ShareFits
  <2>2. Live(e, now)
    BY <2>1 DEF ShareChanged
  <2>3. /\ f.share.type = "group" /\ FewNames(f.share)
        /\ f.share.pin = e.val.pin /\ f.share.exp = e.exp /\ Within(f.share.exp, now)
        /\ \A s \in Sids : s # f.sid /\ s \in Exposed(f.share) =>
              Shows(e, now, s) /\ Needed(f.share, s) <= Needed(e.val, s)
        /\ ~Stopping(f) => f.sid \in Exposed(f.share)
        /\ f.sid \in Exposed(f.share) =>
              Needed(f.share, f.sid)
                <= (IF Shows(e, now, f.sid) THEN Needed(e.val, f.sid) ELSE 0)
                     + (IF Stopping(f) THEN -1 ELSE 1)
    BY <1>2, <2>1, ShareChangedNames
  <2>4. /\ f.share \in Share /\ Needed(f.share, f.sid) \in Nat
        /\ f.sid \in Exposed(f.share) => Needed(f.share, f.sid) >= 1
    BY <1>1, <1>2, <2>3, ExposedNeeds
  <2>5. Shows(e, now, f.sid) =>
           Needed(e.val, f.sid) \in Nat /\ Needed(e.val, f.sid) <= Listed(f, f.link)
    BY <1>2, ShowsNeeds DEF FrameCovers
  <2>6. f.op # "stopAll" => Listed(f, f.link) = Count(f.sess.targets, f.link)
    BY <1>1, ListedTargets
  <2>7. Listed(f, f.link) \in Nat
    BY <1>1, <1>4, <2>6, ListedTodo
  <2> HIDE DEF e
  <2>8. CASE ~Stopping(f)
    <3>1. f.op \in {"join", "adopt"}
      BY <1>6, <2>8 DEF Stopping
    <3>2. Needed(f.share, f.sid) <= Count(f.sess.targets, f.link) + 1
      BY <1>4, <2>3, <2>4, <2>5, <2>6, <2>8, <3>1
    <3> QED BY <1>2, <2>3, <2>8, <3>1, <3>2 DEF e, f
  <2>9. CASE Stopping(f)
    <3>1. f.sid \in Exposed(f.share) => Needed(f.share, f.sid) <= Listed(f, f.link) - 1
      BY <2>3, <2>4, <2>5, <2>7, <2>9
    <3> QED BY <1>2, <2>2, <2>3, <2>9, <3>1 DEF e, f
  <2> QED BY <2>8, <2>9
<1> QED BY <1>3, <1>5, <1>6

\* A share is stored: a new one with the caller alone, or a group with the caller
\* added or taken out.
LEMMA SeqSetShare ==
  ASSUME OneAtATime, SeqInv, IInv', NEW r \in Reqs, SetShare(r)
  PROVE  SeqInv'
<1> DEFINE f == rq[r]
           e == locdataKV[f.link]
           w == Write(f.share, f.share.exp, now)
           g == IF f.share.type = "group" THEN [f EXCEPT !.pc = "setPin"] ELSE ShareSaved(f)
<1>1. /\ f \in Frame /\ WellFormed(f) /\ f.pc = "setShare" /\ f.pc # "idle"
      /\ f.share \in Share /\ f.share.exp \in Nat /\ now \in Nat
      /\ f.sess.targets \in Seq(Links) /\ f.todo \in Seq(Links)
  BY SeqFacts DEF SetShare
<1>2. /\ CallerKnown(now, sessionKV, stopped, f) /\ FrameCovers(now, locdataKV, f)
      /\ f.sid \in Sids /\ f.op # "none"
      /\ StoredCover(now, sessionKV, locdataKV, f) /\ ShownKnown(now, sessionKV, locdataKV, f)
  BY <1>1, BusyFacts
<1>3. /\ f.link \in Links /\ Within(f.share.exp, now) /\ FewNames(f.share)
      /\ Live(e, now) => /\ f.share.type = "group" /\ f.share.pin = e.val.pin
                         /\ f.share.exp = e.exp
      /\ \A s \in Sids : s # f.sid /\ s \in Exposed(f.share) =>
            Shows(e, now, s) /\ Needed(f.share, s) <= Needed(e.val, s)
      /\ ~Stopping(f) => /\ f.op \in {"solo", "group", "join", "newLink", "adopt"}
                         /\ f.sid \in Exposed(f.share)
                         /\ Needed(f.share, f.sid) <= Count(f.sess.targets, f.link) + 1
      /\ Stopping(f) => /\ f.share.type = "group" /\ Live(e, now)
                        /\ f.sid \in Exposed(f.share) =>
                             Needed(f.share, f.sid) <= Listed(f, f.link) - 1
  BY <1>1, SetShareFacts
<1>4. w.val = f.share /\ w.exp = f.share.exp /\ Live(w, now)
  BY <1>1, <1>3, AheadWrite, AbsentAssumption DEF Within
<1>5. /\ UNCHANGED <<now, sessionKV, groupidKV, born, stopped>> /\ Goto(r, g)
      /\ \A l \in Links : locdataKV'[l] = IF l = f.link THEN w ELSE locdataKV[l]
  BY DEF SetShare, history, SeqInv, IInv, TypeInv, TypeOK
<1> HIDE DEF w
<1>6. StoresSeq'
  <2>1. ExpiryKept(now, sessionKV, locdataKV')
    BY <1>3, <1>4, <1>5 DEF SeqInv, StoresSeq, ExpiryKept, Kept, Within
  <2>2. PinsLead(now, locdataKV, groupidKV)
    BY DEF SeqInv, StoresSeq
  <2>3. \A p \in Pins : Live(groupidKV[p], now) => groupidKV[p].val \in Links
    BY LiveType DEF SeqInv, IInv, TypeInv, TypeOK
  <2> HIDE DEF f
  <2>4. PinsLead(now, locdataKV', groupidKV)
    BY <1>3, <1>4, <1>5, <2>2, <2>3 DEF PinsLead
  <2> QED BY <1>5, <2>1, <2>4 DEF SeqInv, StoresSeq
<1>7. Shows(locdataKV'[f.link], now, f.sid) <=> f.sid \in Exposed(f.share)
  BY <1>3, <1>4, <1>5 DEF Shows
<1>8. \A l \in Links : Shows(locdataKV'[l], now, f.sid) =>
         /\ l # f.link => /\ Needed(locdataKV'[l].val, f.sid) \in Nat
                          /\ Needed(locdataKV'[l].val, f.sid) <= Listed(f, l)
         /\ l = f.link => /\ f.sid \in Exposed(f.share)
                          /\ Needed(locdataKV'[l].val, f.sid) = Needed(f.share, f.sid)
                          /\ Needed(f.share, f.sid) \in Nat
  <2>1. Needed(f.share, f.sid) \in Nat
    BY <1>1, <1>2, <1>3, ExposedNeeds
  <2>2. ASSUME NEW l \in Links, l # f.link, Shows(locdataKV'[l], now, f.sid)
        PROVE  /\ Needed(locdataKV'[l].val, f.sid) \in Nat
               /\ Needed(locdataKV'[l].val, f.sid) <= Listed(f, l)
    <3>1. locdataKV'[l] = locdataKV[l]
      BY <1>5, <2>2
    <3> QED BY <1>2, <2>2, <3>1, ShowsNeeds DEF FrameCovers
  <2> HIDE DEF f
  <2> QED BY <1>4, <1>5, <1>7, <2>1, <2>2
<1> HIDE DEF e
<1>9. ASSUME f.share.type = "group"
      PROVE  RequestSeq(now, sessionKV, locdataKV', groupidKV, stopped, g)
  <2>1. g = [f EXCEPT !.pc = "setPin"]
    BY <1>9
  <2>2. /\ g.pc = "setPin" /\ g.op = f.op /\ g.sid = f.sid /\ g.sess = f.sess
        /\ g.todo = f.todo /\ g.link = f.link /\ g.lid = f.lid /\ g.share = f.share
    BY <1>1, <2>1 DEF Frame
  <2> HIDE DEF f, g
  <2>3. CallerKnown(now, sessionKV, stopped, g)
    BY <1>1, <1>2, <2>2 DEF CallerKnown, Creating, InTarget
  <2>4. ShareFits(now, locdataKV', groupidKV, g)
    BY <1>3, <1>4, <1>5, <1>9, <2>2 DEF ShareFits
  <2>5. EntryMade(now, locdataKV', g)
    BY <1>3, <1>7, <2>2 DEF EntryMade, Creating, Stopping
  <2>6. ASSUME NEW l \in Links, Shows(locdataKV'[l], now, f.sid)
        PROVE  Needed(locdataKV'[l].val, f.sid) <= Listed(g, l)
    <3>1. Count(f.sess.targets, l) \in Nat /\ Count(f.todo, l) \in Nat
      BY <1>1, CountType
    <3>2. f.op = "stopAll" =>
            /\ Listed(g, l) = Count(f.todo, l)
            /\ Listed(f, l) = Count(f.todo, l) + (IF f.link = l THEN 1 ELSE 0)
      BY <1>1, <2>2, ListedTodo DEF InTarget
    <3>3. f.op # "stopAll" =>
            /\ Listed(f, l) = Count(f.sess.targets, l)
            /\ Listed(g, l) = Count(f.sess.targets, l)
                 + (IF f.link = l THEN IF f.op = "stopLink" THEN -1 ELSE 1 ELSE 0)
      BY <1>1, <2>2, ListedTargets, ListedPin
    <3>4. CASE l # f.link
      BY <1>8, <2>6, <3>1, <3>2, <3>3, <3>4
    <3>5. CASE l = f.link
      <4>1. /\ f.sid \in Exposed(f.share) /\ Needed(f.share, f.sid) \in Nat
            /\ Needed(locdataKV'[l].val, f.sid) = Needed(f.share, f.sid)
        BY <1>8, <2>6, <3>5
      <4>2. CASE Stopping(f)
        <5>1. Needed(f.share, f.sid) <= Listed(f, l) - 1
          BY <1>3, <3>5, <4>1, <4>2
        <5> QED BY <3>1, <3>2, <3>3, <3>5, <4>1, <4>2, <5>1 DEF Stopping
      <4>3. CASE ~Stopping(f)
        <5>1. Needed(f.share, f.sid) <= Count(f.sess.targets, l) + 1
          BY <1>3, <3>5, <4>3
        <5> QED BY <3>1, <3>3, <3>5, <4>1, <4>3, <5>1 DEF Stopping
      <4> QED BY <4>2, <4>3
    <3> QED BY <3>4, <3>5
  <2>7. FrameCovers(now, locdataKV', g)
    BY <2>2, <2>6 DEF FrameCovers
  <2>8. RequestSeq(now, sessionKV, locdataKV', groupidKV, stopped, g)
    BY <1>2, <1>3, <2>2, <2>3, <2>4, <2>5, <2>7 DEF RequestSeq, Stopping
  <2> QED BY <2>2, <2>8
<1>10. ASSUME f.share.type # "group"
       PROVE  RequestSeq(now, sessionKV, locdataKV', groupidKV, stopped, g)
  <2>1. g = ShareSaved(f) /\ ~Stopping(f)
    BY <1>3, <1>10
  <2> HIDE DEF f, g
  <2>2. Creating(f) => Shows(locdataKV'[f.link], now, f.sid)
    BY <1>3, <1>7, <2>1
  <2>3. ASSUME NEW l \in Links, Shows(locdataKV'[l], now, f.sid)
        PROVE  Needed(locdataKV'[l].val, f.sid)
                 <= Count(f.sess.targets, l) + (IF f.link = l THEN 1 ELSE 0)
    <3>1. Listed(f, l) = Count(f.sess.targets, l) /\ Count(f.sess.targets, l) \in Nat
      BY <1>1, <2>1, ListedTargets, CountType DEF Stopping
    <3> QED BY <1>3, <1>8, <2>1, <2>3, <3>1
  <2>4. /\ RequestSeq(now, sessionKV, locdataKV', groupidKV, stopped, ShareSaved(f))
        /\ ShareSaved(f).op = f.op /\ ShareSaved(f).sid = f.sid
        /\ ShareSaved(f).pc = "saveSession"
    BY <1>1, <1>2, <1>3, <2>1, <2>2, <2>3, SavedSeq
  <2> QED BY <2>1, <2>4
<1>11. /\ RequestSeq(now, sessionKV, locdataKV', groupidKV, stopped, g)
       /\ g.op = f.op /\ g.sid = f.sid /\ g.pc # "idle"
  <2> HIDE DEF f, g
  <2>1. CASE f.share.type = "group"
    <3>1. g.op = f.op /\ g.sid = f.sid /\ g.pc = "setPin"
      BY <1>1, <2>1 DEF g, Frame
    <3> QED BY <1>9, <2>1, <3>1
  <2>2. CASE f.share.type # "group"
    <3>1. /\ g = ShareSaved(f) /\ f.op \in {"solo", "group", "join", "newLink", "adopt"}
          /\ ~Stopping(f)
      BY <1>3, <2>2 DEF g
    <3>2. g.op = f.op /\ g.sid = f.sid /\ g.pc = "saveSession"
      BY <1>1, <3>1 DEF ShareSaved, Frame
    <3> QED BY <1>10, <2>2, <3>2
  <2> QED BY <2>1, <2>2
<1> HIDE DEF f, g
<1>12. \A s \in Sids, l \in Links : s # f.sid /\ Shows(locdataKV'[l], now, s) =>
          /\ Shows(locdataKV[l], now, s)
          /\ Needed(locdataKV'[l].val, s) <= Needed(locdataKV[l].val, s)
  <2> SUFFICES ASSUME NEW s \in Sids, NEW l \in Links, s # f.sid, Shows(locdataKV'[l], now, s)
               PROVE  /\ Shows(locdataKV[l], now, s)
                      /\ Needed(locdataKV'[l].val, s) <= Needed(locdataKV[l].val, s)
    OBVIOUS
  <2>1. CASE l = f.link
    <3>1. locdataKV'[l] = w
      BY <1>5, <2>1
    <3>2. s \in Exposed(f.share)
      BY <1>4, <3>1 DEF Shows
    <3> QED BY <1>3, <1>4, <2>1, <3>1, <3>2 DEF e
  <2>2. CASE l # f.link
    <3>1. locdataKV'[l] = locdataKV[l]
      BY <1>5, <2>2
    <3>2. Shows(locdataKV[l], now, s)
      BY <3>1
    <3> QED BY <3>1, <3>2, ShowsNeeds
  <2> QED BY <2>1, <2>2
<1>13. StoredCover(now, sessionKV, locdataKV', g)
  <2> SUFFICES ASSUME NEW s \in Sids, s # f.sid, Live(sessionKV[s], now), NEW l \in Links,
                      Shows(locdataKV'[l], now, s)
               PROVE  Needed(locdataKV'[l].val, s) <= Count(sessionKV[s].val.targets, l)
    BY <1>11 DEF StoredCover
  <2>1. Needed(locdataKV[l].val, s) <= Count(sessionKV[s].val.targets, l)
    BY <1>2, <1>12 DEF StoredCover
  <2>2. Needed(locdataKV[l].val, s) \in Nat
    BY <1>12, ShowsNeeds
  <2>3. Count(sessionKV[s].val.targets, l) \in Nat
    BY SeqStores, CountType
  <2>4. Needed(locdataKV'[l].val, s) \in Nat
    <3>1. CASE l = f.link
      BY <1>1, <1>3, <1>4, <1>5, <3>1, ExposedNeeds
    <3>2. CASE l # f.link
      BY <1>5, <2>2, <3>2
    <3> QED BY <3>1, <3>2
  <2> QED BY <1>12, <2>1, <2>2, <2>3, <2>4
<1>14. ShownKnown(now, sessionKV, locdataKV', g)
  <2>1. ~Creating(f) => sessionKV[f.sid] # Absent
    BY <1>2 DEF CallerKnown, Live
  <2> QED BY <1>2, <1>11, <1>12, <2>1 DEF ShownKnown, Creating
<1>15. FrameSeq(now, sessionKV, locdataKV', groupidKV, stopped, g)
  BY <1>11, <1>13, <1>14 DEF FrameSeq
<1>16. FrameSeq(now', sessionKV', locdataKV', groupidKV', stopped', g)
  BY <1>5, <1>15
<1> QED BY <1>5, <1>6, <1>16, SeqStep DEF SeqInv

------------------------------------------------------------------------------
(* The invariant *)

\* The clock moves between requests only.
LEMMA SeqTick ==
  ASSUME OneAtATime, SeqInv, IInv', Tick
  PROVE  SeqInv'
<1>1. /\ now \in Nat /\ now' = now + 1 /\ UNCHANGED <<sessionKV, locdataKV, groupidKV, born, stopped>>
      /\ UNCHANGED rq /\ \A r \in Reqs : rq[r].pc = "idle"
  BY DEF Tick, stores, history, OneAtATime, SeqInv, IInv, TypeInv, TypeOK
<1>2. /\ \A s \in Sids : Live(sessionKV[s], now + 1) => Live(sessionKV[s], now)
      /\ \A l \in Links : Live(locdataKV[l], now + 1) => Live(locdataKV[l], now)
      /\ \A p \in Pins : Live(groupidKV[p], now + 1) => Live(groupidKV[p], now)
  <2>1. /\ \A s \in Sids : sessionKV[s] # Absent => sessionKV[s].exp \in Expiry
        /\ \A l \in Links : locdataKV[l] # Absent => locdataKV[l].exp \in Expiry
        /\ \A p \in Pins : groupidKV[p] # Absent => groupidKV[p].exp \in Expiry
    BY DEF SeqInv, IInv, TypeInv, TypeOK, EntryOf
  <2> QED BY <1>1, <2>1, LiveEarlier DEF Live
<1>3. ExpiryKept(now + 1, sessionKV, locdataKV)
  <2>1. ExpiryKept(now, sessionKV, locdataKV)
    BY DEF SeqInv, StoresSeq
  <2>2. /\ \A s \in Sids : sessionKV[s] # Absent => sessionKV[s].val.exp \in Nat
        /\ \A l \in Links : locdataKV[l] # Absent => locdataKV[l].val.exp \in Nat
    BY DEF SeqInv, IInv, TypeInv, TypeOK, EntryOf, Session, Share
  <2> QED BY <1>1, <2>1, <2>2, LimitsAssumption DEF ExpiryKept, Kept
<1>4. PinsLead(now + 1, locdataKV, groupidKV)
  <2>1. PinsLead(now, locdataKV, groupidKV)
    BY DEF SeqInv, StoresSeq
  <2> SUFFICES ASSUME NEW p \in Pins, Live(groupidKV[p], now + 1)
               PROVE  LET e == locdataKV[groupidKV[p].val]
                      IN  /\ Live(e, now + 1) /\ e.val.type = "group" /\ e.val.pin = p
                          /\ groupidKV[p].exp = e.exp
    BY DEF PinsLead
  <2>2. LET e == locdataKV[groupidKV[p].val]
        IN  /\ Live(e, now) /\ e.val.type = "group" /\ e.val.pin = p
            /\ groupidKV[p].exp = e.exp
    BY <1>2, <2>1 DEF PinsLead
  <2> QED BY <2>2, LiveTogether DEF Live
<1>5. StoresSeq'
  BY <1>1, <1>3, <1>4 DEF SeqInv, StoresSeq
<1>6. \A r \in Reqs : FrameSeq(now + 1, sessionKV, locdataKV, groupidKV, stopped, rq[r])
  <2> TAKE r \in Reqs
  <2>1. /\ FrameSeq(now, sessionKV, locdataKV, groupidKV, stopped, rq[r])
        /\ rq[r].pc = "idle"
    BY <1>1, SeqFacts
  <2>2. \A l \in Links, s \in Sids : Shows(locdataKV[l], now + 1, s) => Shows(locdataKV[l], now, s)
    BY <1>2 DEF Shows
  <2>3. StoredCover(now + 1, sessionKV, locdataKV, rq[r])
    BY <1>2, <2>1, <2>2 DEF FrameSeq, StoredCover
  <2>4. ShownKnown(now + 1, sessionKV, locdataKV, rq[r])
    BY <2>1, <2>2 DEF FrameSeq, ShownKnown
  <2> QED BY <2>1, <2>3, <2>4 DEF FrameSeq
<1>7. \A r \in Reqs : FrameSeq(now', sessionKV', locdataKV', groupidKV', stopped', rq'[r])
  BY <1>1, <1>6
<1> QED BY <1>5, <1>7 DEF SeqInv

LEMMA SeqInit == Init => SeqInv
<1> SUFFICES ASSUME Init PROVE SeqInv
  OBVIOUS
<1>1. IInv
  BY SafeInit
<1>2. StoresSeq
  BY DEF Init, StoresSeq, ExpiryKept, PinsLead, StoppedGone, Kept, Live
<1>3. \A r \in Reqs : FrameSeq(now, sessionKV, locdataKV, groupidKV, stopped, rq[r])
  BY IdleFrame DEF Init, FrameSeq, StoredCover, ShownKnown, Live, Shows
<1> QED BY <1>1, <1>2, <1>3 DEF SeqInv

\* No step of a request or the clock breaks the invariant.
LEMMA SeqNext ==
  ASSUME OneAtATime, SeqInv, [Next]_vars
  PROVE  SeqInv'
<1>1. IInv'
  BY SafeStep DEF SeqInv
<1>2. CASE UNCHANGED vars
  <2>1. UNCHANGED <<now, sessionKV, locdataKV, groupidKV, rq, born, stopped>>
    BY <1>2 DEF vars, stores, history
  <2> QED BY <1>1, <2>1 DEF SeqInv, StoresSeq
<1>3. CASE Tick
  BY <1>1, <1>3, SeqTick
<1>4. ASSUME NEW r \in Reqs, Begin(r) PROVE SeqInv'
  BY <1>1, <1>4, SeqBegin
<1>5. ASSUME NEW r \in Reqs, Step(r) PROVE SeqInv'
  BY <1>1, <1>5, SeqLink, SeqSearch, SeqGroup, SeqTarget, SeqDelPin, SeqDelShare,
     SeqDelSession, SeqSetShare, SeqSetPin, SeqSaveSession DEF Step
<1>6. ASSUME NEW r \in Reqs, Abort(r) \/ StopSkip(r) PROVE SeqInv'
  BY <1>6 DEF Abort, StopSkip, OneAtATime
<1> QED BY <1>2, <1>3, <1>4, <1>5, <1>6 DEF Next

\* The steps of requests that come one at a time are no others.
LEMMA SingleSteps ==
  ASSUME OneAtATime
  PROVE  Next <=> SingleNext
BY DEF Next, SingleNext, OneAtATime, Abort, StopSkip

\* One request at a time, the stores fit each other and the request in flight
\* knows where its session is shown, at every step.
THEOREM SeqSoundness == ASSUME OneAtATime PROVE Spec => []SeqInv
<1>1. SeqInv /\ [Next]_vars => SeqInv'
  BY SeqNext
<1> QED BY <1>1, SeqInit, PTL DEF Spec

------------------------------------------------------------------------------
(* What it says between requests *)

\* One request at a time, stop finds every entry of a session among its targets.
THEOREM TargetsCoverCorrect == ASSUME OneAtATime PROVE Spec => []TargetsCover
<1>1. SeqInv => TargetsCover
  <2> SUFFICES ASSUME SeqInv, Quiet, NEW s \in Sids, NEW l \in Links,
                      Live(sessionKV[s], now), Visible(l, s)
               PROVE  Count(sessionKV[s].val.targets, l) >= Needed(locdataKV[l].val, s)
    BY DEF TargetsCover, Needed
  <2>1. PICK r : r \in Reqs
    BY DEF OneAtATime
  <2>2. StoredCover(now, sessionKV, locdataKV, rq[r]) /\ rq[r].pc = "idle"
    BY <2>1, SeqFacts DEF FrameSeq, Quiet
  <2>3. Shows(locdataKV[l], now, s)
    BY DEF Shows, Visible
  <2>4. Needed(locdataKV[l].val, s) <= Count(sessionKV[s].val.targets, l)
    BY <2>2, <2>3 DEF StoredCover
  <2>5. Needed(locdataKV[l].val, s) \in Nat /\ Count(sessionKV[s].val.targets, l) \in Nat
    BY <2>3, ShowsNeeds, SeqStores, CountType
  <2> QED BY <2>4, <2>5
<1> QED BY <1>1, SeqSoundness, PTL

\* One request at a time, nothing shows a session whose stop was answered.
THEOREM StoppedIsGoneCorrect == ASSUME OneAtATime PROVE Spec => []StoppedIsGone
<1>1. SeqInv => StoppedIsGone
  <2> SUFFICES ASSUME SeqInv, Quiet, NEW s \in stopped
               PROVE  ~Live(sessionKV[s], now) /\ \A l \in Links : ~Visible(l, s)
    BY DEF StoppedIsGone
  <2>1. sessionKV[s] = Absent /\ s \in Sids
    BY DEF SeqInv, StoresSeq, StoppedGone, IInv, TypeInv, TypeOK
  <2>2. PICK r : r \in Reqs
    BY DEF OneAtATime
  <2>3. ShownKnown(now, sessionKV, locdataKV, rq[r]) /\ rq[r] = Idle
    BY <2>2, SeqFacts DEF FrameSeq, Quiet
  <2>4. \A l \in Links : ~Shows(locdataKV[l], now, s)
    BY <2>1, <2>3 DEF ShownKnown, Creating, Idle
  <2> QED BY <2>1, <2>4 DEF Live, Shows, Visible
<1> QED BY <1>1, SeqSoundness, PTL

\* One request at a time, an accepted PIN leads to a live group that has it.
THEOREM PinResolvesCorrect == ASSUME OneAtATime PROVE Spec => []PinResolves
<1>1. SeqInv => PinResolves
  BY DEF SeqInv, StoresSeq, PinsLead, PinResolves
<1> QED BY <1>1, SeqSoundness, PTL

------------------------------------------------------------------------------
(* What a stop leaves alone *)

\* The list of one frame, with g for granted.
Granted(g, f) ==
  Stopping(f) =>
     /\ \A i \in 1..Len(f.todo) : <<f.todo[i], f.sid>> \in g
     /\ f.link \in Links => <<f.link, f.sid>> \in g

LEMMA GrantedNext ==
  ASSUME NEW g, NEW f \in Frame, Stopping(f),
         \A i \in 1..Len(f.todo) : <<f.todo[i], f.sid>> \in g
  PROVE  Granted(g, NextTarget(f))
<1>1. CASE f.op = "stopLink"
  <2>1. NextTarget(f) = [f EXCEPT !.share = EmptyShare, !.link = NoLink,
                           !.pc = "saveSession", !.sess = RemoveTarget(f.sess, f.lid)]
    BY <1>1 DEF NextTarget
  <2>2. NextTarget(f).todo = f.todo /\ NextTarget(f).link = NoLink
        /\ NextTarget(f).sid = f.sid
    BY <2>1 DEF Frame
  <2> QED BY <2>2, NoneAssumption DEF Granted
<1>2. CASE f.op = "stopAll" /\ f.todo = <<>>
  <2>1. NextTarget(f) = [f EXCEPT !.share = EmptyShare, !.link = NoLink, !.pc = "delSession"]
    BY <1>2 DEF NextTarget
  <2>2. NextTarget(f).todo = f.todo /\ NextTarget(f).link = NoLink
        /\ NextTarget(f).sid = f.sid
    BY <2>1 DEF Frame
  <2> QED BY <2>2, NoneAssumption DEF Granted
<1>3. CASE f.op = "stopAll" /\ f.todo # <<>>
  <2>1. NextTarget(f) = [f EXCEPT !.share = EmptyShare, !.link = Head(f.todo),
                           !.pc = "stopType", !.todo = Tail(f.todo)]
    BY <1>3 DEF NextTarget
  <2>2. NextTarget(f).todo = Tail(f.todo) /\ NextTarget(f).link = Head(f.todo)
        /\ NextTarget(f).sid = f.sid
    BY <2>1 DEF Frame
  <2>3. /\ Head(f.todo) = f.todo[1] /\ 1 \in 1..Len(f.todo)
        /\ \A i \in 1..Len(Tail(f.todo)) :
              i + 1 \in 1..Len(f.todo) /\ Tail(f.todo)[i] = f.todo[i+1]
    <3>1. f.todo \in Seq(Links)
      BY DEF Frame
    <3> QED BY <1>3, <3>1
  <2> QED BY <2>2, <2>3 DEF Granted
<1> QED BY <1>1, <1>2, <1>3 DEF Stopping

\* A stop lists links its session was put under, whatever else goes on.
LEMMA GrantedStep ==
  ASSUME IInv, ListGranted, [Next]_vars
  PROVE  ListGranted'
<1>1. \A r \in Reqs : Granted(granted, rq[r])
  BY DEF ListGranted, Granted
<1>2. rq \in [Reqs -> Frame]
  BY DEF IInv, TypeInv, TypeOK
<1>3. granted \subseteq granted'
  <2>1. ASSUME NEW r \in Reqs, Begin(r) PROVE granted' = granted
    BY <2>1 DEF Begin, BeginSolo, BeginGroup, BeginJoin, BeginPost, BeginNewLink, BeginAdopt,
       BeginStopLink, BeginStopAll, Create, history
  <2>2. ASSUME NEW r \in Reqs, GenLink(r) \/ TryLink(r) \/ GetGroup(r)
        PROVE granted \subseteq granted'
    BY <2>2 DEF GenLink, TryLink, GetGroup, Settle
  <2>3. ASSUME NEW r \in Reqs,
               \/ AdoptType(r) \/ AdoptShare(r) \/ GetPin(r) \/ StopType(r) \/ StopShare(r)
               \/ DelPin(r) \/ DelShare(r) \/ DelSession(r)
        PROVE granted' = granted
    BY <2>3 DEF AdoptType, AdoptShare, GetPin, StopType, StopShare, DelPin, DelShare,
       DelSession, history
  <2>4. ASSUME NEW r \in Reqs,
               \/ SetShare(r) \/ SetPin(r) \/ SaveSession(r) \/ Abort(r) \/ StopSkip(r)
        PROVE granted' = granted
    BY <2>4 DEF SetShare, SetPin, SaveSession, Abort, StopSkip, history
  <2>5. Tick \/ UNCHANGED vars => granted' = granted
    BY DEF Tick, vars, history
  <2> QED BY <2>1, <2>2, <2>3, <2>4, <2>5 DEF Next, Step
<1>4. \A f : Granted(granted, f) => Granted(granted', f)
  BY <1>3 DEF Granted
<1>5. ASSUME NEW r \in Reqs, NEW f, Goto(r, f), Granted(granted', f)
      PROVE  ListGranted'
  <2>1. \A q \in Reqs : Granted(granted', rq'[q])
    BY <1>1, <1>4, <1>5 DEF IInv, TypeInv, TypeOK
  <2> QED BY <2>1 DEF ListGranted, Granted
<1>6. ASSUME UNCHANGED rq PROVE ListGranted'
  <2>1. \A q \in Reqs : Granted(granted', rq'[q])
    BY <1>1, <1>4, <1>6
  <2> QED BY <2>1 DEF ListGranted, Granted
<1>7. ASSUME NEW r \in Reqs, NEW f, Goto(r, f), ~Stopping(f) PROVE ListGranted'
  BY <1>5, <1>7 DEF Granted
<1>8. ~Stopping(Idle)
  BY DEF Stopping, Idle
<1>9. ASSUME NEW r \in Reqs, NEW f \in Frame, Stopping(f), Goto(r, NextTarget(f)),
             \A i \in 1..Len(f.todo) : <<f.todo[i], f.sid>> \in granted
      PROVE  ListGranted'
  <2>1. Granted(granted', NextTarget(f))
    BY <1>3, <1>9, GrantedNext
  <2> HIDE DEF ListGranted
  <2> QED BY <1>5, <1>9, <2>1
<1>10. ASSUME NEW r \in Reqs, NEW f, Goto(r, f), f.op = rq[r].op, f.sid = rq[r].sid,
             f.todo = rq[r].todo, f.link = rq[r].link
      PROVE  ListGranted'
  <2>1. Granted(granted, f)
    BY <1>1, <1>10 DEF Granted, Stopping
  <2> QED BY <1>4, <1>5, <1>10, <2>1
<1>11. ASSUME NEW r \in Reqs PROVE rq[r] \in Frame
  BY <1>11 DEF IInv, TypeInv, TypeOK
<1>12. ASSUME NEW r \in Reqs, Begin(r) PROVE ListGranted'
  <2>1. CASE BeginSolo(r) \/ BeginGroup(r) \/ BeginJoin(r)
    <3>1. Goto(r, rq'[r]) /\ rq'[r].op \in {"solo", "group", "join"}
      <4>1. CASE BeginSolo(r)
        BY <1>2, <4>1 DEF BeginSolo, Create, Idle
      <4>2. CASE BeginGroup(r)
        BY <1>2, <4>2 DEF BeginGroup, Create, Idle
      <4>3. CASE BeginJoin(r)
        BY <1>2, <4>3 DEF BeginJoin, Create, Idle
      <4> QED BY <2>1, <4>1, <4>2, <4>3
    <3> QED BY <1>7, <3>1 DEF Stopping
  <2>2. CASE BeginPost(r) \/ BeginNewLink(r) \/ BeginAdopt(r)
    <3>1. Goto(r, rq'[r]) /\ rq'[r].op \in {"post", "newLink", "adopt"}
      <4>1. CASE BeginPost(r)
        BY <1>2, <4>1 DEF BeginPost, Request, Idle
      <4>2. CASE BeginNewLink(r)
        BY <1>2, <4>2 DEF BeginNewLink, Request, Idle
      <4>3. CASE BeginAdopt(r)
        BY <1>2, <4>3 DEF BeginAdopt, Request, Idle
      <4> QED BY <2>2, <4>1, <4>2, <4>3
    <3> QED BY <1>7, <3>1 DEF Stopping
  <2>3. ASSUME NEW s \in Sids, Live(sessionKV[s], now)
        PROVE  /\ sessionKV[s].val.targets \in Seq(Links)
               /\ \A i \in 1..Len(sessionKV[s].val.targets) :
                     <<sessionKV[s].val.targets[i], s>> \in granted
    <3>1. sessionKV[s].val \in Session /\ sessionKV[s] # Absent
      BY <2>3, LiveType DEF IInv, TypeInv, TypeOK
    <3> QED BY <3>1 DEF Session, IInv, StoresOK, SessionOK
  <2>4. CASE BeginStopLink(r)
    <3>1. PICK s \in Sids, l \in Links :
            /\ Live(sessionKV[s], now) /\ Contains(sessionKV[s].val.targets, l)
            /\ Goto(r, [Request("stopLink", s, sessionKV[s].val)
                          EXCEPT !.pc = "stopType", !.lid = l, !.link = l])
      BY <2>4 DEF BeginStopLink, Load
    <3> DEFINE f == [Request("stopLink", s, sessionKV[s].val)
                       EXCEPT !.pc = "stopType", !.lid = l, !.link = l]
    <3>2. f.sid = s /\ f.link = l /\ f.todo = <<>>
      BY DEF Request, Idle
    <3>3. <<l, s>> \in granted
      BY <2>3, <3>1 DEF Contains
    <3>4. Goto(r, f)
      BY <3>1
    <3> HIDE DEF f
    <3>5. Granted(granted', f)
      BY <1>3, <3>2, <3>3 DEF Granted
    <3> QED BY <1>5, <3>4, <3>5
  <2>5. CASE BeginStopAll(r)
    <3>1. PICK s \in Sids :
            /\ Live(sessionKV[s], now)
            /\ Goto(r, NextTarget([Request("stopAll", s, EmptySession)
                                     EXCEPT !.todo = sessionKV[s].val.targets]))
      BY <2>5 DEF BeginStopAll, Load
    <3> DEFINE f == [Request("stopAll", s, EmptySession) EXCEPT !.todo = sessionKV[s].val.targets]
    <3>2. f.op = "stopAll" /\ f.sid = s /\ f.todo = sessionKV[s].val.targets /\ f \in Frame
      <4>1. EmptySession \in Session
        BY NewSessionType DEF EmptySession
      <4>2. sessionKV[s].val.targets \in Seq(Links)
        BY <2>3, <3>1
      <4> QED BY <4>1, <4>2, IdleFrame DEF Request, Frame, Ops
    <3>3. Goto(r, NextTarget(f))
      BY <3>1
    <3> HIDE DEF f
    <3>4. Stopping(f) /\ \A i \in 1..Len(f.todo) : <<f.todo[i], f.sid>> \in granted
      BY <2>3, <3>1, <3>2 DEF Stopping
    <3> QED BY <1>9, <3>2, <3>3, <3>4
  <2> QED BY <1>12, <2>1, <2>2, <2>4, <2>5 DEF Begin
<1>13. ASSUME NEW r \in Reqs, Abort(r) \/ DelSession(r) \/ SaveSession(r) PROVE ListGranted'
  BY <1>7, <1>8, <1>13 DEF Abort, DelSession, SaveSession
<1>14. ASSUME NEW r \in Reqs, GenLink(r) \/ TryLink(r) \/ AdoptType(r) \/ AdoptShare(r)
                              \/ GetPin(r) \/ GetGroup(r)
       PROVE  ListGranted'
  <2>1. rq[r] \in Frame /\ ~Stopping(rq[r])
    BY <1>11, <1>14 DEF IInv, TypeInv, WellFormed, Stopping, GenLink, TryLink, AdoptType,
       AdoptShare, GetPin, GetGroup
  <2>2. Goto(r, rq'[r]) /\ (rq'[r] = Idle \/ rq'[r].op = rq[r].op)
    <3>1. CASE GenLink(r)
      BY <1>2, <3>1 DEF GenLink, Frame
    <3>2. CASE TryLink(r)
      BY <1>2, <3>2 DEF TryLink, Frame
    <3>3. CASE AdoptType(r)
      BY <1>2, <3>3 DEF AdoptType, Frame
    <3>4. CASE AdoptShare(r)
      BY <1>2, <3>4 DEF AdoptShare, Frame
    <3>5. CASE GetPin(r)
      BY <1>2, <3>5 DEF GetPin, Frame
    <3>6. CASE GetGroup(r)
      BY <1>2, <3>6 DEF GetGroup, Frame
    <3> QED BY <1>14, <3>1, <3>2, <3>3, <3>4, <3>5, <3>6
  <2>3. ~Stopping(rq'[r])
    BY <1>8, <2>1, <2>2 DEF Stopping
  <2> QED BY <1>7, <2>2, <2>3
<1>15. ASSUME NEW r \in Reqs, Stopping(rq[r]), Goto(r, NextTarget(rq[r])) PROVE ListGranted'
  <2>1. \A i \in 1..Len(rq[r].todo) : <<rq[r].todo[i], rq[r].sid>> \in granted
    BY <1>15 DEF ListGranted
  <2> QED BY <1>9, <1>11, <1>15, <2>1
<1>16. ASSUME NEW r \in Reqs, StopType(r) \/ StopShare(r) \/ DelPin(r) \/ DelShare(r)
       PROVE  ListGranted'
  <2>1. rq[r] \in Frame /\ Stopping(rq[r])
    BY <1>11, <1>16 DEF IInv, TypeInv, WellFormed, StopType, StopShare, DelPin, DelShare
  <2>2. \/ Goto(r, NextTarget(rq[r]))
        \/ /\ Goto(r, rq'[r]) /\ rq'[r].op = rq[r].op /\ rq'[r].sid = rq[r].sid
           /\ rq'[r].todo = rq[r].todo /\ rq'[r].link = rq[r].link
    <3>1. CASE StopType(r)
      <4>1. \/ Goto(r, NextTarget(rq[r]))
            \/ Goto(r, [rq[r] EXCEPT !.pc = "stopShare",
                          !.share.type = locdataKV[rq[r].link].val.type])
        BY <3>1 DEF StopType
      <4>2. CASE Goto(r, [rq[r] EXCEPT !.pc = "stopShare",
                            !.share.type = locdataKV[rq[r].link].val.type])
        BY <1>2, <4>2 DEF Frame
      <4> QED BY <4>1, <4>2
    <3>2. CASE StopShare(r)
      <4>1. \/ Goto(r, NextTarget(rq[r]))
            \/ Goto(r, [rq[r] EXCEPT !.pc = "delShare",
                          !.share = locdataKV[rq[r].link].val])
            \/ \E sh \in RemoveHost(locdataKV[rq[r].link].val, rq[r].sid) :
                  Goto(r, [rq[r] EXCEPT !.share = sh,
                             !.pc = IF Abandoned(sh) THEN "delPin" ELSE "setShare"])
        BY <3>2 DEF StopShare
      <4>2. ASSUME NEW sh, NEW pc, Goto(r, [rq[r] EXCEPT !.share = sh, !.pc = pc])
            PROVE  /\ Goto(r, rq'[r]) /\ rq'[r].op = rq[r].op /\ rq'[r].sid = rq[r].sid
                   /\ rq'[r].todo = rq[r].todo /\ rq'[r].link = rq[r].link
        BY <1>2, <4>2 DEF Frame
      <4>3. CASE Goto(r, [rq[r] EXCEPT !.pc = "delShare",
                            !.share = locdataKV[rq[r].link].val])
        BY <1>2, <4>3 DEF Frame
      <4> QED BY <4>1, <4>2, <4>3
    <3>3. CASE DelPin(r) \/ DelShare(r)
      BY <1>2, <3>3 DEF DelPin, DelShare, Frame
    <3> QED BY <1>16, <3>1, <3>2, <3>3
  <2> QED BY <1>10, <1>15, <2>1, <2>2
<1>17. ASSUME NEW r \in Reqs, SetShare(r) \/ SetPin(r) PROVE ListGranted'
  <2>1. rq[r] \in Frame
    BY <1>11
  <2>2. \/ Goto(r, ShareSaved(rq[r]))
        \/ \E f : /\ Goto(r, f) /\ f.op = rq[r].op /\ f.sid = rq[r].sid
                  /\ f.todo = rq[r].todo /\ f.link = rq[r].link
    BY <1>17, <2>1 DEF SetShare, SetPin, Frame
  <2>3. CASE Goto(r, ShareSaved(rq[r])) /\ ~Stopping(rq[r])
    <3>1. ShareSaved(rq[r]).op = rq[r].op
      BY <2>1, <2>3 DEF ShareSaved, Frame
    <3> QED BY <1>7, <2>3, <3>1 DEF Stopping
  <2>4. CASE Goto(r, ShareSaved(rq[r])) /\ Stopping(rq[r])
    BY <1>15, <2>4 DEF ShareSaved
  <2> QED BY <1>10, <2>2, <2>3, <2>4
<1>18. ASSUME NEW r \in Reqs, StopSkip(r) PROVE ListGranted'
  <2>1. rq[r] \in Frame /\ Stopping(rq[r])
    BY <1>11, <1>18 DEF StopSkip
  <2>2. \/ Goto(r, NextTarget(rq[r])) \/ Goto(r, Idle)
        \/ \E f : /\ Goto(r, f) /\ f.op = rq[r].op /\ f.sid = rq[r].sid
                  /\ f.todo = rq[r].todo /\ f.link = rq[r].link
    BY <1>18, <2>1 DEF StopSkip, Frame
  <2> QED BY <1>7, <1>8, <1>10, <1>15, <2>1, <2>2
<1>19. CASE Tick \/ UNCHANGED vars
  BY <1>6, <1>19 DEF Tick, vars
<1> QED BY <1>12, <1>13, <1>14, <1>16, <1>17, <1>18, <1>19 DEF Next, Step

LEMMA GrantedInit == Init => ListGranted
BY DEF Init, ListGranted, Idle, Stopping

\* What a stop saves or deletes under a link shows the others that were shown there.
LEMMA StopLeaves ==
  ASSUME SeqInv, NEW r \in Reqs, Stopping(rq[r]), rq[r].link \in Links,
         NEW s \in Sids, s # rq[r].sid, Visible(rq[r].link, s)
  PROVE  /\ rq[r].pc = "setShare" => s \in Exposed(rq[r].share)
         /\ rq[r].pc = "delShare" => locdataKV[rq[r].link].val.type = "solo"
<1> DEFINE f == rq[r]
           e == locdataKV[f.link]
<1>1. Live(e, now) /\ s \in Exposed(e.val) /\ e.val \in Share /\ FewNames(e.val)
  BY SeqStores DEF Visible
<1>2. ASSUME ShareChanged(now, e, f)
      PROVE  s \in Exposed(f.share) /\ s \in HostsOf(f.share)
  <2>1. f.share \in RemoveHost(e.val, f.sid) /\ e.val.type = "group"
    BY <1>2 DEF ShareChanged
  <2>2. f.share.type = "group"
    BY <1>1, <2>1, RemoveHostProperties
  <2> HIDE DEF f, e
  <2>3. HostNicks(e.val, s) # {} /\ s # NoSid
    BY <1>1, <2>1, NoSidAssumption DEF Exposed, HostsOf, HostNicks
  <2>4. HostNicks(f.share, s) = HostNicks(e.val, s)
    <3>1. CASE HostNicks(e.val, f.sid) = {}
      BY <2>1, <3>1 DEF RemoveHost
    <3>2. CASE HostNicks(e.val, f.sid) # {}
      BY <1>1, <2>1, <2>3, <3>2 DEF RemoveHost, HostNicks, Share, f
    <3> QED BY <3>1, <3>2
  <2> QED BY <2>2, <2>3, <2>4 DEF Exposed, HostsOf, HostNicks
<1>3. f.pc \in {"setShare", "delShare"} => ShareFits(now, locdataKV, groupidKV, f)
  BY BusyFacts
<1>4. CASE f.pc = "setShare"
  <2>1. ShareChanged(now, e, f)
    BY <1>3, <1>4 DEF ShareFits, Stopping
  <2> QED BY <1>2, <1>4, <2>1
<1>5. CASE f.pc = "delShare"
  <2>1. e.val.type = "solo" \/ (ShareChanged(now, e, f) /\ Abandoned(f.share))
    BY <1>3, <1>5 DEF ShareFits
  <2> QED BY <1>2, <1>5, <2>1 DEF Abandoned
<1> QED BY <1>4, <1>5

\* One request at a time, a stop takes nobody off a group but its own session and
\* touches no link that session was never put under.
THEOREM StopIsLocalCorrect == ASSUME OneAtATime PROVE Spec => StopIsLocal
<1>1. ASSUME SeqInv, ListGranted, [Next]_vars, NEW r \in Reqs, NEW l \in Links, NEW s \in Sids,
             Stopping(rq[r]), rq'[r] # rq[r], s # rq[r].sid, Visible(l, s),
             locdataKV[l].val.type = "group" \/ <<l, rq[r].sid>> \notin granted
      PROVE  Visible(l, s)'
  <2>1. CASE now' = now /\ locdataKV' = locdataKV
    BY <1>1, <2>1 DEF Visible
  <2>2. ~UNCHANGED vars /\ ~Tick
    BY <1>1 DEF vars, Tick
  <2>3. Begin(r) \/ Step(r)
    BY <1>1, <2>2 DEF Next, Abort, StopSkip, OneAtATime
  <2>4. ~Begin(r)
    <3>1. rq[r].pc = "idle" => rq[r].op = "none"
      BY <1>1, SeqFacts DEF FrameSeq, Idle
    <3> QED BY <1>1, <3>1 DEF Stopping, Begin, BeginSolo, BeginGroup, BeginJoin, BeginPost,
              BeginNewLink, BeginAdopt, BeginStopLink, BeginStopAll, Create, Load
  <2>5. /\ rq[r] \in Frame /\ WellFormed(rq[r])
        /\ rq[r].share \in Share /\ rq[r].share.exp \in Nat /\ now \in Nat
    BY <1>1, SeqFacts
  <2>6. locdataKV \in [Links -> EntryOf(Share) \cup {Absent}]
    BY <1>1 DEF SeqInv, IInv, TypeInv, TypeOK
  <2>7. CASE SetShare(r)
    <3>1. rq[r].pc = "setShare" /\ rq[r].link \in Links
      BY <2>5, <2>7 DEF SetShare, WellFormed
    <3>2. CASE l = rq[r].link
      <4>1. s \in Exposed(rq[r].share) /\ Within(rq[r].share.exp, now)
        BY <1>1, <3>1, <3>2, StopLeaves, SetShareFacts
      <4>2. /\ now' = now
            /\ locdataKV'[l] = Write(rq[r].share, rq[r].share.exp, now)
        BY <2>6, <2>7, <3>2 DEF SetShare
      <4>3. locdataKV'[l].val = rq[r].share /\ Live(locdataKV'[l], now)
        BY <2>5, <4>1, <4>2, AheadWrite, AbsentAssumption DEF Within
      <4> QED BY <4>1, <4>2, <4>3 DEF Visible
    <3>3. CASE l # rq[r].link
      BY <1>1, <2>7, <3>3 DEF SetShare, Visible
    <3> QED BY <3>2, <3>3
  <2>8. CASE DelShare(r)
    <3>1. rq[r].pc = "delShare" /\ rq[r].link \in Links
      BY <2>5, <2>8 DEF DelShare, WellFormed
    <3>2. <<rq[r].link, rq[r].sid>> \in granted
      BY <1>1, <3>1 DEF ListGranted
    <3>3. l # rq[r].link
      BY <1>1, <3>1, <3>2, StopLeaves
    <3> QED BY <1>1, <2>8, <3>3 DEF DelShare, Visible
  <2>9. CASE \/ GenLink(r) \/ TryLink(r) \/ AdoptType(r) \/ AdoptShare(r)
             \/ GetPin(r) \/ GetGroup(r) \/ StopType(r) \/ StopShare(r)
             \/ DelPin(r) \/ DelSession(r) \/ SetPin(r) \/ SaveSession(r)
    <3>1. now' = now /\ locdataKV' = locdataKV
      BY <2>9 DEF GenLink, TryLink, AdoptType, AdoptShare, GetPin, GetGroup, StopType,
         StopShare, DelPin, DelSession, SetPin, SaveSession, stores
    <3> QED BY <2>1, <3>1
  <2> QED BY <2>3, <2>4, <2>7, <2>8, <2>9 DEF Step
<1>2. SeqInv /\ ListGranted /\ [Next]_vars =>
        [\A r \in Reqs, l \in Links, s \in Sids :
           /\ Stopping(rq[r]) /\ rq'[r] # rq[r] /\ s # rq[r].sid /\ Visible(l, s)
           /\ locdataKV[l].val.type = "group" \/ <<l, rq[r].sid>> \notin granted
           => Visible(l, s)']_vars
  BY <1>1
<1>3. IInv /\ ListGranted /\ [Next]_vars => ListGranted'
  BY GrantedStep
<1>4. SeqInv => IInv
  BY DEF SeqInv
<1> QED BY <1>2, <1>3, <1>4, SeqSoundness, GrantedInit, PTL DEF Spec, StopIsLocal
==============================================================================
