--------------------------- MODULE RateLimitProofs ---------------------------
(***************************************************************************)
(* Theorems about RateLimit, for any clients, limit, window and table      *)
(* size.                                                                   *)
(***************************************************************************)
EXTENDS RateLimit, FiniteSetTheorems, TLAPS

\* A call looks up the table after a possible sweep, which only takes entries
\* away.
LEMMA SweptTable ==
  ASSUME NEW tab \in [Clients -> Entry \cup {NoEntry}]
  PROVE  /\ Swept(tab) \in [Clients -> Entry \cup {NoEntry}]
         /\ Known(Swept(tab)) \subseteq Known(tab)
BY DEF Swept, Known

\* Every call and every tick leave a well formed table.
LEMMA TypeStep ==
  ASSUME TypeOK, [Next]_vars
  PROVE  TypeOK'
<1>1. ASSUME NEW c \in Clients, Allow(c) PROVE TypeOK'
  <2>1. PICK tab \in {entries, Swept(entries)} :
          /\ Admit(c, tab) \/ Count(c, tab)
          /\ lastSweep' \in {now, lastSweep}
          /\ UNCHANGED now
    BY <1>1 DEF Allow
  <2>2. tab \in [Clients -> Entry \cup {NoEntry}]
    BY <2>1, SweptTable DEF TypeOK
  <2>3. CASE Refuse(c, tab)
    BY <2>1, <2>2, <2>3 DEF Refuse, TypeOK
  <2>4. CASE Pass(c, tab, Opened)
    <3>1. Opened \in Entry
      BY LimitAssumption, WindowAssumption DEF Opened, Entry, TypeOK
    <3> QED BY <2>1, <2>2, <2>4, <3>1 DEF Pass, TypeOK
  <2>5. CASE tab[c] # NoEntry /\ tab[c].count < Limit
             /\ Pass(c, tab, [tab[c] EXCEPT !.count = @ + 1])
    <3>1. [tab[c] EXCEPT !.count = @ + 1] \in Entry
      BY <2>2, <2>5, LimitAssumption DEF Entry
    <3> QED BY <2>1, <2>2, <2>5, <3>1 DEF Pass, TypeOK
  <2> QED BY <2>1, <2>3, <2>4, <2>5 DEF Admit, Count
<1>2. CASE Tick
  BY <1>2 DEF Tick, TypeOK
<1>3. CASE UNCHANGED vars
  BY <1>3 DEF vars, TypeOK
<1> QED BY <1>1, <1>2, <1>3 DEF Next

\* The limiter's table holds counters within the limit, whatever calls come.
THEOREM LimiterTypeCorrect == Spec => []TypeOK
<1>1. Init => TypeOK
  BY DEF Init, TypeOK
<1> QED BY <1>1, TypeStep, PTL DEF Spec

\* TableBounded, with the finiteness Cardinality needs.
Bounded == IsFiniteSet(Known(entries)) /\ TableBounded

\* A call adds at most one client, and only to a table that is not full.
LEMMA BoundedStep ==
  ASSUME TypeOK, Bounded, [Next]_vars
  PROVE  Bounded'
<1>1. ASSUME NEW c \in Clients, Allow(c) PROVE Bounded'
  <2>1. PICK tab \in {entries, Swept(entries)} : Admit(c, tab) \/ Count(c, tab)
    BY <1>1 DEF Allow
  <2>2. /\ tab \in [Clients -> Entry \cup {NoEntry}]
        /\ Known(tab) \subseteq Known(entries)
    BY <2>1, SweptTable DEF TypeOK
  <2>3. /\ IsFiniteSet(Known(tab)) /\ Cardinality(Known(tab)) \in Nat
        /\ Cardinality(Known(tab)) <= MaxEntries
    <3>1. /\ IsFiniteSet(Known(tab))
          /\ Cardinality(Known(tab)) <= Cardinality(Known(entries))
      BY <2>2, FS_Subset DEF Bounded
    <3>2. Cardinality(Known(tab)) \in Nat /\ Cardinality(Known(entries)) \in Nat
      BY <3>1, FS_CardinalityType DEF Bounded
    <3> QED BY <3>1, <3>2, MaxEntriesAssumption DEF Bounded, TableBounded
  <2>4. CASE Refuse(c, tab)
    BY <2>3, <2>4 DEF Refuse, Bounded, TableBounded, Known
  <2>5. CASE ~Full(tab) /\ Pass(c, tab, Opened)
    <3>1. Known(entries') = Known(tab) \cup {c}
      <4>1. Opened # NoEntry
        BY LimitAssumption, WindowAssumption, NoEntryAssumption
           DEF Opened, Entry, TypeOK
      <4> QED BY <2>2, <2>5, <4>1 DEF Pass, Known
    <3>2. /\ IsFiniteSet(Known(tab) \cup {c})
          /\ Cardinality(Known(tab) \cup {c}) <= Cardinality(Known(tab)) + 1
      BY <2>3, FS_AddElement
    <3>3. Cardinality(Known(tab) \cup {c}) \in Nat
      BY <3>2, FS_CardinalityType
    <3>4. Cardinality(Known(tab)) < MaxEntries
      BY <2>3, <2>5, MaxEntriesAssumption DEF Full
    <3>5. Cardinality(Known(tab) \cup {c}) <= MaxEntries
      BY <2>3, <3>2, <3>3, <3>4, MaxEntriesAssumption
    <3> QED BY <3>1, <3>2, <3>5 DEF Bounded, TableBounded
  <2>6. CASE tab[c] # NoEntry /\ Pass(c, tab, [tab[c] EXCEPT !.count = @ + 1])
             /\ tab[c].count < Limit
    <3>1. Known(entries') = Known(tab)
      <4>1. [tab[c] EXCEPT !.count = @ + 1] \in Entry
        BY <2>2, <2>6, LimitAssumption DEF Entry
      <4>2. [tab[c] EXCEPT !.count = @ + 1] # NoEntry
        BY <4>1, NoEntryAssumption
      <4> QED BY <2>2, <2>6, <4>2 DEF Pass, Known
    <3> QED BY <2>3, <3>1 DEF Bounded, TableBounded, Known
  <2> QED BY <2>1, <2>4, <2>5, <2>6 DEF Admit, Count
<1>2. CASE Tick \/ UNCHANGED vars
  BY <1>2 DEF Tick, vars, Bounded, TableBounded, Known
<1> QED BY <1>1, <1>2 DEF Next

LEMMA BoundedInit ==
  ASSUME Init PROVE TypeOK /\ Bounded
<1>1. Known(entries) = {}
  BY DEF Init, Known
<1>2. IsFiniteSet(Known(entries)) /\ Cardinality(Known(entries)) = 0
  BY <1>1, FS_EmptySet
<1> QED BY <1>2, MaxEntriesAssumption DEF Init, TypeOK, Bounded, TableBounded

\* No sequence of requests makes the limiter's table outgrow its cap.
THEOREM TableBoundedCorrect == Spec => []TableBounded
<1>1. Init => TypeOK /\ Bounded
  BY BoundedInit
<1>2. TypeOK /\ Bounded /\ [Next]_vars => (TypeOK /\ Bounded)'
  BY TypeStep, BoundedStep
<1>3. TypeOK /\ Bounded => TableBounded
  BY DEF Bounded
<1> QED BY <1>1, <1>2, <1>3, PTL DEF Spec

------------------------------------------------------------------------------
(* What a window lets through *)

\* The client whose requests were let through at the times p has no open window
\* at time t: all of them are past, and all but the last few a window ago.
Over(p, t) ==
  /\ \A i \in 1..Len(p) : p[i] < t
  /\ \A i \in 1..Len(p) : i <= Len(p) - Limit + 1 => p[i] + Window < t

\* The entry e has counted the last requests, which came from its opening until its
\* end.  What came before its opening was over then.
Counted(p, e) ==
  /\ e.count <= Len(p)
  /\ \A i \in 1..Len(p) :
        /\ i <= Len(p) - e.count => p[i] + Window < e.resetAt
        /\ i > Len(p) - e.count => e.resetAt <= p[i] + Window /\ p[i] <= e.resetAt
        /\ i = Len(p) - e.count + 1 => p[i] + Window = e.resetAt
        /\ i <= Len(p) - e.count - Limit + 1 => p[i] + 2 * Window < e.resetAt

\* SpanLimit for one client.
Spread(p) ==
  \A i, j \in 1..Len(p) : i <= j /\ p[j] - p[i] <= Window => j - i < 2 * Limit

\* A client's entry in the table tab accounts for what was let through.
Accounted(tab, c, p) ==
  IF tab[c] = NoEntry THEN Over(p, now) ELSE Counted(p, tab[c])

CountInv ==
  /\ TypeOK
  /\ \A c \in Clients : /\ \A i \in 1..Len(passed[c]) : passed[c][i] <= now
                        /\ Accounted(entries, c, passed[c])
                        /\ Spread(passed[c])

\* Once the clock is past the end of a window, nothing is lost when it is forgotten.
LEMMA StaleIsOver ==
  ASSUME NEW p \in Seq(Nat), NEW e \in Entry, Counted(p, e), NEW t \in Nat, t > e.resetAt
  PROVE  Over(p, t)
<1>1. /\ e.count \in Nat /\ e.count <= Limit /\ e.count >= 1 /\ e.resetAt \in Nat
      /\ Window \in Nat /\ Window > 0 /\ Limit \in Nat /\ Len(p) \in Nat
  BY LimitAssumption, WindowAssumption DEF Entry
<1>2. ASSUME NEW i \in 1..Len(p) PROVE p[i] < t
  <2>1. p[i] \in Nat
    OBVIOUS
  <2>2. CASE i <= Len(p) - e.count
    BY <1>1, <2>1, <2>2 DEF Counted
  <2>3. CASE i > Len(p) - e.count
    BY <1>1, <2>1, <2>3 DEF Counted
  <2> QED BY <1>1, <2>2, <2>3
<1>3. ASSUME NEW i \in 1..Len(p), i <= Len(p) - Limit + 1 PROVE p[i] + Window < t
  <2>1. p[i] \in Nat
    OBVIOUS
  <2>2. CASE i <= Len(p) - e.count
    BY <1>1, <2>1, <2>2 DEF Counted
  <2>3. CASE i = Len(p) - e.count + 1
    BY <1>1, <2>1, <2>3 DEF Counted
  <2>4. i <= Len(p) - e.count + 1
    BY <1>1, <1>3
  <2>5. i <= Len(p) - e.count \/ i = Len(p) - e.count + 1
    BY <1>1, <2>4
  <2> QED BY <2>2, <2>3, <2>5
<1> QED BY <1>2, <1>3 DEF Over

\* A sweep forgets nothing that counts.
LEMMA SweptAccounted ==
  ASSUME CountInv, NEW tab \in {entries, Swept(entries)}, NEW c \in Clients
  PROVE  Accounted(tab, c, passed[c])
<1>1. CASE tab[c] = entries[c]
  BY <1>1 DEF CountInv, Accounted
<1>2. CASE Stale(entries[c]) /\ tab[c] = NoEntry
  <2>1. /\ passed[c] \in Seq(Nat) /\ entries[c] \in Entry /\ now \in Nat
        /\ Counted(passed[c], entries[c]) /\ now > entries[c].resetAt
    BY <1>2 DEF CountInv, TypeOK, Accounted, Stale
  <2> QED BY <1>2, <2>1, StaleIsOver DEF Accounted
<1> QED BY <1>1, <1>2 DEF Swept, CountInv, TypeOK

\* One more request, and the ones it must be far from.
LEMMA SpreadStep ==
  ASSUME NEW p \in Seq(Nat), NEW q, NEW t \in Nat, Spread(p), Len(q) = Len(p) + 1,
         q[Len(p) + 1] = t, \A i \in 1..Len(p) : q[i] = p[i],
         \A i \in 1..Len(p) : i <= Len(p) + 1 - 2 * Limit => t - p[i] > Window
  PROVE  Spread(q)
<1>1. Len(p) \in Nat /\ Limit \in Nat /\ Limit >= 1 /\ Window \in Nat
      /\ \A i \in 1..Len(p) : p[i] \in Nat
  BY LimitAssumption, WindowAssumption
<1>2. SUFFICES ASSUME NEW i \in 1..Len(q), NEW j \in 1..Len(q), i <= j,
                      q[j] - q[i] <= Window
               PROVE  j - i < 2 * Limit
  BY DEF Spread
<1>3. CASE j <= Len(p)
  <2>1. i \in 1..Len(p) /\ j \in 1..Len(p) /\ q[i] = p[i] /\ q[j] = p[j]
    BY <1>1, <1>2, <1>3
  <2> QED BY <1>2, <2>1 DEF Spread
<1>4. CASE j = Len(p) + 1 /\ i <= Len(p)
  <2>1. i \in 1..Len(p) /\ q[i] = p[i] /\ q[j] = t
    BY <1>1, <1>4
  <2>2. ~(i <= Len(p) + 1 - 2 * Limit)
    BY <1>1, <1>2, <2>1
  <2> QED BY <1>1, <1>4, <2>2
<1>5. CASE j = i
  BY <1>1, <1>5
<1>6. j <= Len(p) \/ (j = Len(p) + 1 /\ i <= Len(p)) \/ j = i
  <2>1. i \in Int /\ j \in Int /\ j <= Len(p) + 1 /\ i <= j /\ Len(p) \in Nat
    BY <1>1, <1>2
  <2> QED BY <2>1
<1> QED BY <1>3, <1>4, <1>5, <1>6

\* A request that opens a window.
LEMMA OpenedStep ==
  ASSUME NEW p \in Seq(Nat), now \in Nat, Over(p, now), Spread(p)
  PROVE  Counted(Append(p, now), Opened) /\ Spread(Append(p, now))
<1> DEFINE q == Append(p, now)
<1>1. /\ Len(p) \in Nat /\ Len(q) = Len(p) + 1 /\ q[Len(p) + 1] = now
      /\ \A i \in 1..Len(p) : q[i] = p[i] /\ p[i] \in Nat
      /\ \A i \in 1..Len(q) : i = Len(p) + 1 \/ i \in 1..Len(p)
      /\ Window \in Nat /\ Window > 0 /\ Limit \in Nat /\ Limit >= 1
  BY LimitAssumption, WindowAssumption
<1> HIDE DEF q
<1>2. Counted(q, Opened)
  <2>1. Opened.count = 1 /\ Opened.resetAt = now + Window
    BY DEF Opened
  <2>2. \A i \in 1..Len(p) : p[i] < now /\ (i <= Len(p) - Limit + 1 => p[i] + Window < now)
    BY DEF Over
  <2>3. ASSUME NEW i \in 1..Len(p)
        PROVE  /\ q[i] + Window < Opened.resetAt
               /\ i <= Len(q) - Opened.count - Limit + 1 => q[i] + 2 * Window < Opened.resetAt
    BY <1>1, <2>1, <2>2
  <2>4. /\ Opened.resetAt <= q[Len(q)] + Window /\ q[Len(q)] <= Opened.resetAt
        /\ q[Len(q)] + Window = Opened.resetAt
    BY <1>1, <2>1
  <2>5. Len(q) - Opened.count = Len(p)
    BY <1>1, <2>1
  <2>6. ASSUME NEW i \in 1..Len(q), i <= Len(p) PROVE i \in 1..Len(p)
    BY <1>1, <2>6
  <2>7. ASSUME NEW i \in 1..Len(q), i > Len(p) PROVE i = Len(q)
    BY <1>1, <2>7
  <2>8. ASSUME NEW i \in 1..Len(q) PROVE i \in Int /\ (i = Len(q) => ~(i <= Len(p)))
    BY <1>1, <2>8
  <2>9. \A i \in 1..Len(q) : i <= Len(q) - Opened.count - Limit + 1 => i <= Len(p)
    BY <1>1, <2>5
  <2> QED BY <1>1, <2>1, <2>3, <2>4, <2>5, <2>6, <2>7, <2>8, <2>9 DEF Counted
<1>3. Spread(q)
  <2>1. ASSUME NEW i \in 1..Len(p), i <= Len(p) + 1 - 2 * Limit PROVE now - p[i] > Window
    <3>1. i <= Len(p) - Limit + 1
      BY <1>1, <2>1
    <3>2. p[i] + Window < now
      BY <3>1 DEF Over
    <3> QED BY <1>1, <3>2
  <2>2. Len(q) = Len(p) + 1 /\ q[Len(p) + 1] = now /\ \A i \in 1..Len(p) : q[i] = p[i]
    BY <1>1
  <2> QED BY <2>1, <2>2, SpreadStep
<1> QED BY <1>2, <1>3 DEF q

\* A request that is counted in its window.
LEMMA CountedStep ==
  ASSUME NEW p \in Seq(Nat), NEW e \in Entry, now \in Nat, now <= e.resetAt,
         e.count < Limit, \A i \in 1..Len(p) : p[i] <= now, Counted(p, e), Spread(p)
  PROVE  /\ Counted(Append(p, now), [e EXCEPT !.count = @ + 1])
         /\ Spread(Append(p, now))
<1> DEFINE q == Append(p, now)
           f == [e EXCEPT !.count = @ + 1]
<1>1. /\ Len(p) \in Nat /\ Len(q) = Len(p) + 1 /\ q[Len(p) + 1] = now
      /\ \A i \in 1..Len(p) : q[i] = p[i] /\ p[i] \in Nat
      /\ Window \in Nat /\ Window > 0 /\ Limit \in Nat /\ Limit >= 1
  BY LimitAssumption, WindowAssumption
<1>2. /\ f.count = e.count + 1 /\ f.resetAt = e.resetAt /\ e.count \in Nat /\ e.count >= 1
      /\ e.resetAt \in Nat
  <2>1. e.count \in 1..Limit /\ e.resetAt \in Nat
    BY DEF Entry
  <2>2. f.count = e.count + 1 /\ f.resetAt = e.resetAt
    BY DEF Entry
  <2> QED BY <2>1, <2>2, LimitAssumption
<1>3. e.count <= Len(p)
  BY DEF Counted
<1> HIDE DEF q, f
<1>4. Len(q) - f.count = Len(p) - e.count /\ f.count <= Len(q)
  <2>1. Len(p) \in Nat /\ Len(q) = Len(p) + 1
    BY <1>1
  <2>2. e.count \in Nat /\ f.count = e.count + 1
    BY <1>2
  <2> QED BY <1>3, <2>1, <2>2
<1>5. e.resetAt <= now + Window
  <2>1. Len(p) \in 1..Len(p) /\ Len(p) > Len(p) - e.count
    BY <1>1, <1>2, <1>3
  <2>2. e.resetAt <= p[Len(p)] + Window /\ p[Len(p)] <= now /\ p[Len(p)] \in Nat
    BY <1>1, <2>1 DEF Counted
  <2> QED BY <1>1, <1>2, <2>2
<1>6. Counted(q, f)
  <2>1. ASSUME NEW i \in 1..Len(q), i <= Len(p)
        PROVE  /\ i <= Len(q) - f.count => q[i] + Window < f.resetAt
               /\ i > Len(q) - f.count => f.resetAt <= q[i] + Window /\ q[i] <= f.resetAt
               /\ i = Len(q) - f.count + 1 => q[i] + Window = f.resetAt
               /\ i <= Len(q) - f.count - Limit + 1 => q[i] + 2 * Window < f.resetAt
    <3>1. i \in 1..Len(p) /\ q[i] = p[i]
      BY <1>1, <2>1
    <3> QED BY <1>2, <1>4, <3>1 DEF Counted
  <2>2. ASSUME NEW i \in 1..Len(q), i > Len(p)
        PROVE  /\ q[i] = now /\ i > Len(q) - f.count /\ i # Len(q) - f.count + 1
               /\ ~(i <= Len(q) - f.count) /\ ~(i <= Len(q) - f.count - Limit + 1)
    <3>1. i = Len(p) + 1
      BY <1>1, <2>2
    <3> QED BY <1>1, <1>2, <1>4, <3>1
  <2>3. \A i \in 1..Len(q) : i <= Len(p) \/ i > Len(p)
    BY <1>1
  <2> QED BY <1>2, <1>4, <1>5, <2>1, <2>2, <2>3 DEF Counted
<1>7. Spread(q)
  <2>1. ASSUME NEW i \in 1..Len(p), i <= Len(p) + 1 - 2 * Limit PROVE now - p[i] > Window
    <3>1. i <= Len(p) - e.count - Limit + 1
      BY <1>1, <1>2, <2>1
    <3>2. p[i] + 2 * Window < e.resetAt
      BY <3>1 DEF Counted
    <3> QED BY <1>1, <1>2, <1>5, <3>2
  <2>2. Len(q) = Len(p) + 1 /\ q[Len(p) + 1] = now /\ \A i \in 1..Len(p) : q[i] = p[i]
    BY <1>1
  <2> QED BY <2>1, <2>2, SpreadStep
<1> QED BY <1>6, <1>7 DEF q, f

\* Time passes.
LEMMA LaterOver ==
  ASSUME NEW p \in Seq(Nat), NEW t \in Nat, NEW u \in Nat, t <= u, Over(p, t)
  PROVE  Over(p, u)
<1>1. Len(p) \in Nat /\ Limit \in Nat /\ Window \in Nat /\ \A i \in 1..Len(p) : p[i] \in Nat
  BY LimitAssumption, WindowAssumption
<1> QED BY <1>1 DEF Over

LEMMA CountStep ==
  ASSUME CountInv, [Next]_vars
  PROVE  CountInv'
<1>1. TypeOK'
  BY TypeStep DEF CountInv
<1>2. ASSUME NEW c \in Clients, Allow(c) PROVE CountInv'
  <2>1. PICK tab \in {entries, Swept(entries)} :
          (Admit(c, tab) \/ Count(c, tab)) /\ UNCHANGED now
    BY <1>2 DEF Allow
  <2>2. tab \in [Clients -> Entry \cup {NoEntry}] /\ now \in Nat
        /\ passed \in [Clients -> Seq(Nat)]
    BY <2>1, SweptTable DEF CountInv, TypeOK
  <2>3. \A d \in Clients : Accounted(tab, d, passed[d])
    BY <2>1, SweptAccounted
  <2>4. CASE Refuse(c, tab)
    BY <1>1, <2>1, <2>3, <2>4 DEF Refuse, CountInv, Accounted
  <2>5. ASSUME NEW e, e # NoEntry, Pass(c, tab, e),
               Counted(Append(passed[c], now), e), Spread(Append(passed[c], now))
        PROVE  CountInv'
    <3>1. /\ passed'[c] = Append(passed[c], now) /\ entries'[c] = e
          /\ \A d \in Clients : d # c => passed'[d] = passed[d] /\ entries'[d] = tab[d]
      BY <2>2, <2>5 DEF Pass
    <3>2. \A i \in 1..Len(passed'[c]) : passed'[c][i] <= now'
      <4>1. passed[c] \in Seq(Nat) /\ \A i \in 1..Len(passed[c]) : passed[c][i] <= now
        BY <2>2 DEF CountInv
      <4> QED BY <2>1, <2>2, <3>1, <4>1
    <3>3. ASSUME NEW d \in Clients
          PROVE  /\ \A i \in 1..Len(passed'[d]) : passed'[d][i] <= now'
                 /\ IF entries'[d] = NoEntry THEN Over(passed'[d], now')
                                             ELSE Counted(passed'[d], entries'[d])
                 /\ Spread(passed'[d])
      <4>1. CASE d = c
        BY <2>5, <3>1, <3>2, <4>1
      <4>2. CASE d # c
        BY <2>1, <2>3, <3>1, <4>2 DEF CountInv, Accounted
      <4> QED BY <4>1, <4>2
    <3> QED BY <1>1, <3>3 DEF CountInv, Accounted
  <2>6. passed[c] \in Seq(Nat) /\ Spread(passed[c])
        /\ \A i \in 1..Len(passed[c]) : passed[c][i] <= now
    BY <2>2 DEF CountInv
  <2>7. CASE Admit(c, tab) /\ Pass(c, tab, Opened)
    <3>1. Over(passed[c], now)
      <4>1. CASE tab[c] = NoEntry
        BY <2>3, <4>1 DEF Accounted
      <4>2. CASE tab[c] # NoEntry /\ Stale(tab[c])
        <5>1. tab[c] \in Entry /\ Counted(passed[c], tab[c]) /\ now > tab[c].resetAt
          BY <2>2, <2>3, <4>2 DEF Accounted, Stale
        <5> QED BY <2>2, <2>6, <5>1, StaleIsOver
      <4> QED BY <2>7, <4>1, <4>2 DEF Admit
    <3>2. Opened # NoEntry
      BY <2>2, LimitAssumption, WindowAssumption, NoEntryAssumption DEF Opened, Entry
    <3> QED BY <2>2, <2>5, <2>6, <2>7, <3>1, <3>2, OpenedStep
  <2>8. CASE tab[c] # NoEntry /\ ~Stale(tab[c]) /\ tab[c].count < Limit
             /\ Pass(c, tab, [tab[c] EXCEPT !.count = @ + 1])
    <3>1. tab[c] \in Entry /\ Counted(passed[c], tab[c])
      BY <2>2, <2>3, <2>8 DEF Accounted
    <3>2. now <= tab[c].resetAt
      BY <2>2, <2>8, <3>1 DEF Stale, Entry
    <3>3. [tab[c] EXCEPT !.count = @ + 1] # NoEntry
      <4>1. [tab[c] EXCEPT !.count = @ + 1] \in Entry
        BY <2>8, <3>1, LimitAssumption DEF Entry
      <4> QED BY <4>1, NoEntryAssumption
    <3>4. /\ Counted(Append(passed[c], now), [tab[c] EXCEPT !.count = @ + 1])
          /\ Spread(Append(passed[c], now))
      BY <2>2, <2>6, <2>8, <3>1, <3>2, CountedStep
    <3> QED BY <2>5, <2>8, <3>3, <3>4
  <2> QED BY <2>1, <2>4, <2>7, <2>8 DEF Admit, Count
<1>3. CASE Tick \/ UNCHANGED vars
  <2>1. UNCHANGED <<entries, passed>> /\ now \in Nat /\ now' \in Nat /\ now <= now'
    BY <1>3 DEF Tick, vars, CountInv, TypeOK
  <2>2. ASSUME NEW c \in Clients
        PROVE  /\ \A i \in 1..Len(passed[c]) : passed[c][i] <= now'
               /\ entries[c] = NoEntry => Over(passed[c], now')
    <3>1. passed[c] \in Seq(Nat) /\ \A i \in 1..Len(passed[c]) : passed[c][i] \in Nat
      BY DEF CountInv, TypeOK
    <3>2. \A i \in 1..Len(passed[c]) : passed[c][i] <= now
      BY DEF CountInv
    <3>3. entries[c] = NoEntry => Over(passed[c], now)
      BY DEF CountInv, Accounted
    <3> QED BY <2>1, <3>1, <3>2, <3>3, LaterOver
  <2> QED BY <1>1, <2>1, <2>2 DEF CountInv, Accounted
<1> QED BY <1>2, <1>3 DEF Next

LEMMA CountSoundness == Spec => []CountInv
<1>1. Init => CountInv
  BY DEF Init, TypeOK, CountInv, Accounted, Over, Spread
<1> QED BY <1>1, CountStep, PTL DEF Spec

\* Never more than two windows' worth of requests pass within a window's length, wherever
\* it starts and whatever sweeps and full tables come between.
THEOREM SpanLimitCorrect == Spec => []SpanLimit
<1>1. CountInv => SpanLimit
  BY DEF CountInv, Spread, SpanLimit
<1> QED BY <1>1, CountSoundness, PTL

\* An entry of the table has counted what was let through since it opened.
THEOREM WindowCountsCorrect == Spec => []WindowCounts
<1>1. ASSUME CountInv PROVE WindowCounts
  <2>1. SUFFICES ASSUME NEW c \in Clients, entries[c] # NoEntry
                 PROVE  entries[c].count =
                          Cardinality({i \in 1..Len(passed[c]) :
                                         passed[c][i] >= entries[c].resetAt - Window})
    BY DEF WindowCounts
  <2> DEFINE p == passed[c]
             e == entries[c]
             o == Len(p) - e.count + 1
  <2>2. /\ p \in Seq(Nat) /\ Len(p) \in Nat /\ e \in Entry /\ Counted(p, e)
        /\ e.count \in Nat /\ e.count <= Len(p) /\ e.count >= 1 /\ e.resetAt \in Nat
        /\ Window \in Nat
    BY <1>1, <2>1, LimitAssumption, WindowAssumption DEF CountInv, TypeOK, Accounted, Counted, Entry
  <2> HIDE DEF p, e
  <2>3. ASSUME NEW i \in 1..Len(p)
        PROVE  p[i] >= e.resetAt - Window <=> i \in o..Len(p)
    <3>1. p[i] \in Nat /\ (i \in o..Len(p) <=> i > Len(p) - e.count)
      BY <2>2
    <3>2. CASE i <= Len(p) - e.count
      <4>1. p[i] + Window < e.resetAt
        BY <2>2, <3>2 DEF Counted
      <4> QED BY <2>2, <3>1, <3>2, <4>1
    <3>3. CASE i > Len(p) - e.count
      <4>1. e.resetAt <= p[i] + Window
        BY <2>2, <3>3 DEF Counted
      <4> QED BY <2>2, <3>1, <3>3, <4>1
    <3> QED BY <2>2, <3>2, <3>3
  <2>4. {i \in 1..Len(p) : p[i] >= e.resetAt - Window} = o..Len(p)
    <3>1. o..Len(p) \subseteq 1..Len(p)
      BY <2>2
    <3> HIDE DEF o
    <3> QED BY <2>3, <3>1
  <2>5. Cardinality(o..Len(p)) = e.count
    <3>1. o \in Int /\ Len(p) \in Int /\ o <= Len(p) /\ Len(p) - o + 1 = e.count
      BY <2>2
    <3> HIDE DEF o
    <3> QED BY <3>1, FS_Interval
  <2> QED BY <2>4, <2>5 DEF p, e
<1> QED BY <1>1, CountSoundness, PTL

\* RefusedForCause: a refusal of a call, with the table it is answered from.
LEMMA RefusalStep ==
  ASSUME TypeOK, Bounded, NEW c \in Clients, Allow(c), answer'.ok = FALSE
  PROVE  \/ /\ entries[c] # NoEntry /\ ~Stale(entries[c]) /\ entries[c].count = Limit
            /\ entries'[c] = entries[c]
         \/ Cardinality({d \in Clients \ {c} :
               entries[d] # NoEntry /\ ~Stale(entries[d])}) = MaxEntries
<1> DEFINE tab == IF SweepDue(entries) THEN Swept(entries) ELSE entries
<1>1. (Admit(c, tab) \/ Count(c, tab)) /\ tab[c] \in {NoEntry, entries[c]}
  BY DEF Allow, Swept, TypeOK
<1>2. CASE Count(c, tab)
  <2>1. tab[c] # NoEntry /\ ~Stale(tab[c]) /\ tab[c].count >= Limit /\ entries' = tab
    BY <1>2 DEF Count, Pass, Refuse
  <2>2. entries[c] = tab[c] /\ entries[c] \in Entry
    BY <1>1, <2>1 DEF TypeOK
  <2> QED BY <2>1, <2>2, LimitAssumption DEF Entry
<1>3. CASE Admit(c, tab)
  <2>1. (tab[c] = NoEntry \/ Stale(tab[c])) /\ Full(tab)
    BY <1>3 DEF Admit, Pass
  <2>2. Cardinality(Known(entries)) \in Nat /\ Cardinality(Known(entries)) <= MaxEntries
    BY FS_CardinalityType DEF Bounded, TableBounded
  <2>3. tab = Swept(entries)
    BY <2>1, <2>2, MaxEntriesAssumption DEF Full, SweepDue
  <2>4. Known(tab) = {d \in Clients \ {c} : entries[d] # NoEntry /\ ~Stale(entries[d])}
    <3>1. \A d \in Clients : tab[d] = IF Stale(entries[d]) THEN NoEntry ELSE entries[d]
      BY <2>3 DEF Swept
    <3>2. tab[c] = NoEntry
      BY <2>1, <3>1
    <3> HIDE DEF tab
    <3> QED BY <3>1, <3>2 DEF Known, Stale
  <2>5. Cardinality(Known(tab)) <= MaxEntries /\ Cardinality(Known(tab)) \in Nat
    <3>1. Known(tab) \subseteq Known(entries)
      BY <2>4 DEF Known
    <3> HIDE DEF tab
    <3> QED BY <2>2, <3>1, FS_Subset, FS_CardinalityType, MaxEntriesAssumption DEF Bounded
  <2> QED BY <2>1, <2>4, <2>5, MaxEntriesAssumption DEF Full
<1> QED BY <1>1, <1>2, <1>3

\* Only a used up window of its own, or a table full of others' open ones, turns a
\* client away.
THEOREM RefusedForCauseCorrect == Spec => RefusedForCause
<1>1. Init => TypeOK /\ Bounded
  BY BoundedInit
<1>2. TypeOK /\ Bounded /\ [Next]_vars => (TypeOK /\ Bounded)'
  BY TypeStep, BoundedStep
<1>3. ASSUME TypeOK, Bounded, Next, NEW c \in Clients, now' = now,
             answer' = [client |-> c, ok |-> FALSE]
      PROVE  \/ /\ entries[c] # NoEntry /\ ~Stale(entries[c]) /\ entries[c].count = Limit
                /\ entries'[c] = entries[c]
             \/ Cardinality({d \in Clients \ {c} :
                   entries[d] # NoEntry /\ ~Stale(entries[d])}) = MaxEntries
  <2>1. PICK d \in Clients : Allow(d)
    BY <1>3 DEF Next, Tick, TypeOK
  <2>2. d = c
    <3>1. answer'.client = d
      BY <2>1 DEF Allow, Admit, Count, Pass, Refuse
    <3> QED BY <1>3, <3>1
  <2> QED BY <1>3, <2>1, <2>2, RefusalStep
<1>4. TypeOK /\ Bounded /\ [Next]_vars =>
        [\A c \in Clients : now' = now /\ answer' = [client |-> c, ok |-> FALSE] =>
           \/ /\ entries[c] # NoEntry /\ ~Stale(entries[c]) /\ entries[c].count = Limit
              /\ entries'[c] = entries[c]
           \/ Cardinality({d \in Clients \ {c} :
                 entries[d] # NoEntry /\ ~Stale(entries[d])}) = MaxEntries]_vars
  BY <1>3
<1> QED BY <1>1, <1>2, <1>4, PTL DEF Spec, RefusedForCause
==============================================================================
