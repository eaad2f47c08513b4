---------------------------- MODULE ViewerKeyProofs ----------------------------
(***************************************************************************)
(* The page of an encrypted share, for any number of requests, operations, *)
(* timers, passwords and locations: every variable keeps its type whatever *)
(* answers pile up at the prompt; and as long as none do there is one      *)
(* timer at a time, and none only for a reason.                            *)
(***************************************************************************)
EXTENDS ViewerKey, SelectionProofs, FiniteSetTheorems

------------------------------------------------------------------------------

\* The first request is the only thing the page is at.
FirstAlone ==
  \A d \in InFlight : docs[d].first =>
     /\ InFlight = {d} /\ listeners = <<>> /\ jobs = EmptyBag
     /\ timers = {} /\ fetchIntv = NoTimer

\* Without the right key the page waits for the viewer or WebCrypto with one answer at
\* most.  If that is to start the polling there is no timer.
Idle == listeners = <<>> /\ jobs = EmptyBag

Prompted == /\ jobs = EmptyBag /\ prompt
            /\ \E l \in Listener : listeners = <<l>> /\ (l.init => timers = {})

Working == /\ listeners = <<>>
           /\ \E j \in Job : jobs = SetToBag({j}) /\ (j.init => timers = {})

\* With the right key any number of answers are decrypted.  One of them at most is to
\* start the polling.
Opened == /\ listeners = <<>>
          /\ \A j \in BagToSet(jobs) : /\ j.what = "decrypt" /\ j.key = "right"
                                       /\ j.init => timers = {} /\ jobs[j] = 1
          /\ \A j, k \in BagToSet(jobs) : j.init /\ k.init => j = k

\* Something under way is to start the polling.
Starting == \/ \E d \in InFlight : docs[d].first
            \/ \E l \in Range(listeners) : l.init
            \/ \E j \in BagToSet(jobs) : j.init

OneByOne == /\ OneTimer
            /\ FirstAlone
            /\ IF aesKey = "right" THEN Opened ELSE Idle \/ Prompted \/ Working
            /\ timers = {} /\ message = "none" => Starting \/ dismissed \/ fetchIntv = NoTimer

KeyInv == TypeOK /\ (~piled => OneByOne)

------------------------------------------------------------------------------
(* Bags, and the answers that are kept *)

LEMMA EmptyIsBag == IsABag(EmptyBag) /\ BagToSet(EmptyBag) = {} /\ DOMAIN EmptyBag = {}
BY DEF IsABag, EmptyBag, SetToBag, BagToSet

LEMMA BagOfOne ==
  ASSUME NEW j
  PROVE  /\ EmptyBag (+) SetToBag({j}) = SetToBag({j})
         /\ SetToBag({j}) (-) SetToBag({j}) = EmptyBag
         /\ BagToSet(SetToBag({j})) = {j} /\ SetToBag({j})[j] = 1
<1>1. DOMAIN EmptyBag = {} /\ EmptyBag = [e \in {} |-> 1]
  BY DEF EmptyBag, SetToBag
<1>2. SetToBag({j}) = [e \in {j} |-> 1] /\ DOMAIN SetToBag({j}) = {j} /\ SetToBag({j})[j] = 1
  BY DEF SetToBag
<1>3. EmptyBag (+) SetToBag({j}) = [e \in {} \cup {j} |-> (IF e \in {} THEN EmptyBag[e] ELSE 0)
                                       + (IF e \in {j} THEN SetToBag({j})[e] ELSE 0)]
  BY <1>1, <1>2 DEF (+)
<1>4. EmptyBag (+) SetToBag({j}) = [e \in {j} |-> 1]
  BY <1>2, <1>3
<1> DEFINE L == [e \in {j} |-> IF e \in {j} THEN SetToBag({j})[e] - SetToBag({j})[e]
                                          ELSE SetToBag({j})[e]]
<1>5. SetToBag({j}) (-) SetToBag({j}) = [e \in {d \in DOMAIN L : L[d] > 0} |-> L[e]]
  BY <1>2 DEF (-)
<1>6. {d \in DOMAIN L : L[d] > 0} = {}
  BY <1>2
<1> HIDE DEF L
<1>7. SetToBag({j}) (-) SetToBag({j}) = [e \in {} |-> 1]
  BY <1>5, <1>6
<1> QED BY <1>1, <1>2, <1>4, <1>7 DEF BagToSet

\* Adding and removing one occurrence, and what becomes of the others.
LEMMA BagSteps ==
  ASSUME NEW B, IsABag(B), NEW x
  PROVE  LET plus == B (+) SetToBag({x})   less == B (-) SetToBag({x})
         IN  /\ IsABag(plus) /\ BagToSet(plus) = BagToSet(B) \cup {x}
             /\ \A y \in BagToSet(B) \ {x} : plus[y] = B[y]
             /\ IsABag(less) /\ BagToSet(less) \subseteq BagToSet(B)
             /\ BagToSet(B) \ {x} \subseteq BagToSet(less)
             /\ \A y \in BagToSet(less) \ {x} : less[y] = B[y]
             /\ x \in BagToSet(B) /\ B[x] = 1 => x \notin BagToSet(less)
<1> DEFINE plus == B (+) SetToBag({x})
           less == B (-) SetToBag({x})
<1>1. \A y \in DOMAIN B : B[y] \in Nat /\ B[y] > 0
  BY DEF IsABag
<1>2. SetToBag({x}) = [e \in {x} |-> 1] /\ DOMAIN SetToBag({x}) = {x} /\ SetToBag({x})[x] = 1
  BY DEF SetToBag
<1>3. plus = [e \in DOMAIN B \cup {x} |-> (IF e \in DOMAIN B THEN B[e] ELSE 0)
                                         + (IF e \in {x} THEN SetToBag({x})[e] ELSE 0)]
  BY <1>2 DEF (+)
<1>4. DOMAIN plus = DOMAIN B \cup {x} /\ \A y \in DOMAIN plus : plus[y] \in {n \in Nat : n > 0}
  BY <1>1, <1>2, <1>3
<1>5. IsABag(plus) /\ \A y \in DOMAIN B \ {x} : plus[y] = B[y]
  BY <1>1, <1>2, <1>3, <1>4 DEF IsABag
<1> DEFINE L == [e \in DOMAIN B |-> IF e \in {x} THEN B[e] - SetToBag({x})[e] ELSE B[e]]
           D == {d \in DOMAIN L : L[d] > 0}
<1>6. less = [e \in D |-> L[e]]
  BY <1>2 DEF (-)
<1>7. D \subseteq DOMAIN B /\ \A y \in D : L[y] \in {n \in Nat : n > 0}
  BY <1>1, <1>2
<1>8. \A y \in DOMAIN B \ {x} : L[y] = B[y]
  OBVIOUS
<1>9. x \in DOMAIN B /\ B[x] = 1 => x \notin D
  BY <1>2
<1>11. DOMAIN B \ {x} \subseteq D
  BY <1>1 DEF D, L
<1> HIDE DEF L, D
<1>10. /\ IsABag(less) /\ DOMAIN less = D
       /\ \A y \in DOMAIN less \ {x} : less[y] = B[y]
  BY <1>6, <1>7, <1>8 DEF IsABag
<1> QED BY <1>4, <1>5, <1>7, <1>9, <1>10, <1>11 DEF BagToSet

\* What a sequence of any length adds to a bag.
LEMMA BagOfSeq ==
  ASSUME NEW B, IsABag(B), NEW S, NEW s, DOMAIN s \subseteq Nat, IsFiniteSet(DOMAIN s),
         \A i \in DOMAIN s : s[i] \in S
  PROVE  IsABag(B (+) ToBag(s)) /\ BagToSet(B (+) ToBag(s)) \subseteq BagToSet(B) \cup S
<1>1. Range(s) = {s[i] : i \in DOMAIN s}
  BY DEF Range
<1>2. DOMAIN ToBag(s) = Range(s)
  BY DEF ToBag
<1>3. \A x \in Range(s) : ToBag(s)[x] \in Nat /\ ToBag(s)[x] > 0
  <2> SUFFICES ASSUME NEW x \in Range(s) PROVE ToBag(s)[x] \in Nat /\ ToBag(s)[x] > 0
    OBVIOUS
  <2> DEFINE I == {i \in DOMAIN s : s[i] = x}
  <2>1. ToBag(s)[x] = Cardinality(I)
    BY DEF ToBag
  <2>2. I # {} /\ I \subseteq DOMAIN s
    BY <1>1
  <2>3. IsFiniteSet(I) /\ Cardinality(I) \in Nat
    BY <2>2, FS_Subset, FS_CardinalityType
  <2>4. Cardinality(I) # 0
    BY <2>2, <2>3, FS_EmptySet
  <2> QED BY <2>1, <2>3, <2>4
<1>4. \A x \in DOMAIN B : B[x] \in Nat /\ B[x] > 0
  BY DEF IsABag
<1> DEFINE C == B (+) ToBag(s)
<1>5. C = [e \in DOMAIN B \cup Range(s) |-> (IF e \in DOMAIN B THEN B[e] ELSE 0)
                                           + (IF e \in Range(s) THEN ToBag(s)[e] ELSE 0)]
  BY <1>2 DEF (+)
<1>6. DOMAIN C = DOMAIN B \cup Range(s) /\ \A e \in DOMAIN C : C[e] \in {n \in Nat : n > 0}
  BY <1>3, <1>4, <1>5
<1>7. IsABag(C)
  BY <1>5, <1>6 DEF IsABag
<1> QED BY <1>1, <1>6, <1>7 DEF BagToSet

LEMMA FreeType == Free \in Doc /\ Free.st = "free" /\ Free.first = FALSE
BY BoundsAssumption DEF Free, Doc

\* Kept drops answers that are done with, and no request.
LEMMA KeptDocs ==
  ASSUME NEW ds \in [Docs -> Doc], NEW ls, NEW js
  PROVE  /\ Kept(ds, ls, js) \in [Docs -> Doc]
         /\ \A d \in Docs : Kept(ds, ls, js)[d] = ds[d] \/ Kept(ds, ls, js)[d] = Free
BY FreeType DEF Kept

LEMMA RangeOfOne ==
  ASSUME NEW x
  PROVE  /\ Range(<<x>>) = {x} /\ <<x>> # <<>> /\ <<x>> = Append(<<>>, x)
         /\ Front(<<x>>) = <<>> /\ Len(<<x>>) = 1 /\ Range(<<>>) = {}
BY DEF Range, Front

LEMMA MaxOfTwo ==
  ASSUME NEW n \in Nat, NEW x \in 0..n, NEW y \in 0..n
  PROVE  Max({x, y}) \in 0..n
<1>1. CASE x <= y
  <2>1. Max({x, y}) = y
    BY <1>1, MaxIs
  <2> QED BY <2>1
<1>2. CASE y <= x
  <2>1. Max({x, y}) = x
    BY <1>2, MaxIs
  <2> QED BY <2>1
<1> QED BY <1>1, <1>2

\* Of a single handler Enter makes a single operation.
LEMMA DeriveOne ==
  ASSUME NEW l, NEW pw, Enter(pw), listeners = <<l>>, jobs = EmptyBag
  PROVE  jobs' = SetToBag({Deriving(l, pw)})
<1> DEFINE j == Deriving(l, pw)
           s == [i \in DOMAIN Running |-> Deriving(Running[i], pw)]
<1>1. Running = listeners /\ DOMAIN listeners = {1} /\ listeners[1] = l
  BY DEF Running
<1>2. DOMAIN s = {1} /\ s[1] = j
  BY <1>1
<1>3. jobs' = EmptyBag (+) ToBag(s)
  BY DEF Enter
<1> HIDE DEF j, s
<1>4. Range(s) = {j} /\ {i \in DOMAIN s : s[i] = j} = {1}
  BY <1>2 DEF Range
<1>5. ToBag(s) = [x \in {j} |-> 1]
  <2>1. Cardinality({1}) = 1
    BY FS_Singleton
  <2> QED BY <1>4, <2>1 DEF ToBag
<1>6. EmptyBag (+) ToBag(s) = [x \in {j} |-> 1]
  BY <1>5, EmptyIsBag DEF (+)
<1> QED BY <1>3, <1>6 DEF SetToBag, j

------------------------------------------------------------------------------
(* Types *)

\* What processUpdate is called with, and what is left alone by who calls it.
Ready(d, init, ds, js, ts) ==
  /\ TypeOK
  /\ d \in Docs /\ init \in BOOLEAN /\ ds \in [Docs -> Doc]
  /\ IsABag(js) /\ BagToSet(js) \subseteq Job /\ ts \subseteq TimerIds
  /\ aesKey' \in Passwords \cup {NoKey} /\ piled' \in BOOLEAN
  /\ UNCHANGED <<server, wrongs, dismissed, message>>

\* A drawn answer sets a timer if it is to start the polling.
LEMMA ShowTypes ==
  ASSUME NEW d, NEW init, NEW ds, NEW js, NEW ts, Ready(d, init, ds, js, ts),
         Show(d, init, ds, listeners, js, ts)
  PROVE  /\ TypeOK' /\ listeners' = listeners /\ jobs' = js
         /\ init => fetchIntv' \in TimerIds /\ timers' = ts \cup {fetchIntv'}
         /\ ~init => timers' = ts /\ fetchIntv' = fetchIntv
         /\ \A x \in Docs : \/ docs'[x] = Free
                            \/ docs'[x].st = ds[x].st /\ docs'[x].first = ds[x].first
<1> DEFINE es == [ds EXCEPT ![d].plain = TRUE]
<1>1. TypeOK /\ d \in Docs /\ init \in BOOLEAN /\ ds \in [Docs -> Doc] /\ ts \subseteq TimerIds
  BY DEF Ready
<1>2. /\ es \in [Docs -> Doc]
      /\ \A x \in Docs : es[x].st = ds[x].st /\ es[x].first = ds[x].first
  BY <1>1 DEF Doc
<1>3. /\ docs' = Kept(es, listeners, js) /\ listeners' = listeners /\ jobs' = js
      /\ prompt' = prompt /\ drawn' = Max({drawn, ds[d].upto})
  BY DEF Show
<1> HIDE DEF es
<1>4. docs' \in [Docs -> Doc] /\ \A x \in Docs : docs'[x] = es[x] \/ docs'[x] = Free
  BY <1>2, <1>3, KeptDocs
<1>5. /\ init => fetchIntv' \in TimerIds /\ timers' = ts \cup {fetchIntv'}
      /\ ~init => timers' = ts /\ fetchIntv' = fetchIntv
  <2>1. CASE init
    <3>1. TimerIds \ ts # {} /\ fetchIntv' = Some(TimerIds \ ts)
          /\ timers' = ts \cup {fetchIntv'}
      BY <2>1 DEF Show, SetNewInterval
    <3>2. fetchIntv' \in TimerIds
      BY <3>1 DEF Some
    <3> QED BY <2>1, <3>1, <3>2
  <2>2. CASE ~init
    BY <2>2 DEF Show
  <2> QED BY <2>1, <2>2
<1>6. drawn' \in 0..MaxPosts
  <2>1. drawn \in 0..MaxPosts /\ ds[d].upto \in 0..MaxPosts /\ MaxPosts \in Nat
    BY <1>1, BoundsAssumption DEF TypeOK, Doc
  <2> QED BY <1>3, <2>1, MaxOfTwo
<1>7. timers' \subseteq TimerIds /\ fetchIntv' \in TimerIds \cup {NoTimer}
  BY <1>1, <1>5 DEF TypeOK
<1>8. TypeOK'
  BY <1>1, <1>3, <1>4, <1>6, <1>7 DEF TypeOK, Ready, server
<1> QED BY <1>2, <1>3, <1>4, <1>5, <1>8

LEMMA AskTypes ==
  ASSUME NEW d, NEW init, NEW ds, NEW js, NEW ts, Ready(d, init, ds, js, ts),
         Ask(d, init, ds, listeners, js, ts)
  PROVE  /\ TypeOK' /\ prompt' /\ jobs' = js /\ timers' = ts /\ fetchIntv' = fetchIntv
         /\ listeners' = Append(listeners, [doc |-> d, init |-> init])
         /\ \A x \in Docs : docs'[x] = Free \/ docs'[x] = ds[x]
<1> DEFINE l == [doc |-> d, init |-> init]
<1>1. /\ TypeOK /\ d \in Docs /\ init \in BOOLEAN /\ ds \in [Docs -> Doc] /\ ts \subseteq TimerIds
      /\ listeners \in Seq(Listener)
  BY DEF Ready, TypeOK
<1>2. l \in Listener
  BY <1>1 DEF Listener
<1>3. /\ listeners' = Append(listeners, l) /\ prompt' = TRUE /\ jobs' = js /\ timers' = ts
      /\ docs' = Kept(ds, listeners', js) /\ UNCHANGED <<fetchIntv, drawn>>
  BY DEF Ask
<1> HIDE DEF l
<1>4. listeners' \in Seq(Listener) /\ listeners' # <<>>
  BY <1>1, <1>2, <1>3
<1>5. docs' \in [Docs -> Doc] /\ \A x \in Docs : docs'[x] = Free \/ docs'[x] = ds[x]
  BY <1>1, <1>3, KeptDocs
<1>6. TypeOK'
  BY <1>1, <1>3, <1>4, <1>5 DEF TypeOK, Ready, server
<1> QED BY <1>3, <1>5, <1>6 DEF l

LEMMA DecryptTypes ==
  ASSUME NEW d, NEW init, NEW ds, NEW js, NEW ts, Ready(d, init, ds, js, ts),
         NEW key \in Passwords, Decrypt(d, init, key, ds, listeners, js, ts)
  PROVE  LET j == [what |-> "decrypt", doc |-> d, init |-> init, key |-> key]
         IN  /\ TypeOK' /\ j \in Job /\ jobs' = js (+) SetToBag({j})
             /\ listeners' = listeners /\ timers' = ts /\ fetchIntv' = fetchIntv
             /\ \A x \in Docs : docs'[x] = Free \/ docs'[x] = ds[x]
<1> DEFINE j == [what |-> "decrypt", doc |-> d, init |-> init, key |-> key]
<1>1. /\ TypeOK /\ d \in Docs /\ init \in BOOLEAN /\ ds \in [Docs -> Doc] /\ ts \subseteq TimerIds
      /\ IsABag(js) /\ BagToSet(js) \subseteq Job
  BY DEF Ready
<1>2. j \in Job
  BY <1>1 DEF Job
<1>3. /\ jobs' = js (+) SetToBag({j}) /\ docs' = Kept(ds, listeners, jobs')
      /\ listeners' = listeners /\ timers' = ts /\ UNCHANGED <<prompt, fetchIntv, drawn>>
  BY DEF Decrypt
<1> HIDE DEF j
<1>4. IsABag(jobs') /\ BagToSet(jobs') \subseteq Job
  <2>1. /\ IsABag(js (+) SetToBag({j}))
        /\ BagToSet(js (+) SetToBag({j})) = BagToSet(js) \cup {j}
    BY <1>1, BagSteps
  <2> QED BY <1>1, <1>2, <1>3, <2>1
<1>5. docs' \in [Docs -> Doc] /\ \A x \in Docs : docs'[x] = Free \/ docs'[x] = ds[x]
  BY <1>1, <1>3, KeptDocs
<1>6. TypeOK'
  BY <1>1, <1>3, <1>4, <1>5 DEF TypeOK, Ready, server
<1> QED BY <1>2, <1>3, <1>5, <1>6 DEF j

LEMMA ProcessTypes ==
  ASSUME NEW d, NEW init, NEW ds, NEW js, NEW ts, Ready(d, init, ds, js, ts),
         NEW key \in Passwords \cup {NoKey}, Process(d, init, key, ds, listeners, js, ts)
  PROVE  TypeOK'
<1>1. CASE Show(d, init, ds, listeners, js, ts)
  BY <1>1, ShowTypes
<1>2. CASE Ask(d, init, ds, listeners, js, ts)
  BY <1>2, AskTypes
<1>3. CASE key # NoKey /\ Decrypt(d, init, key, ds, listeners, js, ts)
  BY <1>3, DecryptTypes
<1> QED BY <1>1, <1>2, <1>3 DEF Process

\* The arguments processUpdate is called with have their types.
LEMMA DeliverReady ==
  ASSUME TypeOK, NEW d \in Docs, docs[d].st = "answered", piled' \in BOOLEAN,
         UNCHANGED <<message, server, aesKey, wrongs, dismissed>>
  PROVE  Ready(d, docs[d].first, [docs EXCEPT ![d].st = "kept"], jobs, timers)
<1>1. docs \in [Docs -> Doc] /\ docs[d].first \in BOOLEAN
  BY DEF TypeOK, Doc
<1>2. [docs EXCEPT ![d].st = "kept"] \in [Docs -> Doc]
  BY <1>1 DEF Doc
<1> QED BY <1>1, <1>2 DEF Ready, TypeOK

LEMMA JobReady ==
  ASSUME TypeOK, NEW j \in BagToSet(jobs), NEW init \in BOOLEAN, NEW ts, ts \subseteq timers,
         aesKey' \in Passwords \cup {NoKey},
         UNCHANGED <<server, wrongs, dismissed, piled, message>>
  PROVE  Ready(j.doc, init, docs, Without(j), ts) /\ j \in Job
<1>1. IsABag(jobs) /\ BagToSet(jobs) \subseteq Job /\ j \in Job
  BY DEF TypeOK
<1>2. IsABag(Without(j)) /\ BagToSet(Without(j)) \subseteq Job
  BY <1>1, BagSteps DEF Without
<1> QED BY <1>1, <1>2 DEF Ready, TypeOK, Job

LEMMA FrontType ==
  ASSUME NEW S, NEW s \in Seq(S), s # <<>>
  PROVE  Front(s) \in Seq(S)
BY DEF Front

LEMMA EnterTypes ==
  ASSUME TypeOK, NEW pw \in Passwords, Enter(pw)
  PROVE  TypeOK'
<1>1. /\ listeners \in Seq(Listener) /\ listeners # <<>> /\ docs \in [Docs -> Doc]
      /\ IsABag(jobs) /\ BagToSet(jobs) \subseteq Job
  BY DEF TypeOK, Enter
<1>2. Front(listeners) \in Seq(Listener)
  BY <1>1, FrontType
<1>3. Running \in Seq(Listener)
  BY <1>1, <1>2 DEF Running
<1> DEFINE s == [i \in DOMAIN Running |-> Deriving(Running[i], pw)]
<1>4. DOMAIN s = 1..Len(Running) /\ Len(Running) \in Nat
  BY <1>3
<1>5. IsFiniteSet(DOMAIN s) /\ DOMAIN s \subseteq Nat
  BY <1>4, FS_Interval
<1>6. \A i \in DOMAIN s : s[i] \in Job
  <2> SUFFICES ASSUME NEW i \in DOMAIN Running PROVE Deriving(Running[i], pw) \in Job
    OBVIOUS
  <2>1. Running[i] \in Listener
    BY <1>3
  <2> QED BY <2>1 DEF Deriving, Job, Listener
<1>7. jobs' = jobs (+) ToBag(s)
  BY DEF Enter
<1> HIDE DEF s
<1>8. IsABag(jobs') /\ BagToSet(jobs') \subseteq Job
  BY <1>1, <1>5, <1>6, <1>7, BagOfSeq
<1>9. /\ listeners' = Front(listeners) /\ prompt' = FALSE
      /\ wrongs' = IF pw = "wrong" THEN wrongs + 1 ELSE wrongs
      /\ pw = "wrong" => wrongs < MaxWrong
      /\ docs' = Kept(docs, listeners', jobs')
      /\ UNCHANGED <<server, aesKey, dismissed, piled, polling, drawn, message>>
  BY DEF Enter
<1>10. docs' \in [Docs -> Doc]
  BY <1>1, <1>9, KeptDocs
<1>11. wrongs' \in 0..MaxWrong
  BY <1>9, BoundsAssumption DEF TypeOK
<1> QED BY <1>2, <1>8, <1>9, <1>10, <1>11 DEF TypeOK, server, polling

LEMMA CancelTypes ==
  ASSUME TypeOK, Cancel
  PROVE  TypeOK'
<1>1. listeners \in Seq(Listener) /\ listeners # <<>> /\ docs \in [Docs -> Doc]
  BY DEF TypeOK, Cancel
<1>2. Front(listeners) \in Seq(Listener)
  BY <1>1, FrontType
<1>3. /\ listeners' = Front(listeners) /\ prompt' = FALSE /\ dismissed' = TRUE
      /\ docs' = Kept(docs, listeners', jobs)
      /\ UNCHANGED <<server, aesKey, wrongs, piled, jobs, polling, drawn, message>>
  BY DEF Cancel
<1>4. docs' \in [Docs -> Doc]
  BY <1>1, <1>3, KeptDocs
<1> QED BY <1>2, <1>3, <1>4 DEF TypeOK, server, polling

LEMMA DeliverTypes ==
  ASSUME TypeOK, NEW d \in Docs, Deliver(d)
  PROVE  TypeOK'
<1>1. docs[d].st = "answered" /\ UNCHANGED <<server, aesKey, wrongs, dismissed>>
  BY DEF Deliver
<1>2. CASE /\ Process(d, docs[d].first, aesKey, [docs EXCEPT ![d].st = "kept"],
                      listeners, jobs, timers)
           /\ piled' = (piled \/ Waiting)
           /\ UNCHANGED message
  <2>1. piled' \in BOOLEAN
    BY <1>2 DEF TypeOK
  <2>2. Ready(d, docs[d].first, [docs EXCEPT ![d].st = "kept"], jobs, timers)
    BY <1>1, <1>2, <2>1, DeliverReady
  <2>3. aesKey \in Passwords \cup {NoKey}
    BY DEF TypeOK
  <2> QED BY <1>2, <2>2, <2>3, ProcessTypes
<1>3. CASE /\ docs' = [docs EXCEPT ![d] = Free]
           /\ IF docs[d].first THEN message' = "notfound" /\ UNCHANGED timers
                               ELSE message' = "expired" /\ timers' = Cleared
           /\ UNCHANGED <<listeners, prompt, piled, jobs, fetchIntv, drawn>>
  <2>1. docs' \in [Docs -> Doc]
    BY <1>3, FreeType DEF TypeOK
  <2>2. timers' \subseteq TimerIds /\ message' \in {"notfound", "expired"}
    BY <1>3 DEF TypeOK, Cleared
  <2> QED BY <1>1, <1>3, <2>1, <2>2 DEF TypeOK, server
<1> QED BY <1>2, <1>3 DEF Deliver

LEMMA JobTypes ==
  ASSUME TypeOK, NEW j \in BagToSet(jobs), Derived(j) \/ Decrypted(j) \/ Rejected(j)
  PROVE  TypeOK'
<1>1. j \in Job /\ j.init \in BOOLEAN /\ j.key \in Passwords /\ timers \subseteq timers
  BY DEF TypeOK, Job
<1>2. CASE Derived(j)
  <2>1. Ready(j.doc, j.init, docs, Without(j), timers)
    BY <1>1, <1>2, JobReady DEF Derived
  <2> QED BY <1>1, <1>2, <2>1, ProcessTypes DEF Derived
<1>3. CASE Decrypted(j)
  <2>1. aesKey' \in Passwords \cup {NoKey}
    BY <1>3 DEF Decrypted, TypeOK
  <2>2. Ready(j.doc, j.init, docs, Without(j), timers)
    BY <1>1, <1>3, <2>1, JobReady DEF Decrypted
  <2> QED BY <1>3, <2>2, ShowTypes DEF Decrypted
<1>4. CASE Rejected(j)
  <2>1. Remaining(j) \subseteq timers
    BY DEF Remaining, Cleared
  <2>2. Ready(j.doc, TRUE, docs, Without(j), Remaining(j))
    BY <1>4, <2>1, JobReady DEF Rejected
  <2> QED BY <1>4, <2>2, ProcessTypes DEF Rejected
<1> QED BY <1>2, <1>3, <1>4

\* A request is sent, in place of a free document.
LEMMA FireSends ==
  ASSUME TypeOK, NEW t, Fire(t)
  PROVE  /\ docs' \in [Docs -> Doc]
         /\ \E d \in Docs : /\ docs[d].st = "free" /\ docs'[d].first = FALSE
                           /\ \A x \in Docs \ {d} : docs'[x] = docs[x]
<1> DEFINE r == [Free EXCEPT !.st = "sent"]
           free == {d \in Docs : docs[d].st = "free"}
<1>1. free # {} /\ docs' = [docs EXCEPT ![Some(free)] = r]
  BY DEF Fire
<1>2. Some(free) \in free
  BY <1>1 DEF Some
<1>3. r \in Doc /\ r.first = FALSE
  BY FreeType DEF Doc
<1> HIDE DEF r
<1>4. Some(free) \in Docs /\ docs[Some(free)].st = "free"
  BY <1>2
<1> HIDE DEF free
<1> QED BY <1>1, <1>3, <1>4 DEF TypeOK

\* A request is answered, or dropped.
LEMMA ServeAnswers ==
  ASSUME TypeOK, NEW d \in Docs, Serve(d)
  PROVE  /\ docs' \in [Docs -> Doc]
         /\ docs[d].st = "sent" /\ docs'[d].st = "answered" /\ docs'[d].first = docs[d].first
         /\ \A x \in Docs \ {d} : docs'[x] = docs[x]
<1> DEFINE a == [docs[d] EXCEPT !.st = "answered", !.ok = (share = "live"), !.upto = newest]
<1>1. docs[d].st = "sent" /\ docs' = [docs EXCEPT ![d] = a]
  BY DEF Serve, TypeOK
<1>2. a \in Doc /\ a.st = "answered" /\ a.first = docs[d].first
  BY DEF Doc, TypeOK
<1> HIDE DEF a
<1> QED BY <1>1, <1>2 DEF TypeOK

LEMMA NextTypes ==
  ASSUME TypeOK, [Next]_vars
  PROVE  TypeOK'
<1>1. CASE UNCHANGED vars
  BY <1>1 DEF vars, server, dialog, polling, TypeOK
<1>2. ASSUME NEW t \in timers, Fire(t) PROVE TypeOK'
  <2>1. timers' \subseteq TimerIds /\ message' \in {"none", "notfound", "expired"}
    BY <1>2 DEF Fire, Cleared, TypeOK
  <2>2. docs' \in [Docs -> Doc]
    BY <1>2, FireSends
  <2> QED BY <1>2, <2>1, <2>2 DEF Fire, TypeOK, server, dialog
<1>3. ASSUME NEW d \in Docs, Serve(d) \/ Deliver(d) \/ Fail(d) PROVE TypeOK'
  <2>1. CASE Serve(d)
    <3>1. docs' \in [Docs -> Doc]
      BY <2>1, ServeAnswers
    <3> QED BY <2>1, <3>1 DEF Serve, TypeOK, server, dialog, polling
  <2>2. CASE Fail(d)
    <3>1. docs' \in [Docs -> Doc]
      BY <2>2, FreeType DEF Fail, TypeOK
    <3> QED BY <2>2, <3>1 DEF Fail, TypeOK, server, dialog, polling
  <2> QED BY <1>3, <2>1, <2>2, DeliverTypes
<1>4. ASSUME NEW pw \in Passwords, Enter(pw) PROVE TypeOK'
  BY <1>4, EnterTypes
<1>5. CASE Cancel
  BY <1>5, CancelTypes
<1>6. ASSUME NEW j \in BagToSet(jobs), Derived(j) \/ Decrypted(j) \/ Rejected(j) PROVE TypeOK'
  BY <1>6, JobTypes
<1>7. CASE Post \/ End
  <2>1. newest' \in 0..MaxPosts /\ share' \in {"live", "stopped", "expired"}
    BY <1>7, BoundsAssumption DEF Post, End, TypeOK
  <2> QED BY <1>7, <2>1 DEF Post, End, TypeOK, server, dialog, polling
<1> QED BY <1>1, <1>2, <1>3, <1>4, <1>5, <1>6, <1>7 DEF Next
------------------------------------------------------------------------------
(* One answer at a time *)

\* An answer is processed while there is nothing else: no handler, no operation, no
\* first request, and no timer if this is to start the polling.
Lone(d, init, key, ds, ts) ==
  /\ Ready(d, init, ds, EmptyBag, ts) /\ OneTimer /\ listeners = <<>>
  /\ \A x \in Docs : ds[x].st \in {"sent", "answered"} => ~ds[x].first
  /\ key \in Passwords \cup {NoKey} /\ aesKey' = key
  /\ ts \subseteq timers /\ (init => ts = {})
  /\ ts = {} /\ message = "none" => init \/ dismissed \/ fetchIntv = NoTimer

\* No request in flight is the first.
LEMMA NoFirst ==
  ASSUME \A x \in Docs : docs[x].st \in {"sent", "answered"} => ~docs[x].first
  PROVE  FirstAlone /\ ~(\E d \in InFlight : docs[d].first)
BY DEF FirstAlone, InFlight

\* It is drawn: with nothing else under way both forms of the invariant hold, that
\* for the right key and that for any other.
LEMMA LoneShow ==
  ASSUME NEW d, NEW init, NEW key, NEW ds, NEW ts, Lone(d, init, key, ds, ts),
         Show(d, init, ds, <<>>, EmptyBag, ts)
  PROVE  OneByOne'
<1>1. /\ listeners' = <<>> /\ jobs' = EmptyBag
      /\ init => fetchIntv' \in TimerIds /\ timers' = ts \cup {fetchIntv'}
      /\ ~init => timers' = ts /\ fetchIntv' = fetchIntv
      /\ \A x \in Docs : \/ docs'[x] = Free
                         \/ docs'[x].st = ds[x].st /\ docs'[x].first = ds[x].first
  BY ShowTypes DEF Lone
<1>2. (\A x \in Docs : docs[x].st \in {"sent", "answered"} => ~docs[x].first)'
  BY <1>1, FreeType DEF Lone
<1>3. FirstAlone'
  BY <1>2, NoFirst DEF FirstAlone, InFlight
<1>4. OneTimer' /\ Idle'
  BY <1>1 DEF OneTimer, Idle, Lone
<1>5. Opened'
  BY <1>1, EmptyIsBag DEF Opened
<1>6. message' = message /\ dismissed' = dismissed
  BY DEF Lone, Ready
<1>7. timers' = {} /\ message' = "none" => dismissed' \/ fetchIntv' = NoTimer
  BY <1>1, <1>6 DEF Lone
<1> QED BY <1>3, <1>4, <1>5, <1>7 DEF OneByOne

LEMMA LoneAsk ==
  ASSUME NEW d, NEW init, NEW ds, NEW ts, Lone(d, init, NoKey, ds, ts),
         Ask(d, init, ds, <<>>, EmptyBag, ts)
  PROVE  OneByOne'
<1> DEFINE l == [doc |-> d, init |-> init]
<1>1. l \in Listener /\ l.init = init
  BY DEF Lone, Ready, Listener
<1>2. /\ prompt' /\ jobs' = EmptyBag /\ timers' = ts /\ fetchIntv' = fetchIntv
      /\ listeners' = Append(<<>>, l)
      /\ \A x \in Docs : docs'[x] = Free \/ docs'[x] = ds[x]
  BY AskTypes DEF Lone
<1> HIDE DEF l
<1>3. listeners' = <<l>> /\ Range(listeners') = {l}
  BY <1>2, RangeOfOne
<1>4. FirstAlone'
  BY <1>2, FreeType DEF FirstAlone, InFlight, Lone
<1>5. OneTimer' /\ (init => timers' = {})
  BY <1>2 DEF OneTimer, Lone
<1>6. Prompted'
  BY <1>1, <1>2, <1>3, <1>5 DEF Prompted
<1>7. aesKey' # "right" /\ message' = message /\ dismissed' = dismissed
  BY NoKeyAssumption DEF Lone, Ready, Passwords
<1>8. timers' = {} /\ message' = "none" => Starting' \/ dismissed' \/ fetchIntv' = NoTimer
  BY <1>1, <1>2, <1>3, <1>7 DEF Lone, Starting
<1> QED BY <1>4, <1>5, <1>6, <1>7, <1>8 DEF OneByOne

LEMMA LoneDecrypt ==
  ASSUME NEW d, NEW init, NEW key, NEW ds, NEW ts, Lone(d, init, key, ds, ts),
         key # NoKey, Decrypt(d, init, key, ds, <<>>, EmptyBag, ts)
  PROVE  OneByOne'
<1> DEFINE j == [what |-> "decrypt", doc |-> d, init |-> init, key |-> key]
<1>1. key \in Passwords /\ j.init = init /\ j.what = "decrypt" /\ j.key = key
  BY DEF Lone
<1>2. /\ j \in Job /\ jobs' = EmptyBag (+) SetToBag({j})
      /\ listeners' = <<>> /\ timers' = ts /\ fetchIntv' = fetchIntv
      /\ \A x \in Docs : docs'[x] = Free \/ docs'[x] = ds[x]
  BY <1>1, DecryptTypes DEF Lone
<1> HIDE DEF j
<1>3. jobs' = SetToBag({j}) /\ BagToSet(jobs') = {j} /\ jobs'[j] = 1
  BY <1>2, BagOfOne
<1>4. FirstAlone'
  BY <1>2, FreeType DEF FirstAlone, InFlight, Lone
<1>5. OneTimer' /\ (init => timers' = {})
  BY <1>2 DEF OneTimer, Lone
<1>6. Working' /\ (key = "right" => Opened')
  BY <1>1, <1>2, <1>3, <1>5 DEF Working, Opened
<1>7. aesKey' = key /\ message' = message /\ dismissed' = dismissed
  BY DEF Lone, Ready
<1>8. timers' = {} /\ message' = "none" => Starting' \/ dismissed' \/ fetchIntv' = NoTimer
  BY <1>1, <1>2, <1>3, <1>7 DEF Lone, Starting
<1> QED BY <1>4, <1>5, <1>6, <1>7, <1>8 DEF OneByOne

LEMMA LoneProcess ==
  ASSUME NEW d, NEW init, NEW key, NEW ds, NEW ts, Lone(d, init, key, ds, ts),
         Process(d, init, key, ds, <<>>, EmptyBag, ts)
  PROVE  OneByOne'
<1>1. CASE Show(d, init, ds, <<>>, EmptyBag, ts)
  BY <1>1, LoneShow
<1>2. CASE key = NoKey /\ Ask(d, init, ds, <<>>, EmptyBag, ts)
  BY <1>2, LoneAsk
<1>3. CASE key # NoKey /\ Decrypt(d, init, key, ds, <<>>, EmptyBag, ts)
  BY <1>3, LoneDecrypt
<1> QED BY <1>1, <1>2, <1>3 DEF Process

------------------------------------------------------------------------------
(* Without the right key *)

\* An operation is the only one, and its answer the only one that waits.
LEMMA LockedJob ==
  ASSUME TypeOK, OneByOne, aesKey # "right", NEW j \in BagToSet(jobs)
  PROVE  /\ listeners = <<>> /\ Without(j) = EmptyBag
         /\ j \in Job /\ j.init \in BOOLEAN /\ j.key \in Passwords
         /\ \A x \in Docs : docs[x].st \in {"sent", "answered"} => ~docs[x].first
         /\ j.init => timers = {}
         /\ timers = {} /\ message = "none" => j.init \/ dismissed \/ fetchIntv = NoTimer
<1>1. jobs # EmptyBag
  BY EmptyIsBag
<1>2. Working
  BY <1>1 DEF OneByOne, Idle, Prompted
<1>3. PICK k \in Job : jobs = SetToBag({k}) /\ (k.init => timers = {})
  BY <1>2 DEF Working
<1>4. k = j /\ BagToSet(jobs) = {j} /\ Without(j) = EmptyBag
  <2>1. BagToSet(jobs) = {k}
    BY <1>3, BagOfOne
  <2>2. k = j
    BY <2>1
  <2>3. SetToBag({j}) (-) SetToBag({j}) = EmptyBag
    BY BagOfOne
  <2> QED BY <1>3, <2>1, <2>2, <2>3 DEF Without
<1>5. listeners = <<>> /\ Range(listeners) = {}
  BY <1>2, RangeOfOne DEF Working
<1>6. \A x \in Docs : docs[x].st \in {"sent", "answered"} => ~docs[x].first
  BY <1>1 DEF OneByOne, FirstAlone, InFlight
<1>7. timers = {} /\ message = "none" => j.init \/ dismissed \/ fetchIntv = NoTimer
  BY <1>4, <1>5, <1>6 DEF OneByOne, Starting, InFlight
<1> QED BY <1>3, <1>4, <1>5, <1>6, <1>7 DEF Job

\* Deriving, decrypting and failing to, with nothing else under way.
LEMMA LockedJobStep ==
  ASSUME TypeOK, OneByOne, aesKey # "right", NEW j \in BagToSet(jobs),
         Derived(j) \/ Decrypted(j) \/ Rejected(j)
  PROVE  OneByOne'
<1>1. CASE Derived(j)
  <2>1. Ready(j.doc, j.init, docs, EmptyBag, timers)
    BY <1>1, LockedJob, JobReady DEF Derived
  <2>2. Lone(j.doc, j.init, j.key, docs, timers)
    BY <1>1, <2>1, LockedJob DEF Lone, Derived, OneByOne
  <2> QED BY <1>1, <2>2, LockedJob, LoneProcess DEF Derived
<1>2. CASE Decrypted(j)
  <2>1. aesKey' = aesKey /\ aesKey \in Passwords \cup {NoKey}
    BY <1>2 DEF Decrypted, TypeOK
  <2>2. Ready(j.doc, j.init, docs, EmptyBag, timers)
    BY <1>2, <2>1, LockedJob, JobReady DEF Decrypted
  <2>3. Lone(j.doc, j.init, aesKey, docs, timers)
    BY <2>1, <2>2, LockedJob DEF Lone, OneByOne
  <2> QED BY <1>2, <2>3, LockedJob, LoneShow DEF Decrypted
<1>3. CASE Rejected(j)
  <2>1. Remaining(j) = {}
    BY LockedJob DEF Remaining, Cleared, OneTimer, OneByOne
  <2>2. Ready(j.doc, TRUE, docs, EmptyBag, {})
    BY <1>3, LockedJob, JobReady DEF Rejected
  <2>3. Lone(j.doc, TRUE, NoKey, docs, {})
    BY <1>3, <2>2, LockedJob DEF Lone, Rejected, OneByOne
  <2> QED BY <1>3, <2>1, <2>3, LockedJob, LoneProcess DEF Rejected
<1> QED BY <1>1, <1>2, <1>3

\* With the prompt open there is one handler, and no operation.
LEMMA LockedPrompt ==
  ASSUME TypeOK, OneByOne, prompt
  PROVE  /\ aesKey # "right" /\ jobs = EmptyBag
         /\ \E l \in Listener : listeners = <<l>> /\ (l.init => timers = {})
BY DEF TypeOK, OneByOne, Opened, Idle, Working, Prompted

LEMMA CancelStep ==
  ASSUME TypeOK, OneByOne, Cancel
  PROVE  OneByOne'
<1>1. prompt
  BY DEF Cancel
<1>2. PICK l \in Listener : listeners = <<l>>
  BY <1>1, LockedPrompt
<1>3. /\ listeners' = <<>> /\ dismissed' = TRUE
      /\ docs' = Kept(docs, listeners', jobs)
      /\ UNCHANGED <<aesKey, jobs, polling>>
  BY <1>2, RangeOfOne DEF Cancel
<1>4. \A x \in Docs : docs'[x] = docs[x] \/ docs'[x] = Free
  BY <1>3, KeptDocs DEF TypeOK
<1>5. ~\E d \in InFlight : docs[d].first
  BY <1>2, RangeOfOne DEF OneByOne, FirstAlone
<1>6. FirstAlone'
  BY <1>4, <1>5, FreeType DEF FirstAlone, InFlight
<1>7. Idle' /\ aesKey' # "right"
  BY <1>1, <1>3, LockedPrompt DEF Idle
<1> QED BY <1>3, <1>6, <1>7 DEF OneByOne, OneTimer, polling

LEMMA EnterStep ==
  ASSUME TypeOK, OneByOne, NEW pw \in Passwords, Enter(pw)
  PROVE  OneByOne'
<1>1. prompt
  BY DEF Enter
<1>2. PICK l \in Listener : listeners = <<l>> /\ (l.init => timers = {})
  BY <1>1, LockedPrompt
<1>3. jobs = EmptyBag /\ aesKey # "right" /\ Range(listeners) = {l}
  BY <1>1, <1>2, LockedPrompt, RangeOfOne
<1> DEFINE j == Deriving(l, pw)
<1>4. j \in Job /\ j.init = l.init
  BY <1>2 DEF Deriving, Job, Listener
<1>5. jobs' = SetToBag({j})
  BY <1>2, <1>3, DeriveOne
<1> HIDE DEF j
<1>6. BagToSet(jobs') = {j}
  BY <1>5, BagOfOne
<1>7. /\ listeners' = <<>>
      /\ docs' = Kept(docs, listeners', jobs')
      /\ UNCHANGED <<aesKey, dismissed, polling, message>>
  BY <1>2, RangeOfOne DEF Enter
<1>8. \A x \in Docs : docs'[x] = docs[x] \/ docs'[x] = Free
  BY <1>7, KeptDocs DEF TypeOK
<1>9. ~\E d \in InFlight : docs[d].first
  BY <1>2, RangeOfOne DEF OneByOne, FirstAlone
<1>10. FirstAlone'
  BY <1>8, <1>9, FreeType DEF FirstAlone, InFlight
<1>11. Working'
  BY <1>2, <1>4, <1>5, <1>7 DEF Working, polling
<1>12. timers' = {} /\ message' = "none" => Starting' \/ dismissed' \/ fetchIntv' = NoTimer
  <2>1. Starting => l.init
    BY <1>3, <1>9, EmptyIsBag DEF Starting
  <2>2. l.init => Starting'
    BY <1>4, <1>6 DEF Starting
  <2> QED BY <1>7, <2>1, <2>2 DEF OneByOne, polling
<1> QED BY <1>3, <1>7, <1>10, <1>11, <1>12 DEF OneByOne, OneTimer, polling

------------------------------------------------------------------------------
(* With the right key *)

\* Of the operations none but decrypting is left, and of a first request nothing.
LEMMA OpenedJob ==
  ASSUME TypeOK, OneByOne, aesKey = "right", NEW j \in BagToSet(jobs),
         Derived(j) \/ Decrypted(j) \/ Rejected(j)
  PROVE  OneByOne'
<1>1. Opened /\ OneTimer /\ jobs # EmptyBag
  BY EmptyIsBag DEF OneByOne
<1>2. Decrypted(j)
  <2>1. j.what = "decrypt" /\ j.key = "right"
    BY <1>1 DEF Opened
  <2>2. ~Derived(j) /\ ~Rejected(j)
    BY <2>1 DEF Derived, Rejected
  <2> QED BY <2>2
<1>3. j \in Job /\ j.init \in BOOLEAN /\ IsABag(jobs)
  BY DEF TypeOK, Job
<1>4. /\ Ready(j.doc, j.init, docs, Without(j), timers)
      /\ Show(j.doc, j.init, docs, listeners, Without(j), timers)
      /\ aesKey' = aesKey /\ UNCHANGED <<dismissed, message>>
  BY <1>2, <1>3, JobReady DEF Decrypted, TypeOK
<1>5. /\ listeners' = <<>> /\ jobs' = Without(j)
      /\ j.init => fetchIntv' \in TimerIds /\ timers' = timers \cup {fetchIntv'}
      /\ ~j.init => timers' = timers /\ fetchIntv' = fetchIntv
      /\ \A x \in Docs : \/ docs'[x] = Free
                         \/ docs'[x].st = docs[x].st /\ docs'[x].first = docs[x].first
  BY <1>1, <1>4, ShowTypes DEF Opened
<1>6. \A x \in Docs : docs[x].st \in {"sent", "answered"} => ~docs[x].first
  BY <1>1 DEF OneByOne, FirstAlone, InFlight
<1>7. (\A x \in Docs : docs[x].st \in {"sent", "answered"} => ~docs[x].first)'
  BY <1>5, <1>6, FreeType
<1>8. FirstAlone'
  BY <1>7, NoFirst DEF FirstAlone, InFlight
<1>9. /\ BagToSet(jobs') \subseteq BagToSet(jobs) /\ BagToSet(jobs) \ {j} \subseteq BagToSet(jobs')
      /\ \A k \in BagToSet(jobs') \ {j} : jobs'[k] = jobs[k]
      /\ jobs[j] = 1 => j \notin BagToSet(jobs')
  BY <1>3, <1>5, BagSteps DEF Without
<1>10. ASSUME j.init PROVE timers = {} /\ \A k \in BagToSet(jobs') : ~k.init
  <2>1. timers = {} /\ jobs[j] = 1
    BY <1>1, <1>10 DEF Opened
  <2>2. ASSUME NEW k \in BagToSet(jobs'), k.init PROVE FALSE
    <3>1. k \in BagToSet(jobs) /\ k # j
      BY <1>9, <2>1
    <3> QED BY <1>1, <1>10, <2>2, <3>1 DEF Opened
  <2> QED BY <2>1, <2>2
<1>11. OneTimer'
  BY <1>1, <1>3, <1>5, <1>10 DEF OneTimer
<1>12. Opened'
  <2>1. ASSUME NEW k \in BagToSet(jobs'), k.init PROVE timers' = {} /\ jobs'[k] = 1
    <3>1. ~j.init /\ k # j
      BY <1>10, <2>1
    <3>2. k \in BagToSet(jobs) /\ jobs'[k] = jobs[k] /\ timers' = timers
      BY <1>3, <1>5, <1>9, <3>1
    <3> QED BY <1>1, <2>1, <3>2 DEF Opened
  <2> QED BY <1>1, <1>5, <1>9, <2>1 DEF Opened
<1>13. timers' = {} /\ message' = "none" => Starting' \/ dismissed' \/ fetchIntv' = NoTimer
  <2>1. CASE j.init
    BY <1>5, <2>1
  <2>2. CASE ~j.init
    <3>1. Starting => \E k \in BagToSet(jobs) : k.init
      BY <1>1, <1>6, RangeOfOne DEF Starting, InFlight, Opened
    <3>2. Starting => Starting'
      BY <1>9, <2>2, <3>1 DEF Starting
    <3> QED BY <1>4, <1>5, <2>2, <3>2 DEF OneByOne
  <2> QED BY <1>3, <2>1, <2>2
<1> QED BY <1>4, <1>8, <1>11, <1>12, <1>13 DEF OneByOne

\* A later answer is drawn as it is, or one more is decrypted.
LEMMA OpenedAnswer ==
  ASSUME TypeOK, OneByOne, aesKey = "right", NEW d \in Docs,
         NEW ds, Ready(d, FALSE, ds, jobs, timers), aesKey' = aesKey,
         \A x \in Docs : ds[x].st \in {"sent", "answered"} => ~ds[x].first,
         ~\E x \in InFlight : docs[x].first,
         Process(d, FALSE, aesKey, ds, listeners, jobs, timers)
  PROVE  OneByOne'
<1>1. Opened /\ OneTimer /\ aesKey # NoKey /\ aesKey \in Passwords /\ IsABag(jobs)
  BY NoKeyAssumption DEF OneByOne, Passwords, TypeOK
<1> DEFINE j == [what |-> "decrypt", doc |-> d, init |-> FALSE, key |-> aesKey]
<1>2. j.what = "decrypt" /\ j.init = FALSE /\ j.key = "right"
  OBVIOUS
<1>3. /\ listeners' = <<>> /\ timers' = timers /\ fetchIntv' = fetchIntv
      /\ jobs' = jobs \/ jobs' = jobs (+) SetToBag({j})
      /\ \A x \in Docs : \/ docs'[x] = Free
                         \/ docs'[x].st = ds[x].st /\ docs'[x].first = ds[x].first
  <2>1. CASE Show(d, FALSE, ds, listeners, jobs, timers)
    <3>1. /\ jobs' = jobs /\ listeners' = listeners
          /\ timers' = timers /\ fetchIntv' = fetchIntv
          /\ \A x \in Docs : \/ docs'[x] = Free
                             \/ docs'[x].st = ds[x].st /\ docs'[x].first = ds[x].first
      BY <2>1, ShowTypes
    <3> QED BY <1>1, <3>1 DEF Opened
  <2>2. CASE Decrypt(d, FALSE, aesKey, ds, listeners, jobs, timers)
    <3>1. /\ jobs' = jobs (+) SetToBag({j}) /\ listeners' = listeners
          /\ timers' = timers /\ fetchIntv' = fetchIntv
          /\ \A x \in Docs : docs'[x] = Free \/ docs'[x] = ds[x]
      BY <1>1, <2>2, DecryptTypes
    <3> QED BY <1>1, <3>1 DEF Opened
  <2> QED BY <1>1, <2>1, <2>2 DEF Process
<1> HIDE DEF j
<1>4. /\ BagToSet(jobs) \subseteq BagToSet(jobs') /\ BagToSet(jobs') \subseteq BagToSet(jobs) \cup {j}
      /\ \A k \in BagToSet(jobs) \ {j} : jobs'[k] = jobs[k]
  <2>1. CASE jobs' = jobs
    BY <2>1
  <2>2. CASE jobs' = jobs (+) SetToBag({j})
    <3>1. /\ BagToSet(jobs (+) SetToBag({j})) = BagToSet(jobs) \cup {j}
          /\ \A k \in BagToSet(jobs) \ {j} : (jobs (+) SetToBag({j}))[k] = jobs[k]
      BY <1>1, BagSteps
    <3> QED BY <2>2, <3>1
  <2> QED BY <1>3, <2>1, <2>2
<1>5. (\A x \in Docs : docs[x].st \in {"sent", "answered"} => ~docs[x].first)'
  BY <1>3, FreeType
<1>6. FirstAlone'
  BY <1>5, NoFirst DEF FirstAlone, InFlight
<1>7. Opened'
  BY <1>1, <1>2, <1>3, <1>4 DEF Opened
<1>8. Starting => Starting'
  BY <1>1, <1>4, RangeOfOne DEF Starting, Opened
<1>9. message' = message /\ dismissed' = dismissed
  BY DEF Ready
<1> QED BY <1>1, <1>3, <1>6, <1>7, <1>8, <1>9 DEF OneByOne, OneTimer

------------------------------------------------------------------------------
(* Every step *)

\* A request that is done with was the first, and the only one, or the first is not
\* in flight.
LEMMA Arrives ==
  ASSUME TypeOK, OneByOne, NEW d \in InFlight, NEW ds,
         \A x \in Docs \ {d} : ds[x] = docs[x], ds[d].st \in {"free", "kept"}
  PROVE  \A x \in Docs : ds[x].st \in {"sent", "answered"} => ~ds[x].first
BY DEF OneByOne, FirstAlone, InFlight

\* An answer comes in while no other waits for the key, or it is a 404.
LEMMA DeliverStep ==
  ASSUME TypeOK, OneByOne, NEW d \in Docs, Deliver(d), ~piled'
  PROVE  OneByOne'
<1> DEFINE ds == [docs EXCEPT ![d].st = "kept"]
<1>1. docs[d].st = "answered" /\ UNCHANGED <<server, aesKey, wrongs, dismissed>> /\ d \in InFlight
  BY DEF Deliver, InFlight
<1>2. docs \in [Docs -> Doc] /\ docs[d].first \in BOOLEAN /\ aesKey \in Passwords \cup {NoKey}
  BY DEF TypeOK, Doc
<1>3. CASE /\ Process(d, docs[d].first, aesKey, ds, listeners, jobs, timers)
           /\ piled' = (piled \/ Waiting)
           /\ UNCHANGED message
  <2>1. ~Waiting /\ piled' \in BOOLEAN
    BY <1>3 DEF Waiting, TypeOK
  <2>2. Ready(d, docs[d].first, ds, jobs, timers)
    BY <1>1, <1>3, <2>1, DeliverReady
  <2>3. ds[d].st = "kept" /\ \A x \in Docs \ {d} : ds[x] = docs[x]
    BY <1>2 DEF Doc
  <2> HIDE DEF ds
  <2>4. \A x \in Docs : ds[x].st \in {"sent", "answered"} => ~ds[x].first
    BY <1>1, <2>3, Arrives
  <2>5. CASE listeners = <<>> /\ jobs = EmptyBag
    <3>1. docs[d].first => timers = {}
      BY <1>1 DEF OneByOne, FirstAlone
    <3>2. Starting => docs[d].first
      <4>1. Range(listeners) = {} /\ BagToSet(jobs) = {}
        BY <2>5, RangeOfOne, EmptyIsBag
      <4>2. \A x \in InFlight : docs[x].first => x = d
        BY <1>1 DEF OneByOne, FirstAlone
      <4> QED BY <4>1, <4>2 DEF Starting
    <3>3. timers = {} /\ message = "none" => docs[d].first \/ dismissed \/ fetchIntv = NoTimer
      BY <3>2 DEF OneByOne
    <3>4. OneTimer /\ Ready(d, docs[d].first, ds, EmptyBag, timers)
      BY <2>2, <2>5 DEF OneByOne
    <3>5. Lone(d, docs[d].first, aesKey, ds, timers)
      BY <1>1, <1>2, <2>4, <2>5, <3>1, <3>3, <3>4 DEF Lone
    <3> QED BY <1>3, <2>5, <3>5, LoneProcess
  <2>6. CASE ~(listeners = <<>> /\ jobs = EmptyBag)
    <3>1. aesKey = "right"
      BY <2>1, <2>6 DEF Waiting
    <3>2. ~\E x \in InFlight : docs[x].first
      BY <2>6 DEF OneByOne, FirstAlone
    <3>3. docs[d].first = FALSE
      BY <1>1, <1>2, <3>2
    <3> QED BY <1>1, <1>3, <2>2, <2>4, <3>1, <3>2, <3>3, OpenedAnswer
  <2> QED BY <2>5, <2>6
<1>4. CASE /\ docs' = [docs EXCEPT ![d] = Free]
           /\ IF docs[d].first THEN message' = "notfound" /\ UNCHANGED timers
                               ELSE message' = "expired" /\ timers' = Cleared
           /\ UNCHANGED <<listeners, prompt, piled, jobs, fetchIntv, drawn>>
  <2>1. message' # "none" /\ timers' \subseteq timers /\ UNCHANGED <<aesKey, listeners, prompt, jobs, fetchIntv>>
    BY <1>1, <1>4 DEF Cleared
  <2>2. docs'[d].st = "free" /\ \A x \in Docs \ {d} : docs'[x] = docs[x]
    BY <1>2, <1>4, FreeType
  <2>3. (\A x \in Docs : docs[x].st \in {"sent", "answered"} => ~docs[x].first)'
    BY <1>1, <2>2, Arrives
  <2>4. FirstAlone'
    BY <2>3, NoFirst DEF FirstAlone, InFlight
  <2>5. IF aesKey' = "right" THEN Opened' ELSE Idle' \/ Prompted' \/ Working'
    <3>1. CASE aesKey = "right"
      BY <2>1, <3>1 DEF OneByOne, Opened
    <3>2. CASE aesKey # "right"
      BY <2>1, <3>2 DEF OneByOne, Idle, Prompted, Working
    <3> QED BY <3>1, <3>2
  <2> QED BY <2>1, <2>4, <2>5 DEF OneByOne, OneTimer
<1> QED BY <1>3, <1>4 DEF Deliver

LEMMA FailStep ==
  ASSUME TypeOK, OneByOne, NEW d \in Docs, Fail(d)
  PROVE  OneByOne'
<1>1. d \in InFlight /\ UNCHANGED <<aesKey, dialog, jobs, polling, message>>
  BY DEF Fail, InFlight
<1>2. docs'[d].st = "free" /\ \A x \in Docs \ {d} : docs'[x] = docs[x]
  BY FreeType DEF Fail, TypeOK
<1>3. (\A x \in Docs : docs[x].st \in {"sent", "answered"} => ~docs[x].first)'
  BY <1>1, <1>2, Arrives
<1>4. FirstAlone'
  BY <1>3, NoFirst DEF FirstAlone, InFlight
<1>5. Starting => Starting' \/ fetchIntv = NoTimer
  BY <1>1, <1>2 DEF Starting, OneByOne, FirstAlone, dialog
<1> QED BY <1>1, <1>4, <1>5 DEF OneByOne, OneTimer, Opened, Idle, Prompted, Working, dialog, polling

LEMMA ServeStep ==
  ASSUME TypeOK, OneByOne, NEW d \in Docs, Serve(d)
  PROVE  OneByOne'
<1>1. /\ docs[d].st = "sent" /\ docs'[d].st = "answered" /\ docs'[d].first = docs[d].first
      /\ \A x \in Docs \ {d} : docs'[x] = docs[x]
  BY ServeAnswers
<1>2. UNCHANGED <<aesKey, dialog, jobs, polling, message>>
  BY DEF Serve
<1>3. InFlight' = InFlight /\ \A x \in Docs : docs'[x].first = docs[x].first
  BY <1>1 DEF InFlight
<1>4. FirstAlone'
  BY <1>2, <1>3 DEF OneByOne, FirstAlone, InFlight, dialog, polling
<1>5. Starting => Starting'
  BY <1>2, <1>3 DEF Starting, InFlight, dialog
<1> QED BY <1>2, <1>4, <1>5 DEF OneByOne, OneTimer, Opened, Idle, Prompted, Working, dialog, polling

\* A timer fires: the first request is done with.
LEMMA FireStep ==
  ASSUME TypeOK, OneByOne, NEW t \in timers, Fire(t)
  PROVE  OneByOne'
<1>1. PICK d \in Docs : /\ docs[d].st = "free" /\ docs'[d].first = FALSE
                       /\ \A x \in Docs \ {d} : docs'[x] = docs[x]
  BY FireSends
<1>2. ~\E x \in InFlight : docs[x].first
  BY DEF OneByOne, FirstAlone
<1>3. (\A x \in Docs : docs[x].st \in {"sent", "answered"} => ~docs[x].first)'
  BY <1>1, <1>2 DEF InFlight
<1>4. FirstAlone'
  BY <1>3, NoFirst DEF FirstAlone, InFlight
<1>5. /\ UNCHANGED <<aesKey, dialog, jobs, fetchIntv>>
      /\ \/ UNCHANGED <<timers, message>>
         \/ timers' \subseteq timers /\ message' = "expired"
  <2>1. UNCHANGED <<aesKey, dialog, jobs, fetchIntv>>
    BY DEF Fire
  <2>2. IF share = "expired" THEN timers' = Cleared /\ message' = "expired"
                             ELSE UNCHANGED <<timers, message>>
    BY DEF Fire
  <2> QED BY <2>1, <2>2 DEF Cleared
<1> QED BY <1>4, <1>5 DEF OneByOne, OneTimer, Opened, Idle, Prompted, Working, dialog

LEMMA InitKey == Init => KeyInv
<1> SUFFICES ASSUME Init PROVE KeyInv
  OBVIOUS
<1> DEFINE r == [Free EXCEPT !.st = "sent", !.first = TRUE]
<1>1. docs = [x \in Docs |-> IF x = Some(Docs) THEN r ELSE Free]
  BY DEF Init
<1>2. r \in Doc /\ r.st = "sent" /\ r.first = TRUE
  BY FreeType DEF Doc
<1>3. Some(Docs) \in Docs
  BY DocsAssumption DEF Some
<1> HIDE DEF r
<1>4. docs \in [Docs -> Doc] /\ InFlight = {Some(Docs)} /\ docs[Some(Docs)].first
  BY <1>1, <1>2, <1>3, FreeType DEF InFlight
<1>5. TypeOK
  <2>1. listeners \in Seq(Listener) /\ 0 \in 0..MaxPosts /\ 0 \in 0..MaxWrong
    BY BoundsAssumption DEF Init
  <2>2. IsABag(jobs) /\ BagToSet(jobs) \subseteq Job
    BY EmptyIsBag DEF Init
  <2> QED BY <1>4, <2>1, <2>2 DEF Init, TypeOK
<1>6. FirstAlone /\ Starting
  BY <1>4 DEF Init, FirstAlone, Starting
<1> QED BY <1>5, <1>6, NoKeyAssumption
        DEF Init, KeyInv, OneByOne, OneTimer, Idle, Passwords, Opened

LEMMA NextKey == KeyInv /\ [Next]_vars => KeyInv'
<1> SUFFICES ASSUME KeyInv, [Next]_vars PROVE KeyInv'
  OBVIOUS
<1>1. TypeOK /\ TypeOK'
  BY NextTypes DEF KeyInv
<1> SUFFICES ASSUME ~piled' PROVE OneByOne'
  BY <1>1 DEF KeyInv
<1>2. OneByOne
  <2>1. ~piled
    BY <1>1 DEF Next, Fire, Serve, Deliver, Fail, Enter, Cancel, Derived, Decrypted, Rejected,
                Post, End, vars, dialog
  <2> QED BY <2>1 DEF KeyInv
<1>3. CASE UNCHANGED <<docs, aesKey, dialog, jobs, polling, message>>
  BY <1>2, <1>3 DEF OneByOne, OneTimer, FirstAlone, InFlight, Starting, Opened, Idle, Prompted,
                    Working, dialog, polling
<1>4. CASE UNCHANGED vars \/ Post \/ End
  BY <1>3, <1>4 DEF vars, Post, End
<1>5. ASSUME NEW t \in timers, Fire(t) PROVE OneByOne'
  BY <1>1, <1>2, <1>5, FireStep
<1>6. ASSUME NEW d \in Docs, Serve(d) \/ Deliver(d) \/ Fail(d) PROVE OneByOne'
  BY <1>1, <1>2, <1>6, ServeStep, DeliverStep, FailStep
<1>7. ASSUME NEW pw \in Passwords, Enter(pw) PROVE OneByOne'
  BY <1>1, <1>2, <1>7, EnterStep
<1>8. CASE Cancel
  BY <1>1, <1>2, <1>8, CancelStep
<1>9. ASSUME NEW j \in BagToSet(jobs), Derived(j) \/ Decrypted(j) \/ Rejected(j)
      PROVE  OneByOne'
  BY <1>1, <1>2, <1>9, OpenedJob, LockedJobStep
<1> QED BY <1>4, <1>5, <1>6, <1>7, <1>8, <1>9 DEF Next

LEMMA KeyInvariant == Spec => []KeyInv
BY InitKey, NextKey, PTL DEF Spec

------------------------------------------------------------------------------

\* The page's variables keep their types, for any number of answers, handlers and
\* operations at a time; the prompt is never open without a handler for its button.
THEOREM TypeCorrect == Spec => []TypeOK
<1>1. KeyInv => TypeOK
  BY DEF KeyInv
<1> QED BY <1>1, KeyInvariant, PTL

\* Unless an answer came in while another waited for the right key, no timer runs beside
\* the one the page knows, however often a failed decryption started the polling anew.
THEOREM OneTimerCorrect == Spec => []OneTimerUnlessPiled
<1>1. KeyInv => OneTimerUnlessPiled
  BY DEF KeyInv, OneByOne, OneTimerUnlessPiled
<1> QED BY <1>1, KeyInvariant, PTL

\* Unless answers piled up like that, a page that shows the share, is at work on
\* nothing and waits for nobody has its timer.
THEOREM KeepsPollingCorrect == Spec => []KeepsPolling
<1>1. KeyInv => KeepsPolling
  <2> SUFFICES ASSUME KeyInv, message = "none", ~Busy, ~piled, timers = {}, ~dismissed
               PROVE  Stranded
    BY DEF KeepsPolling
  <2>1. OneByOne /\ TypeOK /\ InFlight = {} /\ BagToSet(jobs) = {} /\ ~prompt
    BY DEF KeyInv, Busy
  <2>3. listeners = <<>>
    BY <2>1 DEF OneByOne, Opened, Idle, Working, Prompted
  <2>4. ~Starting
    BY <2>1, <2>3, RangeOfOne DEF Starting
  <2> QED BY <2>1, <2>4 DEF OneByOne, Stranded
<1> QED BY <1>1, KeyInvariant, PTL
=============================================================================
