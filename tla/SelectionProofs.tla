---------------------------- MODULE SelectionProofs ----------------------------
(***************************************************************************)
(* Induction, and walks along sequences.  The induction theorems of the    *)
(* library are about operators; these are about sets and functions, so     *)
(* that they can be cited for the definitions of the models.               *)
(***************************************************************************)
EXTENDS Selection, SequencesExt, NaturalsInduction, WellFoundedInduction,
        SequenceTheorems, FiniteSetTheorems, TLAPS

------------------------------------------------------------------------------
(* Induction *)

\* A non-empty set of naturals has a least element, the one Min chooses.
LEMMA NatMin ==
  ASSUME NEW T, T \subseteq Nat, T # {}
  PROVE  Min(T) \in T /\ \A y \in T : Min(T) <= y
<1> DEFINE R == {ss \in Nat \X Nat : ss[1] < ss[2]}
<1>1. IsWellFoundedOn(R, Nat)
  BY NatLessThanWellFounded, Zenon DEF OpToRel
<1>2. \E x \in T : \A y \in T : ~ (<<y, x>> \in R)
  <2> HIDE DEF R
  <2> QED BY <1>1, WFMin, Zenon
<1>3. \A x, y \in T : <<y, x>> \notin R => x <= y
  OBVIOUS
<1>4. \E x \in T : \A y \in T : x <= y
  <2> HIDE DEF R
  <2> QED BY <1>2, <1>3
<1> QED BY <1>4 DEF Min

\* A set that has 0 and, with a number below n, the next one has all numbers up to n.
LEMMA UpTo ==
  ASSUME NEW n \in Nat, NEW I, 0 \in I, \A i \in 0..(n - 1) : i \in I => i + 1 \in I
  PROVE  0..n \subseteq I
<1> DEFINE T == (0..n) \ I
<1>1. SUFFICES ASSUME T # {} PROVE FALSE
  OBVIOUS
<1>2. Min(T) \in T /\ \A y \in T : Min(T) <= y
  <2>1. T \subseteq Nat OBVIOUS
  <2> HIDE DEF T
  <2> QED BY <1>1, <2>1, NatMin
<1>3. PICK m \in T : \A y \in T : m <= y
  BY <1>2
<1>4. m # 0 /\ m - 1 \in 0..(n - 1) /\ m - 1 \notin T
  BY <1>3
<1>5. m - 1 \in I
  BY <1>4
<1>6. (m - 1) + 1 \in I
  BY <1>4, <1>5
<1> QED BY <1>3, <1>6

\* The greatest of a set of numbers that has n and none above.
LEMMA MaxIs ==
  ASSUME NEW S, S \subseteq Nat, NEW n \in S, \A x \in S : x <= n
  PROVE  Max(S) = n
<1>1. n \in S /\ \A y \in S : n >= y
  OBVIOUS
<1>2. Max(S) \in S /\ \A y \in S : Max(S) >= y
  BY <1>1 DEF Max
<1>3. Max(S) \in Nat /\ n \in Nat /\ Max(S) >= n /\ Max(S) <= n
  BY <1>1, <1>2
<1> QED BY <1>3

------------------------------------------------------------------------------
(* Recursion along a sequence *)

\* g is the function with g[0] = b and g[k] = F[<<g[k-1], k>>].
Recurs(g, b, n, F) ==
  \A k \in 0..n : g[k] = IF k = 0 THEN b ELSE F[<<g[k-1], k>>]

\* There is such a function.
LEMMA RecursExists ==
  ASSUME NEW A, NEW b \in A, NEW n \in Nat, NEW F \in [A \X (1..n) -> A]
  PROVE  \E g \in [0..n -> A] : Recurs(g, b, n, F)
<1> DEFINE I == {m \in 0..n : \E g \in [0..m -> A] : Recurs(g, b, m, F)}
<1>1. 0 \in I
  <2> DEFINE g == [k \in 0..0 |-> b]
  <2>1. g \in [0..0 -> A] /\ Recurs(g, b, 0, F)
    BY DEF Recurs
  <2> HIDE DEF g
  <2> QED BY <2>1
<1>2. ASSUME NEW m \in 0..(n - 1), m \in I PROVE m + 1 \in I
  <2>1. PICK g \in [0..m -> A] : Recurs(g, b, m, F)
    BY <1>2
  <2> DEFINE h == [k \in 0..(m+1) |-> IF k = m + 1 THEN F[<<g[m], m + 1>>] ELSE g[k]]
  <2>2. m \in Nat /\ m \in 0..m /\ m + 1 \in 1..n /\ (m + 1) - 1 = m
    OBVIOUS
  <2>3. F[<<g[m], m + 1>>] \in A
    BY <2>1, <2>2
  <2>4. \A k \in 0..(m+1) : k = m + 1 \/ k \in 0..m
    BY <2>2
  <2>5. h \in [0..(m+1) -> A]
    BY <2>1, <2>3, <2>4
  <2>6. h[m+1] = F[<<g[m], m + 1>>] /\ \A k \in 0..m : h[k] = g[k]
    BY <2>2
  <2> HIDE DEF h
  <2>7. ASSUME NEW k \in 0..(m+1) PROVE h[k] = IF k = 0 THEN b ELSE F[<<h[k-1], k>>]
    <3>1. CASE k = m + 1
      BY <2>2, <2>6, <3>1
    <3>2. CASE k \in 0..m
      <4>1. k # 0 => k - 1 \in 0..m
        BY <2>2, <3>2
      <4> QED BY <2>1, <2>6, <3>2, <4>1 DEF Recurs
    <3> QED BY <2>4, <3>1, <3>2
  <2>8. Recurs(h, b, m + 1, F)
    BY <2>7 DEF Recurs
  <2> QED BY <2>2, <2>5, <2>8
<1>3. n \in I
  <2> HIDE DEF I
  <2>1. n \in 0..n
    OBVIOUS
  <2> QED BY <1>1, <1>2, <2>1, UpTo
<1> QED BY <1>3

------------------------------------------------------------------------------
(* Selected *)

\* What the loop has kept after each place.
Keeps(h, s, places) ==
  /\ h[0] = <<>>
  /\ \A k \in 1..Len(s) :
        h[k] = IF k \in places THEN Append(h[k-1], s[k]) ELSE h[k-1]

\* The loop, one place after the other.
LEMMA SelectedSteps ==
  ASSUME NEW S, NEW s \in Seq(S), NEW places
  PROVE  \E h \in [0..Len(s) -> Seq(S)] :
            Keeps(h, s, places) /\ Selected(s, places) = h[Len(s)]
<1> DEFINE n == Len(s)
           A == Seq(S)
           F == [x \in A \X (1..n) |->
                   IF x[2] \in places THEN Append(x[1], s[x[2]]) ELSE x[1]]
           Body(it) == [k \in 0..n |->
                          IF k = 0 THEN <<>>
                          ELSE IF k \in places THEN Append(it[k - 1], s[k]) ELSE it[k - 1]]
           h == CHOOSE it : it = Body(it)
<1>1. n \in Nat /\ <<>> \in A
  OBVIOUS
<1>2. F \in [A \X (1..n) -> A]
  <2>1. ASSUME NEW x \in A, NEW k \in 1..n PROVE Append(x, s[k]) \in A
    BY <1>1
  <2> QED BY <2>1
<1>3. Selected(s, places) = h[n]
  BY DEF Selected
<1>4. PICK g \in [0..n -> A] : Recurs(g, <<>>, n, F)
  <2> HIDE DEF F
  <2> QED BY <1>1, <1>2, RecursExists
<1>5. g = Body(g)
  <2>1. ASSUME NEW k \in 0..n
        PROVE  g[k] = IF k = 0 THEN <<>>
                      ELSE IF k \in places THEN Append(g[k - 1], s[k]) ELSE g[k - 1]
    <3>1. CASE k = 0
      BY <1>4, <3>1 DEF Recurs
    <3>2. CASE k # 0
      <4>1. k - 1 \in 0..n /\ k \in 1..n
        BY <1>1, <3>2
      <4>2. g[k] = F[<<g[k-1], k>>]
        BY <1>4, <3>2 DEF Recurs
      <4>3. <<g[k-1], k>> \in A \X (1..n)
        BY <4>1
      <4> QED BY <3>2, <4>2, <4>3
    <3> QED BY <3>1, <3>2
  <2>2. g = [k \in 0..n |-> g[k]]
    OBVIOUS
  <2> QED BY <2>1, <2>2
<1>6. h = Body(h)
  <2> HIDE DEF Body
  <2> QED BY <1>5
<1> HIDE DEF h
<1>7. DOMAIN h = 0..n /\ h[0] = <<>>
  BY <1>1, <1>6
<1>8. \A k \in 1..n : h[k] = IF k \in places THEN Append(h[k-1], s[k]) ELSE h[k-1]
  <2>1. \A k \in 1..n : k \in 0..n /\ k # 0
    BY <1>1
  <2>2. \A k \in 0..n : h[k] = Body(h)[k]
    <3> HIDE DEF Body
    <3> QED BY <1>6
  <2> QED BY <2>1, <2>2
<1>9. \A k \in 0..n : h[k] \in A
  <2> DEFINE I == {k \in 0..n : h[k] \in A}
  <2>1. 0 \in I
    <3>1. 0 \in 0..n /\ h[0] \in A
      BY <1>1, <1>7
    <3> HIDE DEF n, A
    <3> QED BY <3>1
  <2>2. ASSUME NEW k \in 0..(n - 1), k \in I PROVE k + 1 \in I
    <3>1. k + 1 \in 1..n /\ (k + 1) - 1 = k
      BY <1>1
    <3>2. h[k] \in Seq(S) /\ s[k+1] \in S
      BY <2>2, <3>1
    <3>3. h[k+1] \in {h[k], Append(h[k], s[k+1])}
      BY <1>8, <3>1
    <3>4. Append(h[k], s[k+1]) \in Seq(S)
      BY <3>2
    <3>5. k + 1 \in 0..n
      BY <1>1
    <3>6. h[k+1] \in Seq(S)
      BY <3>2, <3>3, <3>4
    <3> QED BY <3>5, <3>6
  <2>3. 0..n \subseteq I
    <3> HIDE DEF I
    <3> QED BY <1>1, <2>1, <2>2, UpTo
  <2> QED BY <2>3
<1>10. h \in [0..n -> A]
  <2>1. h = [k \in 0..n |-> h[k]]
    BY <1>6
  <2> QED BY <1>9, <2>1
<1>11. Keeps(h, s, places)
  BY <1>7, <1>8 DEF Keeps
<1> QED BY <1>3, <1>10, <1>11

\* What the entries of Selected are: those at the places, in their order.  In is where
\* in s each of them comes from.
LEMMA SelectedProperties ==
  ASSUME NEW S, NEW s \in Seq(S), NEW places \in SUBSET (1..Len(s))
  PROVE  /\ Selected(s, places) \in Seq(S)
         /\ \E in \in [1..Len(Selected(s, places)) -> places] :
               /\ \A j \in DOMAIN in : Selected(s, places)[j] = s[in[j]]
               /\ \A i, j \in DOMAIN in : i < j => in[i] < in[j]
               /\ \A i \in places : \E j \in DOMAIN in : in[j] = i
<1>1. PICK h \in [0..Len(s) -> Seq(S)] :
         Keeps(h, s, places) /\ Selected(s, places) = h[Len(s)]
  BY SelectedSteps
<1> DEFINE n == Len(s)
<1>2. /\ h[0] = <<>>
      /\ \A k \in 1..n : h[k] = IF k \in places THEN Append(h[k-1], s[k]) ELSE h[k-1]
      /\ Selected(s, places) = h[n]
  BY <1>1 DEF Keeps
<1>3. n \in Nat /\ \A i \in 1..n : s[i] \in S
  OBVIOUS
<1> DEFINE Q(k, in) == /\ \A j \in 1..Len(h[k]) : h[k][j] = s[in[j]]
                       /\ \A i, j \in 1..Len(h[k]) : i < j => in[i] < in[j]
                       /\ \A i \in places \cap (1..k) : \E j \in 1..Len(h[k]) : in[j] = i
           I == {k \in 0..n : \E in \in [1..Len(h[k]) -> places \cap (1..k)] : Q(k, in)}
<1>4. 0 \in I
  <2> DEFINE in == [j \in 1..0 |-> 0]
  <2>1. in \in [1..Len(h[0]) -> places \cap (1..0)] /\ Q(0, in)
    BY <1>2
  <2> HIDE DEF in, Q
  <2> QED BY <1>3, <2>1
<1>5. ASSUME NEW k \in 0..(n - 1), k \in I PROVE k + 1 \in I
  <2>1. k \in Nat /\ k + 1 \in 1..n /\ (k + 1) - 1 = k /\ k \in 0..n
    BY <1>3
  <2>2. PICK in \in [1..Len(h[k]) -> places \cap (1..k)] : Q(k, in)
    BY <1>5
  <2>3. h[k] \in Seq(S) /\ Len(h[k]) \in Nat
    BY <2>1
  <2>4. CASE k + 1 \notin places
    <3>1. h[k+1] = h[k]
      BY <1>2, <2>1, <2>4
    <3>2. places \cap (1..(k+1)) = places \cap (1..k)
      BY <2>1, <2>4
    <3>3. Q(k + 1, in)
      BY <2>2, <3>1, <3>2
    <3> HIDE DEF Q
    <3> QED BY <2>1, <2>2, <3>1, <3>2, <3>3
  <2>5. CASE k + 1 \in places
    <3> DEFINE m == Len(h[k])
               in2 == [j \in 1..(m+1) |-> IF j = m + 1 THEN k + 1 ELSE in[j]]
    <3>1. h[k+1] = Append(h[k], s[k+1])
      BY <1>2, <2>1, <2>5
    <3>2. /\ Len(h[k+1]) = m + 1 /\ h[k+1][m+1] = s[k+1]
          /\ \A j \in 1..m : h[k+1][j] = h[k][j]
      BY <2>3, <3>1
    <3> HIDE DEF m
    <3>3. m \in Nat
      BY <2>3 DEF m
    <3>4. in2[m+1] = k + 1 /\ \A j \in 1..m : in2[j] = in[j] /\ in2[j] \in places \cap (1..k)
      BY <2>2, <3>3 DEF m
    <3>5. in2 \in [1..(m+1) -> places \cap (1..(k+1))]
      <4>1. \A j \in 1..(m+1) : j = m + 1 \/ j \in 1..m
        BY <3>3
      <4>2. places \cap (1..k) \subseteq places \cap (1..(k+1)) /\ k + 1 \in places \cap (1..(k+1))
        BY <2>1, <2>5
      <4>3. \A j \in 1..(m+1) : in2[j] \in places \cap (1..(k+1))
        <5> HIDE DEF in2
        <5> QED BY <3>4, <4>1, <4>2
      <4> QED BY <4>3
    <3> HIDE DEF in2
    <3>6. \A j \in 1..(m+1) : h[k+1][j] = s[in2[j]]
      <4>1. \A j \in 1..(m+1) : j = m + 1 \/ j \in 1..m
        BY <3>3
      <4> QED BY <2>2, <3>2, <3>4, <4>1 DEF m
    <3>7. ASSUME NEW i \in 1..(m+1), NEW j \in 1..(m+1), i < j PROVE in2[i] < in2[j]
      <4>1. i \in 1..m
        BY <3>3, <3>7
      <4>2. CASE j = m + 1
        <5>1. in2[i] \in 1..k
          BY <3>4, <4>1
        <5> QED BY <2>1, <3>4, <4>2, <5>1
      <4>3. CASE j \in 1..m
        BY <2>2, <3>4, <3>7, <4>1, <4>3 DEF m
      <4> QED BY <3>3, <4>2, <4>3
    <3>8. ASSUME NEW i \in places \cap (1..(k+1)) PROVE \E j \in 1..(m+1) : in2[j] = i
      <4>1. CASE i = k + 1
        BY <3>3, <3>4, <4>1
      <4>2. CASE i \in 1..k
        <5>1. PICK j \in 1..m : in[j] = i
          BY <2>2, <4>2 DEF m
        <5>2. j \in 1..(m+1)
          BY <3>3
        <5>3. in2[j] = i
          BY <3>4, <5>1
        <5> QED BY <5>2, <5>3
      <4> QED BY <2>1, <4>1, <4>2
    <3>9. Q(k + 1, in2)
      BY <3>2, <3>6, <3>7, <3>8
    <3> HIDE DEF Q
    <3> QED BY <2>1, <3>2, <3>5, <3>9
  <2> QED BY <2>4, <2>5
<1>6. n \in I
  <2> HIDE DEF I
  <2>1. 0..n \subseteq I
    BY <1>3, <1>4, <1>5, UpTo
  <2> QED BY <1>3, <2>1
<1>7. PICK in \in [1..Len(h[n]) -> places \cap (1..n)] : Q(n, in)
  BY <1>6
<1>8. places \cap (1..n) = places
  OBVIOUS
<1> DEFINE sel == Selected(s, places)
<1>9. sel \in Seq(S) /\ sel = h[n]
  BY <1>3, <1>2
<1> HIDE DEF sel, n
<1>10. in \in [1..Len(sel) -> places] /\ DOMAIN in = 1..Len(sel)
  BY <1>7, <1>8, <1>9
<1>11. /\ \A j \in DOMAIN in : sel[j] = s[in[j]]
       /\ \A i, j \in DOMAIN in : i < j => in[i] < in[j]
       /\ \A i \in places : \E j \in DOMAIN in : in[j] = i
  BY <1>7, <1>8, <1>9, <1>10
<1> HIDE DEF Q, I
<1> QED BY <1>9, <1>10, <1>11 DEF sel

\* The entries of Selected are those at the places; there is none only if there is no
\* place, and the last is from the last place.
LEMMA SelectedEntries ==
  ASSUME NEW S, NEW s \in Seq(S), NEW places \in SUBSET (1..Len(s))
  PROVE  /\ Selected(s, places) \in Seq(S)
         /\ \A i \in places : \E j \in 1..Len(Selected(s, places)) : Selected(s, places)[j] = s[i]
         /\ \A j \in 1..Len(Selected(s, places)) : \E i \in places : Selected(s, places)[j] = s[i]
         /\ Selected(s, places) = <<>> <=> places = {}
<1> DEFINE sel == Selected(s, places)
<1>1. sel \in Seq(S)
  BY SelectedProperties
<1>2. PICK in \in [1..Len(sel) -> places] :
         /\ \A j \in DOMAIN in : sel[j] = s[in[j]]
         /\ \A i, j \in DOMAIN in : i < j => in[i] < in[j]
         /\ \A i \in places : \E j \in DOMAIN in : in[j] = i
  BY SelectedProperties
<1> HIDE DEF sel
<1>3. DOMAIN in = 1..Len(sel)
  BY <1>2
<1>4. \A i \in places : \E j \in 1..Len(sel) : sel[j] = s[i]
  BY <1>2, <1>3
<1>5. \A j \in 1..Len(sel) : \E i \in places : sel[j] = s[i]
  BY <1>2, <1>3
<1>6. sel = <<>> <=> places = {}
  <2>1. CASE sel = <<>>
    BY <1>4, <2>1
  <2>2. CASE sel # <<>>
    <3>1. Len(sel) \in 1..Len(sel)
      BY <1>1, <2>2
    <3> QED BY <1>5, <2>2, <3>1
  <2> QED BY <2>1, <2>2
<1> QED BY <1>1, <1>4, <1>5, <1>6 DEF sel

\* They are in the order of the places.
InOrder(sel, s, places) ==
  \A i, j \in 1..Len(sel) : i < j =>
     \E a, b \in places : a < b /\ sel[i] = s[a] /\ sel[j] = s[b]

LEMMA SelectedOrder ==
  ASSUME NEW S, NEW s \in Seq(S), NEW places \in SUBSET (1..Len(s))
  PROVE  InOrder(Selected(s, places), s, places)
<1> DEFINE sel == Selected(s, places)
<1>1. PICK in \in [1..Len(sel) -> places] :
         /\ \A j \in DOMAIN in : sel[j] = s[in[j]]
         /\ \A i, j \in DOMAIN in : i < j => in[i] < in[j]
         /\ \A i \in places : \E j \in DOMAIN in : in[j] = i
  BY SelectedProperties
<1> HIDE DEF sel
<1>2. ASSUME NEW i \in 1..Len(sel), NEW j \in 1..Len(sel), i < j
      PROVE  \E a, b \in places : a < b /\ sel[i] = s[a] /\ sel[j] = s[b]
  <2>1. in[i] \in places /\ in[j] \in places /\ in[i] < in[j]
    BY <1>1, <1>2
  <2>2. sel[i] = s[in[i]] /\ sel[j] = s[in[j]]
    BY <1>1
  <2> QED BY <2>1, <2>2
<1> QED BY <1>2 DEF InOrder, sel

\* The last is from the last place.
LEMMA SelectedLast ==
  ASSUME NEW S, NEW s \in Seq(S), NEW places \in SUBSET (1..Len(s)), places # {}
  PROVE  \E m \in places : /\ \A i \in places : i <= m
                           /\ Last(Selected(s, places)) = s[m]
<1> DEFINE sel == Selected(s, places)
           n == Len(sel)
<1>1. sel \in Seq(S) /\ sel # <<>>
  BY SelectedEntries
<1>2. PICK in \in [1..n -> places] :
         /\ \A j \in DOMAIN in : sel[j] = s[in[j]]
         /\ \A i, j \in DOMAIN in : i < j => in[i] < in[j]
         /\ \A i \in places : \E j \in DOMAIN in : in[j] = i
  BY SelectedProperties
<1> HIDE DEF sel
<1>3. n \in Nat \ {0} /\ n \in 1..n
  BY <1>1
<1>4. in[n] \in places /\ sel[n] = s[in[n]]
  BY <1>2, <1>3
<1>5. ASSUME NEW i \in places PROVE i <= in[n]
  <2>1. PICK j \in 1..n : in[j] = i
    BY <1>2
  <2>2. j = n \/ j < n
    BY <1>3
  <2>3. j < n => in[j] < in[n]
    BY <1>2, <1>3
  <2>4. in[n] \in Int /\ i \in Int
    BY <1>4
  <2> QED BY <2>1, <2>2, <2>3, <2>4
<1> QED BY <1>4, <1>5 DEF sel, Last
==============================================================================
