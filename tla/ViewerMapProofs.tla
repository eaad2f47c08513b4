---------------------------- MODULE ViewerMapProofs ----------------------------
(***************************************************************************)
(* What the page shows, for any finite number of users and any times: the  *)
(* markers, whom the map follows, the list of users and the viewer's own   *)
(* marker fit each other after whatever answers, in whatever order, and    *)
(* whatever the viewer does.                                               *)
(***************************************************************************)
EXTENDS ViewerMap, SelectionProofs

------------------------------------------------------------------------------

\* What is drawn of a user: from the second location on the arrow is grey or has the
\* colour of the last location.
MarkOK(m) ==
  /\ m \in Mark
  /\ m.arrow = "none" <=> m.points = 0
  /\ m.points = 2 => m.arrow \in {"dead", m.state}

MarkInv == TypeOK /\ (\A u \in Users : MarkOK(marks[u])) /\ MarksAgree

\* The viewer's marker is there for as long as positions come.
SelfInv ==
  /\ ~self.watching => self = Hidden
  /\ self.marker = self.located /\ self.drawn = self.located
  /\ self.watching => self.control = IF self.located THEN "active" ELSE "pending"

\* Who has a marker is in the list, and the map is shown for somebody.
ListInv ==
  /\ \A u \in Users : marks[u].points > 0 => u \in listed
  /\ hasInitiated => \E u \in Users : marks[u].points > 0

MapInv == MarkInv /\ SelfInv /\ ListInv /\ FollowHasLocation /\ FollowedInView

------------------------------------------------------------------------------
(* Markers *)

LEMMA MinTwo ==
  ASSUME NEW x \in Nat
  PROVE  Min({2, x}) = IF x >= 2 THEN 2 ELSE x
<1>1. {2, x} \subseteq Nat /\ {2, x} # {}
  OBVIOUS
<1>2. Min({2, x}) \in {2, x} /\ \A y \in {2, x} : Min({2, x}) <= y
  BY <1>1, NatMin
<1> QED BY <1>2

LEMMA LocationFields ==
  ASSUME NEW p \in Location
  PROVE  p.time \in Nat /\ p.time > 0 /\ p.state \in States
         /\ p.state # "none" /\ p.state # "dead"
BY DEF Location, States

\* A user's locations are drawn.
LEMMA DrawnOK ==
  ASSUME NEW m, MarkOK(m), NEW pts \in Seq(Location)
  PROVE  /\ MarkOK(Drawn(m, pts))
         /\ Drawn(m, pts).points >= m.points
         /\ Drawn(m, pts).points = 0 => Drawn(m, pts).time = m.time
<1> DEFINE new == Selected(pts, {i \in DOMAIN pts : pts[i].time > m.time})
           d == Drawn(m, pts)
           time == IF new = <<>> THEN m.time ELSE Last(new).time
           points == Min({2, m.points + Len(new)})
           state == IF pts = <<>> THEN m.state ELSE Last(pts).state
           arrow == Arrow(m, pts, new)
           label == IF m.points = 0 /\ new # <<>> THEN Head(new).state ELSE m.label
<1>1. /\ m.time \in Nat /\ m.points \in 0..2 /\ m.state \in States /\ m \in Mark
      /\ m.arrow \in States \cup {"none", "dead"} /\ m.label \in States \cup {"none", "dead"}
  BY DEF MarkOK, Mark
<1>2. d = [m EXCEPT !.time = time, !.points = points, !.state = state, !.arrow = arrow,
                    !.label = label]
  BY DEF Drawn
<1>3. new \in Seq(Location)
  <2> DEFINE places == {i \in DOMAIN pts : pts[i].time > m.time}
  <2>1. places \in SUBSET (1..Len(pts))
    OBVIOUS
  <2> HIDE DEF places
  <2> QED BY <2>1, SelectedEntries
<1> HIDE DEF new, d
<1>4. Len(new) \in Nat /\ (new = <<>> <=> Len(new) = 0)
  BY <1>3
<1>5. new # <<>> => /\ Head(new) \in Location /\ Last(new) \in Location
  BY <1>3 DEF Last
<1>6. pts # <<>> => Last(pts) \in Location
  BY DEF Last
<1>7. points = IF m.points + Len(new) >= 2 THEN 2 ELSE m.points + Len(new)
  BY <1>1, <1>4, MinTwo
<1> HIDE DEF points
<1>8. state \in States /\ time \in Nat /\ points \in 0..2 /\ points >= m.points
  BY <1>1, <1>4, <1>5, <1>6, <1>7, LocationFields
<1>9. label \in States \cup {"none", "dead"}
  BY <1>1, <1>5, LocationFields
<1>10. arrow \in States \cup {"none", "dead"} /\ (arrow = "none" <=> points = 0)
       /\ (points = 2 => arrow \in {"dead", state})
  <2>1. CASE m.points + Len(new) >= 2
    <3>1. arrow = state /\ points = 2
      BY <1>7, <2>1 DEF Arrow
    <3> QED BY <1>8, <3>1 DEF States
  <2>2. CASE m.points = 0 /\ Len(new) = 1
    <3>1. arrow = Head(new).state /\ points = 1 /\ Head(new) \in Location
      BY <1>4, <1>5, <1>7, <2>2 DEF Arrow
    <3> QED BY <3>1, LocationFields
  <2>3. CASE m.points < 2 /\ Len(new) = 0
    <3>1. arrow = m.arrow /\ points = m.points
      BY <1>1, <1>4, <1>7, <2>3 DEF Arrow
    <3> QED BY <1>1, <2>3, <3>1 DEF MarkOK
  <2>4. \/ m.points + Len(new) >= 2
        \/ m.points = 0 /\ Len(new) = 1
        \/ m.points < 2 /\ Len(new) = 0
    <3> DEFINE x == m.points
               y == Len(new)
    <3>1. x \in 0..2 /\ y \in Nat
      BY <1>1, <1>4
    <3> HIDE DEF x, y
    <3>2. x + y >= 2 \/ (x = 0 /\ y = 1) \/ (x < 2 /\ y = 0)
      BY <3>1
    <3> QED BY <3>2 DEF x, y
  <2> QED BY <2>1, <2>2, <2>3, <2>4
<1>11. points = 0 => time = m.time
  BY <1>1, <1>4, <1>7
<1> HIDE DEF time, state, arrow, label
<1>12. /\ d \in Mark /\ d.time = time /\ d.points = points /\ d.state = state
       /\ d.arrow = arrow /\ d.label = label
  BY <1>1, <1>2, <1>8, <1>9, <1>10 DEF Mark
<1> QED BY <1>8, <1>10, <1>11, <1>12 DEF MarkOK, d

\* What MarksAgree says of a marker, t being the time of the answer.
Agrees(m, t) ==
  m.points > 0 =>
     /\ m.label = IF m.time < t - OfflineTimeout THEN "dead" ELSE m.state
     /\ m.arrow = "dead" <=> m.label = "dead"
     /\ m.points = 2 => m.arrow = m.label

\* Greying leaves the locations alone, and the two parts of a marker agree then.
LEMMA GreyedOK ==
  ASSUME NEW m, MarkOK(m), NEW t \in Nat
  PROVE  /\ MarkOK(Greyed(m, t)) /\ Agrees(Greyed(m, t), t)
         /\ Greyed(m, t).time = m.time /\ Greyed(m, t).points = m.points
<1> DEFINE g == Greyed(m, t)
<1>1. /\ m \in Mark /\ m.time \in Nat /\ m.points \in 0..2 /\ m.state \in States
      /\ m.arrow \in States \cup {"none", "dead"} /\ (m.arrow = "none" <=> m.points = 0)
      /\ m.state # "dead" /\ m.state # "none" /\ OfflineTimeout \in Nat
      /\ m.points = 2 => m.arrow \in {"dead", m.state}
  BY NumbersAssumption DEF MarkOK, Mark, States
<1>2. CASE m.points = 0
  <2>1. g = m
    BY <1>2 DEF Greyed
  <2> QED BY <1>1, <1>2, <2>1 DEF Agrees
<1>3. CASE m.points > 0 /\ m.time < t - OfflineTimeout
  <2>1. g = [m EXCEPT !.arrow = "dead", !.label = "dead"]
    BY <1>1, <1>3 DEF Greyed
  <2> HIDE DEF g
  <2>2. /\ g \in Mark /\ g.time = m.time /\ g.points = m.points
        /\ g.state = m.state /\ g.arrow = "dead" /\ g.label = "dead"
    BY <1>1, <2>1 DEF Mark
  <2>3. MarkOK(g) /\ Agrees(g, t)
    BY <1>1, <1>3, <2>2 DEF MarkOK, Agrees
  <2> QED BY <2>2, <2>3 DEF g
<1>4. CASE m.points > 0 /\ ~(m.time < t - OfflineTimeout)
  <2> DEFINE a == IF m.arrow = "dead" THEN m.state ELSE m.arrow
  <2>1. g = [m EXCEPT !.arrow = a, !.label = m.state]
    BY <1>1, <1>4 DEF Greyed
  <2>2. a \in States /\ a # "none" /\ a # "dead" /\ (m.points = 2 => a = m.state)
    BY <1>1, <1>4 DEF States
  <2> HIDE DEF g, a
  <2>3. /\ g \in Mark /\ g.time = m.time /\ g.points = m.points
        /\ g.state = m.state /\ g.arrow = a /\ g.label = m.state
    BY <1>1, <2>1, <2>2 DEF Mark
  <2>4. MarkOK(g) /\ Agrees(g, t)
    BY <1>1, <1>4, <2>2, <2>3 DEF MarkOK, Agrees
  <2> QED BY <2>3, <2>4 DEF g
<1> QED BY <1>1, <1>2, <1>3, <1>4

\* What Drawing makes of each user's marker.
LEMMA DrawingOK ==
  ASSUME MarkInv, NEW us \in SUBSET Users, NEW got \in [us -> Lists], NEW u \in Users
  PROVE  /\ MarkOK(Drawing(us, got)[u])
         /\ Drawing(us, got)[u].points >= marks[u].points
         /\ Drawing(us, got)[u].points = 0 => Drawing(us, got)[u].time = marks[u].time
         /\ u \notin us => Drawing(us, got)[u] = marks[u]
<1>1. MarkOK(marks[u]) /\ marks[u].points \in Int
  BY DEF MarkInv, MarkOK, Mark
<1>2. CASE u \in us
  <2>1. got[u] \in Seq(Location)
    BY <1>2, ListsAssumption
  <2>2. Drawing(us, got)[u] = Drawn(marks[u], got[u])
    BY <1>2 DEF Drawing
  <2> QED BY <1>1, <1>2, <2>1, <2>2, DrawnOK
<1>3. CASE u \notin us
  BY <1>1, <1>3 DEF Drawing
<1> QED BY <1>2, <1>3

\* What the map is moved to is one of the views.
LEMMA SeenType ==
  ASSUME NEW what \in {"start", "all", "self", "dragged", "moved", "user"},
         NEW ms, \A u \in Users : MarkOK(ms[u]), NEW u \in Users \cup {Nobody}
  PROVE  /\ Seen(what, u, ms) \in View
         /\ Seen(what, u, ms).user = u
         /\ u \in Users => Seen(what, u, ms).time = ms[u].time
<1>1. u \in Users => ms[u].time \in Nat
  BY DEF MarkOK, Mark
<1> QED BY <1>1, NobodyAssumption DEF Seen, View

------------------------------------------------------------------------------
(* Steps *)

Someone(ms) == \E u \in Users : ms[u].points > 0

\* An answer is drawn: whatever markers come of it, if they are those of Drawing in
\* time and number, the list and the view agree with them.
LEMMA DrawnStep ==
  ASSUME MapInv, NEW us \in SUBSET Users, NEW got \in [us -> Lists],
         NEW ms, ms = Drawing(us, got),
         UNCHANGED <<only, dialogs, self>>, heard' \in ServerTimes \cup {0}, MarksAgree',
         marks' \in [Users -> Mark], \A u \in Users : MarkOK(marks'[u]),
         \A u \in Users : /\ marks'[u].time = ms[u].time /\ marks'[u].points = ms[u].points,
         listed \cup us \subseteq listed', listed' \subseteq Users,
         hasInitiated' \in BOOLEAN, hasInitiated' => hasInitiated \/ Someone(ms),
         following' \in Users \cup {Nobody},
         \/ view' = Seen("all", following', ms)
         \/ following' = following /\ view' = Panned(us, ms)
  PROVE  MapInv'
<1>1. MarkInv /\ \A u \in Users : /\ ms[u].points >= marks[u].points /\ MarkOK(ms[u])
                                  /\ ms[u].points = 0 => ms[u].time = marks[u].time
                                  /\ u \notin us => ms[u] = marks[u]
                                  /\ ms[u].points \in 0..2 /\ marks[u].points \in 0..2
  BY DrawingOK DEF MapInv, MarkInv, TypeOK, MarkOK, Mark
<1>2. view' \in View /\ (following' # Nobody => /\ view'.user = following'
                                                /\ view'.time = ms[following'].time)
  <2>1. CASE view' = Seen("all", following', ms)
    <3> DEFINE f == following'
    <3>1. f \in Users \cup {Nobody} /\ \A u \in Users : MarkOK(ms[u])
      BY <1>1
    <3> HIDE DEF f
    <3>2. /\ Seen("all", f, ms) \in View /\ Seen("all", f, ms).user = f
          /\ f \in Users => Seen("all", f, ms).time = ms[f].time
      <4>1. f \in Users => ms[f].time \in Nat
        BY <3>1 DEF MarkOK, Mark
      <4> QED BY <3>1, <4>1, NobodyAssumption DEF Seen, View
    <3> QED BY <2>1, <3>1, <3>2 DEF f
  <2>2. CASE following' = following /\ view' = Panned(us, ms)
    <3>1. CASE following \in us /\ ms[following].points > 0
      <4>1. view' = Seen("user", following, ms) /\ following \in Users
        BY <2>2, <3>1 DEF Panned, On
      <4> QED BY <1>1, <2>2, <4>1, SeenType
    <3>2. CASE ~(following \in us /\ ms[following].points > 0)
      <4>1. view' = view /\ view \in View
        BY <1>1, <2>2, <3>2 DEF Panned, MarkInv, TypeOK
      <4>2. ASSUME following # Nobody
            PROVE  view.user = following /\ view.time = ms[following].time
        <5>1. following \in Users /\ view.user = following /\ view.time = marks[following].time
          BY <1>1, <4>2 DEF MapInv, FollowedInView, MarkInv, TypeOK
        <5> QED BY <1>1, <3>2, <5>1
      <4> QED BY <2>2, <4>1, <4>2
    <3> QED BY <3>1, <3>2
  <2> QED BY <2>1, <2>2
<1>3. MarkInv'
  <2>1. TypeOK'
    BY <1>1, <1>2 DEF MarkInv, TypeOK, MarkOK, dialogs
  <2> QED BY <2>1 DEF MarkInv
<1>4. SelfInv'
  BY DEF MapInv, SelfInv, Hidden
<1>5. ListInv'
  <2>1. ASSUME NEW u \in Users, marks'[u].points > 0 PROVE u \in listed'
    <3>1. CASE u \in us
      BY <3>1
    <3>2. CASE u \notin us
      BY <1>1, <2>1, <3>2 DEF MapInv, ListInv
    <3> QED BY <3>1, <3>2
  <2>2. ASSUME hasInitiated' PROVE \E u \in Users : marks'[u].points > 0
    <3>1. CASE Someone(ms)
      BY <3>1 DEF Someone
    <3>2. CASE hasInitiated
      <4>1. PICK u \in Users : marks[u].points > 0
        BY <3>2 DEF MapInv, ListInv
      <4> QED BY <1>1, <4>1
    <3> QED BY <2>2, <3>1, <3>2
  <2> QED BY <2>1, <2>2 DEF ListInv
<1>6. FollowHasLocation'
  <2>1. SUFFICES ASSUME details # Nobody PROVE marks'[details].points > 0
    BY DEF FollowHasLocation, dialogs
  <2>2. details \in Users /\ marks[details].points > 0
    BY <1>1, <2>1 DEF MapInv, FollowHasLocation, MarkInv, TypeOK
  <2> QED BY <1>1, <2>2
<1>7. FollowedInView'
  BY <1>2 DEF FollowedInView
<1> QED BY <1>3, <1>4, <1>5, <1>6, <1>7 DEF MapInv

LEMMA UpdateStep ==
  ASSUME MapInv, NEW us \in SUBSET Users, NEW got \in [us -> Lists],
         NEW t \in ServerTimes, Update(us, got, t)
  PROVE  MapInv'
<1> DEFINE ms == Drawing(us, got)
<1>1. /\ marks' = Settled(us, ms, t) /\ hasInitiated' = (hasInitiated \/ ToCentre(ms))
      /\ following' = IF ToCentre(ms) /\ ~multiUser THEN only ELSE following
      /\ view' = IF ToCentre(ms) THEN Seen("all", following', ms) ELSE Panned(us, ms)
      /\ listed' = listed \cup us /\ heard' = t
      /\ UNCHANGED <<only, dialogs, self>>
  BY DEF Update
<1>2. /\ MarkInv /\ t \in Nat /\ listed \subseteq Users /\ only \in Users \cup {Nobody}
      /\ following \in Users \cup {Nobody} /\ hasInitiated \in BOOLEAN
  BY NumbersAssumption DEF MapInv, MarkInv, TypeOK
<1>3. \A u \in Users : MarkOK(ms[u])
  BY <1>2, DrawingOK
<1> HIDE DEF ms
<1>4. \A u \in Users : /\ MarkOK(marks'[u]) /\ marks'[u].time = ms[u].time
                       /\ marks'[u].points = ms[u].points /\ Agrees(marks'[u], t)
  BY <1>1, <1>2, <1>3, GreyedOK DEF Settled
<1>5. marks' \in [Users -> Mark]
  BY <1>1, <1>4 DEF Settled, MarkOK
<1>6. MarksAgree' /\ heard' \in ServerTimes \cup {0}
  BY <1>1, <1>4 DEF MarksAgree, Agrees
<1>7. hasInitiated' \in BOOLEAN /\ (hasInitiated' => hasInitiated \/ Someone(ms))
  BY <1>1, <1>2 DEF ToCentre, Someone
<1>8. /\ following' \in Users \cup {Nobody}
      /\ listed' \subseteq Users /\ listed \cup us \subseteq listed'
  BY <1>1, <1>2
<1>9. \/ view' = Seen("all", following', ms)
      \/ following' = following /\ view' = Panned(us, ms)
  BY <1>1
<1>10. ms = Drawing(us, got)
  BY DEF ms
<1>11. UNCHANGED <<only, dialogs, self>>
  BY <1>1
<1>12. /\ \A u \in Users : MarkOK(marks'[u])
       /\ \A u \in Users : marks'[u].time = ms[u].time /\ marks'[u].points = ms[u].points
  BY <1>4
<1> QED BY <1>5, <1>6, <1>7, <1>8, <1>9, <1>10, <1>11, <1>12, DrawnStep

LEMMA ThrowsStep ==
  ASSUME MapInv, NEW us \in SUBSET Users, NEW got \in [us -> Lists],
         NEW x \in Users, UpdateThrows(us, got, x)
  PROVE  MapInv'
<1>1. /\ marks' = Drawing(us, got) /\ view' = Panned(us, marks')
      /\ listed' = listed \cup us \cup {x} /\ heard' = 0
      /\ UNCHANGED <<only, hasInitiated, following, dialogs, self>>
  BY DEF UpdateThrows
<1>2. /\ MarkInv /\ listed \subseteq Users /\ following \in Users \cup {Nobody}
  BY DEF MapInv, MarkInv, TypeOK
<1>3. \A u \in Users : MarkOK(marks'[u])
  BY <1>1, <1>2, DrawingOK
<1>4. marks' \in [Users -> Mark]
  BY <1>1, <1>3 DEF Drawing, MarkOK
<1>5. listed \cup us \subseteq listed' /\ listed' \subseteq Users
  BY <1>1, <1>2
<1>6. MarksAgree'
  BY <1>1 DEF MarksAgree
<1>7. heard' \in ServerTimes \cup {0}
  BY <1>1
<1> DEFINE ms == Drawing(us, got)
<1>8. ms = Drawing(us, got) /\ marks' = ms
  BY <1>1
<1>9. \A u \in Users : marks'[u].time = ms[u].time /\ marks'[u].points = ms[u].points
  BY <1>8
<1>10. \/ view' = Seen("all", following', ms)
       \/ following' = following /\ view' = Panned(us, ms)
  BY <1>1, <1>8
<1>11. following' \in Users \cup {Nobody} /\ UNCHANGED <<only, dialogs, self>>
  BY <1>1, <1>2
<1>12. hasInitiated' \in BOOLEAN /\ (hasInitiated' => hasInitiated \/ Someone(ms))
  BY <1>1, <1>2 DEF MarkInv, TypeOK
<1> HIDE DEF ms
<1> QED BY <1>3, <1>4, <1>5, <1>6, <1>7, <1>8, <1>9, <1>10, <1>11, <1>12, DrawnStep

\* Clicks leave what has come of the answers alone.
LEMMA ClickStep ==
  ASSUME MapInv, UNCHANGED <<data, self>>,
         following' \in Users \cup {Nobody}, view' \in View, userList' \in BOOLEAN,
         details' \in Users \cup {Nobody},
         details' # Nobody => marks[details'].points > 0,
         following' # Nobody => view'.user = following' /\ view'.time = marks[following'].time
  PROVE  MapInv'
<1>1. MarkInv
  BY DEF MapInv
<1>2. TypeOK'
  BY <1>1 DEF MarkInv, TypeOK, data
<1>3. MarkInv'
  BY <1>1, <1>2 DEF MarkInv, MarksAgree, data
<1>4. SelfInv' /\ ListInv'
  BY DEF MapInv, SelfInv, ListInv, Hidden, data
<1>5. FollowHasLocation' /\ FollowedInView'
  BY DEF FollowHasLocation, FollowedInView, data
<1> QED BY <1>3, <1>4, <1>5 DEF MapInv

LEMMA Before ==
  ASSUME MapInv
  PROVE  /\ following \in Users \cup {Nobody} /\ view \in View /\ userList \in BOOLEAN
         /\ details \in Users \cup {Nobody}
         /\ details # Nobody => marks[details].points > 0
         /\ following # Nobody => view.user = following /\ view.time = marks[following].time
         /\ listed \in SUBSET Users /\ marks \in [Users -> Mark]
         /\ Nobody \notin Users /\ Nobody \in Users \cup {Nobody}
BY NobodyAssumption DEF MapInv, MarkInv, TypeOK, FollowHasLocation, FollowedInView

\* Where the map may be moved while the viewer follows u.
LEMMA Views ==
  ASSUME MapInv, NEW what \in {"start", "all", "self", "dragged", "moved", "user"},
         NEW u \in Users \cup {Nobody}
  PROVE  /\ Seen(what, u, marks) \in View
         /\ u # Nobody => /\ Seen(what, u, marks).user = u
                          /\ Seen(what, u, marks).time = marks[u].time
<1>1. \A x \in Users : MarkOK(marks[x])
  BY DEF MapInv, MarkInv
<1> QED BY <1>1, SeenType

LEMMA ClickMarkerStep ==
  ASSUME MapInv, NEW u \in Users, ClickMarker(u)
  PROVE  MapInv'
<1>1. /\ following' = u /\ view' = Seen("user", u, marks)
      /\ UNCHANGED <<data, dialogs, self>>
  BY DEF ClickMarker, Follow, On
<1> QED BY <1>1, Before, Views, ClickStep DEF dialogs

LEMMA MouseDownStep ==
  ASSUME MapInv, MouseDown
  PROVE  MapInv'
<1>1. Seen("dragged", Nobody, marks) \in View
  BY Views
<1>2. /\ following' = Nobody /\ view' \in View
      /\ UNCHANGED <<data, dialogs, self>>
  BY <1>1, Before DEF MouseDown
<1> QED BY <1>2, Before, ClickStep DEF dialogs

LEMMA MoveMapStep ==
  ASSUME MapInv, MoveMap
  PROVE  MapInv'
<1>1. /\ view' = Seen("moved", following, marks)
      /\ UNCHANGED <<data, following, dialogs, self>>
  BY DEF MoveMap
<1> QED BY <1>1, Before, Views, ClickStep DEF dialogs

\* The only entry of the list is somebody's who has a location: the map is shown, so
\* somebody has one, and is in the list.
LEMMA ClickRadarStep ==
  ASSUME MapInv, ClickRadar
  PROVE  MapInv'
<1>1. UNCHANGED <<data, following, view, self>> /\ hasInitiated
  BY DEF ClickRadar
<1>2. CASE Cardinality(listed) = 1
  <2>1. userList' = FALSE /\ details' \in listed
    BY <1>2 DEF ClickRadar
  <2>2. PICK u \in Users : marks[u].points > 0
    BY <1>1 DEF MapInv, ListInv
  <2>3. u \in listed /\ listed \in SUBSET Users
    BY <2>2, Before DEF MapInv, ListInv
  <2>4. IsFiniteSet(listed)
    BY <2>3, UsersAssumption, FS_Subset
  <2>5. PICK x : listed = {x}
    BY <1>2, <2>4, FS_Singleton
  <2>6. details' = u
    BY <2>1, <2>3, <2>5
  <2> QED BY <1>1, <2>1, <2>2, <2>6, Before, ClickStep
<1>3. CASE Cardinality(listed) # 1
  <2>1. userList' = TRUE /\ details' = details
    BY <1>3 DEF ClickRadar
  <2> QED BY <1>1, <2>1, Before, ClickStep
<1> QED BY <1>2, <1>3

LEMMA ClickEntryStep ==
  ASSUME MapInv, NEW u \in Users, ClickEntry(u)
  PROVE  MapInv'
<1>1. /\ marks[u].points > 0 /\ userList' = FALSE /\ details' = u
      /\ UNCHANGED <<data, following, view, self>>
  BY DEF ClickEntry
<1> QED BY <1>1, Before, ClickStep

LEMMA CloseListStep ==
  ASSUME MapInv, CloseList
  PROVE  MapInv'
<1>1. userList' = FALSE /\ UNCHANGED <<data, following, view, details, self>>
  BY DEF CloseList
<1> QED BY <1>1, Before, ClickStep

LEMMA ShowAllStep ==
  ASSUME MapInv, ShowAll
  PROVE  MapInv'
<1>1. /\ userList' = FALSE /\ view' = Seen("all", following, marks)
      /\ UNCHANGED <<data, following, details, self>>
  BY DEF ShowAll
<1> QED BY <1>1, Before, Views, ClickStep

\* Whoever is followed from the details has a location, so the map goes there.
LEMMA ClickFollowStep ==
  ASSUME MapInv, ClickFollow
  PROVE  MapInv'
<1>1. details # Nobody /\ details \in Users /\ marks[details].points > 0
  BY Before DEF ClickFollow
<1>2. /\ following' = details /\ view' = Seen("user", details, marks) /\ details' = Nobody
      /\ UNCHANGED <<data, userList, self>>
  BY <1>1 DEF ClickFollow, Follow, On
<1> QED BY <1>1, <1>2, Before, Views, ClickStep

LEMMA CloseDetailsStep ==
  ASSUME MapInv, CloseDetails
  PROVE  MapInv'
<1>1. details' = Nobody /\ UNCHANGED <<data, following, view, userList, self>>
  BY DEF CloseDetails
<1> QED BY <1>1, Before, ClickStep

\* The viewer's own marker moves the map once, and ends the following of others then.
LEMMA SelfStep ==
  ASSUME MapInv, UNCHANGED <<data, dialogs>>, SelfInv',
         self' \in [watching : BOOLEAN, located : BOOLEAN, marker : BOOLEAN, drawn : BOOLEAN,
                    control : {"inactive", "pending", "active"}],
         \/ UNCHANGED <<following, view>>
         \/ following' = Nobody /\ view' = Seen("self", Nobody, marks)
  PROVE  MapInv'
<1>1. MarkInv /\ view' \in View /\ following' \in Users \cup {Nobody}
  BY Before, Views DEF MapInv
<1>2. TypeOK'
  BY <1>1 DEF MarkInv, TypeOK, data, dialogs
<1>3. MarkInv'
  BY <1>1, <1>2 DEF MarkInv, MarksAgree, data
<1>4. ListInv'
  BY DEF MapInv, ListInv, data
<1>5. FollowHasLocation'
  BY DEF MapInv, FollowHasLocation, data, dialogs
<1>6. FollowedInView'
  BY DEF MapInv, FollowedInView, data
<1> QED BY <1>3, <1>4, <1>5, <1>6 DEF MapInv

SelfType == [watching : BOOLEAN, located : BOOLEAN, marker : BOOLEAN, drawn : BOOLEAN,
             control : {"inactive", "pending", "active"}]

LEMMA ClickLocateStep ==
  ASSUME MapInv, ClickLocate
  PROVE  MapInv'
<1>1. /\ self' = IF self.watching THEN Hidden
                 ELSE [self EXCEPT !.watching = TRUE, !.control = "pending"]
      /\ UNCHANGED <<data, following, view, dialogs>>
  BY DEF ClickLocate
<1>2. SelfInv /\ self \in SelfType
  BY DEF MapInv, MarkInv, TypeOK, SelfType
<1>3. CASE self.watching
  <2>1. self' = Hidden
    BY <1>1, <1>3
  <2>2. SelfInv' /\ self' \in SelfType
    BY <2>1 DEF SelfInv, SelfType, Hidden
  <2> QED BY <1>1, <2>2, SelfStep DEF SelfType
<1>4. CASE ~self.watching
  <2>1. self = Hidden /\ self' = [self EXCEPT !.watching = TRUE, !.control = "pending"]
    BY <1>1, <1>2, <1>4 DEF SelfInv
  <2>2. SelfInv' /\ self' \in SelfType
    BY <2>1 DEF SelfInv, SelfType, Hidden
  <2> QED BY <1>1, <2>2, SelfStep DEF SelfType
<1> QED BY <1>3, <1>4

LEMMA PositionStep ==
  ASSUME MapInv, Position
  PROVE  MapInv'
<1>1. self.watching /\ UNCHANGED <<data, dialogs>>
  BY DEF Position
<1>2. SelfInv /\ self \in SelfType
  BY DEF MapInv, MarkInv, TypeOK, SelfType
<1>3. CASE ~self.marker
  <2>1. /\ self' = [self EXCEPT !.located = TRUE, !.marker = TRUE, !.drawn = TRUE,
                                 !.control = "active"]
        /\ following' = Nobody /\ view' = Seen("self", Nobody, marks)
    BY <1>3 DEF Position
  <2>2. SelfInv' /\ self' \in SelfType
    BY <1>1, <1>2, <2>1 DEF SelfInv, SelfType, Hidden
  <2> QED BY <1>1, <2>1, <2>2, SelfStep DEF SelfType
<1>4. CASE self.marker
  <2>1. self' = [self EXCEPT !.located = TRUE] /\ UNCHANGED <<following, view>>
    BY <1>4 DEF Position
  <2>2. SelfInv' /\ self' \in SelfType
    BY <1>1, <1>2, <1>4, <2>1 DEF SelfInv, SelfType, Hidden
  <2> QED BY <1>1, <2>1, <2>2, SelfStep DEF SelfType
<1> QED BY <1>3, <1>4

LEMMA InitMap ==
  ASSUME Init
  PROVE  MapInv
<1>1. NoMark \in Mark /\ MarkOK(NoMark) /\ NoMark.points = 0
  BY DEF NoMark, Mark, States, MarkOK
<1>2. \A u \in Users : marks[u] = NoMark
  BY DEF Init
<1>3. Seen("start", Nobody, marks) \in View
  BY <1>1, <1>2, SeenType
<1>4. TypeOK
  <2>1. /\ only \in Users \cup {Nobody} /\ hasInitiated \in BOOLEAN /\ listed \subseteq Users
        /\ heard \in ServerTimes \cup {0}
    BY DEF Init
  <2>2. marks \in [Users -> Mark]
        /\ \A u \in Users : marks[u].arrow = "none" <=> marks[u].points = 0
    BY <1>1 DEF Init, MarkOK
  <2>3. following \in Users \cup {Nobody} /\ view \in View /\ userList \in BOOLEAN
        /\ details \in Users \cup {Nobody}
    BY <1>3 DEF Init
  <2>4. self \in [watching : BOOLEAN, located : BOOLEAN, marker : BOOLEAN, drawn : BOOLEAN,
                  control : {"inactive", "pending", "active"}]
    BY DEF Init
  <2> QED BY <2>1, <2>2, <2>3, <2>4 DEF TypeOK
<1>5. MarkInv
  BY <1>1, <1>2, <1>4 DEF MarkInv, MarksAgree, Init
<1>6. SelfInv
  BY DEF Init, SelfInv, Hidden
<1>7. ListInv
  BY <1>1 DEF Init, ListInv
<1>8. FollowHasLocation /\ FollowedInView
  BY DEF Init, FollowHasLocation, FollowedInView
<1> QED BY <1>5, <1>6, <1>7, <1>8 DEF MapInv

LEMMA NextMap ==
  ASSUME MapInv, [Next]_vars
  PROVE  MapInv'
<1>1. CASE UNCHANGED vars
  BY <1>1, Before, ClickStep DEF vars, dialogs
<1>2. CASE Answer
  BY <1>2, UpdateStep, ThrowsStep DEF Answer
<1>3. ASSUME NEW u \in Users, ClickMarker(u) \/ ClickEntry(u)
      PROVE  MapInv'
  BY <1>3, ClickMarkerStep, ClickEntryStep
<1>4. CASE MouseDown \/ MoveMap
  BY <1>4, MouseDownStep, MoveMapStep
<1>5. CASE ClickRadar
  BY <1>5, ClickRadarStep
<1>6. CASE CloseList \/ ShowAll
  BY <1>6, CloseListStep, ShowAllStep
<1>7. CASE ClickFollow \/ CloseDetails
  BY <1>7, ClickFollowStep, CloseDetailsStep
<1>8. CASE ClickLocate \/ Position
  BY <1>8, ClickLocateStep, PositionStep
<1> QED BY <1>1, <1>2, <1>3, <1>4, <1>5, <1>6, <1>7, <1>8 DEF Next

LEMMA MapInvariant == Spec => []MapInv
<1>1. Init => MapInv
  BY InitMap
<1>2. MapInv /\ [Next]_vars => MapInv'
  BY NextMap
<1> QED BY <1>1, <1>2, PTL DEF Spec

------------------------------------------------------------------------------
(* Theorems *)

\* Every variable has its type, and a marker exists exactly from the first location on.
THEOREM TypeCorrect == Spec => []TypeOK
<1>1. MapInv => TypeOK
  BY DEF MapInv, MarkInv
<1> QED BY <1>1, MapInvariant, PTL

\* The details are only ever open for a user whose location is known, so that follow
\* never throws: the only entry of the list, which the radar control clicks without a
\* look, is that of the user for whom the map is shown.
THEOREM FollowHasLocationCorrect == Spec => []FollowHasLocation
<1>1. MapInv => FollowHasLocation
  BY DEF MapInv
<1> QED BY <1>1, MapInvariant, PTL

\* The map goes with a followed user, whatever answers come and whatever is clicked: only
\* "show all" and the viewer's own hand move it elsewhere, until the next location.
THEOREM FollowedInViewCorrect == Spec => []FollowedInView
<1>1. MapInv => FollowedInView
  BY DEF MapInv
<1> QED BY <1>1, MapInvariant, PTL

\* The viewer's marker, the positions that have come and the control agree.
THEOREM SelfAgreesCorrect == Spec => []SelfAgrees
<1>1. MapInv => SelfAgrees
  BY DEF MapInv, MarkInv, TypeOK, SelfInv, SelfAgrees, Hidden
<1> QED BY <1>1, MapInvariant, PTL

\* After a complete update every marker is grey exactly when its user was not heard of in
\* time, and in the colour of the last location otherwise, in both its parts once the user
\* has two locations.
THEOREM MarksAgreeCorrect == Spec => []MarksAgree
<1>1. MapInv => MarksAgree
  BY DEF MapInv, MarkInv
<1> QED BY <1>1, MapInvariant, PTL
==============================================================================
