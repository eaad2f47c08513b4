------------------------------- MODULE ViewerMap -------------------------------
(***************************************************************************)
(* What the page shows of the locations it has got, and what becomes of it *)
(* as someone uses it (frontend/main.js): markers and their colours, whom  *)
(* the map follows, the list of users, the viewer's own position.  Which   *)
(* answers come, and when the page stops asking, is the matter of Viewer;  *)
(* here any answer may come at any time, so also one that was overtaken,   *)
(* and between two answers the viewer clicks on what is visible.           *)
(* Distances, speeds and angles are left out.                              *)
(***************************************************************************)
EXTENDS Integers, FiniteSets, SequencesExt, Selection

CONSTANTS Users,           \* nicknames; the empty name of a solo share among them
          Nobody,          \* null
          OfflineTimeout,  \* OFFLINE_TIMEOUT
          ServerTimes,     \* values of serverTime in the answers
          Lists            \* lists of locations an answer has for a user

States == {"live", "rough"}

\* A location; how its provider is shown is its state.
Location == [time : Nat \ {0}, state : States]

ASSUME UsersAssumption == IsFiniteSet(Users)
ASSUME NobodyAssumption == Nobody \notin Users
ASSUME NumbersAssumption == OfflineTimeout \in Nat /\ ServerTimes \subseteq Nat \ {0}
ASSUME ListsAssumption == Lists \subseteq Seq(Location)

VARIABLES only,       \* the one user of a solo share, Nobody for a group
          listed,     \* users in the list of users, shown once they have a location
          marks,      \* what is drawn of each user
          hasInitiated,   \* the map has been centred and made visible
          heard,      \* history: serverTime of the last update, 0 if it was not completed
          following,  \* the user being followed on the map
          view,       \* what the map was last moved to
          userList,   \* the list of users is open
          details,    \* the user whose details are open
          self        \* the viewer's own marker, and the control for it

data == <<only, listed, marks, hasInitiated, heard>>
dialogs == <<userList, details>>
vars == <<data, following, view, dialogs, self>>

------------------------------------------------------------------------------

multiUser == only = Nobody

\* points is shares[user].points as far as its length matters, up to two; arrow and
\* label are the classes of the two parts of the marker, "none" before there is one.
Mark == [time : Nat, points : 0..2, state : States,
         arrow : States \cup {"none", "dead"}, label : States \cup {"none", "dead"}]

NoMark == [time |-> 0, points |-> 0, state |-> "live", arrow |-> "none", label |-> "none"]

\* What the map was last moved to or by; user and time are whom it followed then, and
\* the time of that user's last location.
View == [of : {"start", "all", "self", "dragged", "moved", "user"},
         user : Users \cup {Nobody}, time : Nat]

Seen(what, u, ms) ==
  [of |-> what, user |-> u, time |-> IF u = Nobody THEN 0 ELSE ms[u].time]

On(u, ms) == Seen("user", u, ms)

TypeOK ==
  /\ only \in Users \cup {Nobody} /\ hasInitiated \in BOOLEAN
  /\ listed \subseteq Users /\ marks \in [Users -> Mark]
  /\ \A u \in Users : marks[u].arrow = "none" <=> marks[u].points = 0
  /\ heard \in ServerTimes \cup {0}
  /\ following \in Users \cup {Nobody} /\ view \in View
  /\ userList \in BOOLEAN /\ details \in Users \cup {Nobody}
  /\ self \in [watching : BOOLEAN, located : BOOLEAN, marker : BOOLEAN, drawn : BOOLEAN,
               control : {"inactive", "pending", "active"}]

Init ==
  /\ only \in Users \cup {Nobody} /\ hasInitiated = FALSE
  /\ listed = {} /\ marks = [u \in Users |-> NoMark] /\ heard = 0
  /\ following = Nobody /\ view = Seen("start", Nobody, marks)
  /\ userList = FALSE /\ details = Nobody
  /\ self = [watching |-> FALSE, located |-> FALSE, marker |-> FALSE, drawn |-> FALSE,
             control |-> "inactive"]

------------------------------------------------------------------------------
(* An answer: the users us, of each of them the locations got, and the time t *)

\* The arrow is made with the state of the location it is made for; from two
\* locations on it is turned, and gets its class anew.
Arrow(m, pts, new) ==
  IF m.points + Len(new) >= 2 THEN IF pts = <<>> THEN m.state ELSE Last(pts).state
  ELSE IF m.points = 0 /\ new # <<>> THEN Head(new).state ELSE m.arrow

\* The loop over the locations of a user.  Each decides the state, also one that
\* is not newer than the last and is not added.
Drawn(m, pts) ==
  LET new == Selected(pts, {i \in DOMAIN pts : pts[i].time > m.time})
  IN  [m EXCEPT !.time = IF new = <<>> THEN @ ELSE Last(new).time,
                !.points = Min({2, @ + Len(new)}),
                !.state = IF pts = <<>> THEN @ ELSE Last(pts).state,
                !.arrow = Arrow(m, pts, new),
                !.label = IF m.points = 0 /\ new # <<>> THEN Head(new).state ELSE @]

\* Mutant: users without a marker are not left out.
Greyed_Unmarked(m, t) ==
  IF m.time < t - OfflineTimeout THEN [m EXCEPT !.arrow = "dead", !.label = "dead"]
  ELSE [m EXCEPT !.arrow = IF @ = "dead" THEN m.state ELSE @, !.label = m.state]

\* The second loop, over all users ever seen: who has not been heard of for
\* OFFLINE_TIMEOUT is greyed out.
Greyed(m, t) ==
  IF m.points = 0 THEN m
  ELSE IF m.time < t - OfflineTimeout THEN [m EXCEPT !.arrow = "dead", !.label = "dead"]
  ELSE [m EXCEPT !.arrow = IF @ = "dead" THEN m.state ELSE @, !.label = m.state]

Drawing(us, got) == [u \in Users |-> IF u \in us THEN Drawn(marks[u], got[u]) ELSE marks[u]]

\* Mutant: the map is moved before the locations are added.
Panned_Before(us, ms) ==
  IF following \in us /\ ms[following].points > 0 THEN On(following, marks) ELSE view

\* A followed user takes the map along.
Panned(us, ms) ==
  IF following \in us /\ ms[following].points > 0 THEN On(following, ms) ELSE view

\* Mutant: also before there is a location.
ToCentre_AtOnce(ms) == ~hasInitiated

\* hasReceivedFirst && !hasInitiated
ToCentre(ms) == ~hasInitiated /\ \E u \in Users : ms[u].points > 0

\* Mutant: only the users of the answer are looked at.
Settled_OfAnswer(us, ms, t) == [u \in Users |-> IF u \in us THEN Greyed(ms[u], t) ELSE ms[u]]

Settled(us, ms, t) == [u \in Users |-> Greyed(ms[u], t)]

\* processUpdate.  The first locations make the map visible, with all users on it.
Update(us, got, t) ==
  /\ multiUser \/ us = {only}
  /\ LET ms == Drawing(us, got) IN
        /\ marks' = Settled(us, ms, t)
        /\ hasInitiated' = (hasInitiated \/ ToCentre(ms))
        /\ following' = IF ToCentre(ms) /\ ~multiUser THEN only ELSE following
        /\ view' = IF ToCentre(ms) THEN Seen("all", following', ms) ELSE Panned(us, ms)
  /\ listed' = listed \cup us /\ heard' = t
  /\ UNCHANGED <<only, dialogs, self>>

\* processUpdate throws at user x of a group, for whom the answer has null, when it is
\* done with us: the second loop and the first showing of the map are not come to.
UpdateThrows(us, got, x) ==
  /\ multiUser /\ x \notin us
  /\ marks' = Drawing(us, got) /\ view' = Panned(us, marks')
  /\ listed' = listed \cup us \cup {x} /\ heard' = 0
  /\ UNCHANGED <<only, hasInitiated, following, dialogs, self>>

Answer ==
  \E us \in SUBSET Users : \E got \in [us -> Lists] :
     (\E t \in ServerTimes : Update(us, got, t)) \/ (\E x \in Users : UpdateThrows(us, got, x))

------------------------------------------------------------------------------
(* The viewer *)

\* follow: without a location the last line throws.
Follow(u) ==
  /\ following' = u
  /\ view' = IF marks[u].points > 0 THEN On(u, marks) ELSE view

ClickMarker(u) ==
  /\ hasInitiated /\ marks[u].points > 0
  /\ Follow(u)
  /\ UNCHANGED <<data, dialogs, self>>

\* The map is touched with the mouse, and dragged perhaps.
MouseDown ==
  /\ hasInitiated
  /\ following' = Nobody /\ view' \in {view, Seen("dragged", Nobody, marks)}
  /\ UNCHANGED <<data, dialogs, self>>

\* The map is moved without a mousedown: by the wheel, the keyboard, a pinch.
\* Leaflet has all of these by default and nothing in main.js is told of them.
MoveMap ==
  /\ hasInitiated
  /\ view' = Seen("moved", following, marks)
  /\ UNCHANGED <<data, following, dialogs, self>>

\* The control "radar" opens the list of users; an only entry is clicked for the viewer.
ClickRadar ==
  /\ hasInitiated
  /\ IF Cardinality(listed) = 1 THEN userList' = FALSE /\ details' \in listed
                                ELSE userList' = TRUE /\ UNCHANGED details
  /\ UNCHANGED <<data, following, view, self>>

\* An entry of the list, visible once there is a location.
ClickEntry(u) ==
  /\ userList /\ u \in listed /\ marks[u].points > 0
  /\ userList' = FALSE /\ details' = u
  /\ UNCHANGED <<data, following, view, self>>

CloseList ==
  /\ userList
  /\ userList' = FALSE
  /\ UNCHANGED <<data, following, view, details, self>>

\* "Show all": autoCenter, which leaves following as it is.
ShowAll ==
  /\ userList
  /\ userList' = FALSE /\ view' = Seen("all", following, marks)
  /\ UNCHANGED <<data, following, details, self>>

\* The details are closed, unless follow throws.
ClickFollow ==
  /\ details # Nobody
  /\ Follow(details)
  /\ details' = IF marks[details].points > 0 THEN Nobody ELSE details
  /\ UNCHANGED <<data, userList, self>>

\* The buttons "navigate", which hands the location to another program, and "close".
CloseDetails ==
  /\ details # Nobody
  /\ details' = Nobody
  /\ UNCHANGED <<data, following, view, userList, self>>

\* Mutant: the variables keep the marker that was removed.
Hidden_Remembered ==
  [self EXCEPT !.watching = FALSE, !.located = FALSE, !.drawn = FALSE,
               !.control = "inactive"]

\* located is history: a position has come since the control was clicked.
Hidden == [watching |-> FALSE, located |-> FALSE, marker |-> FALSE, drawn |-> FALSE,
           control |-> "inactive"]

\* The control "locate" starts and ends watching the viewer's position.
ClickLocate ==
  /\ hasInitiated
  /\ self' = IF self.watching THEN Hidden
             ELSE [self EXCEPT !.watching = TRUE, !.control = "pending"]
  /\ UNCHANGED <<data, following, view, dialogs>>

\* A position of the viewer: the first makes the marker and takes the map.
Position ==
  /\ self.watching
  /\ IF ~self.marker
     THEN /\ self' = [self EXCEPT !.located = TRUE, !.marker = TRUE, !.drawn = TRUE,
                                   !.control = "active"]
          /\ following' = Nobody /\ view' = Seen("self", Nobody, marks)
     ELSE self' = [self EXCEPT !.located = TRUE] /\ UNCHANGED <<following, view>>
  /\ UNCHANGED <<data, dialogs>>

------------------------------------------------------------------------------
Next ==
  \/ Answer
  \/ \E u \in Users : ClickMarker(u) \/ ClickEntry(u)
  \/ MouseDown \/ MoveMap \/ ClickRadar \/ CloseList \/ ShowAll
  \/ ClickFollow \/ CloseDetails \/ ClickLocate \/ Position

Spec == Init /\ [][Next]_vars

------------------------------------------------------------------------------

\* Whoever can be followed has a location: the details of a user without one cannot
\* be opened, although the list has an entry for such a user and the radar control
\* clicks on an entry without a look at it.
FollowHasLocation == details # Nobody => marks[details].points > 0

\* After a complete update, in whatever order the answers come, the label of every
\* marker is grey for who was not heard of in time, else in the colour of the last
\* location that came; the arrow is grey when the label is, and has its colour from the
\* second location on.  The arrow of an only location may have another colour than the
\* label: an overtaken answer can change the state of a marker, and not its arrow.
MarksAgree ==
  heard > 0 => \A u \in Users : marks[u].points > 0 =>
     /\ marks[u].label = IF marks[u].time < heard - OfflineTimeout THEN "dead"
                                                                   ELSE marks[u].state
     /\ marks[u].arrow = "dead" <=> marks[u].label = "dead"
     /\ marks[u].points = 2 => marks[u].arrow = marks[u].label

\* While a user is followed the map was moved to that user's last location, or to all
\* users or by the viewer since that location came: no other movement of the map leaves
\* somebody followed, and the next location of that user takes the map along.
FollowedInView ==
  following # Nobody => view.user = following /\ view.time = marks[following].time

\* However often the control is clicked, before or after the first position: a position
\* that has come is on the map, none is after the last click, and the control says so.
SelfAgrees ==
  /\ self.drawn = (self.watching /\ self.located)
  /\ self.control = IF ~self.watching THEN "inactive"
                    ELSE IF self.drawn THEN "active" ELSE "pending"
==============================================================================
