-------------------------------- MODULE Sharing --------------------------------
(***************************************************************************)
(* What the server promises to its clients, without a store, records or    *)
(* requests: a session is open until it is closed or its end has come; an  *)
(* entry puts a session under a link until the link's own end; whoever     *)
(* views the link is shown its entries of open sessions.  HaukSharing says *)
(* how HaukApi keeps this promise.                                         *)
(***************************************************************************)
EXTENDS Naturals

CONSTANTS Sids, Links,
          Nicks,        \* names of the entries of a group
          NoNick,       \* the name of the one entry of a solo link
          MaxDuration   \* the longest a session or a link may last

VARIABLES now,      \* the clock
          ends,     \* the end of each open session, 0 for one that is not open
          over,     \* sessions that were open once
          board     \* the entries, each with its link, name, sid and until

vars == <<now, ends, over, board>>

Init ==
  /\ now = 0
  /\ ends = [s \in Sids |-> 0]
  /\ over = {}
  /\ board = {}

\* The ends something made now may have.
Ends == (now + 1)..(now + MaxDuration)

Under(l) == {e \in board : e.link = l}
Of(s) == {e \in board : e.sid = s}

\* Session s, open or about to be opened, is put under link l as n.  A solo link is
\* nobody else's and ends with the session; a group has one end, and a nickname that
\* is taken passes to the newcomer.
Put(s, l, n) ==
  /\ s \notin over
  /\ \E u \in Ends :
        /\ n = NoNick => Under(l) = {} /\ (ends[s] # 0 => u = ends[s])
        /\ \A e \in Under(l) : e.name # NoNick /\ e.until = u
        /\ board' = {e \in board : e.link # l \/ e.name # n}
                      \cup {[link |-> l, name |-> n, sid |-> s, until |-> u]}
  /\ UNCHANGED <<now, ends, over>>

\* A session is opened with the entry that was made for it.
Open(s) ==
  /\ ends[s] = 0 /\ s \notin over
  /\ \E e \in Of(s) :
        /\ Of(s) = {e}
        /\ \E end \in Ends :
              /\ e.name = NoNick => end = e.until
              /\ ends' = [ends EXCEPT ![s] = end]
  /\ UNCHANGED <<now, over, board>>

\* An entry is taken off while its session is open.
Take(e) ==
  /\ ends[e.sid] # 0
  /\ board' = board \ {e}
  /\ UNCHANGED <<now, ends, over>>

\* A session is closed when none of its entries is left.
Close(s) ==
  /\ ends[s] # 0 /\ Of(s) = {}
  /\ ends' = [ends EXCEPT ![s] = 0]
  /\ over' = over \cup {s}
  /\ UNCHANGED <<now, board>>

\* Sessions and entries whose end has come are gone.
Tick ==
  /\ now' = now + 1
  /\ ends' = [s \in Sids |-> IF ends[s] > now' THEN ends[s] ELSE 0]
  /\ over' = over \cup {s \in Sids : ends[s] = now'}
  /\ board' = {e \in board : e.until > now'}

Next ==
  \/ \E s \in Sids : Open(s) \/ Close(s)
  \/ \E s \in Sids, l \in Links, n \in Nicks \cup {NoNick} : Put(s, l, n)
  \/ \E e \in board : Take(e)
  \/ Tick

Spec == Init /\ [][Next]_vars
==============================================================================
