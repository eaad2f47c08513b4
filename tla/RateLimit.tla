------------------------------ MODULE RateLimit ------------------------------
(***************************************************************************)
(* The limiter in front of create and adopt (ratelimit/ratelimit.go): one  *)
(* table of clients, each with the number of its requests in a window that *)
(* opens with the first of them.  Allow holds a mutex from the reading of  *)
(* the clock to its answer, so that a call is one step.  The clock counts  *)
(* any unit fine enough to tell the calls apart.                           *)
(***************************************************************************)
EXTENDS Integers, Sequences, FiniteSets

CONSTANTS Clients,      \* what clientIP returns: the keys of the table
          Limit,        \* requests per window
          Window,       \* length of a window, and half the time between sweeps
          MaxEntries,   \* size of the table
          NoEntry,      \* a client the table does not have
          MaxTime       \* bound: the last tick of the clock

ASSUME LimitAssumption == Limit \in Nat \ {0}
ASSUME WindowAssumption == Window \in Nat \ {0}
ASSUME MaxEntriesAssumption == MaxEntries \in Nat \ {0}
ASSUME MaxTimeAssumption == MaxTime \in Nat

Entry == [count : 1..Limit, resetAt : Nat]

ASSUME NoEntryAssumption == NoEntry \notin Entry

VARIABLES now,          \* the clock
          entries,      \* the table
          lastSweep,    \* when stale entries were last removed
          answer,       \* the last answer of Allow, and to whom
          passed        \* history: the times at which a client was let through

vars == <<now, entries, lastSweep, answer, passed>>

Known(tab) == {c \in Clients : tab[c] # NoEntry}

TypeOK ==
  /\ now \in Nat
  /\ entries \in [Clients -> Entry \cup {NoEntry}]
  /\ lastSweep \in Nat
  /\ answer \in [client : Clients, ok : BOOLEAN] \cup {NoEntry}
  /\ passed \in [Clients -> Seq(Nat)]

Init ==
  /\ now = 0
  /\ entries = [c \in Clients |-> NoEntry]
  /\ lastSweep = 0
  /\ answer = NoEntry
  /\ passed = [c \in Clients |-> <<>>]

------------------------------------------------------------------------------
(* Allow *)

\* A window is over once the clock is past its end, not on it.
Stale(e) == e # NoEntry /\ now > e.resetAt

\* Mutant: the size of the table does not trigger a sweep.
SweepDue_TimeOnly(tab) == now - lastSweep > 2 * Window

\* Periodically, and whenever the table is full.
SweepDue(tab) == now - lastSweep > 2 * Window \/ Cardinality(Known(tab)) >= MaxEntries

\* Mutant: a sweep empties the table.
Swept_All(tab) == [c \in Clients |-> NoEntry]

Swept(tab) == [c \in Clients |-> IF Stale(tab[c]) THEN NoEntry ELSE tab[c]]

\* Mutant: the table is full only above its size.
Full_OffByOne(tab) == Cardinality(Known(tab)) > MaxEntries

Full(tab) == Cardinality(Known(tab)) >= MaxEntries

\* Mutant: the request that opens a window is not counted.
Opened_Free == [count |-> 0, resetAt |-> now + Window]

\* The window a request opens.
Opened == [count |-> 1, resetAt |-> now + Window]

\* The table is tab after a possible sweep: it is the one that is looked up.
Pass(c, tab, e) ==
  /\ entries' = [tab EXCEPT ![c] = e]
  /\ answer' = [client |-> c, ok |-> TRUE]
  /\ passed' = [passed EXCEPT ![c] = Append(@, now)]

Refuse(c, tab) ==
  /\ entries' = tab
  /\ answer' = [client |-> c, ok |-> FALSE]
  /\ UNCHANGED passed

\* A client without an open window.
Admit(c, tab) ==
  /\ tab[c] = NoEntry \/ Stale(tab[c])
  /\ \/ Full(tab) /\ Refuse(c, tab)
     \/ ~Full(tab) /\ Pass(c, tab, Opened)

\* A client in its window: the table being full is nothing to it.
Count(c, tab) ==
  /\ tab[c] # NoEntry /\ ~Stale(tab[c])
  /\ \/ tab[c].count >= Limit /\ Refuse(c, tab)
     \/ tab[c].count < Limit /\ Pass(c, tab, [tab[c] EXCEPT !.count = @ + 1])

Allow(c) ==
  LET due == SweepDue(entries)
      tab == IF due THEN Swept(entries) ELSE entries
  IN  /\ Admit(c, tab) \/ Count(c, tab)
      /\ lastSweep' = IF due THEN now ELSE lastSweep
      /\ UNCHANGED now

Tick ==
  /\ now < MaxTime
  /\ now' = now + 1
  /\ UNCHANGED <<entries, lastSweep, answer, passed>>

Next == (\E c \in Clients : Allow(c)) \/ Tick

Spec == Init /\ [][Next]_vars

------------------------------------------------------------------------------

\* The table never grows beyond its size, whatever clients come.
TableBounded == Cardinality(Known(entries)) <= MaxEntries

\* The limit as README.md and config.go state it: within less than a window's length,
\* wherever it starts, a client is let through no more than Limit times.  It does not
\* hold, as a window opens with a request and may be used up just before its end.
PerWindow ==
  \A c \in Clients : \A i, j \in 1..Len(passed[c]) :
     i <= j /\ passed[c][j] - passed[c][i] < Window => j - i < Limit

\* What holds instead, and is not what the documents say: of the requests of one client
\* in any span as long as a window, wherever it starts, no more than two windows' worth
\* are let through.  Neither a sweep nor a full table forgets a window that is open.
SpanLimit ==
  \A c \in Clients : \A i, j \in 1..Len(passed[c]) :
     i <= j /\ passed[c][j] - passed[c][i] <= Window => j - i < 2 * Limit

\* A window that is open has counted the requests let through since it opened.
WindowCounts ==
  \A c \in Clients : entries[c] # NoEntry =>
     entries[c].count =
       Cardinality({i \in 1..Len(passed[c]) :
                      passed[c][i] >= entries[c].resetAt - Window})

\* A client is refused only when its own window is used up, or when the table
\* is full of other clients whose windows are open: entries that are over are
\* never in the way, and no refusal puts off the end of a window.
RefusedForCause ==
  [][\A c \in Clients : now' = now /\ answer' = [client |-> c, ok |-> FALSE] =>
       \/ /\ entries[c] # NoEntry /\ ~Stale(entries[c]) /\ entries[c].count = Limit
          /\ entries'[c] = entries[c]
       \/ Cardinality({d \in Clients \ {c} :
             entries[d] # NoEntry /\ ~Stale(entries[d])}) = MaxEntries]_vars
==============================================================================
