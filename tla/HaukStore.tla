------------------------------ MODULE HaukStore ------------------------------
(***************************************************************************)
(* One key of the expiring key-value store the handlers share, for both    *)
(* implementations of the interface in store/redis.go.  A key is Absent or *)
(* holds an entry; an entry past its expiry is not removed, it only stops  *)
(* being alive, so that reading the clock is part of reading the store.    *)
(* The clock counts whole seconds, the unit in which every expiry time of  *)
(* the program is kept.                                                    *)
(***************************************************************************)
EXTENDS Integers

CONSTANTS Backend,   \* "memory" (store/memory.go) or "redis" (store/redis.go)
          Absent,    \* a key that was never set or was deleted
          Never      \* the expiry of an entry stored without one

ASSUME BackendAssumption == Backend \in {"memory", "redis"}
ASSUME NeverAssumption == Never \notin Nat

Expiry == Nat \cup {Never}

\* The entries that hold a value of S.
EntryOf(S) == [val : S, exp : Expiry]

\* Mutant: the remaining time is rounded down to whole seconds.
StoredExpiry_Truncated(deadline, now) ==
  IF Backend = "redis" /\ deadline <= now + 1 THEN Never ELSE deadline

\* The expiry Set leaves behind.  The memory store keeps the deadline.  The
\* Redis store sends the time that remains, and the client library sends a
\* SET without any expiry when nothing remains.
StoredExpiry(deadline, now) ==
  IF Backend = "redis" /\ deadline <= now THEN Never ELSE deadline

Write(v, deadline, now) == [val |-> v, exp |-> StoredExpiry(deadline, now)]

\* An entry is alive up to and including its expiry in the memory store
\* (time.Now().After), and up to but not including it in Redis.
Alive(e, now) ==
  e.exp # Never => IF Backend = "memory" THEN now <= e.exp ELSE now < e.exp

\* What Get and Exists answer for a key.
Live(e, now) == e # Absent /\ Alive(e, now)

==============================================================================
