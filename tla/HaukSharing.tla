----------------------------- MODULE HaukSharing -----------------------------
(***************************************************************************)
(* HaukApi implements Sharing, one request at a time and on Redis: a       *)
(* request is several store operations, of which one changes what the      *)
(* others see, or several do, each of which Sharing allows by itself.      *)
(***************************************************************************)
EXTENDS HaukApi

\* The end of each session the store has.
OpenUntil == [s \in Sids |-> IF Live(sessionKV[s], now) THEN sessionKV[s].exp ELSE 0]

\* Sessions the store had once.
Ended == stopped \cup {s \in Sids : sessionKV[s] # Absent /\ ~Live(sessionKV[s], now)}

\* The sessions a share shows, with the names they have there.
Shown(sh) ==
  IF sh.type = "solo" THEN {<<NoNick, sh.host>>}
  ELSE {<<n, sh.hosts[n]>> : n \in {x \in Nicks : sh.hosts[x] # NoSid}}

\* The entries of the shares the store has.
Entries ==
  UNION {{[link |-> l, name |-> x[1], sid |-> x[2], until |-> locdataKV[l].exp] :
            x \in Shown(locdataKV[l].val)} :
         l \in {k \in Links : Live(locdataKV[k], now)}}

Promise == INSTANCE Sharing WITH ends <- OpenUntil, over <- Ended, board <- Entries

\* Every step of a handler is a step of Sharing or changes nothing there: an entry
\* goes only while its session is open or at its own end, a session is closed only
\* when it is under no link any more, and a solo link never outlives its session.
KeepsPromise == Promise!Spec
==============================================================================
