------------------------------ MODULE HaukModel ------------------------------
(***************************************************************************)
(* The two records the store holds, sessions (model/session.go) and shares *)
(* (model/share.go), and the functions of package model on them that touch *)
(* no store.                                                               *)
(*                                                                         *)
(* SoloShareData and GroupShareData are both kept under locdata-<link> and *)
(* are decoded without a look at their type, so one record stands for the  *)
(* two: the fields of the other type have the zero value JSON gives them.  *)
(***************************************************************************)
EXTENDS Integers, Sequences, SequencesExt, Selection

CONSTANTS Sids,          \* session identifiers
          Links,         \* share identifiers
          Nicks,         \* nicknames of group members
          Pins,          \* group PINs
          Points,        \* locations, each named by its timestamp
          MaxCachedPts,  \* locations a session keeps
          NoSid, NoPin   \* the zero values "" and 0

ASSUME PointsAssumption == Points \subseteq Nat \ {0}
ASSUME MaxCachedPtsAssumption == MaxCachedPts \in Nat
ASSUME NoSidAssumption == NoSid \notin Sids
ASSUME NoPinAssumption == NoPin \notin Pins

------------------------------------------------------------------------------
(* Sessions *)

Session == [exp : Nat, ivl : Nat, enc : BOOLEAN,
            targets : Seq(Links), points : Seq(Points)]

NewSession(exp, ivl, enc) ==
  [exp |-> exp, ivl |-> ivl, enc |-> enc, targets |-> <<>>, points |-> <<>>]

AddTarget(s, l) == [s EXCEPT !.targets = Append(@, l)]

\* Mutant: every occurrence goes.
RemoveTarget_All(s, l) ==
  [s EXCEPT !.targets = Selected(@, {i \in DOMAIN @ : @[i] # l})]

\* Only the first occurrence goes: a session that adopted its share into one
\* group twice keeps the other target.
RemoveTarget(s, l) == [s EXCEPT !.targets = RemoveFirst(@, l)]

\* AddPoint keeps the last MaxCachedPts locations.
AddPoint(s, p) ==
  LET pts == Append(s.points, p)
  IN  [s EXCEPT !.points = IF Len(pts) > MaxCachedPts
                           THEN SubSeq(pts, Len(pts) - MaxCachedPts + 1, Len(pts))
                           ELSE pts]

\* The timestamps of an encrypted session are opaque, so all is returned.
GetPoints(s, since) ==
  IF since = 0 \/ s.enc THEN s.points
  ELSE Selected(s.points, {i \in DOMAIN s.points : s.points[i] > since})

------------------------------------------------------------------------------
(* Shares *)

Share == [type : {"solo", "group"}, exp : Nat, host : Sids \cup {NoSid},
          ado : BOOLEAN, hosts : [Nicks -> Sids \cup {NoSid}],
          pin : Pins \cup {NoPin}]

NoHosts == [n \in Nicks |-> NoSid]

SoloShare(sid, exp, ado) ==
  [type |-> "solo", exp |-> exp, host |-> sid, ado |-> ado,
   hosts |-> NoHosts, pin |-> NoPin]

GroupShare(exp, pin) ==
  [type |-> "group", exp |-> exp, host |-> NoSid, ado |-> FALSE,
   hosts |-> NoHosts, pin |-> pin]

\* The hosts map is keyed by nickname: a member who brings a nickname already
\* taken replaces its owner.
AddHost(sh, n, sid) == [sh EXCEPT !.hosts[n] = sid]

HostNicks(sh, sid) == {n \in Nicks : sh.hosts[n] = sid}

\* The members of a group.
HostsOf(sh) == {sh.hosts[n] : n \in Nicks} \ {NoSid}

\* Mutant: any entry of the map goes, not one of the caller's.
RemoveHost_Anyone(sh, sid) == {[sh EXCEPT !.hosts[n] = NoSid] : n \in Nicks}

\* RemoveHost returns after the first nickname it meets, and the iteration
\* order of a Go map is arbitrary: the set of its possible results.
RemoveHost(sh, sid) ==
  IF HostNicks(sh, sid) = {} THEN {sh}
  ELSE {[sh EXCEPT !.hosts[n] = NoSid] : n \in HostNicks(sh, sid)}

\* The sessions whose locations a viewer of the share is shown.
Exposed(sh) == IF sh.type = "solo" THEN {sh.host} \ {NoSid} ELSE HostsOf(sh)
==============================================================================
