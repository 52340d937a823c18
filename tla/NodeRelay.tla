------------------------------ MODULE NodeRelay ------------------------------
(***************************************************************************)
(* server/runtime.mjs: the relays of a node, under the authorization of    *)
(* its agent (NodeAuthority).  An upgrade asks authorize() once; the relay *)
(* it opens carries streams for hours, so it is asked for again, of every  *)
(* open relay, by a timer and whenever a snapshot is taken.                *)
(*                                                                         *)
(* A destroyed socket keeps its place in the counts until its close event. *)
(* Why an authorized relay ends, by its peer, its streams or the           *)
(* maintenance that reaps superseded ones, is left open.                   *)
(***************************************************************************)
EXTENDS NodeAuthority, FiniteSets

CONSTANTS
  Relays,      \* places for sockets: maxConnections of them
  PerSession,  \* 12
  Recheck      \* the five seconds of authorizationTimer, in ticks

ASSUME RelayAssumption == Recheck \in Nat \ {0} /\ PerSession \in Nat

VARIABLES
  relays,      \* sockets, with the assignment their upgrade was granted
  checked      \* when authorizationTimer last fired, or was started

rvars == <<avars, relays, checked>>

Socket == [session : Sessions, gen : Gens, open : BOOLEAN]

RelayTypeOK ==
  /\ AuthorityTypeOK
  /\ relays \in [Relays -> Socket \cup {None}]
  /\ checked \in 0..MaxTime

RelayInit ==
  /\ AuthorityInit
  /\ relays = [r \in Relays |-> None]
  /\ checked = now

-----------------------------------------------------------------------------
OpenRelays == {r \in Relays : relays[r] # None /\ relays[r].open}
OfSession(s) == {r \in Relays : relays[r] # None /\ relays[r].session = s}


(* recheckConnections(): authorize() with the agent as the step leaves it. *)
Refused ==
  {r \in OpenRelays : \E s \in Sessions, g \in Gens :
     relays[r].session = s /\ relays[r].gen = g /\ ~ Authorises(s, g)'}

RecheckConnections ==
  relays' = [r \in Relays |-> IF r \in Refused THEN [relays[r] EXCEPT !.open = FALSE]
                                               ELSE relays[r]]

(* server.on("upgrade") with a ticket that was signed for this origin. *)
Upgrade(r, s, g) ==
  /\ relays[r] = None
  /\ <<s, g>> \in issued /\ Authorises(s, g)
  /\ Cardinality(OfSession(s)) < PerSession
  /\ relays' = [relays EXCEPT ![r] = [session |-> s, gen |-> g, open |-> TRUE]]
  /\ UNCHANGED checked

(* Mutated: a round asks no more than whether the ticket is still signed. *)
MutRound ==
  /\ now = checked + Recheck
  /\ checked' = now
  /\ UNCHANGED relays

(* authorizationTimer fires. *)
Round ==
  /\ now = checked + Recheck
  /\ checked' = now
  /\ RecheckConnections

End(r) ==
  /\ r \in OpenRelays
  /\ relays' = [relays EXCEPT ![r].open = FALSE]
  /\ UNCHANGED checked

(* socket.on("close") *)
Close(r) ==
  /\ relays[r] # None /\ ~ relays[r].open
  /\ relays' = [relays EXCEPT ![r] = None]
  /\ UNCHANGED checked

(* Mutated: relays wait for the timer. *)
MutFollow ==
  IF agent' = Booted
  THEN relays' = [r \in Relays |-> None] /\ checked' \in {checked, now'}
  ELSE UNCHANGED <<relays, checked>>

(* What a step of the system around it does to the relays: a new process   *)
(* has none, and its timer starts at any time; applyControl() ends with    *)
(* recheckConnections() unless the snapshot is an old one.                 *)
Follow ==
  IF agent' = Booted
  THEN relays' = [r \in Relays |-> None] /\ checked' \in {checked, now'}
  ELSE /\ IF agent' = agent THEN UNCHANGED relays ELSE RecheckConnections
       /\ UNCHANGED checked

Around ==
  /\ AuthorityNext
  /\ now' = now \/ now < checked + Recheck     \* timers fire when due
  /\ Follow

RelayNext ==
  \/ Around
  \/ /\ UNCHANGED avars
     /\ \/ Round
        \/ \E r \in Relays, s \in Sessions, g \in Gens : Upgrade(r, s, g)
        \/ \E r \in Relays : End(r) \/ Close(r)

RelaySpec == RelayInit /\ [][RelayNext]_rvars

-----------------------------------------------------------------------------
(* "Revocation and stale control state also close existing relay           *)
(* connections" (docs/NODES.md:73): whatever messages are lost, a relay    *)
(* is cut within Fresh + Delay + Recheck of the time its generation was    *)
(* last to be served.                                                      *)
RelayStops ==
  \A r \in OpenRelays :
    now <= lastLive[relays[r].session][relays[r].gen] + Fresh + Delay + Recheck

(* ... and at once when a snapshot made after the end of its generation    *)
(* arrives: the node never relays what it has been told to give up.        *)
ClosedByControl ==
  \A r \in OpenRelays :
    /\ agent.state # "disabled"
    /\ db.gen[relays[r].session] # relays[r].gen
         => agent.revision <= ended[relays[r].session][relays[r].gen]
=============================================================================
