----------------------------- MODULE SessionLives -----------------------------
(***************************************************************************)
(* What browsers and nodes may rely on about the sessions of a node.  A    *)
(* session lives at one generation at a time; a ticket names the session   *)
(* and the generation it was signed for, and is good for that life only.   *)
(* How rows, tombstones, pushes and failures bring this about is left      *)
(* open; LeasePool implements this module.                                 *)
(***************************************************************************)
EXTENDS Naturals

CONSTANTS Sessions, Gens, None

VARIABLES gen, issued, dead, replaces

vars == <<gen, issued, dead, replaces>>

Init ==
  /\ gen = [s \in Sessions |-> 0]
  /\ issued = {}
  /\ dead = {}
  /\ replaces = [s \in Sessions |-> None]

Alive == {s \in Sessions : gen[s] # 0}
Over(S) == [s \in Sessions |-> IF s \in S THEN 0 ELSE gen[s]]

(* A life begins, above every ticket of an earlier one and never after a   *)
(* revocation; what has been idle too long ends with the same step.        *)
Start(s, g, S) ==
  /\ s \notin dead
  /\ \A h \in Gens : <<s, h>> \in issued => h < g
  /\ gen' = [Over(S) EXCEPT ![s] = g]
  /\ UNCHANGED <<issued, dead, replaces>>

(* Lives end that may be taken up again. *)
Lapse(S) ==
  /\ gen' = Over(S)
  /\ UNCHANGED <<issued, dead, replaces>>

(* A session ends for good. *)
Revoke(s) ==
  /\ s \notin dead
  /\ gen' = Over({s})
  /\ dead' = dead \cup {s}
  /\ UNCHANGED <<issued, replaces>>

(* A ticket is signed for the life that a session leads. *)
Sign(s) ==
  /\ gen[s] \in Gens
  /\ issued' = issued \cup {<<s, gen[s]>>}
  /\ UNCHANGED <<gen, dead, replaces>>

(* ... or for one that takes the place of another session, which ends for  *)
(* good with the same step.                                                *)
Displace(s, p) ==
  /\ p # s /\ p \notin dead
  /\ gen[s] \in Gens
  /\ issued' = issued \cup {<<s, gen[s]>>}
  /\ gen' = Over({p})
  /\ dead' = dead \cup {p}
  /\ replaces' = [replaces EXCEPT ![s] = p]

Next ==
  \/ \E s \in Sessions, g \in Gens, S \in SUBSET Alive : Start(s, g, S)
  \/ \E S \in SUBSET Alive : Lapse(S)
  \/ \E s \in Sessions : Revoke(s) \/ Sign(s)
  \/ \E s, p \in Sessions : Displace(s, p)

Spec == Init /\ [][Next]_vars
=============================================================================
