----------------------------- MODULE ControlPush -----------------------------
(***************************************************************************)
(* What the rest of the coordinator may rely on when it awaits a control   *)
(* push: the promise settles once, and if it resolves then the node has    *)
(* learnt a state of the lease tables no older than the request.  Requests *)
(* to one endpoint settle in the order they were made.  How they are       *)
(* batched and sent is left open; NodeControlDispatch implements this      *)
(* module.                                                                 *)
(***************************************************************************)
EXTENDS Naturals

CONSTANTS Callers, Keys, MaxVersion

VARIABLES leases, known, wants, asked, outcome, earlier

vars == <<leases, known, wants, asked, outcome, earlier>>

Waiting(k) == {c \in Callers : outcome[c] = "waiting" /\ wants[c] = k}

Init ==
  /\ leases = 0
  /\ known = [k \in Keys |-> 0]
  /\ wants \in [Callers -> Keys]
  /\ asked = [c \in Callers |-> 0]
  /\ outcome = [c \in Callers |-> "none"]
  /\ earlier = {}

(* The lease tables change. *)
Change ==
  /\ leases < MaxVersion
  /\ leases' = leases + 1
  /\ UNCHANGED <<known, wants, asked, outcome, earlier>>

(* A request is accepted or refused at once. *)
Ask(c, k) ==
  /\ outcome[c] # "waiting"
  /\ wants' = [wants EXCEPT ![c] = k]
  /\ asked' = [asked EXCEPT ![c] = leases]
  /\ \/ /\ outcome' = [outcome EXCEPT ![c] = "waiting"]
        /\ earlier' = earlier \cup (Waiting(k) \X {c})
     \/ /\ outcome' = [outcome EXCEPT ![c] = "rejected"]
        /\ UNCHANGED earlier
  /\ UNCHANGED <<leases, known>>

(* The node moves forward to some state the tables have had. *)
Learn(k) ==
  /\ \E v \in known[k]..leases : known' = [known EXCEPT ![k] = v]
  /\ UNCHANGED <<leases, wants, asked, outcome, earlier>>

(* Some of the callers waiting for k settle together, none of them before  *)
(* a caller that asked earlier.                                            *)
Answer(k, S, result) ==
  /\ S \subseteq Waiting(k)
  /\ \A p \in earlier : p[2] \in S => p[1] \in S
  /\ result = "resolved" => \A c \in S : known[k] >= asked[c]
  /\ outcome' = [c \in Callers |-> IF c \in S THEN result ELSE outcome[c]]
  /\ earlier' = {p \in earlier : p[1] \notin S /\ p[2] \notin S}
  /\ UNCHANGED <<leases, known, wants, asked>>

Next ==
  \/ Change
  \/ \E c \in Callers, k \in Keys : Ask(c, k)
  \/ \E k \in Keys : Learn(k)
  \/ \E k \in Keys, S \in SUBSET Callers, result \in {"resolved", "rejected"} :
       Answer(k, S, result)

Spec == Init /\ [][Next]_vars
=============================================================================
