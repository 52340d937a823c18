------------------------- MODULE NodeControlDispatch -------------------------
(***************************************************************************)
(* The coordinator's control dispatcher, server/node-control-dispatch.mjs. *)
(* Each node endpoint ("key") has at most one drain running.  A drain      *)
(* takes the batch of callers queued so far, reads the lease tables at     *)
(* that moment and POSTs the whole control state; callers that arrive      *)
(* meanwhile share the next batch.  The steps of the model are the         *)
(* stretches of JavaScript between two awaits.                             *)
(*                                                                         *)
(* The contents of the lease tables are abstracted to a version number     *)
(* `leases': a snapshot is the version it was taken at, and a node's view  *)
(* `known' is the newest version it has applied.                           *)
(***************************************************************************)
EXTENDS Naturals, FiniteSets

CONSTANTS
  Callers,      \* the asynchronous operations that ask for a push
  Keys,         \* the pairs (node id, endpoint)
  MaxPending,   \* the dispatcher's limit on flights
  MaxVersion    \* bound: lease-table changes explored

ASSUME DispatchAssumption ==
  /\ MaxPending \in Nat
  /\ MaxVersion \in Nat
  /\ IsFiniteSet(Keys)

VARIABLES
  flights,    \* keys with an entry in the map
  queued,     \* callers of an entry's queued batch; {} is null
  active,     \* callers of the batch being sent; {} is null
  carried,    \* version of the snapshot in the current POST
  arrived,    \* keys whose current POST the node has already applied
  abandoned,  \* POSTs given up by the dispatcher that can still arrive
  leases,     \* version of the coordinator's lease tables
  known,      \* version last applied behind a key
  wants,      \* key a caller asked for
  asked,      \* version of the lease tables when it asked
  outcome,    \* what the caller's promise became
  passed,     \* sends started for its key while it was waiting
  earlier,    \* <<d, c>>: both wait for one key, and d asked first
  closing     \* progress of close()

dispatch == <<flights, queued, active, carried, arrived, closing>>
network  == <<abandoned, known>>
callers  == <<wants, asked, outcome, passed, earlier>>
vars == <<dispatch, network, leases, callers>>

Versions == 0..MaxVersion
Outcomes == {"none", "waiting", "resolved", "rejected"}
Waiting(k) == {c \in Callers : outcome[c] = "waiting" /\ wants[c] = k}

TypeOK ==
  /\ flights \in SUBSET Keys
  /\ queued \in [Keys -> SUBSET Callers]
  /\ active \in [Keys -> SUBSET Callers]
  /\ carried \in [Keys -> Versions]
  /\ arrived \in SUBSET Keys
  /\ abandoned \in SUBSET (Keys \X Versions)
  /\ leases \in Versions
  /\ known \in [Keys -> Versions]
  /\ wants \in [Callers -> Keys]
  /\ asked \in [Callers -> Versions]
  /\ outcome \in [Callers -> Outcomes]
  /\ passed \in [Callers -> Nat]
  /\ earlier \in SUBSET (Callers \X Callers)
  /\ closing \in {"open", "draining", "closed"}

Init ==
  /\ flights = {}
  /\ queued = [k \in Keys |-> {}]
  /\ active = [k \in Keys |-> {}]
  /\ carried = [k \in Keys |-> 0]
  /\ arrived = {}
  /\ abandoned = {}
  /\ leases = 0
  /\ known = [k \in Keys |-> 0]
  /\ wants \in [Callers -> Keys]
  /\ asked = [c \in Callers |-> 0]
  /\ outcome = [c \in Callers |-> "none"]
  /\ passed = [c \in Callers |-> 0]
  /\ earlier = {}
  /\ closing = "open"

-----------------------------------------------------------------------------
(* A committed change of the lease tables. *)
Change ==
  /\ leases < MaxVersion
  /\ leases' = leases + 1
  /\ UNCHANGED <<dispatch, network, callers>>

(* request(): join the entry's queued batch, or open an entry. *)
Enqueue(c, k) ==
  /\ closing = "open"
  /\ k \in flights \/ Cardinality(flights) < MaxPending
  /\ flights' = flights \cup {k}
  /\ queued' = [queued EXCEPT ![k] = @ \cup {c}]
  /\ outcome' = [outcome EXCEPT ![c] = "waiting"]
  /\ earlier' = earlier \cup (Waiting(k) \X {c})

(* request(): refused because the dispatcher is closed or full. *)
Refuse(c, k) ==
  /\ \/ closing # "open"
     \/ k \notin flights /\ Cardinality(flights) >= MaxPending
  /\ outcome' = [outcome EXCEPT ![c] = "rejected"]
  /\ UNCHANGED <<flights, queued, earlier>>

Request(c, k) ==
  /\ outcome[c] # "waiting"
  /\ wants' = [wants EXCEPT ![c] = k]
  /\ asked' = [asked EXCEPT ![c] = leases]
  /\ passed' = [passed EXCEPT ![c] = 0]
  /\ Enqueue(c, k) \/ Refuse(c, k)
  /\ UNCHANGED <<active, carried, arrived, closing, network, leases>>

-----------------------------------------------------------------------------
(* The promise of every caller in S becomes result. *)
Settle(S, result) ==
  /\ outcome' = [c \in Callers |-> IF c \in S THEN result ELSE outcome[c]]
  /\ earlier' = {p \in earlier : p[1] \notin S /\ p[2] \notin S}

(* Mutated: one caller is served per send, the rest of the batch stays.    *)
MutStartBatch(k) ==
  LET first == CHOOSE c \in queued[k] : TRUE
  IN  /\ queued' = [queued EXCEPT ![k] = @ \ {first}]
      /\ active' = [active EXCEPT ![k] = {first}]
      /\ carried' = [carried EXCEPT ![k] = leases]
      /\ arrived' = arrived \ {k}
      /\ passed' = [c \in Callers |->
                      IF c \in Waiting(k) \ active[k]
                      THEN passed[c] + 1 ELSE passed[c]]
      /\ UNCHANGED flights

(* The head of the drain loop: the queued batch becomes the active one and *)
(* the lease tables are read now.                                          *)
StartBatch(k) ==
  /\ queued' = [queued EXCEPT ![k] = {}]
  /\ active' = [active EXCEPT ![k] = queued[k]]
  /\ carried' = [carried EXCEPT ![k] = leases]
  /\ arrived' = arrived \ {k}
  /\ passed' = [c \in Callers |->
                  IF c \in Waiting(k) \ active[k]
                  THEN passed[c] + 1 ELSE passed[c]]
  /\ UNCHANGED flights

(* Mutated: the entry is left for a later promise to delete. *)
MutEndDrain(k) ==
  /\ UNCHANGED flights
  /\ queued' = [queued EXCEPT ![k] = {}]
  /\ active' = [active EXCEPT ![k] = {}]
  /\ UNCHANGED <<carried, passed>>

(* The catch and finally blocks: both batches are dropped, the entry goes. *)
EndDrain(k) ==
  /\ flights' = flights \ {k}
  /\ queued' = [queued EXCEPT ![k] = {}]
  /\ active' = [active EXCEPT ![k] = {}]
  /\ UNCHANGED <<carried, passed>>

(* The microtask that begins a new entry's drain. *)
Drain(k) ==
  /\ k \in flights /\ active[k] = {}
  /\ IF closing = "open"
     THEN StartBatch(k) /\ UNCHANGED <<outcome, earlier>>
     ELSE /\ EndDrain(k)
          /\ Settle(queued[k], "rejected")
          /\ UNCHANGED arrived
  /\ UNCHANGED <<closing, network, leases, wants, asked>>

(* The node applies the POST; it keeps what it has if that is newer. *)
Apply(k, v) == known' = [known EXCEPT ![k] = IF v > @ THEN v ELSE @]

Deliver(k) ==
  /\ active[k] # {} /\ k \notin arrived
  /\ Apply(k, carried[k])
  /\ arrived' = arrived \cup {k}
  /\ UNCHANGED <<flights, queued, active, carried, closing, abandoned, leases, callers>>

DeliverAbandoned(p) ==
  /\ p \in abandoned
  /\ Apply(p[1], p[2])
  /\ abandoned' = abandoned \ {p}
  /\ UNCHANGED <<dispatch, leases, callers>>

(* Mutated: a returning send resolves the queued callers too. *)
MutSendReturns(k) ==
  /\ active[k] # {} /\ k \in arrived /\ closing = "open"
  /\ Settle(active[k] \cup queued[k], "resolved")
  /\ EndDrain(k)
  /\ UNCHANGED <<arrived, closing, network, leases, wants, asked>>

(* send() returned and the dispatcher is open: the active batch resolves   *)
(* and the loop goes on with what has queued up, or the entry is deleted.  *)
SendReturns(k) ==
  /\ active[k] # {} /\ k \in arrived /\ closing = "open"
  /\ Settle(active[k], "resolved")
  /\ IF queued[k] # {}
     THEN StartBatch(k)
     ELSE EndDrain(k) /\ UNCHANGED arrived
  /\ UNCHANGED <<closing, network, leases, wants, asked>>

(* Mutated: only the active batch is rejected when a send throws. *)
MutSendFails(k) ==
  /\ active[k] # {}
  /\ EndDrain(k)
  /\ Settle(active[k], "rejected")
  /\ abandoned' = IF k \in arrived THEN abandoned
                                   ELSE abandoned \cup {<<k, carried[k]>>}
  /\ UNCHANGED <<arrived, closing, known, leases, wants, asked>>

(* send() threw (refused, three-second timeout, aborted by close), or it   *)
(* returned to a closed dispatcher: active and queued batches both fail.   *)
SendFails(k) ==
  /\ active[k] # {}
  /\ EndDrain(k)
  /\ Settle(active[k] \cup queued[k], "rejected")
  /\ abandoned' = IF k \in arrived THEN abandoned
                                   ELSE abandoned \cup {<<k, carried[k]>>}
  /\ UNCHANGED <<arrived, closing, known, leases, wants, asked>>

Close ==
  /\ closing = "open"
  /\ closing' = "draining"
  /\ UNCHANGED <<flights, queued, active, carried, arrived, network, leases, callers>>

(* close() after the drains it waited for have ended. *)
CloseReturns ==
  /\ closing = "draining" /\ flights = {}
  /\ closing' = "closed"
  /\ UNCHANGED <<flights, queued, active, carried, arrived, network, leases, callers>>

Next ==
  \/ Change
  \/ \E c \in Callers, k \in Keys : Request(c, k)
  \/ \E k \in Keys : Drain(k)
  \/ \E k \in Keys : Deliver(k)
  \/ \E p \in abandoned : DeliverAbandoned(p)
  \/ \E k \in Keys : SendReturns(k)
  \/ \E k \in Keys : SendFails(k)
  \/ Close
  \/ CloseReturns

(* A queued microtask runs, and a POST ends: fetch has a three-second       *)
(* timeout.  Nothing obliges a POST to arrive or a caller to ask.           *)
Fairness ==
  /\ \A k \in Keys : WF_vars(Drain(k))
  /\ \A k \in Keys : WF_vars(SendReturns(k) \/ SendFails(k))
  /\ WF_vars(CloseReturns)

Spec == Init /\ [][Next]_vars
FairSpec == Spec /\ Fairness

-----------------------------------------------------------------------------
(* A resolved request means its node has applied a control state read from *)
(* the lease tables no earlier than the request: the allocation that waits *)
(* for it hands out a ticket the node already knows.                       *)
ResolvedIsFresh ==
  \A c \in Callers : outcome[c] = "resolved" => known[wants[c]] >= asked[c]

(* No caller is lost between the map, the batches and the drain: one that  *)
(* waits is in a batch of its key's entry, and an entry always has callers.*)
NoLostWaiter ==
  /\ \A k \in Keys : queued[k] \cup active[k] = Waiting(k)
  /\ \A k \in Keys : k \in flights <=> Waiting(k) # {}

(* Later arrivals never put off an earlier caller: at most one send starts *)
(* for its key while it waits, the one that serves it.                     *)
ServedByNextSend == \A c \in Callers : passed[c] <= 1

(* The dispatcher never holds more entries than its limit. *)
PendingBounded == Cardinality(flights) <= MaxPending

(* When close() has returned nothing is in flight, nobody waits, and no    *)
(* send starts again.                                                      *)
ClosedIsQuiet ==
  closing = "closed" =>
    /\ flights = {}
    /\ \A c \in Callers : outcome[c] # "waiting"

(* From close() on no control state is read or sent any more. *)
NoSendAfterClose == [][closing # "open" => carried' = carried]_vars

(* Every request settles, whatever arrives after it. *)
EveryRequestSettles ==
  \A c \in Callers : outcome[c] = "waiting" ~> outcome[c] # "waiting"

(* close() returns. *)
CloseEnds == closing = "draining" ~> closing = "closed"

(* The dispatcher keeps the promise of ControlPush: every step of it is a  *)
(* step of that contract or changes nothing the caller or the node sees.   *)
Push == INSTANCE ControlPush WITH
  leases <- leases, known <- known, wants <- wants, asked <- asked, outcome <- outcome,
  earlier <- earlier
ImplementsControlPush == Push!Spec
=============================================================================
