------------------------- MODULE FrontendAssignments -------------------------
(***************************************************************************)
(* server/frontend-assignments.mjs: the owner capabilities of one browser  *)
(* and their leases.  A capability is a private random string whose hash   *)
(* keys the tables.  A replacement is reserved next to the lease it is to  *)
(* replace, handed to the browser once the node accepted a control push,   *)
(* and takes over only when the browser commits it.                        *)
(*                                                                         *)
(* A handler is cut at its one await, the control push inside grant().     *)
(* Pushes to one node endpoint settle in the order they were asked for     *)
(* (ControlPush), so the continuations do too.                             *)
(*                                                                         *)
(* Time is three monotone facts: a lease has been idle for twelve hours, a *)
(* reservation is older than a minute, an initial request is older than    *)
(* thirty minutes.  They take effect when a handler looks.                 *)
(***************************************************************************)
EXTENDS Naturals, Sequences

CONSTANTS
  Caps,        \* owner capabilities
  Legacy,      \* those that hold a lease of the older protocol at the start
  Initials,    \* those derived from a signed initial request
  Nodes, Endpoints,
  Ops,         \* handler activations
  None

ASSUME AssignmentAssumption ==
  /\ Legacy \subseteq Caps /\ Initials \subseteq Caps
  /\ Legacy \cap Initials = {}
  /\ None \notin Caps \cup Nodes

VARIABLES
  db,            \* the tables, a record; see TypeOK
  idle,          \* leases past their idle limit
  lapsed,        \* reservations past their minute
  requestsOver,  \* initial requests past their thirty minutes
  up,            \* nodes that are enabled and recently seen
  endpoint,      \* a node's current endpoint
  known,         \* capabilities the browser has received
  op,            \* what a handler activation is waiting to do
  waiting,       \* activations in the order their pushes were asked for
  dead,          \* capabilities that were ever revoked
  succeeds       \* predecessor a capability was committed over

vars == <<db, idle, lapsed, requestsOver, up, endpoint, known, op, waiting,
          dead, succeeds>>
time == <<idle, lapsed, requestsOver>>
nodes == <<up, endpoint>>
history == <<dead, succeeds>>

Kinds == {"offer", "commit"}
Pending == [kind : Kinds, cap : Caps, prev : Caps \cup {None},
            ep : Endpoints, creator : BOOLEAN, key : Caps \cup {None}]

ASSUME PendingAssumption == None \notin Pending

TypeOK ==
  /\ db \in [live : SUBSET Caps,            \* browse_leases
             expired : SUBSET Caps,         \* tombstones by reason
             revoked : SUBSET Caps,
             recorded : SUBSET Caps,        \* frontend_assignments
             pending : SUBSET Caps,         \* reservation_expires not null
             marked : SUBSET Caps,          \* "initial-retired-v1"
             pin : [Caps -> Nodes \cup {None}],
             prev : [Caps -> Caps \cup {None}]]
  /\ idle \in SUBSET Caps /\ lapsed \in SUBSET Caps
  /\ requestsOver \in SUBSET Initials
  /\ up \in SUBSET Nodes
  /\ endpoint \in [Nodes -> Endpoints]
  /\ known \in SUBSET Caps
  /\ op \in [Ops -> Pending \cup {None}]
  /\ waiting \in Seq(Ops)
  /\ dead \in SUBSET Caps
  /\ succeeds \in [Caps -> Caps \cup {None}]

Init ==
  /\ \E pins \in [Caps -> Nodes \cup {None}] :
       /\ \A c \in Caps : pins[c] # None <=> c \in Legacy
       /\ db = [live |-> Legacy, expired |-> {}, revoked |-> {},
                recorded |-> {}, pending |-> {}, marked |-> {},
                pin |-> pins, prev |-> [c \in Caps |-> None]]
  /\ idle = {} /\ lapsed = {} /\ requestsOver = {}
  /\ up = Nodes
  /\ endpoint \in [Nodes -> Endpoints]
  /\ known = Legacy \cup Initials
  /\ op = [o \in Ops |-> None]
  /\ waiting = <<>>
  /\ dead = {}
  /\ succeeds = [c \in Caps |-> None]

-----------------------------------------------------------------------------
(* prune(): idle leases become expired tombstones. *)
Pruned(d) ==
  [d EXCEPT !.live = @ \ idle, !.expired = @ \cup (d.live \cap idle)]

(* cleanup(): prune, then drop lapsed reservations with their leases, then *)
(* the records nothing refers to.                                          *)
Cleaned ==
  LET d    == Pruned(db)
      late == d.pending \cap lapsed
      kept == [d EXCEPT !.live = @ \ late, !.pending = @ \ late,
                        !.recorded = @ \ late]
      held == kept.live \cup kept.expired \cup kept.revoked \cup kept.pending
  IN  [kept EXCEPT !.recorded = @ \cap held, !.marked = @ \cap held]

(* retire(): the lease, or its expired tombstone, becomes a revoked one. *)
Retired(d, c) ==
  IF c \in d.live \cup d.expired
  THEN [d EXCEPT !.live = @ \ {c}, !.expired = @ \ {c}, !.revoked = @ \cup {c}]
  ELSE d

(* describe(): an activation begins its control push for a recorded lease  *)
(* on a node that is up; d is what it leaves in the tables.                *)
Describe(o, d, request) ==
  /\ op[o] = None
  /\ request.cap \in d.live \cap d.recorded
  /\ d.pin[request.cap] \in up
  /\ db' = d
  /\ op' = [op EXCEPT ![o] = request]
  /\ waiting' = Append(waiting, o)
  /\ UNCHANGED <<time, nodes, known, history>>

Offer(c, n, creator, key) ==
  [kind |-> "offer", cap |-> c, prev |-> None, ep |-> endpoint[n],
   creator |-> creator, key |-> key]
Again(c, key) == Offer(c, db.pin[c], FALSE, key)

Unused == {c \in Caps \ (Legacy \cup Initials) : db.pin[c] = None}

(* The transaction of reserve(): lease and record of a fresh capability. *)
Inserted(d, c, n, p) ==
  [d EXCEPT !.live = @ \cup {c}, !.recorded = @ \cup {c},
            !.pending = IF p = None THEN @ ELSE @ \cup {c},
            !.pin[c] = n, !.prev[c] = p]

(* Mutated: a pending reservation of the owner is not looked up. *)
MutCurrentReservations(d, p) == {}

CurrentReservations(d, p) ==
  {c \in d.pending : d.prev[c] = p /\ c \notin lapsed}

(* reserve() for a predecessor: reuse its pending reservation, or insert a *)
(* new one on a node that is up (the preferred one, where there is one).   *)
Reserve(o, p, preferred, key) ==
  LET d == Cleaned IN
  /\ p \in d.live \cup d.expired
  /\ \/ \E c \in CurrentReservations(d, p) :
          /\ preferred \in {None, d.pin[c]}
          /\ Describe(o, d, Again(c, key))
     \/ /\ CurrentReservations(d, p) = {}
        /\ \E c \in Unused, n \in up :
             /\ preferred \in {None, n}
             /\ Describe(o, Inserted(d, c, n, p), Offer(c, n, TRUE, key))

-----------------------------------------------------------------------------
(* operate() runs once per capability at a time; another call of the same  *)
(* intent shares the result and one of another intent is refused as busy.  *)
Free(key) == ~ \E o \in Ops : op[o] # None /\ op[o].key = key

(* Mutated: only the lease decides whether a request was used already. *)
MutOperateInitial(o, i) ==
  LET d == Cleaned IN
  /\ i \in Initials \ requestsOver /\ Free(i)
  /\ IF i \in d.live
     THEN Describe(o, d, Again(i, i))
     ELSE \E n \in up :
            Describe(o, Inserted(d, i, n, None), Offer(i, n, TRUE, i))

(* operate({intent: "new", requestId}): the first assignment. *)
OperateInitial(o, i) ==
  LET d == Cleaned IN
  /\ i \in Initials \ requestsOver /\ Free(i)
  /\ IF i \in d.live
     THEN Describe(o, d, Again(i, i))
     ELSE /\ i \notin d.recorded \cup d.expired \cup d.revoked
          /\ \E n \in up :
               Describe(o, Inserted(d, i, n, None), Offer(i, n, TRUE, i))

(* operate({intent: "new", session}). *)
OperateNew(o, c) ==
  /\ c \in known /\ Free(c)
  /\ Reserve(o, c, None, c)

(* operate({intent: "restore" or "renew", session}). *)
OperateExisting(o, c, intent) ==
  LET d == Cleaned IN
  /\ c \in known /\ Free(c)
  /\ \/ c \notin d.live /\ intent = "restore" /\ Reserve(o, c, d.pin[c], c)
     \/ c \in d.live \ d.recorded /\ Reserve(o, c, d.pin[c], c)
     \/ c \in d.live \cap d.recorded /\ Describe(o, d, Again(c, c))

(* select(): the administrator moves a live session to a node. *)
Select(o, c, n) ==
  /\ c \in known /\ c \in Cleaned.live
  /\ Reserve(o, c, n, None)

(* A replacement that can still be confirmed. *)
Confirmable(d, p, c) ==
  /\ c \in d.live \cap d.recorded \cap d.pending
  /\ d.prev[c] = p /\ c \notin lapsed

(* commit() up to its push; a repeated confirmation only describes again. *)
Commit(o, p, c) ==
  LET d == Cleaned IN
  /\ {p, c} \subseteq known /\ p # c
  /\ \/ /\ c \in (d.live \cap d.recorded) \ (d.pending \cup d.marked)
        /\ d.prev[c] = p
        /\ Describe(o, d, Again(c, None))
     \/ /\ Confirmable(d, p, c)
        /\ Describe(o, d, [Again(c, None) EXCEPT !.kind = "commit", !.prev = p])

-----------------------------------------------------------------------------
(* The next activation to continue at its endpoint. *)
CanSettle(o) ==
  \E i \in DOMAIN waiting :
    /\ waiting[i] = o
    /\ \A j \in 1..(i - 1) :
         \/ op[waiting[j]].ep # op[o].ep
         \/ db.pin[op[waiting[j]].cap] # db.pin[op[o].cap]

Finish(o) ==
  /\ op' = [op EXCEPT ![o] = None]
  /\ \E i \in DOMAIN waiting :
       /\ waiting[i] = o
       /\ waiting' = SubSeq(waiting, 1, i - 1) \o SubSeq(waiting, i + 1, Len(waiting))
  /\ UNCHANGED <<time, nodes>>

(* controllerRelay() and describe() look again after the push. *)
StillGranted(o) ==
  LET c == op[o].cap IN
  /\ c \in db.live \cap db.recorded
  /\ db.pin[c] \in up
  /\ endpoint[db.pin[c]] = op[o].ep

(* The push succeeded: the browser may receive the capability, or the      *)
(* response is lost.                                                       *)
OfferReturns(o) ==
  /\ op[o] # None /\ op[o].kind = "offer" /\ CanSettle(o)
  /\ StillGranted(o)
  /\ known' \in {known, known \cup {op[o].cap}}
  /\ Finish(o)
  /\ UNCHANGED <<db, history>>

(* Mutated: the predecessor is left as it was. *)
MutCommitKeeps(o) ==
  LET c == op[o].cap
      p == op[o].prev IN
  /\ op[o] # None /\ op[o].kind = "commit" /\ CanSettle(o)
  /\ StillGranted(o)
  /\ Confirmable(db, p, c)
  /\ p \in db.live \cup db.expired
  /\ db' = [db EXCEPT !.pending = @ \ {c}]
  /\ succeeds' = [succeeds EXCEPT ![c] = p]
  /\ Finish(o)
  /\ UNCHANGED <<known, dead>>

(* Mutated: the reservation's expiry is not cleared. *)
MutCommitPending(o) ==
  LET c == op[o].cap
      p == op[o].prev IN
  /\ op[o] # None /\ op[o].kind = "commit" /\ CanSettle(o)
  /\ StillGranted(o)
  /\ Confirmable(db, p, c)
  /\ p \in db.live \cup db.expired
  /\ db' = Retired(db, p)
  /\ dead' = dead \cup {p}
  /\ succeeds' = [succeeds EXCEPT ![c] = p]
  /\ Finish(o)
  /\ UNCHANGED known

(* Mutated: the predecessor was checked before the push only. *)
MutCommitStale(o) ==
  LET c == op[o].cap
      p == op[o].prev IN
  /\ op[o] # None /\ op[o].kind = "commit" /\ CanSettle(o)
  /\ StillGranted(o)
  /\ Confirmable(db, p, c)
  /\ db' = [Retired(db, p) EXCEPT !.pending = @ \ {c}]
  /\ dead' = dead \cup {p}
  /\ succeeds' = [succeeds EXCEPT ![c] = p]
  /\ Finish(o)
  /\ UNCHANGED known

(* commit() after its push: everything is checked again, then one          *)
(* transaction retires the predecessor and makes the replacement lasting.  *)
CommitReturns(o) ==
  LET c == op[o].cap
      p == op[o].prev IN
  /\ op[o] # None /\ op[o].kind = "commit" /\ CanSettle(o)
  /\ StillGranted(o)
  /\ Confirmable(db, p, c)
  /\ p \in db.live \cup db.expired
  /\ db' = [Retired(db, p) EXCEPT !.pending = @ \ {c}]
  /\ dead' = dead \cup {p}
  /\ succeeds' = [succeeds EXCEPT ![c] = p]
  /\ Finish(o)
  /\ UNCHANGED known

(* Mutated: whoever fails takes the reservation back. *)
MutPushFails(o) ==
  LET c == op[o].cap IN
  /\ op[o] # None /\ CanSettle(o)
  /\ db' = IF c \notin Initials
           THEN [db EXCEPT !.live = @ \ {c}, !.recorded = @ \ {c}, !.pending = @ \ {c}]
           ELSE db
  /\ Finish(o)
  /\ UNCHANGED <<known, history>>

(* Mutated: a failed initial assignment is taken back too. *)
MutPushFailsInitial(o) ==
  LET c == op[o].cap IN
  /\ op[o] # None /\ CanSettle(o)
  /\ db' = IF op[o].creator
           THEN [db EXCEPT !.live = @ \ {c}, !.recorded = @ \ {c}, !.pending = @ \ {c}]
           ELSE db
  /\ Finish(o)
  /\ UNCHANGED <<known, history>>

(* The push or a later check failed.  reserve() takes back the reservation *)
(* it inserted; an initial assignment keeps its pin.                       *)
PushFails(o) ==
  LET c == op[o].cap IN
  /\ op[o] # None /\ CanSettle(o)
  /\ db' = IF op[o].creator /\ c \notin Initials
           THEN [db EXCEPT !.live = @ \ {c}, !.recorded = @ \ {c}, !.pending = @ \ {c}]
           ELSE db
  /\ Finish(o)
  /\ UNCHANGED <<known, history>>

-----------------------------------------------------------------------------
(* DELETE of a session: NodePool.release(). *)
Release(c) ==
  /\ c \in known
  /\ c \in db.live \cup db.expired
  /\ db' = Retired(db, c)
  /\ dead' = dead \cup {c}
  /\ UNCHANGED <<time, nodes, known, op, waiting, succeeds>>

(* retireInitial(): an unresolved initial request is given up for good. *)
RetireInitial(i) ==
  LET d == Cleaned IN
  /\ i \in requestsOver
  /\ i \in d.live => i \in d.recorded
  /\ i \in d.revoked => i \in d.marked
  /\ db' = [Retired(d, i) EXCEPT
              !.marked = IF i \in d.recorded THEN @ \cup {i} ELSE @,
              !.pending = @ \ {i}]
  /\ dead' = IF i \in d.live \cup d.expired THEN dead \cup {i} ELSE dead
  /\ UNCHANGED <<time, nodes, known, op, waiting, succeeds>>

(* The node pool prunes on its own schedule. *)
Prune ==
  /\ db.live \cap idle # {}
  /\ db' = Pruned(db)
  /\ UNCHANGED <<time, nodes, known, op, waiting, history>>

(* A tombstone is dropped after seven days, long after an initial request  *)
(* has expired.                                                            *)
Forget(c) ==
  /\ c \in db.expired \cup db.revoked
  /\ c \in Initials => c \in requestsOver
  /\ db' = [db EXCEPT !.expired = @ \ {c}, !.revoked = @ \ {c}]
  /\ UNCHANGED <<time, nodes, known, op, waiting, history>>

-----------------------------------------------------------------------------
(* Time passes.  Twelve hours are longer than a minute. *)
Idle(c) ==
  /\ c \in db.live \ idle
  /\ c \in db.pending => c \in lapsed
  /\ idle' = idle \cup {c}
  /\ UNCHANGED <<db, lapsed, requestsOver, nodes, known, op, waiting, history>>

Lapse(c) ==
  /\ c \in db.pending \ lapsed
  /\ lapsed' = lapsed \cup {c}
  /\ UNCHANGED <<db, idle, requestsOver, nodes, known, op, waiting, history>>

RequestExpires(i) ==
  /\ i \in Initials \ requestsOver
  /\ requestsOver' = requestsOver \cup {i}
  /\ UNCHANGED <<db, idle, lapsed, nodes, known, op, waiting, history>>

(* A node stops or resumes sending heartbeats, or is disabled, enabled. *)
Toggle(n) ==
  /\ up' = IF n \in up THEN up \ {n} ELSE up \cup {n}
  /\ UNCHANGED <<db, time, endpoint, known, op, waiting, history>>

(* NodePool.updateEndpoint(), or a rotation by the Hub. *)
Move(n, e) ==
  /\ e # endpoint[n]
  /\ endpoint' = [endpoint EXCEPT ![n] = e]
  /\ UNCHANGED <<db, time, up, known, op, waiting, history>>

Environment ==
  \/ Prune
  \/ \E c \in Caps : Forget(c) \/ Idle(c) \/ Lapse(c)
  \/ \E i \in Initials : RequestExpires(i)
  \/ \E n \in Nodes : Toggle(n)
  \/ \E n \in Nodes, e \in Endpoints : Move(n, e)

Next ==
  \/ \E o \in Ops, i \in Initials : OperateInitial(o, i)
  \/ \E o \in Ops, c \in Caps : OperateNew(o, c)
  \/ \E o \in Ops, c \in Caps, intent \in {"restore", "renew"} :
       OperateExisting(o, c, intent)
  \/ \E o \in Ops, c \in Caps, n \in Nodes : Select(o, c, n)
  \/ \E o \in Ops, p, c \in Caps : Commit(o, p, c)
  \/ \E o \in Ops : OfferReturns(o)
  \/ \E o \in Ops : CommitReturns(o)
  \/ \E o \in Ops : PushFails(o)
  \/ \E c \in Caps : Release(c)
  \/ \E i \in Initials : RetireInitial(i)
  \/ Environment

Spec == Init /\ [][Next]_vars

-----------------------------------------------------------------------------
(* A lease that is not an unconfirmed reservation. *)
Established == db.live \ db.pending

(* A failed replacement never destroys the current pin: an established     *)
(* lease goes only into a tombstone, by expiry, release or commit.         *)
PinNeverDestroyed ==
  [][\A c \in Established : c \in db'.live \cup db'.expired \cup db'.revoked]_vars

(* A session's outbound node never changes silently. *)
PinNeverMoves == [][\A c \in Caps : db.pin[c] # None => db'.pin[c] = db.pin[c]]_vars

(* What was revoked, by release, retirement or a commit, is never live      *)
(* again, even after its tombstone is forgotten.                           *)
RevokedIsFinal == dead \cap db.live = {}

(* The browser holds at most one replacement for an owner that can still   *)
(* be confirmed.                                                           *)
OneReservation ==
  \A c, d \in db.pending \ lapsed : db.prev[c] = db.prev[d] => c = d

(* An owner is succeeded once: concurrent windows that confirm different   *)
(* replacements of it cannot both win.                                     *)
OneSuccessor ==
  \A c, d \in Caps : succeeds[c] # None /\ succeeds[c] = succeeds[d] => c = d

(* A commit never continues a session whose owner was revoked meanwhile. *)
NoSuccessorOfRevoked ==
  [][\A c \in Caps : succeeds'[c] # succeeds[c] => succeeds'[c] \notin dead]_vars

(* A confirmation whose response was lost can be repeated: a committed      *)
(* replacement that is live is found again by the same pair.               *)
ConfirmationRepeats ==
  \A c \in db.live : succeeds[c] # None =>
    /\ c \in db.recorded \ (db.pending \cup db.marked)
    /\ db.prev[c] = succeeds[c]
=============================================================================
