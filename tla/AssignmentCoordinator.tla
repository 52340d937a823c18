------------------------ MODULE AssignmentCoordinator ------------------------
(***************************************************************************)
(* runtime/frontend-assignment.ts: the browser's side of its assignment,   *)
(* composed with the handlers of FrontendAssignments.                      *)
(*                                                                         *)
(* All windows work from one record in localStorage, and one flow at a     *)
(* time holds the Web Lock.  A flow asks the server, writes down what it   *)
(* is about to do, and goes on.  It may be given up wherever it waits: by  *)
(* a timeout, a failed probe, a newer request of the user, or because the  *)
(* window closes; the handler it asked goes on all the same.  Which step   *)
(* of a flow is due is flow.at; flow.op is the handler it waits for.       *)
(*                                                                         *)
(* Left out: renewal timers and hints (a check may begin at any time), the *)
(* relays themselves (a probe succeeds, or the flow is given up) and the   *)
(* generation of a lease.  A node that is down is a push that fails.       *)
(***************************************************************************)
EXTENDS FrontendAssignments

CONSTANT Handover   \* the session the page came with, or None: one of the
                    \* leases that there are before its first flow

ASSUME HandoverAssumption == Handover \in Legacy \cup {None} /\ None \notin Ops

VARIABLES
  record,     \* the durable record; see CoordinatorTypeOK
  flow,       \* the flow that holds the lock
  ended       \* the windows show their session as revoked or unknown

browser == <<record, flow, ended>>
cvars == <<vars, browser>>

Steps == {"candidate", "fallback", "previous", "owner", "first", "again",
          "selecting", "replacing", "committing", "activating"}
Requests == {"done", "select", "reconnect"}
Idling == [at |-> "idle", then |-> "done", op |-> None, lease |-> None, node |-> None]

CoordinatorTypeOK ==
  /\ record \in [active : Caps \cup {None}, initial : Initials \cup {None},
                 prev : Caps \cup {None}, cand : Caps \cup {None},
                 reason : {"none", "restore", "selection", "reconnect"}]
  /\ flow \in [at : Steps \cup {"idle"}, then : Requests, op : Ops \cup {None},
               lease : Caps \cup {None}, node : Nodes \cup {None}]
  /\ ended \in BOOLEAN

CoordinatorInit ==
  /\ Init
  /\ record = [active |-> None, initial |-> None, prev |-> None, cand |-> None,
               reason |-> "none"]
  /\ flow = Idling
  /\ ended = FALSE

-----------------------------------------------------------------------------
(* Where a flow begins: what is unresolved comes first. *)

Owner == IF record.active # None THEN record.active ELSE Handover

Entry(request) ==
  CASE record.cand # None -> "candidate"
    [] record.cand = None /\ record.initial # None -> "first"
    [] record.cand = None /\ record.initial = None /\ request = "reconnect" ->
         IF record.active # None /\ ~ended THEN "replacing" ELSE "first"
    [] OTHER -> IF Owner # None THEN "owner" ELSE "first"

(* check(), selectNode() or reconnect() gets the lock. *)
Start(request, n) ==
  /\ flow = Idling
  /\ n # None <=> request = "select"
  /\ request = "select" /\ record.reason = "selection" => db.pin[record.cand] = n
  /\ flow' = [Idling EXCEPT !.at = Entry(request), !.node = n,
                !.then = IF request = "reconnect" /\ record.cand = None
                         THEN "done" ELSE request]
  /\ UNCHANGED <<vars, record, ended>>

Goto(step, c) == flow' = [flow EXCEPT !.at = step, !.op = None, !.lease = c]

(* Mutated: a flow that fails takes back the replacement it wrote down. *)
MutGiveUp ==
  /\ flow # Idling /\ flow' = Idling
  /\ ended' \in {ended, FALSE}
  /\ record' = [record EXCEPT !.prev = None, !.cand = None, !.reason = "none"]

(* A timeout, a failed probe or push, a newer request, a closed window.  A *)
(* failure that is reported replaces what the windows show.                *)
GiveUp ==
  /\ flow # Idling /\ flow' = Idling
  /\ ended' \in {ended, FALSE}
  /\ UNCHANGED record

-----------------------------------------------------------------------------
(* What a flow asks the server. *)
Ask(o) ==
  /\ flow.op = None
  /\ \/ flow.at = "candidate" /\ OperateExisting(o, record.cand, "restore")
     \/ flow.at \in {"fallback", "previous"} /\ OperateExisting(o, record.prev, "restore")
     \/ flow.at = "owner" /\ OperateExisting(o, Owner, "restore")
     \/ flow.at \in {"first", "again"} /\ OperateInitial(o, record.initial)
     \/ flow.at = "selecting" /\ Select(o, Owner, flow.node)
     \/ flow.at = "replacing" /\ OperateNew(o, Owner)
     \/ flow.at = "committing" /\ Commit(o, record.prev, record.cand)
  /\ flow' = [flow EXCEPT !.op = o]
  /\ UNCHANGED <<record, ended>>

(* initialAssignment(): a signed request is kept before it is used ... *)
Bootstrap ==
  /\ flow.at \in {"first", "again"} /\ record.initial = None
  /\ \E i \in Initials \ requestsOver :
       /\ db.pin[i] = None
       /\ record' = [record EXCEPT !.initial = i]
  /\ UNCHANGED <<vars, flow, ended>>

(* ... and one that expired is retired first; the answer may be lost. *)
Retire ==
  /\ flow.at = "first" /\ flow.op = None
  /\ RetireInitial(record.initial)
  /\ \/ GiveUp
     \/ /\ record' = [record EXCEPT !.initial = None]
        /\ Goto("again", None)
        /\ UNCHANGED ended

-----------------------------------------------------------------------------
(* accept(): a reservation is written down before it is probed and         *)
(* committed; a restored session keeps its node.                           *)
Journal(c, reason) ==
  /\ reason = "restore" => db.pin[c] = db.pin[db.prev[c]]
  /\ record' = [record EXCEPT !.prev = db.prev[c], !.cand = c, !.reason = reason]
  /\ Goto("committing", None)
  /\ UNCHANGED ended

(* accept(): a lease that is established is written down before its first  *)
(* probe, unless a pending one is still to be given up for it.             *)
Adopt(c) ==
  /\ record' = IF record.active # c /\ record.cand = None
               THEN [record EXCEPT !.active = c, !.initial = None] ELSE record
  /\ Goto("activating", c)
  /\ UNCHANGED ended

(* The predecessor is not known to be gone. *)
AcceptCandidate(c) ==
  /\ db.prev[c] \in {record.prev, record.cand}
  /\ Journal(c, record.reason)

(* What the flow does with the lease it is given. *)
Got(c) ==
  LET reserved == c \in db'.pending IN
  \/ /\ flow.at = "candidate" /\ ~reserved
     /\ Goto("activating", c) /\ UNCHANGED <<record, ended>>
  \/ /\ flow.at = "candidate" /\ reserved
     /\ Goto("previous", c) /\ UNCHANGED <<record, ended>>
  \/ flow.at = "previous" /\ AcceptCandidate(flow.lease)
  \/ flow.at \in {"fallback", "first", "again"} /\ ~reserved /\ Adopt(c)
  \/ flow.at = "owner" /\ ~reserved /\ c = Owner /\ Adopt(c)
  \/ flow.at = "fallback" /\ reserved /\ db.prev[c] = record.prev /\ Journal(c, "restore")
  \/ flow.at = "owner" /\ reserved /\ db.prev[c] = Owner /\ Journal(c, "restore")
  \/ /\ flow.at = "selecting" /\ reserved /\ db.prev[c] = Owner
     /\ db.pin[c] = flow.node /\ Journal(c, "selection")
  \/ flow.at = "replacing" /\ reserved /\ db.prev[c] = Owner /\ Journal(c, "reconnect")
  \/ /\ flow.at = "committing" /\ ~reserved
     /\ Goto("activating", c) /\ UNCHANGED <<record, ended>>

Receive(o) ==
  /\ OfferReturns(o) \/ CommitReturns(o)
  /\ IF flow.op = o
     THEN known' = known \cup {op[o].cap} /\ Got(op[o].cap)
     ELSE known' = known /\ UNCHANGED browser

(* The predecessor's state cannot be learnt now; that does not block the   *)
(* candidate.                                                              *)
PreviousUnavailable ==
  /\ flow.at = "previous"
  /\ AcceptCandidate(flow.lease)
  /\ UNCHANGED vars

-----------------------------------------------------------------------------
(* "SESSION_REVOKED" and "INVALID_SESSION". *)

Gone(c) == c \notin Cleaned.live \cup Cleaned.expired

Refused ==
  \/ flow.at = "candidate" /\ Gone(record.cand)
  \/ flow.at \in {"fallback", "previous"} /\ Gone(record.prev)
  \/ flow.at \in {"owner", "selecting", "replacing"} /\ Gone(Owner)
  \/ flow.at \in {"first", "again"} /\ record.initial \in db.revoked \ db.marked

(* The candidate's end is not the end of its predecessor. *)
ToldGone ==
  \/ /\ flow.at = "candidate"
     /\ Goto("fallback", None) /\ UNCHANGED <<record, ended>>
  \/ /\ flow.at \notin {"candidate", "committing"}
     /\ flow' = Idling /\ ended' = TRUE /\ UNCHANGED record

Refusal ==
  /\ flow.op = None /\ Refused
  /\ ToldGone
  /\ UNCHANGED vars

(* The push failed, or the assignment changed during it. *)
Fails(o) ==
  /\ PushFails(o)
  /\ IF flow.op = o
     THEN GiveUp \/ (op[o].cap \notin db.live \cap db.recorded /\ ToldGone)
     ELSE UNCHANGED browser

(* activate(): the probed lease becomes the browser's.  A selection or a   *)
(* reconnection that had to resolve something first goes on.               *)
Activate ==
  /\ flow.at = "activating"
  /\ record' = [active |-> flow.lease, initial |-> None, prev |-> None,
                cand |-> None, reason |-> "none"]
  /\ ended' = FALSE
  /\ \/ flow.then = "done" /\ flow' = Idling
     \/ /\ flow.then # "done"
        /\ flow' = [flow EXCEPT !.then = "done", !.lease = None,
             !.at = IF flow.then = "select" THEN "selecting" ELSE "replacing"]
  /\ UNCHANGED vars

-----------------------------------------------------------------------------
(* The rest of the world.  Windows that keep a session in use also resolve *)
(* its reservation, so the reservation is not idle for twelve hours while  *)
(* the session is not.                                                     *)
Elsewhere ==
  /\ \/ \E c \in Caps : Release(c) \/ Forget(c) \/ Lapse(c)
     \/ Prune
     \/ \E c \in Caps :
          /\ c \in db.pending => db.prev[c] \notin db.live \ idle
          /\ Idle(c)
     \/ \E i \in Initials :
          /\ i = record.initial \/ db.pin[i] # None
          /\ RequestExpires(i)
  /\ UNCHANGED browser

CoordinatorNext ==
  \/ \E request \in Requests, n \in Nodes \cup {None} : Start(request, n)
  \/ \E o \in Ops : Ask(o) \/ Receive(o) \/ Fails(o)
  \/ Bootstrap \/ Retire \/ PreviousUnavailable \/ Refusal \/ Activate
  \/ GiveUp /\ UNCHANGED vars
  \/ Elsewhere

CoordinatorSpec == CoordinatorInit /\ [][CoordinatorNext]_cvars

-----------------------------------------------------------------------------
Named == {record.active, record.initial, record.prev, record.cand}

(* The record names every lease of the browser: from the moment a lease is *)
(* established at the server (allocated, or committed by a request whose   *)
(* answer may be lost) and as long as it is live, whatever flow was given  *)
(* up at whatever step; except that the user may start over.               *)
OwnerNeverLost ==
  [][\A c \in Established' :
       c \in Named \/ c \notin Established => c \in Named' \/ record.initial # None]_cvars

(* "Only explicit reconnect starts a fresh private owner": a reconnect     *)
(* after the session was shown as revoked or unknown is not itself ended   *)
(* by that.                                                                *)
ReconnectStartsFresh ==
  [][flow.then = "reconnect" /\ ended => ~(flow' = Idling /\ ended' /\ Refusal)]_cvars
=============================================================================
