---------------------------- MODULE NodeAuthority ----------------------------
(***************************************************************************)
(* A node and the coordinator that tells it which sessions to serve:       *)
(* node-pool.mjs (LeasePool, nodeState, the pushes of operate), the        *)
(* heartbeat reply of app.mjs and the agent of node-service.mjs.           *)
(*                                                                         *)
(* Every control message is a numbered snapshot of the sessions of the     *)
(* node.  Pushes and heartbeat replies overtake each other and are lost; a *)
(* push whose answer is lost or late has failed for the coordinator and    *)
(* may reach the node all the same.  Either side restarts.                 *)
(*                                                                         *)
(* Time is counted in ticks.  A message is delivered within Delay ticks or *)
(* never: both requests are aborted by their senders after seconds.        *)
(***************************************************************************)
EXTENDS LeasePool

CONSTANTS
  Fresh, Ttl,        \* 45 seconds and 12 hours, in ticks
  Delay,             \* the longest a snapshot travels
  MaxTime, MaxRev    \* bounds: the clock and the revisions explored

ASSUME AuthorityAssumption ==
  /\ Fresh \in Nat /\ Delay \in Nat /\ Ttl \in Nat
  /\ MaxTime \in Nat \ {0} /\ MaxRev \in Nat

VARIABLES
  now,         \* the clock
  until,       \* coordinator: when a row will have been idle too long
  revision,    \* coordinator: nodeControlRevision, persistent
  asked,       \* coordinator: the revision when an activation asked for a push
  pushing,     \* coordinator: revision of the push in flight, 0 for none
  acked,       \* coordinator: the last push that was answered
  net,         \* snapshots on their way
  agent,       \* the node's own state
  ended,       \* the revision when a generation was last seen to end
  lastLive     \* the time when a generation was last to be served

control == <<revision, pushing, acked, net>>
history == <<ended, lastLive>>
avars == <<vars, now, until, asked, control, agent, history>>

Times == 0..(MaxTime + Ttl)
Revisions == 0..MaxRev
Snapshot == [kind : {"push", "reply"}, rev : Revisions, state : States,
             grants : [Sessions -> 0..MaxGen], until : [Sessions -> Times],
             at : Times]

AuthorityTypeOK ==
  /\ TypeOK
  /\ now \in 0..MaxTime
  /\ until \in [Sessions -> Times]
  /\ revision \in Revisions /\ pushing \in Revisions /\ acked \in Revisions
  /\ asked \in [Sessions -> Revisions]
  /\ net \in SUBSET Snapshot
  /\ agent \in [revision : Revisions, state : States,
                grants : [Sessions -> 0..MaxGen], until : [Sessions -> Times],
                lastControl : Times]
  /\ ended \in [Sessions -> [Gens -> Revisions]]
  /\ lastLive \in [Sessions -> [Gens -> Times]]

(* The node boots disabled, without sessions and before revision 1. *)
Booted == [revision |-> 0, state |-> "disabled",
           grants |-> [s \in Sessions |-> 0],
           until |-> [s \in Sessions |-> 0], lastControl |-> 0]

AuthorityInit ==
  /\ Init
  /\ now = 1
  /\ until = [s \in Sessions |-> 0]
  /\ revision = 0 /\ pushing = 0 /\ acked = 0
  /\ asked = [s \in Sessions |-> 0]
  /\ net = {}
  /\ agent = Booted
  /\ ended = [s \in Sessions |-> [g \in Gens |-> 0]]
  /\ lastLive = [s \in Sessions |-> [g \in Gens |-> 0]]

-----------------------------------------------------------------------------
(* The coordinator. *)

(* allocateLease() refreshes the row and asks for a push. *)
Request(s) ==
  /\ until' = [until EXCEPT ![s] = now + Ttl]
  /\ asked' = [asked EXCEPT ![s] = revision]
  /\ UNCHANGED <<now, control, agent>>

(* Mutated: joining the push that is in flight is good enough. *)
MutAnswered(s) == acked >= asked[s]

(* A push that was begun after the request has been answered. *)
Answered(s) == acked > asked[s]

Awaiting == {s \in Sessions : op[s] # None /\ ~ Answered(s)}

(* nodeState() *)
StateOf(kind) ==
  [kind |-> kind, rev |-> revision + 1, state |-> node.state,
   grants |-> Swept.gen, until |-> until, at |-> now]

Emit(kind) ==
  /\ revision < MaxRev
  /\ Prune
  /\ revision' = revision + 1
  /\ net' = net \cup {StateOf(kind)}
  /\ UNCHANGED <<now, until, asked, acked, agent>>

(* One push at a time, while somebody waits for one. *)
Push ==
  /\ pushing = 0 /\ Awaiting # {}
  /\ Emit("push")
  /\ pushing' = revision + 1

(* The node has one heartbeat outstanding; the reply is a snapshot. *)
Heartbeat ==
  /\ \A m \in net : m.kind # "reply"
  /\ Emit("reply")
  /\ UNCHANGED pushing

(* The push is refused, timed out or its answer lost: the activations it   *)
(* was begun for fail, and those that wait for the next one with them.     *)
PushFails ==
  /\ pushing # 0
  /\ pushing' = 0
  /\ IF Awaiting = {} THEN UNCHANGED vars ELSE Fail(Awaiting)
  /\ UNCHANGED <<now, until, asked, revision, acked, net, agent>>

Returns(s) ==
  /\ Answered(s)
  /\ Return(s)
  /\ UNCHANGED <<now, until, asked, control, agent>>

Rejects(s) ==
  /\ Answered(s) /\ op[s] # None /\ ~ Current(s)
  /\ Fail({s})
  /\ UNCHANGED <<now, until, asked, control, agent>>

(* What the rest of the pool does leaves the messages alone. *)
Elsewhere ==
  /\ \/ \E s \in Sessions : Release(s) \/ Forget(s)
     \/ Prune
     \/ \E state \in States, up \in BOOLEAN : Change(state, up)
  /\ UNCHANGED <<now, until, asked, control, agent>>

CoordinatorRestart ==
  /\ Restart
  /\ pushing' = 0
  /\ UNCHANGED <<now, until, asked, revision, acked, net, agent>>

-----------------------------------------------------------------------------
(* The node. *)

(* Mutated: a snapshot is taken whatever its revision. *)
MutApplied(m) ==
  [revision |-> m.rev, state |-> m.state, grants |-> m.grants,
   until |-> m.until, lastControl |-> now]

(* applyControl(): older revisions are ignored. *)
Applied(m) ==
  IF m.rev <= agent.revision THEN agent
  ELSE [revision |-> m.rev, state |-> m.state, grants |-> m.grants,
        until |-> m.until, lastControl |-> now]

(* A snapshot arrives.  The answer to the push in flight may get lost. *)
Deliver(m, answered) ==
  /\ agent' = Applied(m)
  /\ net' = net \ {m}
  /\ IF answered THEN m.rev = pushing /\ pushing' = 0 /\ acked' = m.rev
                 ELSE UNCHANGED <<pushing, acked>>
  /\ UNCHANGED <<vars, now, until, asked, revision>>

Lose(m) ==
  /\ net' = net \ {m}
  /\ UNCHANGED <<vars, now, until, asked, revision, pushing, acked, agent>>

(* A new process does not see the replies to the old one's heartbeats. *)
NodeRestart ==
  /\ agent' = Booted
  /\ net' = {m \in net : m.kind = "push"}
  /\ UNCHANGED <<vars, now, until, asked, revision, pushing, acked>>

(* Mutated: a node that hears nothing goes on serving. *)
MutAuthorises(s, g) ==
  /\ agent.state # "disabled"
  /\ agent.grants[s] = g
  /\ now < agent.until[s]

(* authorize(): does the node serve a ticket of this generation? *)
Authorises(s, g) ==
  /\ agent.state # "disabled"
  /\ now <= agent.lastControl + Fresh
  /\ agent.grants[s] = g
  /\ now < agent.until[s]

Tick ==
  LET over == {s \in Sessions : db.gen[s] # 0 /\ until[s] <= now + 1} IN
  /\ now < MaxTime
  /\ \A m \in net : now < m.at + Delay
  /\ now' = now + 1
  /\ IF over = {} THEN UNCHANGED vars ELSE GoIdle(over)
  /\ UNCHANGED <<until, asked, control, agent>>

-----------------------------------------------------------------------------
Served(s, g) == db.gen[s] = g /\ node.state # "disabled"

Remember ==
  /\ ended' = [s \in Sessions |-> [g \in Gens |->
                 IF db.gen[s] = g /\ db'.gen[s] # g THEN revision ELSE ended[s][g]]]
  /\ lastLive' = [s \in Sessions |-> [g \in Gens |->
                    IF Served(s, g)' THEN now' ELSE lastLive[s][g]]]

Step ==
  \/ \E s \in Sessions :
       /\ \/ \E prev \in Sessions \cup {None} : New(s, prev)
          \/ \E prev \in Sessions, kind \in {"replace", "select"} :
               Select(s, prev, kind)
          \/ Restore(s)
          \/ Renew(s)
       /\ Request(s)
  \/ Push \/ Heartbeat \/ PushFails
  \/ \E s \in Sessions : Returns(s) \/ Rejects(s)
  \/ Elsewhere \/ CoordinatorRestart
  \/ \E m \in net : Lose(m) \/ \E answered \in BOOLEAN : Deliver(m, answered)
  \/ NodeRestart
  \/ Tick

AuthorityNext == Step /\ Remember
AuthoritySpec == AuthorityInit /\ [][AuthorityNext]_avars

-----------------------------------------------------------------------------
(* A node stops serving what the coordinator gave up, revoked, replaced,   *)
(* expired or disabled, within Fresh + Delay: through lost and reordered   *)
(* messages, restarts on both sides, and without any message at all.       *)
StopBound ==
  \A s \in Sessions, g \in Gens :
    Authorises(s, g) => now <= lastLive[s][g] + Fresh + Delay

(* Once a node has taken a snapshot made after a generation ended, no late *)
(* message makes it serve that generation again (until it restarts).       *)
NoRevival ==
  [][\A s \in Sessions, g \in Gens :
       (db.gen[s] # g /\ db'.gen[s] # g /\ agent.revision > ended[s][g])
         => ~ Authorises(s, g)']_avars

(* When operate() hands out a ticket the node already knows its session at *)
(* that generation, unless it restarted since it answered the push: the    *)
(* browser does not run ahead of the node.                                 *)
UsableWhenIssued ==
  \A s \in Sessions :
    op[s] # None /\ Answered(s) /\ Current(s) /\ agent.revision >= acked
      => agent.grants[s] = op[s].gen

(* A node never serves a session beyond the idle time of its row.          *)
NoIdleService ==
  \A s \in Sessions, g \in Gens :
    Authorises(s, g) /\ db.gen[s] = g => now < until[s]
=============================================================================
