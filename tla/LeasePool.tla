------------------------------ MODULE LeasePool ------------------------------
(***************************************************************************)
(* server/node-pool.mjs: the browsing sessions of one node, as the         *)
(* coordinator keeps them.  A session is the hash of a private random      *)
(* string; its row in browse_leases has a generation, and a tombstone      *)
(* remembers how it ended.  The node of a row is never changed, so the     *)
(* sessions of one node can be looked at alone.                            *)
(*                                                                         *)
(* operate() and select() are cut at their one await, the control push     *)
(* inside allocateLease(): a first action reserves, a later one returns a  *)
(* ticket or fails.  A restart forgets the activations and keeps the       *)
(* tables.                                                                 *)
(***************************************************************************)
EXTENDS Naturals

CONSTANTS
  Sessions,
  MaxGen,      \* bound: the highest generation explored
  None

ASSUME PoolAssumption == MaxGen \in Nat \ {0} /\ None \notin Sessions

VARIABLES
  db,          \* the tables, a record; see TypeOK
  idle,        \* rows past their twelve idle hours
  used,        \* hashes that were ever drawn
  known,       \* sessions a browser has received
  op,          \* what an activation is waiting to return for a session
  node,        \* the node: its administrative state, and seen within FRESH
  issued,      \* <<session, generation>> of every ticket signed
  dead,        \* sessions that were ever revoked
  replaces     \* the session whose place another one took

vars == <<db, idle, used, known, op, node, issued, dead, replaces>>

Gens == 1..MaxGen
States == {"active", "draining", "disabled"}

(* "replace" is a select() inside operate(), "select" the administrator's. *)
Kinds == {"new", "replace", "select", "restore", "renew"}
Activation == [kind : Kinds, gen : Gens, prev : Sessions \cup {None}]

TypeOK ==
  /\ db \in [gen : [Sessions -> 0..MaxGen],    \* browse_leases, 0 for no row
             ghost : [Sessions -> 0..MaxGen],  \* tombstones "expired"
             revoked : SUBSET Sessions]        \* tombstones "revoked"
  /\ idle \in SUBSET Sessions
  /\ used \in SUBSET Sessions /\ known \in SUBSET used
  /\ op \in [Sessions -> Activation \cup {None}]
  /\ node \in [state : States, up : BOOLEAN]
  /\ issued \in SUBSET (Sessions \X Gens)
  /\ dead \in SUBSET Sessions
  /\ replaces \in [Sessions -> Sessions \cup {None}]

Init ==
  /\ db = [gen |-> [s \in Sessions |-> 0], ghost |-> [s \in Sessions |-> 0],
           revoked |-> {}]
  /\ idle = {} /\ used = {} /\ known = {}
  /\ op = [s \in Sessions |-> None]
  /\ node = [state |-> "active", up |-> TRUE]
  /\ issued = {} /\ dead = {}
  /\ replaces = [s \in Sessions |-> None]

-----------------------------------------------------------------------------
(* prune(): an idle row becomes an expired tombstone. *)
Pruned(d) ==
  LET over == {s \in idle : d.gen[s] # 0} IN
  [gen |-> [s \in Sessions |-> IF s \in over THEN 0 ELSE d.gen[s]],
   ghost |-> [s \in Sessions |-> IF s \in over THEN d.gen[s] ELSE d.ghost[s]],
   revoked |-> d.revoked \ over]

Swept == Pruned(db)

(* Mutated: the tombstone an interrupted restore left is not replaced. *)
MutRetired(d, s) ==
  IF d.gen[s] # 0
  THEN [d EXCEPT !.gen[s] = 0, !.revoked = @ \cup {s}]
  ELSE IF d.ghost[s] # 0
  THEN [d EXCEPT !.ghost[s] = 0, !.revoked = @ \cup {s}]
  ELSE d

(* retire(): the row, or else the tombstone, becomes a revoked tombstone. *)
Retired(d, s) ==
  IF d.gen[s] # 0 \/ d.ghost[s] # 0
  THEN [d EXCEPT !.gen[s] = 0, !.ghost[s] = 0, !.revoked = @ \cup {s}]
  ELSE d

Available == node.up /\ node.state # "disabled"

(* operate() is single-flight for each session it was called with. *)
Operating ==
  {s \in Sessions : op[s] # None /\ op[s].kind \in {"restore", "renew"}}
    \cup {op[s].prev : s \in {t \in Sessions :
                                op[t] # None /\ op[t].kind \in {"new", "replace"}}}
Selecting ==
  {op[s].prev : s \in {t \in Sessions :
                         op[t] # None /\ op[t].kind \in {"replace", "select"}}}

Begin(s, kind, g, prev) ==
  op' = [op EXCEPT ![s] = [kind |-> kind, gen |-> g, prev |-> prev]]

(* The part of allocateLease() that inserts a row for a fresh session. *)
Reserve(s, kind, prev) ==
  /\ s \notin used
  /\ node.up
  /\ node.state \in {"active"} \cup (IF kind = "select" THEN {"draining"} ELSE {})
  /\ db' = [Swept EXCEPT !.gen[s] = 1]
  /\ used' = used \cup {s}
  /\ Begin(s, kind, 1, prev)
  /\ UNCHANGED <<idle, known, node, issued, dead, replaces>>

(* operate({intent: "new"}), without a session or with one that ended. *)
New(s, prev) ==
  /\ prev # None => prev \in known \ Operating /\ Swept.gen[prev] = 0
  /\ Reserve(s, "new", prev)

(* select() while the previous session is live. *)
Select(s, prev, kind) ==
  /\ prev \in known \ Selecting
  /\ kind = "replace" => prev \notin Operating
  /\ Swept.gen[prev] # 0
  /\ Reserve(s, kind, prev)

(* Mutated: the generation is not raised. *)
MutRestore(s) ==
  LET g == Swept.ghost[s] IN
  /\ s \in known \ Operating
  /\ Swept.gen[s] = 0 /\ g # 0 /\ g < MaxGen
  /\ Available
  /\ db' = [Swept EXCEPT !.gen[s] = g]
  /\ idle' = idle \ {s}
  /\ Begin(s, "restore", g, None)
  /\ UNCHANGED <<used, known, node, issued, dead, replaces>>

(* operate({intent: "restore"}) of an expired session: a row of the next   *)
(* generation, while the tombstone stays.                                  *)
Restore(s) ==
  LET g == Swept.ghost[s] IN
  /\ s \in known \ Operating
  /\ Swept.gen[s] = 0 /\ g # 0 /\ g < MaxGen
  /\ Available
  /\ db' = [Swept EXCEPT !.gen[s] = g + 1]
  /\ idle' = idle \ {s}
  /\ Begin(s, "restore", g + 1, None)
  /\ UNCHANGED <<used, known, node, issued, dead, replaces>>

(* operate() of a live session: its time is renewed even when the node     *)
(* turns out to be unavailable.                                            *)
Renew(s) ==
  /\ s \in known \ Operating
  /\ Swept.gen[s] # 0
  /\ db' = Swept
  /\ idle' = idle \ {s}
  /\ IF Available THEN Begin(s, "renew", Swept.gen[s], None) ELSE UNCHANGED op
  /\ UNCHANGED <<used, known, node, issued, dead, replaces>>

-----------------------------------------------------------------------------
(* Mutated: nothing is looked at again after the push. *)
MutCurrent(s) == db.gen[s] = op[s].gen /\ Available

(* The checks after the push: the row has kept its generation, the node is *)
(* available, and select() still finds the session it is to replace.       *)
Current(s) ==
  /\ db.gen[s] = op[s].gen
  /\ Available
  /\ op[s].kind \in {"replace", "select"} => db.gen[op[s].prev] # 0

(* What a successful activation leaves in the tables. *)
Settled(s) ==
  IF op[s].kind = "restore" THEN [db EXCEPT !.ghost[s] = 0, !.revoked = @ \ {s}]
  ELSE IF op[s].prev # None THEN Retired(db, op[s].prev)
  ELSE db

(* The sessions it revokes, and whether it takes another one's place. *)
Ends(s) ==
  {p \in {op[s].prev} \cap Sessions : db.gen[p] # 0 \/ db.ghost[p] # 0}
Displaces(s) == Ends(s) # {} \/ op[s].kind \in {"replace", "select"}

(* The ticket is signed; the answer may be lost on its way to the browser. *)
Return(s) ==
  /\ op[s] # None
  /\ Current(s)
  /\ db' = Settled(s)
  /\ issued' = issued \cup {<<s, op[s].gen>>}
  /\ known' \in {known, known \cup {s}}
  /\ dead' = dead \cup Ends(s)
  /\ replaces' = IF Displaces(s) THEN [replaces EXCEPT ![s] = op[s].prev]
                                 ELSE replaces
  /\ op' = [op EXCEPT ![s] = None]
  /\ UNCHANGED <<idle, used, node>>

(* Activations fail together, because their push did or because a check    *)
(* after it did.  What they inserted is deleted.                           *)
Fail(S) ==
  /\ S # {} /\ \A s \in S : op[s] # None
  /\ LET undone == {s \in S : op[s].kind # "renew" /\ db.gen[s] = op[s].gen} IN
     db' = [db EXCEPT !.gen = [s \in Sessions |-> IF s \in undone THEN 0 ELSE @[s]]]
  /\ op' = [s \in Sessions |-> IF s \in S THEN None ELSE op[s]]
  /\ UNCHANGED <<idle, used, known, node, issued, dead, replaces>>

-----------------------------------------------------------------------------
(* release() *)
Release(s) ==
  /\ s \in known
  /\ db.gen[s] # 0 \/ db.ghost[s] # 0
  /\ db' = Retired(db, s)
  /\ dead' = dead \cup {s}
  /\ UNCHANGED <<idle, used, known, op, node, issued, replaces>>

Prune ==
  /\ db' = Swept
  /\ UNCHANGED <<idle, used, known, op, node, issued, dead, replaces>>

(* The part of prune() that drops tombstones, after seven days. *)
Forget(s) ==
  /\ op[s] = None
  /\ db.ghost[s] # 0 \/ s \in db.revoked
  /\ db' = [db EXCEPT !.ghost[s] = 0, !.revoked = @ \ {s}]
  /\ UNCHANGED <<idle, used, known, op, node, issued, dead, replaces>>

(* Twelve hours pass; an activation takes seconds. *)
GoIdle(S) ==
  /\ \A s \in S : db.gen[s] # 0 /\ op[s] = None
  /\ idle' = idle \cup S
  /\ UNCHANGED <<db, used, known, op, node, issued, dead, replaces>>

(* update(): draining and disabling by the administrator; heartbeat(). *)
Change(state, up) ==
  /\ node' = [state |-> state, up |-> up]
  /\ UNCHANGED <<db, idle, used, known, op, issued, dead, replaces>>

Restart ==
  /\ op' = [s \in Sessions |-> None]
  /\ UNCHANGED <<db, idle, used, known, node, issued, dead, replaces>>

Next ==
  \/ \E s \in Sessions, prev \in Sessions \cup {None} : New(s, prev)
  \/ \E s, prev \in Sessions, kind \in {"replace", "select"} : Select(s, prev, kind)
  \/ \E s \in Sessions : Restore(s) \/ Renew(s) \/ Return(s)
  \/ \E S \in SUBSET Sessions : Fail(S)
  \/ \E s \in Sessions : Release(s) \/ Forget(s)
  \/ Prune
  \/ \E S \in SUBSET Sessions : GoIdle(S)
  \/ \E state \in States, up \in BOOLEAN : Change(state, up)
  \/ Restart

Spec == Init /\ [][Next]_vars

-----------------------------------------------------------------------------
(* A generation that ended with a ticket outstanding is never live again,  *)
(* whatever fails or restarts between: "incrementing the assignment        *)
(* generation prevents old transport tickets from reviving" (operate()).   *)
TicketsOfOneLife ==
  [][\A t \in issued : db.gen[t[1]] # t[2] => db'.gen[t[1]] # t[2]]_vars

(* A session that was ever revoked, released or replaced has neither a row *)
(* nor a tombstone that could be restored, also when the coordinator       *)
(* stopped in the middle of a restore.                                     *)
RevokedIsFinal == \A s \in dead : db.gen[s] = 0 /\ db.ghost[s] = 0

(* Two selections, or a selection and a new session, never both take the   *)
(* place of one session.                                                   *)
OneReplacement ==
  \A s, t \in Sessions : replaces[s] = replaces[t] /\ replaces[s] # None => s = t

(* A session is not replaced once its holder has given it up: the check    *)
(* select() makes after its push.                                          *)
NoSuccessorOfRevoked ==
  [][\A s \in Sessions : replaces'[s] # replaces[s] => replaces'[s] \notin dead]_vars

(* The tables keep the promise of SessionLives: a life begins above every  *)
(* ticket signed before and never after a revocation, and whoever takes a  *)
(* session's place ends it in the same step.                               *)
Lives == INSTANCE SessionLives WITH gen <- db.gen
ImplementsSessionLives == Lives!Spec
=============================================================================
