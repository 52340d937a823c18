---------------------- MODULE FrontendAssignments_proofs ----------------------
(***************************************************************************)
(* What the handlers promise about owner capabilities, for any number of   *)
(* them, of nodes, endpoints and overlapping handlers: what revocation     *)
(* means, which reservations there are, that an established lease is not   *)
(* destroyed; and that the browser's coordinator is one of their clients.  *)
(***************************************************************************)
EXTENDS AssignmentCoordinator, TLAPS

Tables == [live : SUBSET Caps, expired : SUBSET Caps, revoked : SUBSET Caps,
           recorded : SUBSET Caps, pending : SUBSET Caps, marked : SUBSET Caps,
           pin : [Caps -> Nodes \cup {None}], prev : [Caps -> Caps \cup {None}]]

(* The part of the type invariant the argument needs. *)
Typed ==
  /\ db \in Tables
  /\ requestsOver \in SUBSET Initials
  /\ dead \in SUBSET Caps
  /\ succeeds \in [Caps -> Caps \cup {None}]
  /\ up \in SUBSET Nodes
  /\ endpoint \in [Nodes -> Endpoints]
  /\ op \in [Ops -> Pending \cup {None}]

(* Whatever can still act as an owner holds a pin and was never revoked. *)
DeadStayDead ==
  /\ dead \cap (db.live \cup db.expired) = {}
  /\ \A c \in db.live \cup db.expired \cup db.revoked \cup dead : db.pin[c] # None

(* An initial request that was ever answered leaves a lease or a tombstone *)
(* for as long as it could be presented again.                             *)
InitialsLeaveTraces ==
  /\ Initials \cap db.pending = {}
  /\ \A i \in Initials \ requestsOver :
       db.pin[i] # None => i \in db.live \cup db.expired \cup db.revoked

(* A predecessor is dead. *)
PredecessorsDead ==
  /\ \A c \in Caps : succeeds[c] # None => succeeds[c] \in dead
  /\ \A c \in Caps : succeeds[c] # None => db.pin[c] # None
  /\ \A c \in db.pending : succeeds[c] = None
  /\ OneSuccessor

IInv == Typed /\ DeadStayDead /\ InitialsLeaveTraces /\ PredecessorsDead

LEMMA InitIInv == Init => IInv
<1> SUFFICES ASSUME Init PROVE IInv
  OBVIOUS
<1>1. PICK pins \in [Caps -> Nodes \cup {None}] :
        /\ \A c \in Caps : pins[c] # None <=> c \in Legacy
        /\ db = [live |-> Legacy, expired |-> {}, revoked |-> {},
                 recorded |-> {}, pending |-> {}, marked |-> {},
                 pin |-> pins, prev |-> [c \in Caps |-> None]]
  BY DEF Init
<1>2. Typed
  BY <1>1, AssignmentAssumption DEF Init, Typed, Tables
<1>3. DeadStayDead /\ InitialsLeaveTraces
  BY <1>1, AssignmentAssumption DEF Init, DeadStayDead, InitialsLeaveTraces
<1>4. PredecessorsDead
  BY <1>1 DEF Init, PredecessorsDead, OneSuccessor
<1> QED BY <1>2, <1>3, <1>4 DEF IInv

(* The tables after cleanup() satisfy what the tables satisfied before. *)
Safe(d) ==
  /\ d \in Tables
  /\ dead \cap (d.live \cup d.expired) = {}
  /\ \A c \in d.live \cup d.expired \cup d.revoked \cup dead : d.pin[c] # None
  /\ Initials \cap d.pending = {}
  /\ \A i \in Initials \ requestsOver :
       d.pin[i] # None => i \in d.live \cup d.expired \cup d.revoked
  /\ d.pin = db.pin
  /\ \A c \in d.pending : succeeds[c] = None

LEMMA CleanedSafe == IInv => Safe(Cleaned) /\ Safe(Pruned(db)) /\ Safe(db)
<1> SUFFICES ASSUME IInv PROVE Safe(Cleaned) /\ Safe(Pruned(db)) /\ Safe(db)
  OBVIOUS
<1>1. Safe(db)
  BY DEF IInv, Typed, DeadStayDead, InitialsLeaveTraces, PredecessorsDead, Safe
<1>2. Safe(Pruned(db))
  BY <1>1 DEF Safe, Pruned, Tables
<1> DEFINE p    == Pruned(db)
           late == p.pending \cap lapsed
           kept == [p EXCEPT !.live = @ \ late, !.pending = @ \ late,
                             !.recorded = @ \ late]
           held == kept.live \cup kept.expired \cup kept.revoked \cup kept.pending
<1>3a. kept \in Tables
  BY <1>2 DEF Safe, Tables
<1>3b. Cleaned = [kept EXCEPT !.recorded = @ \cap held, !.marked = @ \cap held]
  BY DEF Cleaned
<1>3. Cleaned \in Tables
  <2> HIDE DEF kept, held
  <2> QED BY <1>3a, <1>3b DEF Tables
<1>4. /\ Cleaned.live = Pruned(db).live \ (Pruned(db).pending \cap lapsed)
      /\ Cleaned.expired = Pruned(db).expired
      /\ Cleaned.revoked = Pruned(db).revoked
      /\ Cleaned.pending \subseteq Pruned(db).pending
      /\ Cleaned.pin = Pruned(db).pin
  <2>1. /\ kept.live = p.live \ late /\ kept.expired = p.expired
        /\ kept.revoked = p.revoked /\ kept.pending = p.pending \ late
        /\ kept.pin = p.pin
    BY <1>2 DEF Safe, Tables
  <2>2. /\ Cleaned.live = kept.live /\ Cleaned.expired = kept.expired
        /\ Cleaned.revoked = kept.revoked /\ Cleaned.pending = kept.pending
        /\ Cleaned.pin = kept.pin
    <3> HIDE DEF kept, held
    <3> QED BY <1>3a, <1>3b DEF Tables
  <2> HIDE DEF p, kept
  <2> QED BY <2>1, <2>2 DEF p
<1>5. Safe(Cleaned)
  <2> HIDE DEF p, late, kept, held
  <2> QED BY <1>2, <1>3, <1>4 DEF Safe
<1> QED BY <1>1, <1>2, <1>5

(* The transaction of reserve() is safe for a capability without a pin. *)
LEMMA InsertedSafe ==
  ASSUME IInv, NEW d, Safe(d), NEW c \in Caps, db.pin[c] = None, NEW n \in Nodes,
         NEW p \in Caps \cup {None}, c \in Initials => p = None
  PROVE  /\ Inserted(d, c, n, p) \in Tables
         /\ dead \cap (Inserted(d, c, n, p).live \cup Inserted(d, c, n, p).expired) = {}
         /\ Inserted(d, c, n, p).pin = [db.pin EXCEPT ![c] = n]
         /\ Inserted(d, c, n, p).live = d.live \cup {c}
         /\ Inserted(d, c, n, p).expired = d.expired
         /\ Inserted(d, c, n, p).revoked = d.revoked
         /\ Inserted(d, c, n, p).pending = IF p = None THEN d.pending ELSE d.pending \cup {c}
<1>1. c \notin dead
  BY DEF IInv, DeadStayDead
<1>2. d \in Tables /\ d.pin = db.pin /\ dead \cap (d.live \cup d.expired) = {}
  BY DEF Safe
<1> DEFINE e == Inserted(d, c, n, p)
<1>3. /\ e.live = d.live \cup {c}
      /\ e.expired = d.expired /\ e.revoked = d.revoked
      /\ e.pending = IF p = None THEN d.pending ELSE d.pending \cup {c}
  BY <1>2 DEF Inserted, Tables
<1>4. e.pin = [db.pin EXCEPT ![c] = n]
  BY <1>2 DEF Inserted, Tables
<1>5. e \in Tables
  BY <1>2 DEF Inserted, Tables
<1> HIDE DEF e
<1>6. dead \cap (e.live \cup e.expired) = {}
  BY <1>1, <1>2, <1>3
<1> QED BY <1>3, <1>4, <1>5, <1>6 DEF e

(* New tables that are safe, with nothing revoked or committed, keep the   *)
(* invariant.                                                              *)
LEMMA SafeStep ==
  ASSUME IInv, Safe(db'), db'.pin = db.pin, up' \in SUBSET Nodes,
         endpoint' \in [Nodes -> Endpoints],
         op' \in [Ops -> Pending \cup {None}], UNCHANGED <<dead, succeeds>>,
         requestsOver' \in SUBSET Initials, requestsOver \subseteq requestsOver'
  PROVE  IInv'
  BY DEF IInv, Safe, Typed, DeadStayDead, InitialsLeaveTraces, PredecessorsDead, OneSuccessor

LEMMA DescribeIInv ==
  ASSUME IInv, NEW o \in Ops, NEW d, Safe(d), NEW r \in Pending, Describe(o, d, r)
  PROVE  IInv'
<1>1. db' = d /\ UNCHANGED <<dead, succeeds, requestsOver, up, endpoint>>
  BY DEF Describe, time, nodes, history
<1>2. op' \in [Ops -> Pending \cup {None}]
  BY DEF Describe, IInv, Typed
<1>3. Safe(db') /\ db'.pin = db.pin
  BY <1>1 DEF Safe
<1> QED BY <1>1, <1>2, <1>3, SafeStep DEF IInv, Typed

LEMMA InsertIInv ==
  ASSUME IInv, NEW o \in Ops, NEW d, Safe(d), NEW c \in Caps, db.pin[c] = None,
         NEW n \in Nodes, NEW p \in Caps \cup {None}, c \in Initials => p = None,
         NEW r \in Pending, Describe(o, Inserted(d, c, n, p), r)
  PROVE  IInv'
<1> DEFINE e == Inserted(d, c, n, p)
<1>1. db' = e /\ UNCHANGED <<dead, succeeds, requestsOver, up, endpoint>>
  BY DEF Describe, time, nodes, history
<1>2. op' \in [Ops -> Pending \cup {None}]
  BY DEF Describe, IInv, Typed
<1>3. /\ e \in Tables
      /\ dead \cap (e.live \cup e.expired) = {}
      /\ e.pin = [db.pin EXCEPT ![c] = n]
      /\ e.live = d.live \cup {c} /\ e.expired = d.expired /\ e.revoked = d.revoked
      /\ e.pending = IF p = None THEN d.pending ELSE d.pending \cup {c}
  BY InsertedSafe
<1>4. succeeds[c] = None /\ db.pin \in [Caps -> Nodes \cup {None}] /\ n # None
  BY AssignmentAssumption DEF IInv, PredecessorsDead, Typed, Tables
<1> HIDE DEF e
<1>5. Typed'
  BY <1>1, <1>2, <1>3 DEF IInv, Typed
<1>6. DeadStayDead'
  BY <1>1, <1>3, <1>4 DEF IInv, DeadStayDead, Safe
<1>7. InitialsLeaveTraces'
  BY <1>1, <1>3, <1>4, AssignmentAssumption DEF Safe, InitialsLeaveTraces
<1>8. PredecessorsDead'
  <2>1. \A x \in Caps : succeeds'[x] # None => db'.pin[x] # None
    BY <1>1, <1>3, <1>4 DEF IInv, PredecessorsDead
  <2>2. \A x \in db'.pending : succeeds'[x] = None
    BY <1>1, <1>3, <1>4 DEF Safe
  <2> QED BY <1>1, <2>1, <2>2 DEF IInv, PredecessorsDead, OneSuccessor
<1> QED BY <1>5, <1>6, <1>7, <1>8 DEF IInv

(* Every way to reserve, and so every handler up to its push. *)
LEMMA AgainTyped ==
  ASSUME IInv, NEW c \in Caps, db.pin[c] \in Nodes, NEW key \in Caps \cup {None}
  PROVE  Again(c, key) \in Pending /\ Again(c, key).kind = "offer"
  BY DEF IInv, Typed, Again, Offer, Pending, Kinds

LEMMA LivePinned ==
  ASSUME IInv, NEW d, Safe(d), NEW c \in d.live
  PROVE  c \in Caps /\ db.pin[c] \in Nodes
  BY DEF Safe, Tables

LEMMA ReserveIInv ==
  ASSUME IInv, NEW o \in Ops, NEW p \in Caps, NEW preferred,
         NEW key \in Caps \cup {None}, Reserve(o, p, preferred, key)
  PROVE  IInv'
<1>1. Safe(Cleaned)
  BY CleanedSafe
<1>2. ASSUME NEW c \in CurrentReservations(Cleaned, p), Describe(o, Cleaned, Again(c, key))
      PROVE  IInv'
  <2>1. Again(c, key).cap = c
    BY DEF Again, Offer
  <2>2. c \in Cleaned.live
    BY <1>2, <2>1 DEF Describe
  <2> QED BY <1>1, <1>2, <2>2, LivePinned, AgainTyped, DescribeIInv
<1>3. ASSUME NEW c \in Unused, NEW n \in up,
             Describe(o, Inserted(Cleaned, c, n, p), Offer(c, n, TRUE, key))
      PROVE  IInv'
  <2>1. Offer(c, n, TRUE, key) \in Pending
    BY DEF Unused, Offer, Pending, Kinds, IInv, Typed
  <2>2. c \in Caps /\ db.pin[c] = None /\ c \notin Initials /\ n \in Nodes
    BY DEF Unused, IInv, Typed
  <2> QED BY <1>1, <1>3, <2>1, <2>2, InsertIInv
<1> QED BY <1>2, <1>3 DEF Reserve

LEMMA HandlersIInv ==
  ASSUME IInv, NEW o \in Ops
  PROVE  /\ \A i \in Initials : OperateInitial(o, i) => IInv'
         /\ \A c \in Caps : OperateNew(o, c) => IInv'
         /\ \A c \in Caps : \A intent \in {"restore", "renew"} : OperateExisting(o, c, intent) => IInv'
         /\ \A c \in Caps : \A n \in Nodes : Select(o, c, n) => IInv'
         /\ \A p, c \in Caps : Commit(o, p, c) => IInv'
<1>1. Safe(Cleaned)
  BY CleanedSafe
<1>2. ASSUME NEW c \in Caps, NEW key \in Caps \cup {None}, Describe(o, Cleaned, Again(c, key))
      PROVE  IInv'
  <2>1. c \in Cleaned.live
    BY <1>2 DEF Describe, Again, Offer
  <2> QED BY <1>1, <1>2, <2>1, LivePinned, AgainTyped, DescribeIInv
<1>3. ASSUME NEW i \in Initials, OperateInitial(o, i) PROVE IInv'
  <2>0. i \in Caps
    BY AssignmentAssumption
  <2>1. CASE i \in Cleaned.live
    BY <1>2, <1>3, <2>0, <2>1 DEF OperateInitial
  <2>2. CASE i \notin Cleaned.live
    <3>1. PICK n \in up : Describe(o, Inserted(Cleaned, i, n, None), Offer(i, n, TRUE, i))
      BY <1>3, <2>2 DEF OperateInitial
    <3>2. i \notin requestsOver /\ i \notin Cleaned.expired \cup Cleaned.revoked
      BY <1>3, <2>2 DEF OperateInitial
    <3>3. Cleaned.pin[i] = None /\ Cleaned.pin = db.pin
      BY <1>1, <2>2, <3>2 DEF Safe
    <3>4. n \in Nodes /\ Offer(i, n, TRUE, i) \in Pending
      BY <2>0 DEF Offer, Pending, Kinds, IInv, Typed
    <3> QED BY <1>1, <2>0, <3>1, <3>3, <3>4, InsertIInv
  <2> QED BY <2>1, <2>2
<1>4. ASSUME NEW c \in Caps, OperateNew(o, c) PROVE IInv'
  BY <1>4, ReserveIInv DEF OperateNew
<1>5. ASSUME NEW c \in Caps, NEW intent \in {"restore", "renew"}, OperateExisting(o, c, intent)
      PROVE  IInv'
  <2>1. CASE Reserve(o, c, Cleaned.pin[c], c)
    BY <2>1, ReserveIInv
  <2>2. CASE Describe(o, Cleaned, Again(c, c))
    BY <1>2, <2>2
  <2> QED BY <1>5, <2>1, <2>2 DEF OperateExisting
<1>6. ASSUME NEW c \in Caps, NEW n \in Nodes, Select(o, c, n) PROVE IInv'
  BY <1>6, ReserveIInv DEF Select
<1>7. ASSUME NEW p \in Caps, NEW c \in Caps, Commit(o, p, c) PROVE IInv'
  <2>1. CASE Describe(o, Cleaned, Again(c, None))
    BY <1>2, <2>1
  <2> DEFINE r == [Again(c, None) EXCEPT !.kind = "commit", !.prev = p]
  <2>2. CASE Confirmable(Cleaned, p, c) /\ Describe(o, Cleaned, r)
    <3>1. db.pin[c] \in Nodes
      BY <1>1, <2>2, LivePinned DEF Confirmable
    <3>2. Again(c, None) \in Pending
      BY <3>1, AgainTyped
    <3>3. r \in Pending
      <4> HIDE DEF Again
      <4> QED BY <3>2 DEF Pending, Kinds
    <3> HIDE DEF r
    <3> QED BY <1>1, <2>2, <3>3, DescribeIInv
  <2> QED BY <1>7, <2>1, <2>2 DEF Commit
<1> QED BY <1>3, <1>4, <1>5, <1>6, <1>7

(* Retiring a capability that could still act as an owner. *)
LEMMA RetiredFacts ==
  ASSUME NEW d \in Tables, NEW c \in d.live \cup d.expired
  PROVE  /\ Retired(d, c) \in Tables
         /\ Retired(d, c).live = d.live \ {c}
         /\ Retired(d, c).expired = d.expired \ {c}
         /\ Retired(d, c).revoked = d.revoked \cup {c}
         /\ Retired(d, c).pending = d.pending
         /\ Retired(d, c).pin = d.pin
  BY DEF Retired, Tables

LEMMA ReturnsIInv ==
  ASSUME IInv, NEW o \in Ops
  PROVE  /\ OfferReturns(o) => IInv'
         /\ CommitReturns(o) => IInv'
         /\ PushFails(o) => IInv'
<1> USE DEF time, nodes, history
<1>1. Safe(db)
  BY CleanedSafe
<1>2. ASSUME Finish(o) PROVE op' \in [Ops -> Pending \cup {None}] /\ UNCHANGED <<requestsOver, up, endpoint>>
  BY <1>2 DEF Finish, IInv, Typed
<1>3. ASSUME OfferReturns(o) PROVE IInv'
  BY <1>1, <1>2, <1>3, SafeStep DEF OfferReturns, IInv, Typed
<1>4. ASSUME PushFails(o) PROVE IInv'
  <2>1. op[o].cap \in Caps
    BY <1>4 DEF PushFails, IInv, Typed, Pending
  <2>2. CASE db' = db
    BY <1>1, <1>2, <1>4, <2>2, SafeStep DEF PushFails, IInv, Typed
  <2>3. CASE /\ op[o].cap \notin Initials
             /\ db' = [db EXCEPT !.live = @ \ {op[o].cap}, !.recorded = @ \ {op[o].cap},
                                 !.pending = @ \ {op[o].cap}]
    <3>1. /\ db' \in Tables /\ db'.live = db.live \ {op[o].cap}
          /\ db'.expired = db.expired /\ db'.revoked = db.revoked
          /\ db'.pending \subseteq db.pending /\ db'.pin = db.pin
      BY <1>1, <2>3 DEF Safe, Tables
    <3>2. UNCHANGED <<dead, succeeds, requestsOver>>
      BY <1>2, <1>4 DEF PushFails
    <3>3. Safe(db')
      BY <1>1, <2>3, <3>1 DEF Safe
    <3> QED BY <1>2, <1>4, <3>1, <3>2, <3>3, SafeStep DEF PushFails, IInv, Typed, Safe
  <2> QED BY <1>4, <2>2, <2>3 DEF PushFails
<1>5. ASSUME CommitReturns(o) PROVE IInv'
  <2> DEFINE c == op[o].cap
             p == op[o].prev
             r == Retired(db, p)
  <2>1. /\ c \in Caps /\ p \in db.live \cup db.expired /\ c \in db.live \cap db.pending
        /\ db' = [r EXCEPT !.pending = @ \ {c}] /\ dead' = dead \cup {p}
        /\ succeeds' = [succeeds EXCEPT ![c] = p] /\ Finish(o)
    BY <1>5 DEF CommitReturns, Confirmable, IInv, Typed, Tables
  <2>2. db \in Tables /\ p \in Caps
    BY <1>1, <2>1 DEF Safe, Tables
  <2>3. /\ r \in Tables /\ r.live = db.live \ {p} /\ r.expired = db.expired \ {p}
        /\ r.revoked = db.revoked \cup {p} /\ r.pending = db.pending /\ r.pin = db.pin
    BY <2>1, <2>2, RetiredFacts
  <2> HIDE DEF r
  <2>4. /\ db' \in Tables /\ db'.live = db.live \ {p} /\ db'.expired = db.expired \ {p}
        /\ db'.revoked = db.revoked \cup {p} /\ db'.pending = db.pending \ {c}
        /\ db'.pin = db.pin
    BY <2>1, <2>3 DEF Tables
  <2> HIDE DEF c, p
  <2>5. Typed'
    BY <1>2, <2>1, <2>2, <2>4 DEF IInv, Typed
  <2>6. DeadStayDead'
    BY <2>1, <2>4 DEF IInv, DeadStayDead
  <2>7. InitialsLeaveTraces'
    BY <1>2, <2>1, <2>4 DEF IInv, InitialsLeaveTraces
  <2>8. PredecessorsDead'
    <3>1. p # None /\ p \notin dead /\ succeeds \in [Caps -> Caps \cup {None}]
      BY <2>1, <2>2, AssignmentAssumption DEF IInv, DeadStayDead, Typed
    <3>2. \A x \in Caps : succeeds[x] # p
      BY <3>1 DEF IInv, PredecessorsDead
    <3>3. (\A x \in Caps : succeeds[x] # None => succeeds[x] \in dead /\ db.pin[x] # None)'
      BY <2>1, <2>4, <3>1 DEF IInv, PredecessorsDead, DeadStayDead
    <3>4. (\A x \in db.pending : succeeds[x] = None)'
      BY <2>1, <2>2, <2>4, <3>1 DEF IInv, PredecessorsDead, Tables
    <3>5. OneSuccessor'
      BY <2>1, <3>1, <3>2 DEF IInv, PredecessorsDead, OneSuccessor
    <3> QED BY <3>3, <3>4, <3>5 DEF PredecessorsDead
  <2> QED BY <2>5, <2>6, <2>7, <2>8 DEF IInv
<1> QED BY <1>3, <1>4, <1>5

LEMMA RevocationIInv ==
  ASSUME IInv
  PROVE  /\ \A c \in Caps : Release(c) => IInv'
         /\ \A i \in Initials : RetireInitial(i) => IInv'
<1> USE DEF time, nodes, history
<1>1. Safe(db) /\ Safe(Cleaned)
  BY CleanedSafe
<1>2. ASSUME NEW d, Safe(d), NEW c \in d.live \cup d.expired, NEW m, m \in SUBSET Caps,
             db' \in Tables, db'.live = d.live \ {c}, db'.expired = d.expired \ {c},
             db'.revoked = d.revoked \cup {c}, db'.pending \subseteq d.pending,
             db'.pin = d.pin, dead' = dead \cup {c},
             UNCHANGED <<requestsOver, up, endpoint, op, succeeds>>
      PROVE  IInv'
  <2>1. c \in Caps
    BY <1>2 DEF Safe, Tables
  <2>2. Typed'
    BY <1>2, <2>1 DEF IInv, Typed
  <2>3. DeadStayDead'
    BY <1>2 DEF IInv, DeadStayDead, Safe
  <2>4. InitialsLeaveTraces'
    BY <1>2 DEF InitialsLeaveTraces, Safe
  <2>5. PredecessorsDead'
    BY <1>2 DEF IInv, PredecessorsDead, OneSuccessor, Safe
  <2> QED BY <2>2, <2>3, <2>4, <2>5 DEF IInv
<1>3. ASSUME NEW c \in Caps, Release(c) PROVE IInv'
  <2>1. db \in Tables /\ c \in db.live \cup db.expired
    BY <1>1, <1>3 DEF Release, Safe
  <2> QED BY <1>1, <1>2, <1>3, <2>1, RetiredFacts DEF Release
<1>4. ASSUME NEW i \in Initials, RetireInitial(i) PROVE IInv'
  <2> DEFINE d == Cleaned
             r == Retired(d, i)
             m == IF i \in d.recorded THEN r.marked \cup {i} ELSE r.marked
             e == [r EXCEPT !.marked = m, !.pending = @ \ {i}]
  <2>1. i \in Caps /\ d \in Tables
    BY <1>1, AssignmentAssumption DEF Safe
  <2>2. db' = e
    BY <1>4 DEF RetireInitial
  <2>3. r \in Tables
    BY <2>1 DEF Retired, Tables
  <2> HIDE DEF r, d
  <2>4. /\ e \in Tables /\ e.live = r.live /\ e.expired = r.expired /\ e.revoked = r.revoked
        /\ e.pending \subseteq r.pending /\ e.pin = r.pin
    BY <2>1, <2>3 DEF Tables
  <2>5. CASE i \in d.live \cup d.expired
    <3>1. dead' = dead \cup {i}
      BY <1>4, <2>5 DEF RetireInitial, d
    <3>2. /\ r.live = d.live \ {i} /\ r.expired = d.expired \ {i}
          /\ r.revoked = d.revoked \cup {i} /\ r.pending = d.pending /\ r.pin = d.pin
      BY <2>1, <2>5, RetiredFacts DEF r
    <3> HIDE DEF e
    <3> QED BY <1>1, <1>2, <1>4, <2>2, <2>4, <2>5, <3>1, <3>2 DEF RetireInitial, d
  <2>6. CASE i \notin d.live \cup d.expired
    <3>1. dead' = dead
      BY <1>4, <2>6 DEF RetireInitial, d
    <3>2. r = d
      BY <2>6 DEF r, Retired
    <3> HIDE DEF e
    <3>3. Safe(db') /\ db'.pin = db.pin
      BY <1>1, <2>2, <2>4, <3>2 DEF Safe, d
    <3>4. UNCHANGED <<requestsOver, up, endpoint, op, succeeds>>
      BY <1>4 DEF RetireInitial
    <3> QED BY <3>1, <3>3, <3>4, SafeStep DEF IInv, Typed
  <2> QED BY <2>5, <2>6
<1> QED BY <1>3, <1>4

LEMMA EnvironmentIInv == IInv /\ (Environment \/ UNCHANGED vars) => IInv'
<1> SUFFICES ASSUME IInv, Environment \/ UNCHANGED vars PROVE IInv'
  OBVIOUS
<1> USE DEF time, nodes, history
<1>1. Safe(db) /\ Safe(Pruned(db))
  BY CleanedSafe
<1>2. CASE Prune
  BY <1>1, <1>2, SafeStep DEF Prune, IInv, Typed, Safe
<1>3. ASSUME NEW c \in Caps, Forget(c) PROVE IInv'
  <2>1. /\ db' \in Tables /\ db'.live = db.live /\ db'.expired = db.expired \ {c}
        /\ db'.revoked = db.revoked \ {c} /\ db'.pending = db.pending /\ db'.pin = db.pin
    BY <1>1, <1>3 DEF Forget, Safe, Tables
  <2>2. c \in Initials => c \in requestsOver
    BY <1>3 DEF Forget
  <2>3. Safe(db')
    BY <1>1, <2>1, <2>2 DEF Safe
  <2> QED BY <1>3, <2>1, <2>3, SafeStep DEF Forget, IInv, Typed
<1>4. ASSUME NEW c \in Caps, Idle(c) \/ Lapse(c) PROVE IInv'
  BY <1>1, <1>4, SafeStep DEF Idle, Lapse, IInv, Typed
<1>5. ASSUME NEW i \in Initials, RequestExpires(i) PROVE IInv'
  <2>1. /\ requestsOver' = requestsOver \cup {i}
        /\ UNCHANGED <<db, up, endpoint, op, dead, succeeds>>
    BY <1>5 DEF RequestExpires
  <2>2. Safe(db')
    BY <1>1, <2>1
  <2> QED BY <2>1, <2>2, SafeStep DEF IInv, Typed
<1>6. ASSUME NEW n \in Nodes, Toggle(n) PROVE IInv'
  <2>1. up' \in SUBSET Nodes
    BY <1>6 DEF Toggle, IInv, Typed
  <2> QED BY <1>1, <1>6, <2>1, SafeStep DEF Toggle, IInv, Typed
<1>7. ASSUME NEW n \in Nodes, NEW e \in Endpoints, Move(n, e) PROVE IInv'
  <2>1. endpoint' \in [Nodes -> Endpoints]
    BY <1>7 DEF Move, IInv, Typed
  <2> QED BY <1>1, <1>7, <2>1, SafeStep DEF Move, IInv, Typed
<1>8. CASE UNCHANGED vars
  BY <1>1, <1>8, SafeStep DEF vars, IInv, Typed
<1> QED BY <1>2, <1>3, <1>4, <1>5, <1>6, <1>7, <1>8 DEF Environment

LEMMA NextIInv == IInv /\ [Next]_vars => IInv'
  BY HandlersIInv, ReturnsIInv, RevocationIInv, EnvironmentIInv DEF Next

THEOREM Invariance == Spec => []IInv
  BY InitIInv, NextIInv, PTL DEF Spec

(* What was revoked is never live again. *)
THEOREM Final == Spec => []RevokedIsFinal
<1>1. IInv => RevokedIsFinal
  BY DEF IInv, DeadStayDead, RevokedIsFinal
<1> QED BY <1>1, Invariance, PTL

(* An owner has at most one successor. *)
THEOREM SingleSuccessor == Spec => []OneSuccessor
  BY Invariance, PTL DEF IInv, PredecessorsDead

(* A commit continues only an owner that was never revoked. *)
THEOREM CommitsContinueTheLiving == Spec => NoSuccessorOfRevoked
<1>1. ASSUME IInv, [Next]_vars
      PROVE  [\A c \in Caps : succeeds'[c] # succeeds[c] => succeeds'[c] \notin dead]_vars
  <2>1. CASE UNCHANGED succeeds
    BY <2>1
  <2>2. ASSUME NEW o \in Ops, CommitReturns(o)
        PROVE  \A c \in Caps : succeeds'[c] # succeeds[c] => succeeds'[c] \notin dead
    <3>1. /\ op[o].prev \in db.live \cup db.expired
          /\ succeeds' = [succeeds EXCEPT ![op[o].cap] = op[o].prev]
      BY <2>2 DEF CommitReturns
    <3>2. op[o].prev \notin dead
      BY <1>1, <3>1 DEF IInv, DeadStayDead, Typed
    <3>3. succeeds \in [Caps -> Caps \cup {None}]
      BY <1>1 DEF IInv, Typed
    <3>4. \A c \in Caps : succeeds'[c] = IF c = op[o].cap THEN op[o].prev ELSE succeeds[c]
      BY <3>1, <3>3
    <3> QED BY <3>2, <3>4
  <2>3. ASSUME NEW o \in Ops, NEW i \in Initials, OperateInitial(o, i)
        PROVE  UNCHANGED succeeds
    BY <2>3 DEF OperateInitial, Describe, history
  <2>4. ASSUME NEW o \in Ops, NEW p, NEW n, NEW key, Reserve(o, p, n, key)
        PROVE  UNCHANGED succeeds
    BY <2>4 DEF Reserve, Describe, history
  <2>5. ASSUME NEW o \in Ops, NEW c \in Caps, NEW intent, OperateExisting(o, c, intent)
        PROVE  UNCHANGED succeeds
    BY <2>4, <2>5 DEF OperateExisting, Describe, history
  <2>6. ASSUME NEW o \in Ops, NEW p \in Caps, NEW c \in Caps, Commit(o, p, c)
        PROVE  UNCHANGED succeeds
    BY <2>6 DEF Commit, Describe, history
  <2>7. Environment => UNCHANGED succeeds
    BY DEF Environment, Prune, Forget, Idle, Lapse, RequestExpires, Toggle, Move, history
  <2>8. CASE Next
    <3>1. ASSUME NEW o \in Ops, NEW c \in Caps, OperateNew(o, c)
          PROVE  UNCHANGED succeeds
      BY <3>1, <2>4 DEF OperateNew
    <3>2. ASSUME NEW o \in Ops, NEW c \in Caps, NEW n \in Nodes, Select(o, c, n)
          PROVE  UNCHANGED succeeds
      BY <3>2, <2>4 DEF Select
    <3>3. ASSUME NEW o \in Ops, OfferReturns(o) \/ PushFails(o)
          PROVE  UNCHANGED succeeds
      BY <3>3 DEF OfferReturns, PushFails, history
    <3>4. ASSUME NEW c \in Caps, Release(c) PROVE UNCHANGED succeeds
      BY <3>4 DEF Release
    <3>5. ASSUME NEW i \in Initials, RetireInitial(i) PROVE UNCHANGED succeeds
      BY <3>5 DEF RetireInitial
    <3> QED
      BY <2>2, <2>3, <2>5, <2>6, <2>7, <2>8, <3>1, <3>2, <3>3, <3>4, <3>5 DEF Next
  <2>9. CASE UNCHANGED vars
    BY <2>9 DEF vars
  <2> QED BY <1>1, <2>8, <2>9
<1> QED BY <1>1, Invariance, PTL DEF Spec, NoSuccessorOfRevoked

-----------------------------------------------------------------------------
(* What a step does to the reservations: it inserts one lease with its     *)
(* record, or it only takes reservations away.                             *)
Inserts ==
  /\ lapsed' = lapsed
  /\ \E c \in Caps, n \in Nodes, p \in Caps \cup {None} :
       /\ db.pin[c] = None
       /\ p = None <=> c \in Initials
       /\ p # None => CurrentReservations(Cleaned, p) = {}
       /\ db' = Inserted(Cleaned, c, n, p)

Shrinks ==
  /\ lapsed \subseteq lapsed'
  /\ db'.pin = db.pin /\ db'.prev = db.prev
  /\ db'.pending \subseteq db.pending

LEMMA CleanedKeeps ==
  ASSUME IInv
  PROVE  /\ Cleaned.pin = db.pin /\ Cleaned.prev = db.prev
         /\ Cleaned.pending = db.pending \ (db.pending \cap lapsed)
         /\ Pruned(db).pin = db.pin /\ Pruned(db).prev = db.prev
         /\ Pruned(db).pending = db.pending
  BY DEF Cleaned, Pruned, IInv, Typed, Tables

LEMMA ReserveShape ==
  ASSUME IInv, NEW o \in Ops, NEW p \in Caps, NEW preferred, NEW key,
         Reserve(o, p, preferred, key)
  PROVE  Shrinks \/ Inserts
<1>1. ASSUME NEW r, Describe(o, Cleaned, r) PROVE Shrinks
  BY <1>1, CleanedKeeps DEF Describe, time, Shrinks
<1>2. ASSUME NEW c \in Unused, NEW n \in up, NEW r,
             CurrentReservations(Cleaned, p) = {}, Describe(o, Inserted(Cleaned, c, n, p), r)
      PROVE  Inserts
  BY <1>2, AssignmentAssumption DEF Describe, time, Inserts, Unused, IInv, Typed
<1> QED BY <1>1, <1>2 DEF Reserve

LEMMA HandlersShape ==
  ASSUME IInv, NEW o \in Ops
  PROVE  /\ \A i \in Initials : OperateInitial(o, i) => Shrinks \/ Inserts
         /\ \A c \in Caps : OperateNew(o, c) => Shrinks \/ Inserts
         /\ \A c \in Caps : \A intent \in {"restore", "renew"} :
              OperateExisting(o, c, intent) => Shrinks \/ Inserts
         /\ \A c \in Caps : \A n \in Nodes : Select(o, c, n) => Shrinks \/ Inserts
         /\ \A p, c \in Caps : Commit(o, p, c) => Shrinks \/ Inserts
<1>1. ASSUME NEW r, Describe(o, Cleaned, r) PROVE Shrinks
  BY <1>1, CleanedKeeps DEF Describe, time, Shrinks
<1>2. ASSUME NEW i \in Initials, OperateInitial(o, i) PROVE Shrinks \/ Inserts
  <2>1. CASE i \in Cleaned.live
    BY <1>1, <1>2, <2>1 DEF OperateInitial
  <2>2. CASE i \notin Cleaned.live
    <3>1. PICK n \in up : Describe(o, Inserted(Cleaned, i, n, None), Offer(i, n, TRUE, i))
      BY <1>2, <2>2 DEF OperateInitial
    <3>2. i \notin requestsOver /\ i \notin Cleaned.expired \cup Cleaned.revoked
      BY <1>2, <2>2 DEF OperateInitial
    <3>3. db.pin[i] = None
      BY <2>2, <3>2, CleanedSafe DEF Safe
    <3> QED BY <3>1, <3>3, AssignmentAssumption DEF Describe, time, Inserts, IInv, Typed
  <2> QED BY <2>1, <2>2
<1>3. ASSUME NEW c \in Caps, OperateNew(o, c) PROVE Shrinks \/ Inserts
  BY <1>3, ReserveShape DEF OperateNew
<1>4. ASSUME NEW c \in Caps, NEW intent \in {"restore", "renew"}, OperateExisting(o, c, intent)
      PROVE  Shrinks \/ Inserts
  <2>1. CASE Reserve(o, c, Cleaned.pin[c], c)
    BY <2>1, ReserveShape
  <2>2. CASE Describe(o, Cleaned, Again(c, c))
    BY <1>1, <2>2
  <2> QED BY <1>4, <2>1, <2>2 DEF OperateExisting
<1>5. ASSUME NEW c \in Caps, NEW n \in Nodes, Select(o, c, n) PROVE Shrinks \/ Inserts
  BY <1>5, ReserveShape DEF Select
<1>6. ASSUME NEW p \in Caps, NEW c \in Caps, Commit(o, p, c) PROVE Shrinks \/ Inserts
  BY <1>1, <1>6 DEF Commit
<1> QED BY <1>2, <1>3, <1>4, <1>5, <1>6

LEMMA StepShape == IInv /\ [Next]_vars => Shrinks \/ Inserts
<1> SUFFICES ASSUME IInv, [Next]_vars PROVE Shrinks \/ Inserts
  OBVIOUS
<1>1. db \in Tables
  BY DEF IInv, Typed
<1>2. ASSUME NEW o \in Ops, OfferReturns(o) \/ PushFails(o) PROVE Shrinks
  BY <1>1, <1>2 DEF OfferReturns, PushFails, Finish, time, Tables, Shrinks
<1>3. ASSUME NEW o \in Ops, CommitReturns(o) PROVE Shrinks
  <2> DEFINE r == Retired(db, op[o].prev)
  <2>1. /\ db' = [r EXCEPT !.pending = @ \ {op[o].cap}] /\ lapsed' = lapsed
        /\ op[o].prev \in db.live \cup db.expired
    BY <1>3 DEF CommitReturns, Finish, time
  <2>2. r \in Tables /\ r.pin = db.pin /\ r.prev = db.prev /\ r.pending = db.pending
    BY <1>1, <2>1 DEF Retired, Tables
  <2> HIDE DEF r
  <2> QED BY <2>1, <2>2 DEF Tables, Shrinks
<1>4. ASSUME NEW c \in Caps, Release(c) PROVE Shrinks
  BY <1>1, <1>4 DEF Release, Retired, time, Tables, Shrinks
<1>5. ASSUME NEW i \in Initials, RetireInitial(i) PROVE Shrinks
  <2> DEFINE r == Retired(Cleaned, i)
  <2>1. /\ lapsed' = lapsed
        /\ db' = [r EXCEPT !.marked = IF i \in Cleaned.recorded THEN @ \cup {i} ELSE @,
                           !.pending = @ \ {i}]
    BY <1>5 DEF RetireInitial, time
  <2>2. Cleaned \in Tables
    BY CleanedSafe DEF Safe
  <2>3. /\ r \in Tables /\ r.pin = Cleaned.pin /\ r.prev = Cleaned.prev
        /\ r.pending = Cleaned.pending
    <3> HIDE DEF Cleaned
    <3> QED BY <2>2, AssignmentAssumption DEF Retired, Tables
  <2> HIDE DEF r
  <2> QED BY <2>1, <2>3, CleanedKeeps DEF Tables, Shrinks
<1>6. CASE Environment \/ UNCHANGED vars
  BY <1>1, <1>6, CleanedKeeps DEF Environment, Prune, Forget, Idle, Lapse, RequestExpires, Toggle, Move,
        time, vars, Tables, Shrinks
<1> QED BY <1>2, <1>3, <1>4, <1>5, <1>6, HandlersShape DEF Next

(* The insertion, field by field. *)
LEMMA InsertsFields ==
  ASSUME IInv, Inserts
  PROVE  \E c \in Caps, n \in Nodes, p \in Caps \cup {None} :
           /\ db.pin[c] = None
           /\ p = None <=> c \in Initials
           /\ p # None => CurrentReservations(Cleaned, p) = {}
           /\ db'.pin = [db.pin EXCEPT ![c] = n]
           /\ db'.prev = [db.prev EXCEPT ![c] = p]
           /\ db'.pending = IF p = None THEN Cleaned.pending ELSE Cleaned.pending \cup {c}
           /\ db'.live = Cleaned.live \cup {c}
           /\ db'.recorded = Cleaned.recorded \cup {c}
           /\ db'.marked = Cleaned.marked
<1>1. PICK c \in Caps, n \in Nodes, p \in Caps \cup {None} :
        /\ db.pin[c] = None
        /\ p = None <=> c \in Initials
        /\ p # None => CurrentReservations(Cleaned, p) = {}
        /\ db' = Inserted(Cleaned, c, n, p)
  BY DEF Inserts
<1>2. Cleaned \in Tables /\ Cleaned.pin = db.pin /\ Cleaned.prev = db.prev
  BY CleanedSafe, CleanedKeeps DEF Safe
<1>3. /\ db'.pin = [Cleaned.pin EXCEPT ![c] = n]
      /\ db'.prev = [Cleaned.prev EXCEPT ![c] = p]
      /\ db'.pending = IF p = None THEN Cleaned.pending ELSE Cleaned.pending \cup {c}
      /\ db'.live = Cleaned.live \cup {c}
      /\ db'.recorded = Cleaned.recorded \cup {c}
      /\ db'.marked = Cleaned.marked
  <2> HIDE DEF Cleaned
  <2> QED BY <1>1, <1>2 DEF Inserted, Tables
<1> QED BY <1>1, <1>2, <1>3

(* A session's outbound node never changes. *)
THEOREM PinsStay == Spec => PinNeverMoves
<1>1. ASSUME IInv, [Next]_vars
      PROVE  [\A c \in Caps : db.pin[c] # None => db'.pin[c] = db.pin[c]]_vars
  <2>1. CASE Shrinks
    BY <2>1 DEF Shrinks
  <2>2. CASE Inserts
    BY <1>1, <2>2, InsertsFields DEF IInv, Typed, Tables
  <2> QED BY <1>1, <2>1, <2>2, StepShape
<1> QED BY <1>1, Invariance, PTL DEF Spec, PinNeverMoves

(* At most one replacement of an owner can still be confirmed. *)
THEOREM SingleReservation == Spec => []OneReservation
<1>1. Init => OneReservation
  BY DEF Init, OneReservation
<1>2. ASSUME IInv, OneReservation, [Next]_vars PROVE OneReservation'
  <2>1. CASE Shrinks
    BY <1>2, <2>1 DEF Shrinks, OneReservation
  <2>2. CASE Inserts
    <3>1. PICK c \in Caps, n \in Nodes, p \in Caps \cup {None} :
            /\ p # None => CurrentReservations(Cleaned, p) = {}
            /\ p = None <=> c \in Initials
            /\ db'.prev = [db.prev EXCEPT ![c] = p]
            /\ db'.pending = IF p = None THEN Cleaned.pending ELSE Cleaned.pending \cup {c}
      BY <1>2, <2>2, InsertsFields
    <3>2. /\ db.pending \in SUBSET Caps /\ db.prev \in [Caps -> Caps \cup {None}]
          /\ Cleaned.prev = db.prev
          /\ Cleaned.pending = db.pending \ (db.pending \cap lapsed)
          /\ Initials \cap db.pending = {}
      BY <1>2, CleanedKeeps DEF IInv, Typed, Tables, InitialsLeaveTraces
    <3>3. lapsed' = lapsed
      BY <2>2 DEF Inserts
    <3>4. \A d \in db.pending \ lapsed : p # None => db.prev[d] # p
      BY <3>1, <3>2 DEF CurrentReservations
    <3> QED BY <1>2, <3>1, <3>2, <3>3, <3>4 DEF OneReservation
  <2> QED BY <1>2, <2>1, <2>2, StepShape
<1> QED BY <1>1, <1>2, Invariance, PTL DEF Spec

-----------------------------------------------------------------------------
(* A lease that continues another one stays recorded as its replacement.   *)
Repeatable ==
  /\ db.marked \subseteq Initials
  /\ \A c \in Caps : succeeds[c] # None => c \notin Initials /\ db.prev[c] = succeeds[c]
  /\ \A c \in db.live : succeeds[c] # None => c \in db.recorded

(* Tables in which no lease of db lost its record, and none came back. *)
Keeping(d) ==
  /\ d \in Tables
  /\ d.marked \subseteq db.marked \cup Initials
  /\ \A c \in d.live : c \in db.live /\ (c \in db.recorded => c \in d.recorded)

LEMMA CleanedKeeping == IInv => Keeping(Cleaned) /\ Keeping(Pruned(db)) /\ Keeping(db)
<1> SUFFICES ASSUME IInv PROVE Keeping(Cleaned) /\ Keeping(Pruned(db)) /\ Keeping(db)
  OBVIOUS
<1>1. db \in Tables /\ Cleaned \in Tables /\ Pruned(db) \in Tables
  BY CleanedSafe DEF Safe
<1>2. Keeping(Pruned(db)) /\ Keeping(db)
  BY <1>1 DEF Keeping, Pruned, Tables
<1> DEFINE p    == Pruned(db)
           late == p.pending \cap lapsed
           kept == [p EXCEPT !.live = @ \ late, !.pending = @ \ late,
                             !.recorded = @ \ late]
           held == kept.live \cup kept.expired \cup kept.revoked \cup kept.pending
<1>3. /\ kept \in Tables /\ kept.live = p.live \ late
      /\ kept.recorded = p.recorded \ late /\ kept.marked = p.marked
  BY <1>1 DEF Tables
<1>4. Cleaned = [kept EXCEPT !.recorded = @ \cap held, !.marked = @ \cap held]
  BY DEF Cleaned
<1>5. kept.live \subseteq held
  OBVIOUS
<1>6. /\ Cleaned.live = kept.live /\ Cleaned.recorded = kept.recorded \cap held
      /\ Cleaned.marked = kept.marked \cap held
  <2> HIDE DEF kept, held
  <2> QED BY <1>3, <1>4 DEF Tables
<1>7. Keeping(Cleaned)
  <2> HIDE DEF p, late, kept, held
  <2> QED BY <1>1, <1>2, <1>3, <1>5, <1>6 DEF Keeping, p
<1> QED BY <1>2, <1>7

LEMMA RetiredKeeping ==
  ASSUME NEW d, Keeping(d), NEW c \in Caps
  PROVE  Keeping(Retired(d, c))
  BY DEF Keeping, Retired, Tables

(* Everything but a commit. *)
LEMMA KeepingStep ==
  ASSUME IInv, Repeatable, Shrinks, Keeping(db'), UNCHANGED succeeds
  PROVE  Repeatable'
  BY DEF Repeatable, Keeping, Shrinks, Tables

LEMMA InsertsStep ==
  ASSUME IInv, Repeatable, Inserts, UNCHANGED succeeds
  PROVE  Repeatable'
<1>1. PICK c \in Caps, n \in Nodes, p \in Caps \cup {None} :
        /\ db.pin[c] = None
        /\ db'.prev = [db.prev EXCEPT ![c] = p]
        /\ db'.live = Cleaned.live \cup {c}
        /\ db'.recorded = Cleaned.recorded \cup {c}
        /\ db'.marked = Cleaned.marked
  BY InsertsFields
<1>2. succeeds[c] = None
  BY <1>1 DEF IInv, PredecessorsDead
<1>3. db.prev \in [Caps -> Caps \cup {None}]
  BY DEF IInv, Typed, Tables
<1>4. \A x \in Caps : x # c => db'.prev[x] = db.prev[x]
  BY <1>1, <1>3
<1> QED BY <1>1, <1>2, <1>4, CleanedKeeping DEF Repeatable, Keeping, Tables

LEMMA HandlersKeep ==
  ASSUME IInv, NEW o \in Ops,
         \/ \E i \in Initials : OperateInitial(o, i)
         \/ \E c \in Caps : OperateNew(o, c)
         \/ \E c \in Caps, intent \in {"restore", "renew"} : OperateExisting(o, c, intent)
         \/ \E c \in Caps, n \in Nodes : Select(o, c, n)
         \/ \E p, c \in Caps : Commit(o, p, c)
  PROVE  (Inserts \/ (Shrinks /\ Keeping(db'))) /\ UNCHANGED succeeds
<1>1. ASSUME NEW r, Describe(o, Cleaned, r)
      PROVE  Shrinks /\ Keeping(db') /\ UNCHANGED succeeds
  BY <1>1, CleanedKeeps, CleanedKeeping DEF Describe, time, history, Shrinks
<1>2. ASSUME NEW d, NEW r, Describe(o, d, r) PROVE UNCHANGED succeeds
  BY <1>2 DEF Describe, history
<1>3. ASSUME NEW p \in Caps, NEW n, NEW key, Reserve(o, p, n, key)
      PROVE  (Inserts \/ (Shrinks /\ Keeping(db'))) /\ UNCHANGED succeeds
  <2>1. ASSUME NEW c \in Unused, NEW m \in up, NEW r,
               CurrentReservations(Cleaned, p) = {}, Describe(o, Inserted(Cleaned, c, m, p), r)
        PROVE  Inserts /\ UNCHANGED succeeds
    BY <1>2, <2>1, AssignmentAssumption DEF Describe, time, Inserts, Unused, IInv, Typed
  <2> QED BY <1>1, <1>3, <2>1 DEF Reserve
<1>4. ASSUME NEW i \in Initials, OperateInitial(o, i)
      PROVE  (Inserts \/ (Shrinks /\ Keeping(db'))) /\ UNCHANGED succeeds
  <2>1. CASE Describe(o, Cleaned, Again(i, i))
    BY <1>1, <2>1
  <2>2. CASE /\ i \notin Cleaned.live \cup Cleaned.expired \cup Cleaned.revoked
             /\ \E n \in up : Describe(o, Inserted(Cleaned, i, n, None), Offer(i, n, TRUE, i))
    <3>1. i \notin requestsOver
      BY <1>4 DEF OperateInitial
    <3>2. db.pin[i] = None
      BY <2>2, <3>1, CleanedSafe DEF Safe
    <3> QED BY <1>2, <2>2, <3>2, AssignmentAssumption DEF Describe, time, Inserts, IInv, Typed
  <2> QED BY <1>4, <2>1, <2>2 DEF OperateInitial
<1>5. ASSUME NEW c \in Caps, OperateNew(o, c)
      PROVE  (Inserts \/ (Shrinks /\ Keeping(db'))) /\ UNCHANGED succeeds
  BY <1>3, <1>5 DEF OperateNew
<1>6. ASSUME NEW c \in Caps, NEW intent \in {"restore", "renew"}, OperateExisting(o, c, intent)
      PROVE  (Inserts \/ (Shrinks /\ Keeping(db'))) /\ UNCHANGED succeeds
  <2>1. CASE Reserve(o, c, Cleaned.pin[c], c)
    BY <1>3, <2>1
  <2>2. CASE Describe(o, Cleaned, Again(c, c))
    BY <1>1, <2>2
  <2> QED BY <1>6, <2>1, <2>2 DEF OperateExisting
<1>7. ASSUME NEW c \in Caps, NEW n \in Nodes, Select(o, c, n)
      PROVE  (Inserts \/ (Shrinks /\ Keeping(db'))) /\ UNCHANGED succeeds
  BY <1>3, <1>7 DEF Select
<1>8. ASSUME NEW p \in Caps, NEW c \in Caps, Commit(o, p, c)
      PROVE  Shrinks /\ Keeping(db') /\ UNCHANGED succeeds
  BY <1>1, <1>8 DEF Commit
<1> QED BY <1>4, <1>5, <1>6, <1>7, <1>8

LEMMA OthersKeep ==
  ASSUME IInv,
         \/ \E o \in Ops : OfferReturns(o) \/ PushFails(o)
         \/ \E c \in Caps : Release(c)
         \/ \E i \in Initials : RetireInitial(i)
         \/ Environment \/ UNCHANGED vars
  PROVE  Keeping(db') /\ UNCHANGED succeeds
<1> USE DEF time, nodes, history
<1>1. db \in Tables /\ Keeping(db) /\ Keeping(Pruned(db)) /\ Keeping(Cleaned)
  BY CleanedKeeping DEF IInv, Typed
<1>2. ASSUME NEW o \in Ops, OfferReturns(o) \/ PushFails(o)
      PROVE  Keeping(db') /\ UNCHANGED succeeds
  <2>1. UNCHANGED succeeds
    BY <1>2 DEF OfferReturns, PushFails
  <2>2. CASE db' = db
    BY <1>1, <2>1, <2>2 DEF Keeping
  <2>3. CASE \E c : db' = [db EXCEPT !.live = @ \ {c}, !.recorded = @ \ {c}, !.pending = @ \ {c}]
    <3>1. PICK c : db' = [db EXCEPT !.live = @ \ {c}, !.recorded = @ \ {c}, !.pending = @ \ {c}]
      BY <2>3
    <3>2. /\ db' \in Tables /\ db'.live = db.live \ {c} /\ db'.recorded = db.recorded \ {c}
          /\ db'.marked = db.marked
      BY <1>1, <3>1 DEF Tables
    <3> QED BY <2>1, <3>2 DEF Keeping
  <2> QED BY <1>2, <2>2, <2>3 DEF OfferReturns, PushFails
<1>3. ASSUME NEW c \in Caps, Release(c) PROVE Keeping(db') /\ UNCHANGED succeeds
  BY <1>1, <1>3, RetiredKeeping DEF Release
<1>4. ASSUME NEW i \in Initials, RetireInitial(i) PROVE Keeping(db') /\ UNCHANGED succeeds
  <2> DEFINE r == Retired(Cleaned, i)
  <2>1. Keeping(r)
    BY <1>1, RetiredKeeping, AssignmentAssumption
  <2>2. /\ UNCHANGED succeeds
        /\ db' = [r EXCEPT !.marked = IF i \in Cleaned.recorded THEN @ \cup {i} ELSE @,
                           !.pending = @ \ {i}]
    BY <1>4 DEF RetireInitial
  <2> HIDE DEF r
  <2> QED BY <2>1, <2>2, AssignmentAssumption DEF Keeping, Tables
<1>5. CASE Environment \/ UNCHANGED vars
  <2>1. UNCHANGED succeeds
    BY <1>5 DEF Environment, Prune, Forget, Idle, Lapse, RequestExpires, Toggle, Move, vars
  <2>2. CASE db' = db
    BY <1>1, <2>1, <2>2 DEF Keeping
  <2>3. CASE db' = Pruned(db)
    BY <1>1, <2>1, <2>3
  <2>4. ASSUME NEW c \in Caps, Forget(c) PROVE Keeping(db')
    BY <1>1, <2>4 DEF Forget, Keeping, Tables
  <2> QED BY <1>5, <2>1, <2>2, <2>3, <2>4
          DEF Environment, Prune, Idle, Lapse, RequestExpires, Toggle, Move, vars
<1> QED BY <1>2, <1>3, <1>4, <1>5

LEMMA CommitRepeatable ==
  ASSUME IInv, Repeatable, NEW o \in Ops, CommitReturns(o)
  PROVE  Repeatable'
<1> DEFINE c == op[o].cap
           p == op[o].prev
           r == Retired(db, p)
<1>1. /\ db \in Tables /\ succeeds \in [Caps -> Caps \cup {None}]
      /\ c \in db.live \cap db.recorded \cap db.pending /\ db.prev[c] = p
      /\ db' = [r EXCEPT !.pending = @ \ {c}] /\ succeeds' = [succeeds EXCEPT ![c] = p]
  BY DEF CommitReturns, Confirmable, IInv, Typed
<1>2. /\ r \in Tables /\ r.live \subseteq db.live /\ r.recorded = db.recorded
      /\ r.marked = db.marked /\ r.prev = db.prev
  BY <1>1 DEF Retired, Tables
<1> HIDE DEF r
<1>3. /\ db'.live = r.live /\ db'.recorded = r.recorded /\ db'.marked = r.marked
      /\ db'.prev = r.prev
  BY <1>1, <1>2 DEF Tables
<1>4. c \in Caps \ Initials
  BY <1>1 DEF IInv, InitialsLeaveTraces, Tables
<1> HIDE DEF c, p
<1> QED BY <1>1, <1>2, <1>3, <1>4 DEF Repeatable, Tables

(* A confirmation whose answer was lost can be repeated. *)
THEOREM Repeats == Spec => []ConfirmationRepeats
<1>1. ASSUME Init PROVE Repeatable
  <2>1. db.marked = {} /\ succeeds = [c \in Caps |-> None] /\ db.live \subseteq Caps
    BY <1>1, AssignmentAssumption DEF Init
  <2> QED BY <2>1 DEF Repeatable
<1>2. ASSUME IInv, Repeatable, [Next]_vars PROVE Repeatable'
  <2>1. ASSUME NEW o \in Ops, CommitReturns(o) PROVE Repeatable'
    BY <1>2, <2>1, CommitRepeatable
  <2>2. CASE (Inserts \/ (Shrinks /\ Keeping(db'))) /\ UNCHANGED succeeds
    BY <1>2, <2>2, KeepingStep, InsertsStep
  <2>3. CASE Keeping(db') /\ UNCHANGED succeeds
    <3>1. CASE Inserts
      BY <1>2, <2>3, <3>1, InsertsStep
    <3>2. CASE Shrinks
      BY <1>2, <2>3, <3>2, KeepingStep
    <3> QED BY <1>2, <3>1, <3>2, StepShape
  <2> QED BY <1>2, <2>1, <2>2, <2>3, HandlersKeep, OthersKeep DEF Next
<1>3. IInv /\ Repeatable => ConfirmationRepeats
  <2> SUFFICES ASSUME IInv, Repeatable, NEW c \in db.live, succeeds[c] # None
               PROVE  c \in db.recorded \ (db.pending \cup db.marked) /\ db.prev[c] = succeeds[c]
    BY DEF ConfirmationRepeats
  <2>1. c \in Caps
    BY DEF IInv, Typed, Tables
  <2> QED BY <2>1 DEF Repeatable, IInv, PredecessorsDead
<1> QED BY <1>1, <1>2, <1>3, Invariance, PTL DEF Spec

-----------------------------------------------------------------------------
(* What failing pushes take back.                                          *)

(* The activations that wait are those with something to do, once each.    *)
Queued ==
  /\ waiting \in Seq(Ops)
  /\ \A i, j \in 1..Len(waiting) : waiting[i] = waiting[j] => i = j
  /\ \A o \in Ops : op[o] # None <=> \E i \in 1..Len(waiting) : waiting[i] = o

(* Whoever inserted a reservation asked for its push before anybody else   *)
(* asked for one for the same capability.                                  *)
CreatorFirst ==
  \A i, j \in 1..Len(waiting) :
    /\ op[waiting[i]].creator /\ op[waiting[i]].cap \notin Initials
    /\ op[waiting[j]].cap = op[waiting[i]].cap
    => i <= j

(* A sequence without its element at k.                                    *)
LEMMA Without ==
  ASSUME NEW S, NEW s \in Seq(S), NEW k \in 1..Len(s), NEW t,
         t = SubSeq(s, 1, k - 1) \o SubSeq(s, k + 1, Len(s))
  PROVE  /\ t \in Seq(S) /\ Len(t) = Len(s) - 1
         /\ \A i \in 1..(Len(s) - 1) : t[i] = IF i < k THEN s[i] ELSE s[i + 1]
<1> DEFINE a == SubSeq(s, 1, k - 1)
           b == SubSeq(s, k + 1, Len(s))
<1>1. a \in Seq(S) /\ Len(a) = k - 1 /\ \A i \in 1..(k - 1) : a[i] = s[i]
  OBVIOUS
<1>2. b \in Seq(S) /\ Len(b) = Len(s) - k
  OBVIOUS
<1>3. \A i \in 1..(Len(s) - k) : b[i] = s[k + i]
  OBVIOUS
<1> HIDE DEF a, b
<1>4. t = a \o b
  BY DEF a, b
<1>5. t \in Seq(S) /\ Len(t) = Len(a) + Len(b)
  <2>1. a \in Seq(S) /\ b \in Seq(S)
    BY <1>1, <1>2
  <2>2. t \in Seq(S)
    BY ONLY <2>1, <1>4
  <2>3. Len(a \o b) = Len(a) + Len(b)
    BY ONLY <2>1
  <2> QED BY ONLY <2>2, <2>3, <1>4
<1>6. Len(s) \in Nat
  OBVIOUS
<1>7. Len(t) = Len(s) - 1
  BY ONLY <1>1, <1>2, <1>5, <1>6, k \in 1..Len(s)
<1>8. ASSUME NEW i \in 1..(Len(s) - 1) PROVE t[i] = IF i < k THEN s[i] ELSE s[i + 1]
  <2>1. CASE i < k
    <3>1. i \in 1..Len(a) /\ a[i] = s[i]
      BY <1>1, <1>6, <2>1
    <3>2. t[i] = a[i]
      BY ONLY <3>1, <1>1, <1>2, <1>4
    <3> QED BY <2>1, <3>1, <3>2
  <2>2. CASE ~(i < k)
    <3>1. /\ i \in (Len(a) + 1)..(Len(a) + Len(b))
          /\ i - (k - 1) \in 1..(Len(s) - k) /\ k + (i - (k - 1)) = i + 1
      BY <1>1, <1>2, <1>6, <2>2
    <3>2. t[i] = b[i - Len(a)]
      BY ONLY <3>1, <1>1, <1>2, <1>4
    <3>3. b[i - (k - 1)] = s[i + 1]
      BY <1>3, <3>1
    <3> QED BY <1>1, <2>2, <3>2, <3>3
  <2> QED BY <2>1, <2>2
<1> QED BY <1>5, <1>7, <1>8

LEMMA FinishQueue ==
  ASSUME Queued, NEW o \in Ops, Finish(o), op \in [Ops -> Pending \cup {None}]
  PROVE  Queued' /\ (CreatorFirst => CreatorFirst')
<1> DEFINE n == Len(waiting)
<1>0. DOMAIN waiting = 1..n /\ n \in Nat
  BY DEF Queued
<1>1. PICK k \in 1..n :
        waiting[k] = o /\ waiting' = SubSeq(waiting, 1, k - 1) \o SubSeq(waiting, k + 1, n)
  BY <1>0 DEF Finish
<1>2. /\ waiting' \in Seq(Ops) /\ Len(waiting') = n - 1
      /\ \A i \in 1..(n - 1) : waiting'[i] = IF i < k THEN waiting[i] ELSE waiting[i + 1]
  <2>1. waiting \in Seq(Ops)
    BY DEF Queued
  <2> QED BY ONLY <1>1, <2>1, Without
<1>3. \A i \in 1..n : waiting[i] = o => i = k
  BY <1>1 DEF Queued
<1>4. \A x \in Ops : op'[x] = IF x = o THEN None ELSE op[x]
  BY DEF Finish
<1>5. ASSUME NEW i \in 1..(n - 1), NEW j \in 1..(n - 1), waiting'[i] = waiting'[j] PROVE i = j
  <2> DEFINE was(x) == IF x < k THEN x ELSE x + 1
  <2>1. /\ was(i) \in 1..n /\ waiting'[i] = waiting[was(i)]
        /\ was(j) \in 1..n /\ waiting'[j] = waiting[was(j)]
    BY <1>0, <1>2
  <2>2. was(i) = was(j)
    <3>1. \A x, y \in 1..n : waiting[x] = waiting[y] => x = y
      BY DEF Queued
    <3> HIDE DEF was, n
    <3> QED BY ONLY <1>5, <2>1, <3>1
  <2> QED BY ONLY <1>0, <2>2, i \in 1..(n - 1), j \in 1..(n - 1), k \in 1..n
<1>6. ASSUME NEW x \in Ops, NEW i \in 1..(n - 1), waiting'[i] = x PROVE op'[x] # None
  <2>1. x # o
    BY <1>0, <1>2, <1>3, <1>6
  <2>2. \E j \in 1..n : waiting[j] = x
    BY <1>0, <1>2, <1>6
  <2> QED BY <1>4, <2>1, <2>2 DEF Queued
<1>7. ASSUME NEW x \in Ops, op'[x] # None PROVE \E i \in 1..(n - 1) : waiting'[i] = x
  <2>1. op[x] # None /\ x # o
    BY <1>4, <1>7
  <2>2. PICK j \in 1..n : waiting[j] = x
    BY <2>1 DEF Queued
  <2>3. j # k
    BY <1>1, <2>1, <2>2
  <2>4. CASE j < k
    BY <1>0, <1>2, <2>2, <2>4
  <2>5. CASE j > k
    <3>1. j - 1 \in 1..(n - 1) /\ waiting'[j - 1] = waiting[j]
      BY <1>0, <1>2, <2>5
    <3> QED BY <3>1, <2>2
  <2> QED BY <1>0, <2>3, <2>4, <2>5
<1>8. Queued'
  BY <1>0, <1>2, <1>5, <1>6, <1>7 DEF Queued
<1>9. ASSUME CreatorFirst, NEW i \in 1..(n - 1), NEW j \in 1..(n - 1),
             op'[waiting'[i]].creator, op'[waiting'[i]].cap \notin Initials,
             op'[waiting'[j]].cap = op'[waiting'[i]].cap
      PROVE  i <= j
  <2> DEFINE was(x) == IF x < k THEN x ELSE x + 1
  <2>1. \A x \in {i, j} : /\ was(x) \in 1..n /\ waiting'[x] = waiting[was(x)]
                          /\ waiting[was(x)] \in Ops /\ waiting[was(x)] # o
    BY <1>0, <1>2, <1>3 DEF Queued
  <2>2. \A x \in {i, j} : op'[waiting'[x]] = op[waiting[was(x)]]
    BY <1>4, <2>1
  <2>3. was(i) <= was(j)
    BY <1>9, <2>1, <2>2 DEF CreatorFirst
  <2> QED BY <1>0, <2>3
<1> QED BY <1>2, <1>8, <1>9 DEF CreatorFirst

LEMMA AppendQueue ==
  ASSUME Queued, CreatorFirst, op \in [Ops -> Pending \cup {None}],
         NEW o \in Ops, NEW r, r # None, op[o] = None,
         op' = [op EXCEPT ![o] = r], waiting' = Append(waiting, o),
         r.creator /\ r.cap \notin Initials =>
           \A x \in Ops : op[x] # None => op[x].cap # r.cap
  PROVE  Queued' /\ CreatorFirst'
<1> DEFINE n == Len(waiting)
<1>1. /\ waiting \in Seq(Ops) /\ n \in Nat /\ Len(waiting') = n + 1 /\ waiting' \in Seq(Ops)
      /\ waiting'[n + 1] = o
  BY DEF Queued
<1>2. \A i \in 1..n : waiting'[i] = waiting[i] /\ waiting[i] \in Ops
  BY DEF Queued
<1>3. \A x \in Ops : op'[x] = IF x = o THEN r ELSE op[x]
  OBVIOUS
<1>4. \A i \in 1..n : waiting[i] # o /\ op[waiting[i]] # None
  BY <1>1, <1>2 DEF Queued
<1>5. ASSUME NEW i \in 1..(n + 1), NEW j \in 1..(n + 1), waiting'[i] = waiting'[j] PROVE i = j
  <2>1. CASE i \in 1..n /\ j \in 1..n
    BY <1>2, <1>5, <2>1 DEF Queued
  <2>2. CASE i = n + 1 \/ j = n + 1
    <3>1. ASSUME NEW x \in 1..(n + 1), waiting'[x] = o PROVE x = n + 1
      BY <1>1, <1>2, <1>4, <3>1
    <3> QED BY <1>1, <1>5, <2>2, <3>1
  <2> QED BY <1>1, <2>1, <2>2
<1>6. ASSUME NEW x \in Ops PROVE op'[x] # None <=> \E i \in 1..(n + 1) : waiting'[i] = x
  <2>1. CASE x = o
    BY <1>1, <1>3, <2>1
  <2>2. CASE x # o
    <3>1. (\E i \in 1..(n + 1) : waiting'[i] = x) <=> (\E i \in 1..n : waiting[i] = x)
      BY <1>1, <1>2, <2>2
    <3> QED BY <1>3, <2>2, <3>1 DEF Queued
  <2> QED BY <2>1, <2>2
<1>7. Queued'
  BY <1>1, <1>5, <1>6 DEF Queued
<1>8. ASSUME NEW i \in 1..(n + 1), NEW j \in 1..(n + 1),
             op'[waiting'[i]].creator, op'[waiting'[i]].cap \notin Initials,
             op'[waiting'[j]].cap = op'[waiting'[i]].cap
      PROVE  i <= j
  <2>1. CASE j = n + 1
    BY <1>1, <2>1
  <2>2. CASE i = n + 1 /\ j \in 1..n
    <3>1. op'[waiting'[i]] = r /\ op'[waiting'[j]] = op[waiting[j]]
      BY <1>1, <1>2, <1>3, <1>4, <2>2
    <3> QED BY <1>2, <1>4, <1>8, <2>2, <3>1
  <2>3. CASE i \in 1..n /\ j \in 1..n
    <3>1. op'[waiting'[i]] = op[waiting[i]] /\ op'[waiting'[j]] = op[waiting[j]]
      BY <1>2, <1>3, <1>4, <2>3
    <3> QED BY <1>8, <2>3, <3>1 DEF CreatorFirst
  <2> QED BY <1>1, <2>1, <2>2, <2>3
<1> QED BY <1>1, <1>7, <1>8 DEF CreatorFirst

-----------------------------------------------------------------------------
(* An activation asks its lease's node, and whoever inserted a reservation *)
(* can only take back what is not established.                             *)
AskedAndOpen ==
  \A o \in Ops : op[o] # None =>
    /\ db.pin[op[o].cap] \in Nodes
    /\ op[o].ep = endpoint[db.pin[op[o].cap]]
    /\ op[o].creator => op[o].kind = "offer"
    /\ op[o].creator /\ op[o].cap \notin Initials => op[o].cap \notin Established

QInv == Queued /\ CreatorFirst /\ AskedAndOpen

(* What a handler begins: a push for a lease it found or for one it made.  *)
AsksAgain(o) ==
  \E r \in Pending :
    /\ Describe(o, Cleaned, r)
    /\ ~r.creator /\ r.ep = endpoint[db.pin[r.cap]]

Creates(o) ==
  \E c \in Caps, n \in Nodes, p \in Caps \cup {None}, key \in Caps \cup {None} :
    /\ db.pin[c] = None
    /\ p = None <=> c \in Initials
    /\ Describe(o, Inserted(Cleaned, c, n, p), Offer(c, n, TRUE, key))

LEMMA AgainAsks ==
  ASSUME IInv, NEW o \in Ops, NEW c \in Caps, NEW key \in Caps \cup {None},
         Describe(o, Cleaned, Again(c, key))
  PROVE  AsksAgain(o)
<1>1. Again(c, key).cap = c /\ ~Again(c, key).creator /\ Again(c, key).ep = endpoint[db.pin[c]]
  BY DEF Again, Offer
<1>2. c \in Cleaned.live
  BY <1>1 DEF Describe
<1>3. Again(c, key) \in Pending
  BY <1>2, CleanedSafe, LivePinned, AgainTyped
<1> QED BY <1>1, <1>3 DEF AsksAgain

LEMMA ReserveAsks ==
  ASSUME IInv, NEW o \in Ops, NEW p \in Caps, NEW preferred,
         NEW key \in Caps \cup {None}, Reserve(o, p, preferred, key)
  PROVE  AsksAgain(o) \/ Creates(o)
<1>1. ASSUME NEW c \in CurrentReservations(Cleaned, p), Describe(o, Cleaned, Again(c, key))
      PROVE  AsksAgain(o)
  <2>1. c \in Caps
    BY CleanedSafe DEF CurrentReservations, Safe, Tables
  <2> QED BY <1>1, <2>1, AgainAsks
<1>2. ASSUME NEW c \in Unused, NEW n \in up,
             Describe(o, Inserted(Cleaned, c, n, p), Offer(c, n, TRUE, key))
      PROVE  Creates(o)
  <2>1. c \in Caps /\ db.pin[c] = None /\ c \notin Initials /\ n \in Nodes /\ p # None
    BY AssignmentAssumption DEF Unused, IInv, Typed
  <2> QED BY <1>2, <2>1 DEF Creates
<1> QED BY <1>1, <1>2 DEF Reserve

LEMMA HandlersAsk ==
  ASSUME IInv, NEW o \in Ops
  PROVE  /\ \A i \in Initials : OperateInitial(o, i) => AsksAgain(o) \/ Creates(o)
         /\ \A c \in Caps : OperateNew(o, c) => AsksAgain(o) \/ Creates(o)
         /\ \A c \in Caps : \A intent \in {"restore", "renew"} :
              OperateExisting(o, c, intent) => AsksAgain(o) \/ Creates(o)
         /\ \A c \in Caps : \A n \in Nodes : Select(o, c, n) => AsksAgain(o) \/ Creates(o)
         /\ \A p, c \in Caps : Commit(o, p, c) => AsksAgain(o) \/ Creates(o)
<1>1. ASSUME NEW i \in Initials, OperateInitial(o, i) PROVE AsksAgain(o) \/ Creates(o)
  <2>0. i \in Caps /\ None \in Caps \cup {None}
    BY AssignmentAssumption
  <2>1. CASE i \in Cleaned.live
    BY <1>1, <2>0, <2>1, AgainAsks DEF OperateInitial
  <2>2. CASE i \notin Cleaned.live
    <3>1. PICK n \in up : Describe(o, Inserted(Cleaned, i, n, None), Offer(i, n, TRUE, i))
      BY <1>1, <2>2 DEF OperateInitial
    <3>2. i \notin requestsOver /\ i \notin Cleaned.expired \cup Cleaned.revoked
      BY <1>1, <2>2 DEF OperateInitial
    <3>3. db.pin[i] = None
      BY <2>2, <3>2, CleanedSafe DEF Safe
    <3>4. n \in Nodes
      BY DEF IInv, Typed
    <3> QED BY <2>0, <3>1, <3>3, <3>4 DEF Creates
  <2> QED BY <2>1, <2>2
<1>2. ASSUME NEW c \in Caps, OperateNew(o, c) PROVE AsksAgain(o) \/ Creates(o)
  BY <1>2, ReserveAsks DEF OperateNew
<1>3. ASSUME NEW c \in Caps, NEW intent \in {"restore", "renew"}, OperateExisting(o, c, intent)
      PROVE  AsksAgain(o) \/ Creates(o)
  <2>1. CASE Reserve(o, c, Cleaned.pin[c], c)
    BY <2>1, ReserveAsks
  <2>2. CASE Describe(o, Cleaned, Again(c, c))
    BY <2>2, AgainAsks
  <2> QED BY <1>3, <2>1, <2>2 DEF OperateExisting
<1>4. ASSUME NEW c \in Caps, NEW n \in Nodes, Select(o, c, n) PROVE AsksAgain(o) \/ Creates(o)
  BY <1>4, ReserveAsks DEF Select
<1>5. ASSUME NEW p \in Caps, NEW c \in Caps, Commit(o, p, c) PROVE AsksAgain(o) \/ Creates(o)
  <2>1. CASE Describe(o, Cleaned, Again(c, None))
    BY <2>1, AgainAsks
  <2> DEFINE r == [Again(c, None) EXCEPT !.kind = "commit", !.prev = p]
  <2>2. CASE Confirmable(Cleaned, p, c) /\ Describe(o, Cleaned, r)
    <3>1. db.pin[c] \in Nodes
      BY <2>2, CleanedSafe, LivePinned DEF Confirmable
    <3>2. Again(c, None) \in Pending
      BY <3>1, AgainTyped
    <3>3. r \in Pending /\ r.cap = Again(c, None).cap /\ r.creator = Again(c, None).creator
          /\ r.ep = Again(c, None).ep
      <4> HIDE DEF Again
      <4> QED BY <3>2 DEF Pending, Kinds
    <3>4. r.cap = c /\ ~r.creator /\ r.ep = endpoint[db.pin[c]]
      BY <3>3 DEF Again, Offer
    <3> HIDE DEF r
    <3> QED BY <2>2, <3>3, <3>4 DEF AsksAgain
  <2> QED BY <1>5, <2>1, <2>2 DEF Commit
<1> QED BY <1>1, <1>2, <1>3, <1>4, <1>5

(* cleanup() leaves every established lease or its tombstone.              *)
LEMMA CleanedTraces ==
  ASSUME IInv
  PROVE  /\ Established \subseteq Cleaned.live \cup Cleaned.expired
         /\ Cleaned.live \ Cleaned.pending \subseteq Established
         /\ Established \subseteq Pruned(db).live \cup Pruned(db).expired
         /\ Pruned(db).live \ Pruned(db).pending \subseteq Established
  BY DEF Cleaned, Pruned, IInv, Typed, Tables, Established

(* Nothing was asked for and nothing became established.                   *)
LEMMA QuietQInv ==
  ASSUME IInv, QInv, db'.pin = db.pin, Established' \subseteq Established,
         UNCHANGED <<op, waiting, endpoint>>
  PROVE  QInv'
<1>1. Queued' /\ CreatorFirst'
  BY DEF QInv, Queued, CreatorFirst
<1>2. AskedAndOpen'
  BY DEF QInv, AskedAndOpen
<1> QED BY <1>1, <1>2 DEF QInv

LEMMA AskingQInv ==
  ASSUME IInv, QInv, endpoint' = endpoint, NEW o \in Ops, AsksAgain(o) \/ Creates(o)
  PROVE  QInv' /\ Established \subseteq db'.live \cup db'.expired
<1>0. op \in [Ops -> Pending \cup {None}] /\ None \notin Pending
  BY PendingAssumption DEF IInv, Typed
<1>1. CASE AsksAgain(o)
  <2>1. PICK r \in Pending :
          /\ Describe(o, Cleaned, r) /\ ~r.creator /\ r.ep = endpoint[db.pin[r.cap]]
    BY <1>1 DEF AsksAgain
  <2>2. /\ op[o] = None /\ db' = Cleaned /\ op' = [op EXCEPT ![o] = r]
        /\ waiting' = Append(waiting, o) /\ r.cap \in Cleaned.live
    BY <2>1 DEF Describe
  <2>3. Queued' /\ CreatorFirst'
    BY <1>0, <2>1, <2>2, AppendQueue DEF QInv
  <2>4. db'.pin = db.pin /\ db.pin[r.cap] \in Nodes
    BY <2>2, CleanedSafe, LivePinned DEF Safe
  <2>5. Established' \subseteq Established
    BY <2>2, CleanedTraces DEF Established
  <2>6. AskedAndOpen'
    BY <1>0, <2>1, <2>2, <2>4, <2>5 DEF QInv, AskedAndOpen
  <2> QED BY <2>2, <2>3, <2>6, CleanedTraces DEF QInv
<1>2. CASE Creates(o)
  <2>1. PICK c \in Caps, n \in Nodes, p \in Caps \cup {None}, key \in Caps \cup {None} :
          /\ db.pin[c] = None
          /\ p = None <=> c \in Initials
          /\ Describe(o, Inserted(Cleaned, c, n, p), Offer(c, n, TRUE, key))
    BY <1>2 DEF Creates
  <2> DEFINE r == Offer(c, n, TRUE, key)
  <2>2. r \in Pending /\ r.cap = c /\ r.ep = endpoint[n] /\ r.creator /\ r.kind = "offer"
    BY DEF Offer, Pending, Kinds, IInv, Typed
  <2> HIDE DEF r
  <2>3. /\ op[o] = None /\ db' = Inserted(Cleaned, c, n, p) /\ op' = [op EXCEPT ![o] = r]
        /\ waiting' = Append(waiting, o)
    BY <2>1 DEF Describe, r
  <2>4. /\ db'.pin = [db.pin EXCEPT ![c] = n] /\ db'.live = Cleaned.live \cup {c}
        /\ db'.expired = Cleaned.expired
        /\ db'.pending = IF p = None THEN Cleaned.pending ELSE Cleaned.pending \cup {c}
    <3>1. Safe(Cleaned) /\ (c \in Initials => p = None)
      BY <2>1, CleanedSafe
    <3> DEFINE e == Inserted(Cleaned, c, n, p)
    <3>2. /\ e.pin = [db.pin EXCEPT ![c] = n] /\ e.live = Cleaned.live \cup {c}
          /\ e.expired = Cleaned.expired
          /\ e.pending = IF p = None THEN Cleaned.pending ELSE Cleaned.pending \cup {c}
      BY <2>1, <3>1, InsertedSafe
    <3> HIDE DEF e
    <3>3. db' = e
      BY <2>3 DEF e
    <3> QED BY ONLY <3>2, <3>3
  <2>5. None \notin Nodes /\ db.pin \in [Caps -> Nodes \cup {None}]
    BY AssignmentAssumption DEF IInv, Typed, Tables
  <2>6. \A x \in Ops : op[x] # None => op[x].cap # c
    BY <2>1, <2>5 DEF QInv, AskedAndOpen
  <2>7. Queued' /\ CreatorFirst'
    BY <1>0, <2>2, <2>3, <2>6, AppendQueue DEF QInv
  <2>8. Established' \subseteq Established \cup {c} /\ (c \notin Initials => c \notin Established')
    BY <2>1, <2>4, CleanedTraces DEF Established
  <2>9. ASSUME NEW x \in Ops, op'[x] # None
        PROVE  /\ db'.pin[op'[x].cap] \in Nodes
               /\ op'[x].ep = endpoint'[db'.pin[op'[x].cap]]
               /\ op'[x].creator => op'[x].kind = "offer"
               /\ op'[x].creator /\ op'[x].cap \notin Initials => op'[x].cap \notin Established'
    <3>1. CASE x = o
      <4>1. op'[x] = r /\ db'.pin[c] = n
        BY <1>0, <2>3, <2>4, <2>5, <3>1
      <4> QED BY <2>2, <2>8, <4>1
    <3>2. CASE x # o
      <4>1. op'[x] = op[x] /\ op[x] # None
        BY <1>0, <2>3, <2>9, <3>2
      <4>2. op[x].cap \in Caps /\ op[x].cap # c
        BY <1>0, <2>6, <4>1 DEF Pending
      <4>3. db'.pin[op[x].cap] = db.pin[op[x].cap]
        BY <2>4, <2>5, <4>2
      <4> QED BY <2>8, <4>1, <4>2, <4>3 DEF QInv, AskedAndOpen
    <3> QED BY <3>1, <3>2
  <2>10. AskedAndOpen'
    BY <2>9 DEF AskedAndOpen
  <2> QED BY <2>4, <2>7, <2>10, CleanedTraces DEF QInv
<1> QED BY <1>1, <1>2

(* A capability that its creator still waits for cannot be committed: the  *)
(* push of whoever wants to settles later.                                 *)
LEMMA CommitterIsAlone ==
  ASSUME IInv, QInv, NEW o \in Ops, op[o] # None, CanSettle(o), ~op[o].creator,
         NEW x \in Ops, op[x] # None, op[x].creator, op[x].cap \notin Initials
  PROVE  op[x].cap # op[o].cap
<1> SUFFICES ASSUME op[x].cap = op[o].cap PROVE FALSE
  OBVIOUS
<1>0. DOMAIN waiting = 1..Len(waiting) /\ Len(waiting) \in Nat
  BY DEF QInv, Queued
<1>1. PICK i \in 1..Len(waiting) :
        /\ waiting[i] = o
        /\ \A j \in 1..(i - 1) : \/ op[waiting[j]].ep # op[o].ep
                                 \/ db.pin[op[waiting[j]].cap] # db.pin[op[o].cap]
  BY <1>0 DEF CanSettle
<1>2. PICK j \in 1..Len(waiting) : waiting[j] = x
  BY DEF QInv, Queued
<1>3. j <= i /\ j # i
  BY <1>1, <1>2 DEF QInv, CreatorFirst
<1>4. op[x].ep = op[o].ep
  BY DEF QInv, AskedAndOpen
<1> QED BY <1>0, <1>1, <1>2, <1>3, <1>4

LEMMA SettledQInv ==
  ASSUME IInv, QInv, NEW o \in Ops, op[o] # None, Finish(o), endpoint' = endpoint,
         db'.pin = db.pin,
         \A x \in Ops : op[x] # None /\ op[x].creator /\ op[x].cap \notin Initials =>
           op[x].cap \notin Established' \ Established
  PROVE  QInv'
<1>1. op \in [Ops -> Pending \cup {None}]
  BY DEF IInv, Typed
<1>2. Queued' /\ CreatorFirst'
  BY <1>1, FinishQueue DEF QInv
<1>3. op' = [op EXCEPT ![o] = None]
  BY DEF Finish
<1>4. AskedAndOpen'
  BY <1>1, <1>3 DEF QInv, AskedAndOpen
<1> QED BY <1>2, <1>4 DEF QInv

LEMMA ReturnsQInv ==
  ASSUME IInv, QInv, endpoint' = endpoint, NEW o \in Ops,
         OfferReturns(o) \/ CommitReturns(o) \/ PushFails(o)
  PROVE  /\ QInv'
         /\ Established \subseteq db'.live \cup db'.expired \cup db'.revoked
<1>0. /\ db \in Tables /\ op[o] # None /\ Finish(o) /\ CanSettle(o)
      /\ op[o] \in Pending
  BY DEF OfferReturns, CommitReturns, PushFails, IInv, Typed
<1>1. CASE OfferReturns(o)
  BY <1>0, <1>1, SettledQInv DEF OfferReturns, Established
<1>2. CASE PushFails(o)
  <2>1. CASE db' = db
    BY <1>0, <2>1, SettledQInv DEF Established
  <2>2. CASE /\ op[o].creator /\ op[o].cap \notin Initials
             /\ db' = [db EXCEPT !.live = @ \ {op[o].cap}, !.recorded = @ \ {op[o].cap},
                                 !.pending = @ \ {op[o].cap}]
    <3>1. /\ db'.live = db.live \ {op[o].cap} /\ db'.pending = db.pending \ {op[o].cap}
          /\ db'.pin = db.pin
      BY <1>0, <2>2 DEF Tables
    <3>2. op[o].cap \notin Established
      BY <1>0, <2>2 DEF QInv, AskedAndOpen
    <3>3. Established' = Established
      BY <3>1, <3>2 DEF Established
    <3>4. QInv'
      BY <1>0, <3>1, <3>3, SettledQInv
    <3> QED BY <3>1, <3>2, <3>4 DEF Established
  <2> QED BY <1>2, <2>1, <2>2 DEF PushFails
<1>3. CASE CommitReturns(o)
  <2> DEFINE c == op[o].cap
             p == op[o].prev
             d == Retired(db, p)
  <2>1. /\ p \in db.live \cup db.expired /\ c \in db.pending
        /\ db' = [d EXCEPT !.pending = @ \ {c}] /\ op[o].kind = "commit"
    BY <1>3 DEF CommitReturns, Confirmable
  <2>2. /\ d \in Tables /\ d.live = db.live \ {p} /\ d.expired = db.expired \ {p}
        /\ d.revoked = db.revoked \cup {p} /\ d.pending = db.pending /\ d.pin = db.pin
    BY <1>0, <2>1, RetiredFacts
  <2> HIDE DEF d
  <2>3. /\ db'.live = db.live \ {p} /\ db'.expired = db.expired \ {p}
        /\ db'.revoked = db.revoked \cup {p} /\ db'.pending = db.pending \ {c}
        /\ db'.pin = db.pin
    BY <2>1, <2>2 DEF Tables
  <2>4. Established' \subseteq Established \cup {c}
    BY <2>3 DEF Established
  <2>5. c \notin Established
    BY <2>1 DEF Established
  <2>6. ASSUME NEW x \in Ops, op[x] # None, op[x].creator, op[x].cap \notin Initials
        PROVE  op[x].cap # c
    <3>1. ~op[o].creator
      BY <1>0, <2>1 DEF QInv, AskedAndOpen
    <3> QED BY <1>0, <2>6, <3>1, CommitterIsAlone
  <2>7. QInv'
    BY <1>0, <2>3, <2>4, <2>6, SettledQInv
  <2> QED BY <2>3, <2>7 DEF Established
<1> QED BY <1>1, <1>2, <1>3

LEMMA OthersQInv ==
  ASSUME IInv, QInv, endpoint' = endpoint,
         \/ \E c \in Caps : Release(c)
         \/ \E i \in Initials : RetireInitial(i)
         \/ Environment \/ UNCHANGED vars
  PROVE  /\ QInv'
         /\ Established \subseteq db'.live \cup db'.expired \cup db'.revoked
<1> USE DEF nodes, time, history
<1>0. db \in Tables /\ Cleaned \in Tables /\ Cleaned.pin = db.pin /\ Pruned(db).pin = db.pin
  BY CleanedSafe DEF Safe
<1>1. ASSUME NEW c \in Caps, Release(c)
      PROVE  QInv' /\ Established \subseteq db'.live \cup db'.expired \cup db'.revoked
  <2>1. /\ db'.live = db.live \ {c} /\ db'.expired = db.expired \ {c}
        /\ db'.revoked = db.revoked \cup {c} /\ db'.pending = db.pending /\ db'.pin = db.pin
    BY <1>0, <1>1, RetiredFacts DEF Release
  <2> QED BY <1>1, <2>1, QuietQInv DEF Release, Established
<1>2. ASSUME NEW i \in Initials, RetireInitial(i)
      PROVE  QInv' /\ Established \subseteq db'.live \cup db'.expired \cup db'.revoked
  <2> DEFINE d == Cleaned
             r == Retired(d, i)
             m == IF i \in d.recorded THEN r.marked \cup {i} ELSE r.marked
             e == [r EXCEPT !.marked = m, !.pending = @ \ {i}]
  <2>1. db' = e /\ UNCHANGED <<op, waiting>>
    BY <1>2 DEF RetireInitial
  <2>2. /\ r \in Tables /\ r.pin = d.pin /\ r.pending = d.pending
        /\ i \notin r.live /\ r.live \subseteq d.live
        /\ d.live \cup d.expired \subseteq r.live \cup r.expired \cup r.revoked
    <3>1. CASE i \in d.live \cup d.expired
      BY <1>0, <3>1, RetiredFacts
    <3>2. CASE i \notin d.live \cup d.expired
      BY <1>0, <3>2 DEF Retired
    <3> QED BY <3>1, <3>2
  <2> HIDE DEF r, d
  <2>3. /\ e.live = r.live /\ e.expired = r.expired /\ e.revoked = r.revoked
        /\ e.pending = r.pending \ {i} /\ e.pin = r.pin
    BY <2>2 DEF Tables
  <2> HIDE DEF e
  <2>4. Established' \subseteq d.live \ d.pending
    BY <2>1, <2>2, <2>3 DEF Established
  <2>5. QInv'
    BY <1>0, <2>1, <2>2, <2>3, <2>4, CleanedTraces, QuietQInv DEF d
  <2>6. Established \subseteq d.live \cup d.expired
    BY CleanedTraces DEF d
  <2> QED BY <2>1, <2>2, <2>3, <2>5, <2>6
<1>3. CASE Prune
  BY <1>0, <1>3, CleanedTraces, QuietQInv DEF Prune, Established
<1>4. ASSUME NEW c \in Caps, Forget(c)
      PROVE  QInv' /\ Established \subseteq db'.live \cup db'.expired \cup db'.revoked
  <2>1. db'.live = db.live /\ db'.pending = db.pending /\ db'.pin = db.pin
    BY <1>0, <1>4 DEF Forget, Tables
  <2> QED BY <1>4, <2>1, QuietQInv DEF Forget, Established
<1>5. CASE UNCHANGED db /\ UNCHANGED <<op, waiting>>
  BY <1>5, QuietQInv DEF Established
<1>6. CASE Environment
  <2>1. Prune \/ (\E c \in Caps : Forget(c)) \/ (UNCHANGED db /\ UNCHANGED <<op, waiting>>)
    BY <1>6 DEF Environment, Idle, Lapse, RequestExpires, Toggle, Move
  <2> QED BY <1>3, <1>4, <1>5, <2>1
<1>7. CASE UNCHANGED vars
  BY <1>5, <1>7 DEF vars
<1> QED BY <1>1, <1>2, <1>6, <1>7

LEMMA QInvInit == Init => QInv
<1> SUFFICES ASSUME Init PROVE QInv
  OBVIOUS
<1>1. waiting = <<>> /\ \A o \in Ops : op[o] = None
  BY DEF Init
<1>2. waiting \in Seq(Ops) /\ Len(waiting) = 0
  BY <1>1
<1> QED BY <1>1, <1>2 DEF QInv, Queued, CreatorFirst, AskedAndOpen

LEMMA QInvStep ==
  IInv /\ QInv /\ [Next /\ UNCHANGED endpoint]_vars =>
    QInv' /\ Established \subseteq db'.live \cup db'.expired \cup db'.revoked
<1> SUFFICES ASSUME IInv, QInv, [Next]_vars, endpoint' = endpoint
             PROVE  QInv' /\ Established \subseteq db'.live \cup db'.expired \cup db'.revoked
  BY DEF vars
<1>1. ASSUME NEW o \in Ops, AsksAgain(o) \/ Creates(o)
      PROVE  QInv' /\ Established \subseteq db'.live \cup db'.expired \cup db'.revoked
  BY <1>1, AskingQInv
<1>2. ASSUME NEW o \in Ops, OfferReturns(o) \/ CommitReturns(o) \/ PushFails(o)
      PROVE  QInv' /\ Established \subseteq db'.live \cup db'.expired \cup db'.revoked
  BY <1>2, ReturnsQInv
<1> QED BY <1>1, <1>2, HandlersAsk, OthersQInv DEF Next

(* A failed replacement never destroys the current pin, as long as no node *)
(* changes its endpoint: an established lease leaves a tombstone, whatever *)
(* pushes fail and in whatever order handlers overlap (reserve(), grant(), *)
(* commit()).                                                              *)
THEOREM PinsSurvive == Init /\ [][Next /\ UNCHANGED endpoint]_vars => PinNeverDestroyed
<1>1. IInv /\ QInv /\ [Next /\ UNCHANGED endpoint]_vars =>
        QInv' /\ [\A c \in Established : c \in db'.live \cup db'.expired \cup db'.revoked]_vars
  BY QInvStep
<1>2. IInv /\ [Next /\ UNCHANGED endpoint]_vars => IInv'
  BY NextIInv
<1> QED BY <1>1, <1>2, InitIInv, QInvInit, PTL DEF PinNeverDestroyed

-----------------------------------------------------------------------------
(* The browser's flows over the handlers (AssignmentCoordinator).          *)

(* The browser's part of the state, and the node a selection asks for.     *)
BrowserTyped ==
  /\ known \in SUBSET Caps
  /\ CoordinatorTypeOK
  /\ flow.at = "selecting" \/ flow.then = "select" => flow.node \in Nodes

LEMMA BrowserTypedInit == CoordinatorInit => BrowserTyped
<1> SUFFICES ASSUME CoordinatorInit PROVE BrowserTyped
  OBVIOUS
<1>1. known \in SUBSET Caps
  BY AssignmentAssumption DEF CoordinatorInit, Init
<1>2. record \in [active : Caps \cup {None}, initial : Initials \cup {None},
                  prev : Caps \cup {None}, cand : Caps \cup {None},
                  reason : {"none", "restore", "selection", "reconnect"}]
  BY DEF CoordinatorInit
<1>3. /\ flow \in [at : Steps \cup {"idle"}, then : Requests, op : Ops \cup {None},
                   lease : Caps \cup {None}, node : Nodes \cup {None}]
      /\ flow.at = "idle" /\ flow.then = "done"
  BY DEF CoordinatorInit, Idling, Steps, Requests
<1>4. ended \in BOOLEAN
  BY DEF CoordinatorInit
<1> QED BY <1>1, <1>2, <1>3, <1>4 DEF BrowserTyped, CoordinatorTypeOK

(* A step of the browser is a step of the handlers, or none.               *)
LEMMA BrowserIsClient ==
  ASSUME IInv, BrowserTyped, [CoordinatorNext]_cvars
  PROVE  [Next /\ UNCHANGED endpoint]_vars
<1> USE DEF nodes
<1>0. /\ known \in SUBSET Caps /\ record.initial \in Initials \cup {None}
      /\ requestsOver \in SUBSET Initials
  BY DEF BrowserTyped, CoordinatorTypeOK, IInv, Typed
<1>1. ASSUME NEW o \in Ops, NEW r, NEW d, Describe(o, d, r) PROVE UNCHANGED endpoint
  BY <1>1 DEF Describe
<1>2. ASSUME NEW o \in Ops, NEW p, NEW n, NEW key, Reserve(o, p, n, key) PROVE UNCHANGED endpoint
  BY <1>1, <1>2 DEF Reserve
<1>3. ASSUME NEW o \in Ops, Ask(o) PROVE Next /\ UNCHANGED endpoint
  <2>1. ASSUME NEW c, OperateExisting(o, c, "restore") PROVE Next /\ UNCHANGED endpoint
    <3>1. c \in Caps
      BY <1>0, <2>1 DEF OperateExisting
    <3> QED BY <1>1, <1>2, <2>1, <3>1 DEF OperateExisting, Next
  <2>2. CASE OperateInitial(o, record.initial)
    <3>1. record.initial \in Initials
      BY <2>2 DEF OperateInitial
    <3> QED BY <1>1, <2>2, <3>1 DEF OperateInitial, Next
  <2>3. CASE flow.at = "selecting" /\ Select(o, Owner, flow.node)
    <3>1. Owner \in Caps /\ flow.node \in Nodes
      BY <1>0, <2>3 DEF Select, BrowserTyped
    <3> QED BY <1>2, <2>3, <3>1 DEF Select, Next
  <2>4. CASE OperateNew(o, Owner)
    <3>1. Owner \in Caps
      BY <1>0, <2>4 DEF OperateNew
    <3> QED BY <1>2, <2>4, <3>1 DEF OperateNew, Next
  <2>5. CASE Commit(o, record.prev, record.cand)
    <3>1. record.prev \in Caps /\ record.cand \in Caps
      BY <1>0, <2>5 DEF Commit
    <3> QED BY <1>1, <2>5, <3>1 DEF Commit, Next
  <2> QED BY <1>3, <2>1, <2>2, <2>3, <2>4, <2>5 DEF Ask
<1>4. ASSUME NEW o \in Ops, Receive(o) \/ Fails(o) PROVE Next /\ UNCHANGED endpoint
  BY <1>4 DEF Receive, Fails, OfferReturns, CommitReturns, PushFails, Finish, Next
<1>5. CASE Retire
  <2>1. record.initial \in Initials /\ RetireInitial(record.initial)
    BY <1>0, <1>5 DEF Retire, RetireInitial
  <2> QED BY <2>1 DEF RetireInitial, Next
<1>6. CASE Elsewhere
  BY <1>6 DEF Elsewhere, Release, Forget, Lapse, Prune, Idle, RequestExpires, Next, Environment
<1>7. CASE \/ \E request \in Requests, n \in Nodes \cup {None} : Start(request, n)
           \/ Bootstrap \/ PreviousUnavailable \/ Refusal \/ Activate
           \/ GiveUp /\ UNCHANGED vars
  BY <1>7 DEF Start, Bootstrap, PreviousUnavailable, Refusal, Activate
<1>8. CASE UNCHANGED cvars
  BY <1>8 DEF cvars
<1> QED BY <1>3, <1>4, <1>5, <1>6, <1>7, <1>8 DEF CoordinatorNext

Records == [active : Caps \cup {None}, initial : Initials \cup {None},
            prev : Caps \cup {None}, cand : Caps \cup {None},
            reason : {"none", "restore", "selection", "reconnect"}]
Flows == [at : Steps \cup {"idle"}, then : Requests, op : Ops \cup {None},
          lease : Caps \cup {None}, node : Nodes \cup {None}]

LEMMA BrowserTypedStep ==
  ASSUME IInv, BrowserTyped, [CoordinatorNext]_cvars
  PROVE  BrowserTyped'
<1> DEFINE B == /\ record' \in Records /\ flow' \in Flows /\ ended' \in BOOLEAN
                /\ flow'.at = "selecting" \/ flow'.then = "select" => flow'.node \in Nodes
<1>0. /\ record \in Records /\ flow \in Flows /\ ended \in BOOLEAN /\ known \in SUBSET Caps
      /\ flow.at = "selecting" \/ flow.then = "select" => flow.node \in Nodes
      /\ db.prev \in [Caps -> Caps \cup {None}]
  BY DEF BrowserTyped, CoordinatorTypeOK, Records, Flows, IInv, Typed, Tables
<1>1. Idling \in Flows /\ Idling.at = "idle" /\ Idling.then = "done"
  BY DEF Idling, Flows, Steps, Requests
<1>2. ASSUME flow' = Idling, ended' \in BOOLEAN, record' = record PROVE B
  BY <1>0, <1>1, <1>2
<1>3. ASSUME NEW step \in Steps \ {"selecting"}, NEW c \in Caps \cup {None}, Goto(step, c)
      PROVE  flow' \in Flows /\ (flow'.at = "selecting" \/ flow'.then = "select" => flow'.node \in Nodes)
  BY <1>0, <1>3 DEF Goto, Flows
<1>4. ASSUME NEW c \in Caps \cup {None}, db.prev[c] \in Caps \cup {None},
             NEW reason \in {"none", "restore", "selection", "reconnect"}, Journal(c, reason)
      PROVE  B
  <2>1. "committing" \in Steps \ {"selecting"} /\ None \in Caps \cup {None}
    BY DEF Steps
  <2>2. record' \in Records
    BY <1>0, <1>4 DEF Journal, Records
  <2> QED BY <1>0, <1>3, <1>4, <2>1, <2>2 DEF Journal
<1>5. AcceptCandidate(flow.lease) => B
  <2>1. flow.lease \in Caps \cup {None} /\ {record.prev, record.cand} \subseteq Caps \cup {None}
        /\ record.reason \in {"none", "restore", "selection", "reconnect"}
    BY <1>0 DEF Records, Flows
  <2> QED BY <1>4, <2>1 DEF AcceptCandidate
<1>6. ASSUME NEW c \in Caps, Got(c) PROVE B
  <2>1. ASSUME NEW step \in Steps \ {"selecting"}, Goto(step, c), UNCHANGED <<record, ended>> PROVE B
    BY <1>0, <1>3, <2>1
  <2>2. CASE Adopt(c)
    <3>1. record' \in Records
      BY <1>0, <2>2 DEF Adopt, Records
    <3>2. "activating" \in Steps \ {"selecting"}
      BY DEF Steps
    <3> QED BY <1>0, <1>3, <2>2, <3>1, <3>2 DEF Adopt
  <2>3. CASE AcceptCandidate(flow.lease)
    BY <1>5, <2>3
  <2>4. ASSUME NEW reason \in {"none", "restore", "selection", "reconnect"}, Journal(c, reason) PROVE B
    BY <1>0, <1>4, <2>4
  <2>5. {"activating", "previous"} \subseteq Steps \ {"selecting"}
    BY DEF Steps
  <2> QED BY <1>6, <2>1, <2>2, <2>3, <2>4, <2>5 DEF Got
<1>7. ToldGone => B
  <2>1. "fallback" \in Steps \ {"selecting"} /\ None \in Caps \cup {None}
    BY DEF Steps
  <2> QED BY <1>0, <1>2, <1>3, <2>1 DEF ToldGone
<1>8. GiveUp => B
  BY <1>0, <1>2 DEF GiveUp
<1>9. UNCHANGED browser => B
  BY <1>0 DEF browser
<1>10. ASSUME NEW request \in Requests, NEW n \in Nodes \cup {None}, Start(request, n) PROVE B
  <2>1. Entry(request) \in Steps \ {"selecting"}
    BY DEF Entry, Steps
  <2>2. n # None <=> request = "select"
    BY <1>10 DEF Start
  <2>3. flow' \in Flows /\ (flow'.at = "selecting" \/ flow'.then = "select" => flow'.node \in Nodes)
    <3> DEFINE then == IF request = "reconnect" /\ record.cand = None THEN "done" ELSE request
    <3>1. flow' = [Idling EXCEPT !.at = Entry(request), !.node = n, !.then = then]
      BY <1>10 DEF Start
    <3>2. then \in Requests /\ (then = "select" => request = "select")
      BY DEF Requests
    <3> HIDE DEF then
    <3> QED BY <1>1, <2>1, <2>2, <3>1, <3>2 DEF Flows
  <2> QED BY <1>0, <1>10, <2>3 DEF Start
<1>11. ASSUME NEW o \in Ops, Ask(o) PROVE B
  <2>1. flow' = [flow EXCEPT !.op = o] /\ UNCHANGED <<record, ended>>
    BY <1>11 DEF Ask
  <2> QED BY <1>0, <2>1 DEF Flows
<1>12. ASSUME NEW o \in Ops, Receive(o) PROVE B
  <2>1. op[o] \in Pending /\ op[o].cap \in Caps
    BY <1>12 DEF Receive, OfferReturns, CommitReturns, IInv, Typed, Pending
  <2> QED BY <1>6, <1>9, <1>12, <2>1 DEF Receive
<1>13. ASSUME NEW o \in Ops, Fails(o) PROVE B
  BY <1>7, <1>8, <1>9, <1>13 DEF Fails
<1>14. Bootstrap => B
  <2> SUFFICES ASSUME Bootstrap PROVE B
    OBVIOUS
  <2>1. record' \in Records
    BY <1>0 DEF Bootstrap, Records
  <2> QED BY <1>0, <2>1 DEF Bootstrap
<1>15. Retire => B
  <2> SUFFICES ASSUME Retire PROVE B
    OBVIOUS
  <2>1. CASE GiveUp
    BY <1>8, <2>1
  <2>2. CASE record' = [record EXCEPT !.initial = None] /\ Goto("again", None) /\ UNCHANGED ended
    <3>1. record' \in Records
      BY <1>0, <2>2 DEF Records
    <3>2. "again" \in Steps \ {"selecting"} /\ None \in Caps \cup {None}
      BY DEF Steps
    <3> QED BY <1>0, <1>3, <2>2, <3>1, <3>2
  <2> QED BY <2>1, <2>2 DEF Retire
<1>16. Activate => B
  <2> SUFFICES ASSUME Activate PROVE B
    OBVIOUS
  <2>1. record' \in Records /\ ended' \in BOOLEAN
    BY <1>0 DEF Activate, Records, Flows
  <2>2. CASE flow' = Idling
    BY <1>1, <2>1, <2>2
  <2>3. CASE /\ flow.then # "done"
             /\ flow' = [flow EXCEPT !.then = "done", !.lease = None,
                            !.at = IF flow.then = "select" THEN "selecting" ELSE "replacing"]
    <3> DEFINE at == IF flow.then = "select" THEN "selecting" ELSE "replacing"
    <3>1. at \in Steps /\ (at = "selecting" => flow.node \in Nodes)
      BY <1>0 DEF Steps
    <3>2. flow' = [flow EXCEPT !.then = "done", !.lease = None, !.at = at]
      BY <2>3
    <3> HIDE DEF at
    <3> QED BY <1>0, <2>1, <3>1, <3>2 DEF Flows, Requests
  <2> QED BY <2>2, <2>3 DEF Activate
<1>17. B
  BY <1>5, <1>7, <1>8, <1>9, <1>10, <1>11, <1>12, <1>13, <1>14, <1>15, <1>16
     DEF CoordinatorNext, cvars, PreviousUnavailable, Refusal, Elsewhere, browser
<1>18. known' \in SUBSET Caps
  <2>1. known' = known \/ \E o \in Ops : OfferReturns(o) \/ CommitReturns(o)
    <3>1. \A o \in Ops : Ask(o) => known' = known
      <4>1. ASSUME NEW o, NEW d, NEW r, Describe(o, d, r) PROVE known' = known
        BY <4>1 DEF Describe
      <4>2. ASSUME NEW o, NEW p, NEW n, NEW key, Reserve(o, p, n, key) PROVE known' = known
        BY <4>1, <4>2 DEF Reserve
      <4> QED BY <4>1, <4>2 DEF Ask, OperateExisting, OperateInitial, OperateNew, Select, Commit
    <3> QED BY <3>1 DEF CoordinatorNext, cvars, vars, Start, Receive, Fails, PushFails, Bootstrap, Retire,
             RetireInitial, PreviousUnavailable, Refusal, Activate, Elsewhere,
             Release, Forget, Lapse, Prune, Idle, RequestExpires
  <2>2. ASSUME NEW o \in Ops, OfferReturns(o) \/ CommitReturns(o) PROVE known' \in SUBSET Caps
    <3>1. op[o] \in Pending /\ op[o].cap \in Caps
      BY <2>2 DEF OfferReturns, CommitReturns, IInv, Typed, Pending
    <3> QED BY <1>0, <2>2, <3>1 DEF OfferReturns, CommitReturns
  <2> QED BY <1>0, <2>1, <2>2
<1> QED BY <1>17, <1>18 DEF BrowserTyped, CoordinatorTypeOK, Records, Flows

(* The browser is a client of the handlers: all that is proved of them     *)
(* holds with it, whatever its flows do and wherever they are given up.    *)
THEOREM BrowserClient == CoordinatorSpec => Init /\ [][Next /\ UNCHANGED endpoint]_vars
<1>1. CoordinatorInit => Init
  BY DEF CoordinatorInit
<1>2. IInv /\ BrowserTyped /\ [CoordinatorNext]_cvars =>
        IInv' /\ BrowserTyped' /\ [Next /\ UNCHANGED endpoint]_vars
  <2> SUFFICES ASSUME IInv, BrowserTyped, [CoordinatorNext]_cvars
               PROVE  IInv' /\ BrowserTyped' /\ [Next /\ UNCHANGED endpoint]_vars
    OBVIOUS
  <2>1. [Next /\ UNCHANGED endpoint]_vars
    BY BrowserIsClient
  <2> QED BY <2>1, BrowserTypedStep, NextIInv
<1>3. Init => IInv
  BY InitIInv
<1> QED BY <1>1, <1>2, <1>3, BrowserTypedInit, PTL DEF CoordinatorSpec

(* So with the browser a failed replacement never destroys the current pin *)
(* either ("A failed replacement never destroys the current pin.",         *)
(* server/node-pool.mjs): its nodes keep their endpoints.                  *)
THEOREM BrowserPinsSurvive == CoordinatorSpec => PinNeverDestroyed
  BY BrowserClient, PinsSurvive

-----------------------------------------------------------------------------
(* The browser never loses sight of a lease it owns.  Tables, records and  *)
(* flows are parameters here, so that a fact can be stated of the state    *)
(* the server leaves in a step and of the one the browser then leaves.     *)

(* A lease that is gone or can only go. *)
Over(d, l, c) == c \notin d.live \/ c \in d.pending \cap l

(* Where leases come from.                                                 *)
LineageOK(d, i) ==
  /\ \A c \in Caps : d.pin[c] = None => c \notin d.pending \cup i /\ d.prev[c] = None
  /\ \A c \in Caps : d.prev[c] # None => d.pin[d.prev[c]] # None
  /\ \A c \in d.pending : d.prev[c] # None
  /\ \A c \in Legacy : d.prev[c] = None /\ d.pin[c] # None
  /\ d.live \ Legacy \subseteq d.recorded

(* When a replacement is established, or has expired, its predecessor is   *)
(* gone; so is the predecessor of a predecessor.                           *)
PredecessorsGone(d, i) ==
  \A c \in Caps : d.prev[c] # None =>
    /\ c \in d.expired \cup (d.live \ d.pending) => d.prev[c] \notin d.live
    /\ c \in i => d.prev[c] \notin d.live \ i
    /\ d.prev[d.prev[c]] \notin d.live

(* A replacement that is written down has the predecessor that is written  *)
(* down with it; the active lease is not a reservation, and if it is not   *)
(* the one to be replaced it is gone.                                      *)
RecordOK(r, d) ==
  /\ r.cand = None => r.prev = None
  /\ r.cand # None => d.pin[r.cand] # None /\ r.prev = d.prev[r.cand] /\ r.prev # None
  /\ r.active # None => d.pin[r.active] # None /\ r.active \notin d.pending
  /\ r.cand # None /\ r.active \notin {None, r.prev} => r.active \notin d.live

(* Whoever can still confirm a reservation confirms the one that is        *)
(* written down.                                                           *)
CommitsOK(r, ops, d, l) ==
  \A o \in Ops :
    ops[o] # None /\ ops[o].kind = "commit" /\ ops[o].cap \in (d.live \cap d.pending) \ l
    => ops[o].cap = r.cand

(* What the handler a flow waits for was asked about.                      *)
AskedOK(f, r, ops, d) ==
  f.op # None =>
    /\ ops[f.op] # None
    /\ ops[f.op].kind = "commit" => f.at = "committing"
    /\ f.at \notin {"idle", "activating"}
    /\ f.at = "candidate" =>
         \/ ops[f.op].cap = r.cand
         \/ d.prev[ops[f.op].cap] = r.cand /\ r.cand \notin d.live
    /\ f.at = "fallback" => ops[f.op].cap = r.prev \/ d.prev[ops[f.op].cap] = r.prev
    /\ f.at \in {"first", "again"} => ops[f.op].cap = r.initial
    /\ f.at = "committing" => ops[f.op].cap = r.cand

(* What a flow may rely on at each of its steps.                           *)
FlowOK(f, r, d, l) ==
  /\ f.at \in {"owner", "selecting", "replacing", "first", "again"} => r.cand = None
  /\ f.at \in {"candidate", "fallback", "previous", "committing"} => r.cand # None
  /\ f.at = "fallback" => Over(d, l, r.cand)
  /\ f.at = "previous" =>
       /\ f.lease \in Caps /\ d.pin[f.lease] # None
       /\ \/ f.lease = r.cand
          \/ d.prev[f.lease] = r.cand /\ r.cand \notin d.live
  /\ f.at = "activating" =>
       /\ f.lease \in Caps /\ d.pin[f.lease] # None /\ f.lease \notin d.pending
       /\ \A c \in {r.active, r.prev, r.cand} \ {f.lease, None} : Over(d, l, c)

LeasesOK(d, i) == LineageOK(d, i) /\ PredecessorsGone(d, i)

-----------------------------------------------------------------------------
(* Leases and tombstones are taken away.                                   *)
LEMMA RemovingLeases ==
  ASSUME NEW d \in Tables, NEW e \in Tables, NEW i, LeasesOK(d, i),
         e.pin = d.pin, e.prev = d.prev, e.live \subseteq d.live, e.expired \subseteq d.expired,
         e.live \ e.pending \subseteq d.live \ d.pending, e.pending \subseteq d.pending,
         e.live \ Legacy \subseteq e.recorded
  PROVE  LeasesOK(e, i)
<1>1. LineageOK(e, i)
  BY DEF LeasesOK, LineageOK
<1>2. PredecessorsGone(e, i)
  BY DEF LeasesOK, PredecessorsGone
<1> QED BY <1>1, <1>2 DEF LeasesOK

(* Idle leases become tombstones.                                          *)
LEMMA PrunedLeases ==
  ASSUME IInv, LeasesOK(db, idle)
  PROVE  LeasesOK(Pruned(db), idle)
<1> DEFINE e == Pruned(db)
<1>1. /\ e.live = db.live \ idle /\ e.expired = db.expired \cup (db.live \cap idle)
      /\ e.pin = db.pin /\ e.prev = db.prev /\ e.pending = db.pending
      /\ e.recorded = db.recorded
  BY DEF Pruned, IInv, Typed, Tables
<1> HIDE DEF e
<1>2. LineageOK(e, idle)
  BY <1>1 DEF LeasesOK, LineageOK
<1>3. PredecessorsGone(e, idle)
  BY <1>1 DEF LeasesOK, PredecessorsGone
<1> QED BY <1>2, <1>3 DEF LeasesOK, e

(* cleanup() also drops lapsed reservations.                               *)
LEMMA CleanedLeases ==
  ASSUME IInv, LeasesOK(db, idle)
  PROVE  /\ LeasesOK(Cleaned, idle)
         /\ Cleaned.live \subseteq db.live
<1> DEFINE d == Pruned(db)
           late == d.pending \cap lapsed
           e == Cleaned
<1>1. d \in Tables /\ e \in Tables /\ d.live \subseteq db.live
  BY CleanedSafe DEF Safe, Pruned, IInv, Typed, Tables
<1>2. /\ e.live = d.live \ late /\ e.expired = d.expired /\ e.pending = d.pending \ late
      /\ e.pin = d.pin /\ e.prev = d.prev
      /\ d.recorded \cap e.live \subseteq e.recorded
  BY <1>1 DEF Cleaned, Tables
<1>3. LeasesOK(d, idle)
  BY PrunedLeases
<1> HIDE DEF d, e, late
<1>4. e.live \ Legacy \subseteq e.recorded
  BY <1>2, <1>3 DEF LeasesOK, LineageOK
<1>5. LeasesOK(e, idle)
  BY <1>1, <1>2, <1>3, <1>4, RemovingLeases
<1> QED BY <1>1, <1>2, <1>5 DEF e

(* A reservation is made for an owner that is not itself a reservation.    *)
LEMMA InsertedLeases ==
  ASSUME IInv, LeasesOK(db, idle), NEW c \in Caps, db.pin[c] = None, NEW n \in Nodes,
         NEW p \in Caps \cup {None}, c \in Initials => p = None,
         p # None => p \in Cleaned.expired \cup (Cleaned.live \ Cleaned.pending)
  PROVE  LeasesOK(Inserted(Cleaned, c, n, p), idle)
<1> DEFINE d == Cleaned
           e == Inserted(d, c, n, p)
<1>1. d \in Tables /\ d.pin = db.pin /\ LeasesOK(d, idle) /\ Safe(d)
  BY CleanedSafe, CleanedLeases DEF Safe
<1> HIDE DEF d
<1>2. /\ e.live = d.live \cup {c} /\ e.expired = d.expired /\ e.recorded = d.recorded \cup {c}
      /\ e.pending = IF p = None THEN d.pending ELSE d.pending \cup {c}
      /\ e.pin = [d.pin EXCEPT ![c] = n] /\ e.prev = [d.prev EXCEPT ![c] = p]
  BY <1>1 DEF Inserted, Tables
<1> HIDE DEF e
<1>3. /\ d.pin \in [Caps -> Nodes \cup {None}] /\ d.prev \in [Caps -> Caps \cup {None}]
      /\ None \notin Nodes /\ None \notin Caps /\ d.pin[c] = None
      /\ \A x \in d.live \cup d.expired : x \in Caps /\ d.pin[x] # None
  BY <1>1, AssignmentAssumption DEF Tables, Safe
<1>4. /\ \A x \in Caps : e.pin[x] = IF x = c THEN n ELSE d.pin[x]
      /\ \A x \in Caps : e.prev[x] = IF x = c THEN p ELSE d.prev[x]
  BY <1>2, <1>3
<1>5. c \notin d.live \cup d.expired \cup d.pending \cup idle
  BY <1>1, <1>3 DEF LeasesOK, LineageOK
<1>6. p # None => p \in Caps /\ p # c /\ d.pin[p] # None
  BY <1>3 DEF d
<1>7. \A x \in Caps : d.prev[x] # c
  BY <1>1, <1>3 DEF LeasesOK, LineageOK
<1>8. LineageOK(e, idle)
  <2>1. c \notin Legacy
    BY <1>1, <1>3 DEF LeasesOK, LineageOK
  <2> QED BY <1>1, <1>2, <1>3, <1>4, <1>5, <1>6, <2>1 DEF LeasesOK, LineageOK
<1>9. ASSUME NEW x \in Caps, e.prev[x] # None
      PROVE  /\ x \in e.expired \cup (e.live \ e.pending) => e.prev[x] \notin e.live
             /\ x \in idle => e.prev[x] \notin e.live \ idle
             /\ e.prev[e.prev[x]] \notin e.live
  <2>1. CASE x = c
    <3>1. e.prev[x] = p /\ p # None /\ p \in Caps /\ p # c /\ e.prev[p] = d.prev[p]
      BY <1>4, <1>6, <1>9, <2>1
    <3>2. x \notin e.expired \cup (e.live \ e.pending) \cup idle
      BY <1>2, <1>5, <2>1, <3>1
    <3>3. p \in d.expired \cup (d.live \ d.pending)
      BY <3>1 DEF d
    <3>4. d.prev[p] # None => d.prev[p] \notin d.live /\ d.prev[p] # c
      BY <1>1, <1>7, <3>1, <3>3 DEF LeasesOK, PredecessorsGone
    <3>5. None \notin e.live
      BY <1>2, <1>3
    <3> QED BY <1>2, <3>1, <3>2, <3>4, <3>5
  <2>2. CASE x # c
    <3>1. e.prev[x] = d.prev[x] /\ d.prev[x] # None /\ d.prev[x] # c /\ d.prev[x] \in Caps
      BY <1>3, <1>4, <1>7, <1>9, <2>2
    <3>2. e.prev[e.prev[x]] = d.prev[d.prev[x]] /\ d.prev[d.prev[x]] # c
      BY <1>4, <1>7, <3>1
    <3>3. /\ x \in d.expired \cup (d.live \ d.pending) => d.prev[x] \notin d.live
          /\ x \in idle => d.prev[x] \notin d.live \ idle
          /\ d.prev[d.prev[x]] \notin d.live
      BY <1>1, <3>1 DEF LeasesOK, PredecessorsGone
    <3>4. x \in e.expired \cup (e.live \ e.pending) => x \in d.expired \cup (d.live \ d.pending)
      BY <1>2, <2>2
    <3> QED BY <1>2, <3>1, <3>2, <3>3, <3>4
  <2> QED BY <2>1, <2>2
<1>10. LeasesOK(e, idle)
  BY <1>8, <1>9 DEF LeasesOK, PredecessorsGone
<1> QED BY <1>10 DEF e, d

(* The predecessor is retired and its replacement established.             *)
LEMMA CommittedLeases ==
  ASSUME IInv, NEW i, LeasesOK(db, i), NEW e \in Tables, NEW c \in Caps, NEW p \in Caps,
         db.prev[c] = p, e.pin = db.pin, e.prev = db.prev, e.live = db.live \ {p},
         e.expired \subseteq db.expired, e.pending = db.pending \ {c}, e.recorded = db.recorded
  PROVE  LeasesOK(e, i)
<1>1. LineageOK(e, i)
  BY DEF LeasesOK, LineageOK
<1>2. PredecessorsGone(e, i)
  BY DEF LeasesOK, PredecessorsGone
<1> QED BY <1>1, <1>2 DEF LeasesOK

-----------------------------------------------------------------------------
(* What a step does to a capability that has a pin.                        *)
Stays ==
  /\ lapsed \subseteq lapsed'
  /\ \A c \in Caps : db.pin[c] # None =>
       /\ db'.pin[c] = db.pin[c] /\ db'.prev[c] = db.prev[c]
       /\ c \in db'.live => c \in db.live
       /\ c \in db'.pending => c \in db.pending
       /\ c \in db'.live \cap db.pending \cap lapsed => c \in db'.pending

(* A handler that only looks.                                              *)
LEMMA CleanedStays ==
  ASSUME IInv, LeasesOK(db, idle), UNCHANGED <<lapsed, idle>>, db' = Cleaned
  PROVE  LeasesOK(db', idle') /\ Stays
<1>1. /\ Cleaned.pin = db.pin /\ Cleaned.prev = db.prev /\ Cleaned.live \subseteq db.live
      /\ Cleaned.pending = db.pending \ (db.pending \cap lapsed)
  BY CleanedKeeps, CleanedLeases
<1>2. Cleaned.live \cap db.pending \cap lapsed = {}
  BY DEF Cleaned, Pruned, IInv, Typed, Tables
<1> QED BY <1>1, <1>2, CleanedLeases DEF Stays

(* A handler that makes a lease.                                           *)
LEMMA InsertedStays ==
  ASSUME IInv, LeasesOK(db, idle), UNCHANGED <<lapsed, idle>>,
         NEW c \in Caps, db.pin[c] = None, NEW n \in Nodes, NEW p \in Caps \cup {None},
         c \in Initials => p = None,
         p # None => p \in Cleaned.expired \cup (Cleaned.live \ Cleaned.pending),
         db' = Inserted(Cleaned, c, n, p)
  PROVE  /\ LeasesOK(db', idle') /\ Stays
         /\ db'.prev[c] = p /\ db'.pin[c] = n /\ db'.live = Cleaned.live \cup {c}
         /\ c \in db'.pending <=> p # None
<1> DEFINE d == Cleaned
<1>1. /\ d \in Tables /\ d.pin = db.pin /\ d.prev = db.prev /\ d.live \subseteq db.live
      /\ d.pending = db.pending \ (db.pending \cap lapsed)
  BY CleanedKeeps, CleanedLeases, CleanedSafe DEF Safe
<1>2. d.live \cap db.pending \cap lapsed = {}
  BY DEF Cleaned, Pruned, IInv, Typed, Tables
<1>3. c \notin d.pending
  BY <1>1 DEF LeasesOK, LineageOK
<1> HIDE DEF d
<1>4. /\ db'.live = d.live \cup {c} 
      /\ db'.pending = IF p = None THEN d.pending ELSE d.pending \cup {c}
      /\ db'.pin = [d.pin EXCEPT ![c] = n] /\ db'.prev = [d.prev EXCEPT ![c] = p]
  BY <1>1 DEF Inserted, Tables, d
<1>5. d.pin \in [Caps -> Nodes \cup {None}] /\ d.prev \in [Caps -> Caps \cup {None}]
  BY <1>1 DEF Tables
<1>6. /\ \A x \in Caps : db'.pin[x] = IF x = c THEN n ELSE d.pin[x]
      /\ \A x \in Caps : db'.prev[x] = IF x = c THEN p ELSE d.prev[x]
  BY <1>4, <1>5
<1>7. Stays
  BY <1>1, <1>2, <1>4, <1>6 DEF Stays
<1>8. LeasesOK(db', idle')
  BY InsertedLeases
<1>9. db'.prev[c] = p /\ db'.pin[c] = n /\ db'.live = Cleaned.live \cup {c}
  BY <1>4, <1>6 DEF d
<1> QED BY <1>3, <1>4, <1>7, <1>8, <1>9

(* Everything the server does by itself, and what a push ends with.        *)
LEMMA OthersStay ==
  ASSUME IInv, LeasesOK(db, idle), CoordinatorTypeOK,
         \/ \E o \in Ops : OfferReturns(o) \/ CommitReturns(o) \/ PushFails(o)
         \/ \E i \in Initials : RetireInitial(i)
         \/ Elsewhere
         \/ UNCHANGED vars
  PROVE  LeasesOK(db', idle') /\ Stays
<1>0. /\ db \in Tables /\ op \in [Ops -> Pending \cup {None}] /\ Safe(db)
      /\ None \notin Caps /\ LineageOK(db, idle) /\ PredecessorsGone(db, idle)
  BY CleanedSafe, AssignmentAssumption DEF IInv, Typed, LeasesOK
<1>1. ASSUME UNCHANGED <<db, idle>>, lapsed \subseteq lapsed' PROVE LeasesOK(db', idle') /\ Stays
  BY <1>1 DEF Stays
<1>2. ASSUME NEW o \in Ops, CommitReturns(o) PROVE LeasesOK(db', idle') /\ Stays
  <2> DEFINE c == op[o].cap
             p == op[o].prev
             r == Retired(db, p)
  <2>1. /\ c \in db.live \cap db.pending /\ db.prev[c] = p /\ c \notin lapsed
        /\ p \in db.live \cup db.expired /\ c \in Caps /\ p \in Caps
        /\ db' = [r EXCEPT !.pending = @ \ {c}] /\ UNCHANGED <<idle, lapsed>>
    BY <1>0, <1>2 DEF CommitReturns, Confirmable, Finish, time, Tables
  <2>2. /\ r \in Tables /\ r.live = db.live \ {p} /\ r.expired = db.expired \ {p}
        /\ r.pending = db.pending /\ r.pin = db.pin
        /\ r.prev = db.prev /\ r.recorded = db.recorded
    BY <1>0, <2>1, RetiredFacts DEF Retired, Tables
  <2> HIDE DEF c, p, r
  <2>3. /\ db' \in Tables /\ db'.live = db.live \ {p} /\ db'.expired \subseteq db.expired
        /\ db'.pending = db.pending \ {c} /\ db'.pin = db.pin
        /\ db'.prev = db.prev /\ db'.recorded = db.recorded
    BY <2>1, <2>2 DEF Tables
  <2>4. LeasesOK(db', idle)
    BY <1>0, <2>1, <2>3, CommittedLeases
  <2> QED BY <2>1, <2>3, <2>4 DEF Stays
<1>3. ASSUME NEW o \in Ops, PushFails(o) PROVE LeasesOK(db', idle') /\ Stays
  <2> DEFINE c == op[o].cap
  <2>1. UNCHANGED <<idle, lapsed>>
    BY <1>3 DEF PushFails, Finish, time
  <2>2. CASE db' = db
    BY <1>1, <2>1, <2>2
  <2>3. CASE db' = [db EXCEPT !.live = @ \ {c}, !.recorded = @ \ {c}, !.pending = @ \ {c}]
    <3> HIDE DEF c
    <3>1. /\ db' \in Tables /\ db'.live = db.live \ {c} /\ db'.recorded = db.recorded \ {c}
          /\ db'.pending = db.pending \ {c} /\ db'.pin = db.pin /\ db'.prev = db.prev
          /\ db'.expired = db.expired
      BY <1>0, <2>3 DEF Tables
    <3>2. db'.live \ Legacy \subseteq db'.recorded
      BY <1>0, <3>1 DEF LineageOK
    <3>3. LeasesOK(db', idle)
      BY <1>0, <3>1, <3>2, RemovingLeases
    <3> QED BY <2>1, <3>1, <3>3 DEF Stays
  <2> QED BY <1>3, <2>2, <2>3 DEF PushFails
<1>4. ASSUME NEW c \in Caps, Release(c) PROVE LeasesOK(db', idle') /\ Stays
  <2>1. /\ db' \in Tables /\ db'.live = db.live \ {c} /\ db'.expired = db.expired \ {c}
        /\ db'.pending = db.pending /\ db'.pin = db.pin
        /\ db'.prev = db.prev /\ db'.recorded = db.recorded /\ UNCHANGED <<idle, lapsed>>
    BY <1>0, <1>4, RetiredFacts DEF Release, time, Retired, Tables
  <2>2. LeasesOK(db', idle)
    <3>1. db'.live \ Legacy \subseteq db'.recorded
      BY <1>0, <2>1 DEF LineageOK
    <3> QED BY <1>0, <2>1, <3>1, RemovingLeases
  <2> QED BY <2>1, <2>2 DEF Stays
<1>5. ASSUME NEW i \in Initials, RetireInitial(i) PROVE LeasesOK(db', idle') /\ Stays
  <2> DEFINE d == Cleaned
             r == Retired(d, i)
  <2>1. /\ d \in Tables /\ LeasesOK(d, idle) /\ d.live \subseteq db.live
        /\ Initials \cap d.pending = {} /\ d.pin = db.pin /\ d.prev = db.prev
        /\ d.pending = db.pending \ (db.pending \cap lapsed)
        /\ d.live \cap db.pending \cap lapsed = {}
    BY CleanedSafe, CleanedLeases, CleanedKeeps DEF Safe, Cleaned, Pruned, IInv, Typed, Tables
  <2> HIDE DEF d
  <2>2. /\ r \in Tables /\ r.live \subseteq d.live /\ r.expired \subseteq d.expired
        /\ r.pending = d.pending /\ r.pin = d.pin
        /\ r.prev = d.prev /\ r.recorded = d.recorded
    BY <2>1, RetiredFacts DEF Retired, Tables
  <2> HIDE DEF r
  <2>3. db' = [r EXCEPT !.marked = IF i \in d.recorded THEN @ \cup {i} ELSE @,
                 !.pending = @ \ {i}] /\ UNCHANGED <<idle, lapsed>>
    BY <1>5 DEF RetireInitial, time, d, r
  <2>4. i \in Caps
    BY AssignmentAssumption
  <2>5. /\ db' \in Tables /\ db'.live = r.live /\ db'.expired = r.expired
        /\ db'.pending = r.pending \ {i} /\ db'.pin = r.pin
        /\ db'.prev = r.prev /\ db'.recorded = r.recorded
    BY <2>2, <2>3, <2>4 DEF Tables
  <2>6. db'.pending = d.pending
    BY <2>1, <2>2, <2>5
  <2>7. LeasesOK(db', idle)
    <3>1. db'.live \ Legacy \subseteq db'.recorded
      BY <2>1, <2>2, <2>5 DEF LeasesOK, LineageOK
    <3> QED BY <2>1, <2>2, <2>5, <2>6, <3>1, RemovingLeases
  <2> QED BY <2>1, <2>2, <2>3, <2>5, <2>6, <2>7 DEF Stays
<1>6. ASSUME Prune PROVE LeasesOK(db', idle') /\ Stays
  <2>1. db' = Pruned(db) /\ UNCHANGED <<idle, lapsed>>
    BY <1>6 DEF Prune, time
  <2>2. /\ Pruned(db).live \subseteq db.live /\ Pruned(db).pending = db.pending
        /\ Pruned(db).pin = db.pin /\ Pruned(db).prev = db.prev
    BY <1>0 DEF Pruned, Tables
  <2> QED BY <2>1, <2>2, PrunedLeases DEF Stays
<1>7. ASSUME NEW c \in Caps, Forget(c) PROVE LeasesOK(db', idle') /\ Stays
  <2>1. /\ db' \in Tables /\ db'.live = db.live /\ db'.expired = db.expired \ {c}
        /\ db'.pending = db.pending /\ db'.pin = db.pin
        /\ db'.prev = db.prev /\ db'.recorded = db.recorded /\ UNCHANGED <<idle, lapsed>>
    BY <1>0, <1>7 DEF Forget, time, Tables
  <2>2. LeasesOK(db', idle)
    <3>1. db'.live \ Legacy \subseteq db'.recorded
      BY <1>0, <2>1 DEF LineageOK
    <3> QED BY <1>0, <2>1, <3>1, RemovingLeases
  <2> QED BY <2>1, <2>2 DEF Stays
<1>8. ASSUME NEW c \in Caps, c \in db.pending => db.prev[c] \notin db.live \ idle, Idle(c)
      PROVE  LeasesOK(db', idle') /\ Stays
  <2>1. /\ UNCHANGED <<db, lapsed>> /\ idle' = idle \cup {c} /\ c \in db.live
    BY <1>8 DEF Idle
  <2>2. LineageOK(db, idle')
    BY <1>0, <2>1 DEF LineageOK, Safe
  <2>3. PredecessorsGone(db, idle')
    BY <1>0, <1>8, <2>1 DEF PredecessorsGone
  <2> QED BY <2>1, <2>2, <2>3 DEF LeasesOK, Stays
<1>9. ASSUME Elsewhere PROVE LeasesOK(db', idle') /\ Stays
  <2>1. ASSUME NEW c \in Caps, Lapse(c) PROVE LeasesOK(db', idle') /\ Stays
    BY <1>1, <2>1 DEF Lapse
  <2>2. ASSUME NEW i \in Initials, RequestExpires(i) PROVE LeasesOK(db', idle') /\ Stays
    BY <1>1, <2>2 DEF RequestExpires
  <2> QED BY <1>4, <1>6, <1>7, <1>8, <1>9, <2>1, <2>2 DEF Elsewhere
<1>10. ASSUME NEW o \in Ops, OfferReturns(o) PROVE LeasesOK(db', idle') /\ Stays
  BY <1>1, <1>10 DEF OfferReturns, Finish, time
<1> QED BY <1>1, <1>2, <1>3, <1>5, <1>9, <1>10 DEF vars

-----------------------------------------------------------------------------
(* A handler that looks for a lease to continue p.                         *)
Continues(o, p) ==
  \E r \in Pending :
    /\ op[o] = None /\ op' = [op EXCEPT ![o] = r] /\ r.kind = "offer"
    /\ db'.prev[r.cap] = p

(* reserve() for a predecessor that is not a reservation itself.           *)
LEMMA ReserveContinues ==
  ASSUME IInv, LeasesOK(db, idle), NEW o \in Ops, NEW p \in Caps, NEW preferred,
         NEW key \in Caps \cup {None}, Reserve(o, p, preferred, key),
         p \notin Cleaned.live \cap Cleaned.pending
  PROVE  /\ Continues(o, p) /\ LeasesOK(db', idle') /\ Stays
         /\ Established' \subseteq Established
         /\ \A x \in Caps : db.pin[x] # None /\ x \in db'.live => x \in Cleaned.live
<1>0. /\ db \in Tables /\ Cleaned \in Tables /\ None \notin Caps /\ endpoint \in [Nodes -> Endpoints]
      /\ Cleaned.prev = db.prev /\ p \in Cleaned.live \cup Cleaned.expired
  BY CleanedSafe, CleanedKeeps, AssignmentAssumption DEF IInv, Typed, Safe, Reserve
<1>1. ASSUME NEW c \in CurrentReservations(Cleaned, p), Describe(o, Cleaned, Again(c, key))
      PROVE  /\ Continues(o, p) /\ LeasesOK(db', idle') /\ Stays
             /\ Established' \subseteq Established
             /\ \A x \in Caps : db.pin[x] # None /\ x \in db'.live => x \in Cleaned.live
  <2>1. c \in Caps /\ db.prev[c] = p
    BY <1>0 DEF CurrentReservations, Tables
  <2>2. /\ op[o] = None /\ op' = [op EXCEPT ![o] = Again(c, key)] /\ db' = Cleaned
        /\ UNCHANGED <<lapsed, idle>> /\ Again(c, key).cap = c /\ c \in Cleaned.live
    BY <1>1 DEF Describe, time, Again, Offer
  <2>3. Again(c, key) \in Pending /\ Again(c, key).kind = "offer"
    BY <2>1, <2>2, CleanedSafe, LivePinned, AgainTyped
  <2>4. Continues(o, p)
    BY <1>0, <2>1, <2>2, <2>3 DEF Continues
  <2>5. Established' \subseteq Established
    BY <2>2, CleanedTraces DEF Established
  <2> QED BY <2>2, <2>4, <2>5, CleanedStays
<1>2. ASSUME NEW c \in Unused, NEW n \in up,
             Describe(o, Inserted(Cleaned, c, n, p), Offer(c, n, TRUE, key))
      PROVE  /\ Continues(o, p) /\ LeasesOK(db', idle') /\ Stays
             /\ Established' \subseteq Established
             /\ \A x \in Caps : db.pin[x] # None /\ x \in db'.live => x \in Cleaned.live
  <2> DEFINE r == Offer(c, n, TRUE, key)
  <2>1. /\ c \in Caps /\ db.pin[c] = None /\ c \notin Initials /\ n \in Nodes
        /\ p \in Caps \cup {None} /\ p # None
        /\ p \in Cleaned.expired \cup (Cleaned.live \ Cleaned.pending)
    BY <1>0 DEF Unused, IInv, Typed
  <2>2. /\ op[o] = None /\ op' = [op EXCEPT ![o] = r] /\ db' = Inserted(Cleaned, c, n, p)
        /\ UNCHANGED <<lapsed, idle>>
    BY <1>2 DEF Describe, time
  <2>3. r \in Pending /\ r.kind = "offer" /\ r.cap = c
    BY <1>0, <2>1 DEF Offer, Pending, Kinds
  <2> HIDE DEF r
  <2>4. /\ LeasesOK(db', idle') /\ Stays /\ db'.prev[c] = p
        /\ db'.live = Cleaned.live \cup {c} /\ c \in db'.pending
    BY <2>1, <2>2, InsertedStays
  <2>5. Continues(o, p)
    BY <2>2, <2>3, <2>4 DEF Continues
  <2>6. db'.pending = Cleaned.pending \cup {c}
    BY <1>0, <2>1, <2>2 DEF Inserted, Tables
  <2>7. Established' \subseteq Established
    BY <2>4, <2>6, CleanedTraces DEF Established
  <2> QED BY <2>1, <2>4, <2>5, <2>7
<1> QED BY <1>1, <1>2 DEF Reserve

(* The question of a flow: it leaves the leases in order, it is about what *)
(* the record names, and nothing is established by it but the capability   *)
(* of an initial request.                                                  *)
AskedFor(o) ==
  /\ LeasesOK(db', idle') /\ Stays
  /\ \E r \in Pending :
       /\ op[o] = None /\ op' = [op EXCEPT ![o] = r]
       /\ r.kind = "commit" => r.cap = record.cand /\ flow.at = "committing"
       /\ flow.at = "candidate" =>
            \/ r.cap = record.cand
            \/ db'.prev[r.cap] = record.cand /\ record.cand \notin db'.live
       /\ flow.at = "fallback" => r.cap = record.prev \/ db'.prev[r.cap] = record.prev
       /\ flow.at \in {"first", "again"} => r.cap = record.initial
       /\ flow.at = "committing" => r.cap = record.cand
  /\ Established' \subseteq Established \/ record.initial # None

(* A handler that describes a lease again.                                 *)
LEMMA AgainContinues ==
  ASSUME IInv, LeasesOK(db, idle), NEW o \in Ops, NEW c \in Caps, NEW r, r.cap = c,
         Describe(o, Cleaned, r)
  PROVE  /\ op[o] = None /\ op' = [op EXCEPT ![o] = r]
         /\ LeasesOK(db', idle') /\ Stays /\ Established' \subseteq Established
         /\ db.pin[c] \in Nodes
<1>1. /\ op[o] = None /\ op' = [op EXCEPT ![o] = r] /\ db' = Cleaned
      /\ UNCHANGED <<lapsed, idle>> /\ c \in Cleaned.live
  BY DEF Describe, time
<1>2. Established' \subseteq Established
  BY <1>1, CleanedTraces DEF Established
<1> QED BY <1>1, <1>2, CleanedStays, CleanedSafe, LivePinned

(* Every question of a flow is one of these.                               *)
LEMMA AskAsks ==
  ASSUME IInv, BrowserTyped, LeasesOK(db, idle), RecordOK(record, db), NEW o \in Ops, Ask(o)
  PROVE  AskedFor(o)
<1>0. /\ known \in SUBSET Caps /\ None \notin Caps /\ record.initial \in Initials \cup {None}
      /\ record.cand \in Caps \cup {None} /\ record.prev \in Caps \cup {None}
      /\ Initials \subseteq Caps /\ Cleaned \in Tables
      /\ Cleaned.prev = db.prev /\ Cleaned.pin = db.pin
      /\ LineageOK(Cleaned, idle) /\ LineageOK(db, idle) /\ Cleaned.pending \subseteq db.pending
  BY CleanedSafe, CleanedLeases, CleanedKeeps, AssignmentAssumption
     DEF BrowserTyped, CoordinatorTypeOK, Safe, LeasesOK
<1>1. ASSUME NEW c \in Caps, OperateExisting(o, c, "restore")
      PROVE  /\ LeasesOK(db', idle') /\ Stays /\ Established' \subseteq Established
             /\ \E r \in Pending :
                  /\ op[o] = None /\ op' = [op EXCEPT ![o] = r] /\ r.kind = "offer"
                  /\ \/ r.cap = c
                     \/ /\ db'.prev[r.cap] = c
                        /\ db.pin[c] # None /\ db.prev[c] # None => c \notin db'.live
  <2>1. CASE c \notin Cleaned.live /\ Reserve(o, c, Cleaned.pin[c], c)
    BY <2>1, ReserveContinues DEF Continues
  <2>2. CASE c \in Cleaned.live \ Cleaned.recorded /\ Reserve(o, c, Cleaned.pin[c], c)
    <3>1. c \in Legacy /\ db.prev[c] = None /\ c \notin Cleaned.pending
      BY <1>0, <2>2 DEF LineageOK
    <3> QED BY <2>2, <3>1, ReserveContinues DEF Continues
  <2>3. CASE Describe(o, Cleaned, Again(c, c))
    <3>1. Again(c, c).cap = c
      BY DEF Again, Offer
    <3>2. /\ op[o] = None /\ op' = [op EXCEPT ![o] = Again(c, c)]
          /\ LeasesOK(db', idle') /\ Stays /\ Established' \subseteq Established
          /\ db.pin[c] \in Nodes
      BY <2>3, <3>1, AgainContinues
    <3>3. Again(c, c) \in Pending /\ Again(c, c).kind = "offer"
      BY <3>2, AgainTyped
    <3> QED BY <3>1, <3>2, <3>3
  <2> QED BY <1>1, <2>1, <2>2, <2>3 DEF OperateExisting
<1>2. CASE flow.at = "candidate" /\ OperateExisting(o, record.cand, "restore")
  <2>1. record.cand \in Caps /\ db.pin[record.cand] # None /\ db.prev[record.cand] # None
    BY <1>0, <1>2 DEF OperateExisting, RecordOK
  <2> QED BY <1>1, <1>2, <2>1 DEF AskedFor
<1>3. CASE flow.at \in {"fallback", "previous"} /\ OperateExisting(o, record.prev, "restore")
  <2>1. record.prev \in Caps
    BY <1>0, <1>3 DEF OperateExisting
  <2> QED BY <1>1, <1>3, <2>1 DEF AskedFor
<1>4. CASE flow.at = "owner" /\ OperateExisting(o, Owner, "restore")
  <2>1. Owner \in Caps
    BY <1>0, <1>4 DEF OperateExisting
  <2> QED BY <1>1, <1>4, <2>1 DEF AskedFor
<1>5. CASE flow.at \in {"first", "again"} /\ OperateInitial(o, record.initial)
  <2> DEFINE i == record.initial
  <2>0. i \in Initials /\ i \in Caps /\ i # None
    BY <1>0, <1>5 DEF OperateInitial
  <2> HIDE DEF i
  <2>1. CASE Describe(o, Cleaned, Again(i, i))
    <3>1. Again(i, i).cap = i
      BY DEF Again, Offer
    <3>2. /\ op[o] = None /\ op' = [op EXCEPT ![o] = Again(i, i)]
          /\ LeasesOK(db', idle') /\ Stays /\ db.pin[i] \in Nodes
      BY <2>0, <2>1, <3>1, AgainContinues
    <3>3. Again(i, i) \in Pending /\ Again(i, i).kind = "offer"
      BY <2>0, <3>2, AgainTyped
    <3> QED BY <1>5, <2>0, <3>1, <3>2, <3>3 DEF AskedFor, i
  <2>2. CASE i \notin Cleaned.live
    <3> DEFINE d == Cleaned
    <3>1. PICK n \in up : Describe(o, Inserted(Cleaned, i, n, None), Offer(i, n, TRUE, i))
      BY <1>5, <2>2 DEF OperateInitial, i
    <3>2. i \notin requestsOver /\ i \notin Cleaned.expired \cup Cleaned.revoked
      BY <1>5, <2>2 DEF OperateInitial, i
    <3>3. db.pin[i] = None
      BY <2>0, <2>2, <3>2, CleanedSafe DEF Safe
    <3>4. n \in Nodes
      BY DEF IInv, Typed
    <3>5. /\ op[o] = None /\ op' = [op EXCEPT ![o] = Offer(i, n, TRUE, i)]
          /\ db' = Inserted(Cleaned, i, n, None) /\ UNCHANGED <<lapsed, idle>>
      BY <3>1 DEF Describe, time
    <3>6. /\ Offer(i, n, TRUE, i) \in Pending /\ Offer(i, n, TRUE, i).kind = "offer"
          /\ Offer(i, n, TRUE, i).cap = i
      BY <2>0, <3>4 DEF Offer, Pending, Kinds, IInv, Typed
    <3>7. LeasesOK(db', idle') /\ Stays
      <4>1. None \in Caps \cup {None}
        OBVIOUS
      <4> QED BY <2>0, <3>3, <3>4, <3>5, <4>1, InsertedStays
    <3> QED BY <1>5, <2>0, <3>5, <3>6, <3>7 DEF AskedFor, i
  <2> QED BY <1>5, <2>1, <2>2 DEF OperateInitial, i
<1>6. Owner \in Caps => Owner \notin db.pending
  BY <1>0, HandoverAssumption DEF Owner, RecordOK, LineageOK
<1>7. CASE flow.at = "selecting" /\ Select(o, Owner, flow.node)
  <2>1. Owner \in Caps /\ Reserve(o, Owner, flow.node, None)
    BY <1>0, <1>7 DEF Select
  <2>2. Owner \notin Cleaned.pending
    BY <1>0, <1>6, <2>1
  <2>3. Continues(o, Owner) /\ LeasesOK(db', idle') /\ Stays /\ Established' \subseteq Established
    BY <2>1, <2>2, ReserveContinues
  <2> QED BY <1>7, <2>3 DEF AskedFor, Continues
<1>8. CASE flow.at = "replacing" /\ OperateNew(o, Owner)
  <2>1. Owner \in Caps /\ Reserve(o, Owner, None, Owner)
    BY <1>0, <1>8 DEF OperateNew
  <2>2. Owner \notin Cleaned.pending
    BY <1>0, <1>6, <2>1
  <2>3. Continues(o, Owner) /\ LeasesOK(db', idle') /\ Stays /\ Established' \subseteq Established
    BY <2>1, <2>2, ReserveContinues
  <2> QED BY <1>8, <2>3 DEF AskedFor, Continues
<1>9. CASE flow.at = "committing" /\ Commit(o, record.prev, record.cand)
  <2> DEFINE c == record.cand
             p == record.prev
             a == Again(c, None)
             r == [a EXCEPT !.kind = "commit", !.prev = p]
  <2>0. c \in Caps /\ p \in Caps
    BY <1>0, <1>9 DEF Commit
  <2>1. a.cap = c
    BY DEF Again, Offer
  <2>2. CASE Describe(o, Cleaned, a)
    <3>1. /\ op[o] = None /\ op' = [op EXCEPT ![o] = a]
          /\ LeasesOK(db', idle') /\ Stays /\ Established' \subseteq Established
          /\ db.pin[c] \in Nodes
      BY <2>0, <2>1, <2>2, AgainContinues
    <3>2. a \in Pending
      BY <2>0, <3>1, AgainTyped
    <3> QED BY <1>9, <2>1, <3>1, <3>2 DEF AskedFor
  <2>3. CASE Confirmable(Cleaned, p, c) /\ Describe(o, Cleaned, r)
    <3>1. db.pin[c] \in Nodes
      BY <2>0, <2>3, CleanedSafe, LivePinned DEF Confirmable
    <3>2. a \in Pending
      BY <2>0, <3>1, AgainTyped
    <3>3. r \in Pending /\ r.cap = c
      <4> HIDE DEF a, c, p
      <4> QED BY <2>0, <2>1, <3>2 DEF Pending, Kinds
    <3> HIDE DEF r
    <3>4. /\ op[o] = None /\ op' = [op EXCEPT ![o] = r]
          /\ LeasesOK(db', idle') /\ Stays /\ Established' \subseteq Established
      BY <2>0, <2>3, <3>3, AgainContinues
    <3> QED BY <1>9, <3>3, <3>4 DEF AskedFor
  <2> QED BY <1>9, <2>2, <2>3 DEF Commit
<1> QED BY <1>2, <1>3, <1>4, <1>5, <1>7, <1>8, <1>9 DEF Ask

(* The browser's part of the invariant: of a record, a flow and handlers,   *)
(* at given tables.                                                        *)
BrowserOK(r, f, ops, d, l) == RecordOK(r, d) /\ CommitsOK(r, ops, d, l) /\ FlowOK(f, r, d, l)

(* It does not mind what the server does.                                  *)
LEMMA ServerKeeps ==
  ASSUME NEW r \in Records, NEW f \in Flows, BrowserOK(r, f, op, db, lapsed),
         IInv, QInv, Typed', LeasesOK(db, idle), Stays,
         \A o \in Ops : \/ op'[o] \in {op[o], None}
                        \/ op'[o].kind = "commit" => op'[o].cap = r.cand
  PROVE  BrowserOK(r, f, op', db', lapsed')
<1>0. /\ db \in Tables /\ db' \in Tables /\ None \notin Caps /\ None \notin Nodes
      /\ LineageOK(db, idle) /\ op \in [Ops -> Pending \cup {None}]
      /\ r.cand \in Caps \cup {None} /\ r.prev \in Caps \cup {None} /\ r.active \in Caps \cup {None}
      /\ f.lease \in Caps \cup {None}
  BY AssignmentAssumption DEF IInv, Typed, LeasesOK, Records, Flows
<1>1. RecordOK(r, db) /\ CommitsOK(r, op, db, lapsed) /\ FlowOK(f, r, db, lapsed)
  BY DEF BrowserOK
<1>2. r.cand # None => /\ db.pin[r.cand] # None /\ db.prev[r.cand] # None
                       /\ db.pin[r.prev] # None /\ r.prev # None
  BY <1>0, <1>1 DEF RecordOK, LineageOK
<1>3. RecordOK(r, db')
  BY <1>0, <1>1, <1>2 DEF RecordOK, Stays
<1>4. ASSUME NEW c \in Caps, db.pin[c] # None, Over(db, lapsed, c) PROVE Over(db', lapsed', c)
  BY <1>0, <1>4 DEF Over, Stays
<1>5. FlowOK(f, r, db', lapsed')
  <2>1. f.at = "fallback" => Over(db', lapsed', r.cand)
    BY <1>0, <1>1, <1>2, <1>4 DEF FlowOK
  <2>2. f.at = "previous" =>
          /\ f.lease \in Caps /\ db'.pin[f.lease] # None
          /\ \/ f.lease = r.cand
             \/ db'.prev[f.lease] = r.cand /\ r.cand \notin db'.live
    BY <1>0, <1>1, <1>2 DEF FlowOK, Stays
  <2>3. f.at = "activating" =>
          /\ f.lease \in Caps /\ db'.pin[f.lease] # None /\ f.lease \notin db'.pending
          /\ \A c \in {r.active, r.prev, r.cand} \ {f.lease, None} : Over(db', lapsed', c)
    <3>1. \A c \in {r.active, r.prev, r.cand} \ {None} : c \in Caps /\ db.pin[c] # None
      BY <1>0, <1>1, <1>2 DEF RecordOK
    <3> QED BY <1>0, <1>1, <1>4, <3>1 DEF FlowOK, Stays
  <2> QED BY <1>1, <2>1, <2>2, <2>3 DEF FlowOK
<1>6. CommitsOK(r, op', db', lapsed')
  <2> SUFFICES ASSUME NEW o \in Ops, op'[o] # None, op'[o].kind = "commit",
                      op'[o].cap \in (db'.live \cap db'.pending) \ lapsed'
               PROVE  op'[o].cap = r.cand
    BY DEF CommitsOK
  <2>1. CASE op'[o] = op[o]
    <3>1. op[o].cap \in Caps /\ db.pin[op[o].cap] # None
      BY <1>0, <2>1 DEF QInv, AskedAndOpen, Pending
    <3>2. op[o].cap \in (db.live \cap db.pending) \ lapsed
      BY <2>1, <3>1 DEF Stays
    <3> QED BY <1>1, <2>1, <3>2 DEF CommitsOK
  <2> QED BY <2>1
<1> QED BY <1>3, <1>5, <1>6 DEF BrowserOK

(* The names a record gives up.                                            *)
Keeps(r, s, d, l) ==
  \A c \in {r.active, r.prev, r.cand} \ {s.active, s.prev, s.cand, None} : Over(d, l, c)

(* accept() writes down a reservation.                                     *)
LEMMA Journals ==
  ASSUME NEW d \in Tables, NEW i, NEW l, NEW r \in Records, NEW s \in Records, NEW f \in Flows,
         NEW g, NEW ops \in [Ops -> Pending \cup {None}], NEW c \in Caps,
         LeasesOK(d, i), BrowserOK(r, f, ops, d, l), d.pin[c] # None, d.prev[c] # None,
         s.active = r.active, s.cand = c, s.prev = d.prev[c],
         g.at = "committing",
         \/ r.cand = None /\ r.active \in {None, d.prev[c]}
         \/ r.cand # None /\ d.prev[c] = r.prev /\ (c = r.cand \/ Over(d, l, r.cand))
         \/ r.cand # None /\ d.prev[c] = r.cand /\ r.cand \notin d.live
  PROVE  BrowserOK(s, g, ops, d, l) /\ Keeps(r, s, d, l)
<1>0. RecordOK(r, d) /\ CommitsOK(r, ops, d, l) /\ None \notin Caps /\ PredecessorsGone(d, i)
  BY AssignmentAssumption DEF BrowserOK, LeasesOK
<1>1. RecordOK(s, d)
  BY <1>0 DEF RecordOK, PredecessorsGone
<1>2. CommitsOK(s, ops, d, l)
  <2> SUFFICES ASSUME NEW o \in Ops, ops[o] # None, ops[o].kind = "commit",
                      ops[o].cap \in (d.live \cap d.pending) \ l
               PROVE  ops[o].cap = c
    BY DEF CommitsOK
  <2>1. ops[o].cap = r.cand /\ ops[o].cap \in Caps
    BY <1>0 DEF CommitsOK, Pending
  <2> QED BY <1>0, <2>1 DEF Over
<1>3. FlowOK(g, s, d, l)
  BY <1>0 DEF FlowOK
<1>4. Keeps(r, s, d, l)
  BY <1>0 DEF Keeps, RecordOK, Over, PredecessorsGone
<1> QED BY <1>1, <1>2, <1>3, <1>4 DEF BrowserOK

(* A lease is probed that is established, and whatever else the record     *)
(* names is over.                                                          *)
LEMMA Probes ==
  ASSUME NEW d \in Tables, NEW i, NEW l, NEW r \in Records, NEW f \in Flows,
         NEW g, NEW ops, NEW c \in Caps, LeasesOK(d, i), BrowserOK(r, f, ops, d, l),
         d.pin[c] # None, c \in d.live \ d.pending, g.at = "activating", g.lease = c,
         \/ r.cand # None /\ c = r.cand
         \/ r.cand # None /\ d.prev[c] = r.cand
         \/ r.cand # None /\ Over(d, l, r.cand) /\ (c = r.prev \/ d.prev[c] = r.prev)
         \/ r.cand = None /\ r.active \in {None, c}
  PROVE  BrowserOK(r, g, ops, d, l)
<1>0. RecordOK(r, d) /\ None \notin Caps /\ PredecessorsGone(d, i)
  BY AssignmentAssumption DEF BrowserOK, LeasesOK
<1>1. d.prev[c] # None => d.prev[c] \notin d.live /\ d.prev[d.prev[c]] \notin d.live
  BY <1>0 DEF PredecessorsGone
<1>2. \A x \in {r.active, r.prev, r.cand} \ {c, None} : Over(d, l, x)
  BY <1>0, <1>1 DEF RecordOK, Over
<1>3. FlowOK(g, r, d, l)
  BY <1>2 DEF FlowOK
<1> QED BY <1>3 DEF BrowserOK

(* The invariant of the browser and the tables together.                   *)
WInv ==
  /\ LeasesOK(db, idle)
  /\ BrowserOK(record, flow, op, db, lapsed)
  /\ AskedOK(flow, record, op, db)

(* What a step of a flow is to show, once the server has done its part.    *)
BrowserKept ==
  /\ BrowserOK(record', flow', op', db', lapsed')
  /\ Keeps(record, record', db', lapsed') \/ record.initial # None

(* A candidate is accepted once its predecessor is known or unreachable.   *)
LEMMA AcceptKeeps ==
  ASSUME BrowserTyped, BrowserTyped', Typed', LeasesOK(db', idle'),
         BrowserOK(record, flow, op', db', lapsed'), db'.prev = db.prev,
         flow.at = "previous", AcceptCandidate(flow.lease)
  PROVE  BrowserKept /\ flow'.op = None
<1> DEFINE c == flow.lease
<1>0. /\ record \in Records /\ record' \in Records /\ flow \in Flows /\ flow' \in Flows
      /\ db' \in Tables /\ op' \in [Ops -> Pending \cup {None}] /\ None \notin Caps
  BY AssignmentAssumption DEF BrowserTyped, CoordinatorTypeOK, Records, Flows, Typed
<1>1. /\ c \in Caps /\ db'.pin[c] # None /\ record.cand # None
      /\ \/ c = record.cand /\ db'.prev[c] = record.prev /\ record.prev # None
         \/ db'.prev[c] = record.cand /\ record.cand \notin db'.live
  BY DEF BrowserOK, FlowOK, RecordOK
<1>2. /\ record' = [record EXCEPT !.prev = db.prev[c], !.cand = c, !.reason = record.reason]
      /\ flow' = [flow EXCEPT !.at = "committing", !.op = None, !.lease = None]
  BY DEF AcceptCandidate, Journal, Goto
<1>3. /\ record'.active = record.active /\ record'.cand = c /\ record'.prev = db'.prev[c]
      /\ flow'.at = "committing" /\ flow'.op = None
  BY <1>0, <1>2 DEF Records, Flows
<1> HIDE DEF c
<1>4. BrowserOK(record', flow', op', db', lapsed') /\ Keeps(record, record', db', lapsed')
  BY <1>0, <1>1, <1>3, Journals
<1> QED BY <1>3, <1>4 DEF BrowserKept

(* How the lease a flow is given relates to what the record names.         *)
Answers(c) ==
  /\ flow.at = "candidate" =>
       \/ c = record.cand
       \/ db'.prev[c] = record.cand /\ record.cand \notin db'.live
  /\ flow.at = "fallback" => c = record.prev \/ db'.prev[c] = record.prev
  /\ flow.at \in {"first", "again"} => c = record.initial
  /\ flow.at = "committing" => c = record.cand

(* A flow goes on with the lease it was given.                             *)
LEMMA GotKeeps ==
  ASSUME BrowserTyped, BrowserTyped', Typed', LeasesOK(db', idle'),
         BrowserOK(record, flow, op', db', lapsed'), db'.prev = db.prev,
         NEW c \in Caps, c \in db'.live, db'.pin[c] # None, Answers(c), Got(c)
  PROVE  BrowserKept /\ flow'.op = None
<1>0. /\ record \in Records /\ record' \in Records /\ flow \in Flows /\ flow' \in Flows
      /\ db' \in Tables /\ op' \in [Ops -> Pending \cup {None}] /\ None \notin Caps
      /\ Initials \subseteq Caps
  BY AssignmentAssumption DEF BrowserTyped, CoordinatorTypeOK, Records, Flows, Typed
<1>1. /\ RecordOK(record, db') /\ FlowOK(flow, record, db', lapsed')
      /\ CommitsOK(record, op', db', lapsed')
      /\ LineageOK(db', idle')
  BY DEF BrowserOK, LeasesOK
<1>2. ASSUME NEW step, NEW x, Goto(step, x)
      PROVE  flow'.at = step /\ flow'.op = None /\ flow'.lease = x
  BY <1>0, <1>2 DEF Goto, Flows
<1>3. ASSUME record' = record PROVE Keeps(record, record', db', lapsed')
  BY <1>3 DEF Keeps
<1>4. ASSUME NEW reason, Journal(c, reason)
      PROVE  /\ record'.active = record.active /\ record'.cand = c /\ record'.prev = db'.prev[c]
             /\ flow'.at = "committing" /\ flow'.op = None
  BY <1>0, <1>2, <1>4 DEF Journal, Records
<1>5. CASE flow.at = "candidate" /\ c \notin db'.pending /\ Goto("activating", c) /\ record' = record
  <2>1. record.cand # None /\ (c = record.cand \/ db'.prev[c] = record.cand)
    BY <1>1, <1>5 DEF FlowOK, Answers
  <2>2. flow'.at = "activating" /\ flow'.op = None /\ flow'.lease = c
    BY <1>2, <1>5
  <2>3. BrowserOK(record, flow', op', db', lapsed')
    BY <1>0, <1>5, <2>1, <2>2, Probes
  <2> QED BY <1>3, <1>5, <2>2, <2>3 DEF BrowserKept
<1>6. CASE flow.at = "candidate" /\ Goto("previous", c) /\ record' = record
  <2>1. /\ record.cand # None
        /\ \/ c = record.cand
           \/ db'.prev[c] = record.cand /\ record.cand \notin db'.live
    BY <1>1, <1>6 DEF FlowOK, Answers
  <2>2. flow'.at = "previous" /\ flow'.op = None /\ flow'.lease = c
    BY <1>2, <1>6
  <2>3. FlowOK(flow', record, db', lapsed')
    BY <2>1, <2>2 DEF FlowOK
  <2> QED BY <1>1, <1>3, <1>6, <2>2, <2>3 DEF BrowserKept, BrowserOK
<1>7. CASE flow.at = "previous" /\ AcceptCandidate(flow.lease)
  BY <1>7, AcceptKeeps
<1>8. CASE flow.at = "fallback" /\ c \notin db'.pending /\ Adopt(c)
  <2>1. record.cand # None /\ (c = record.prev \/ db'.prev[c] = record.prev)
        /\ Over(db', lapsed', record.cand)
    BY <1>1, <1>8 DEF FlowOK, Answers
  <2>2. record' = record /\ flow'.at = "activating" /\ flow'.op = None /\ flow'.lease = c
    BY <1>2, <1>8, <2>1 DEF Adopt
  <2>3. BrowserOK(record, flow', op', db', lapsed')
    BY <1>0, <1>8, <2>1, <2>2, Probes
  <2> QED BY <1>3, <2>2, <2>3 DEF BrowserKept
<1>9. ASSUME record.cand = None, c \notin db'.pending, Adopt(c),
             record.initial # None \/ record.active \in {None, c}
      PROVE  BrowserKept /\ flow'.op = None
  <2>1. flow'.at = "activating" /\ flow'.op = None /\ flow'.lease = c
    BY <1>2, <1>9 DEF Adopt
  <2>2. CASE record.active = c
    <3>1. record' = record
      BY <1>9, <2>2 DEF Adopt
    <3>2. BrowserOK(record, flow', op', db', lapsed')
      BY <1>0, <1>9, <2>1, <2>2, Probes
    <3> QED BY <1>3, <2>1, <3>1, <3>2 DEF BrowserKept
  <2>3. CASE record.active # c
    <3>1. record' = [record EXCEPT !.active = c, !.initial = None]
      BY <1>9, <2>3 DEF Adopt
    <3>2. record.prev = None
      BY <1>1, <1>9 DEF RecordOK
    <3>3. record'.active = c /\ record'.cand = None /\ record'.prev = None
      BY <1>0, <1>9, <3>1, <3>2 DEF Records
    <3>4. RecordOK(record', db')
      BY <1>0, <1>9, <3>3 DEF RecordOK
    <3>5. CommitsOK(record', op', db', lapsed')
      BY <1>1, <1>9, <3>3 DEF CommitsOK
    <3>6. FlowOK(flow', record', db', lapsed')
      BY <1>0, <1>9, <2>1, <3>3 DEF FlowOK
    <3>7. Keeps(record, record', db', lapsed') \/ record.initial # None
      BY <1>9, <2>3, <3>2 DEF Keeps
    <3> QED BY <2>1, <3>4, <3>5, <3>6, <3>7 DEF BrowserKept, BrowserOK
  <2> QED BY <2>2, <2>3
<1>10. CASE flow.at \in {"first", "again"} /\ c \notin db'.pending /\ Adopt(c)
  <2>1. record.cand = None /\ record.initial # None
    BY <1>0, <1>1, <1>10 DEF FlowOK, Answers
  <2> QED BY <1>9, <1>10, <2>1
<1>11. CASE flow.at = "owner" /\ c \notin db'.pending /\ c = Owner /\ Adopt(c)
  <2>1. record.cand = None /\ record.active \in {None, c}
    BY <1>1, <1>11 DEF FlowOK, Owner
  <2> QED BY <1>9, <1>11, <2>1
<1>12. CASE flow.at = "fallback" /\ db.prev[c] = record.prev /\ Journal(c, "restore")
  <2>1. record.cand # None /\ Over(db', lapsed', record.cand) /\ record.prev # None
    BY <1>1, <1>12 DEF FlowOK, RecordOK
  <2>2. BrowserOK(record', flow', op', db', lapsed') /\ Keeps(record, record', db', lapsed')
    BY <1>0, <1>4, <1>12, <2>1, Journals
  <2> QED BY <1>4, <1>12, <2>2 DEF BrowserKept
<1>13. ASSUME flow.at \in {"owner", "selecting", "replacing"}, c \in db'.pending, db.prev[c] = Owner,
              NEW reason, Journal(c, reason)
       PROVE  BrowserKept /\ flow'.op = None
  <2>1. record.cand = None /\ db'.prev[c] # None /\ record.active \in {None, db'.prev[c]}
    BY <1>1, <1>13 DEF FlowOK, LineageOK, Owner
  <2>2. BrowserOK(record', flow', op', db', lapsed') /\ Keeps(record, record', db', lapsed')
    BY <1>0, <1>4, <1>13, <2>1, Journals
  <2> QED BY <1>4, <1>13, <2>2 DEF BrowserKept
<1>14. CASE flow.at = "committing" /\ c \notin db'.pending /\ Goto("activating", c) /\ record' = record
  <2>1. record.cand # None /\ c = record.cand
    BY <1>1, <1>14 DEF FlowOK, Answers
  <2>2. flow'.at = "activating" /\ flow'.op = None /\ flow'.lease = c
    BY <1>2, <1>14
  <2>3. BrowserOK(record, flow', op', db', lapsed')
    BY <1>0, <1>14, <2>1, <2>2, Probes
  <2> QED BY <1>3, <1>14, <2>2, <2>3 DEF BrowserKept
<1> QED BY <1>5, <1>6, <1>7, <1>8, <1>10, <1>11, <1>12, <1>13, <1>14 DEF Got

(* The server's part of a step: what was begun stays as it was asked for.  *)
LEMMA OthersLeave ==
  ASSUME IInv, QInv, Typed', BrowserTyped, WInv,
         \/ \E o \in Ops : OfferReturns(o) \/ CommitReturns(o) \/ PushFails(o)
         \/ \E i \in Initials : RetireInitial(i)
         \/ Elsewhere
         \/ UNCHANGED vars
  PROVE  /\ LeasesOK(db', idle') /\ Stays
         /\ BrowserOK(record, flow, op', db', lapsed')
         /\ \A o \in Ops : op'[o] \in {op[o], None}
<1>0. record \in Records /\ flow \in Flows /\ CoordinatorTypeOK
      /\ op \in [Ops -> Pending \cup {None}]
  BY DEF BrowserTyped, CoordinatorTypeOK, Records, Flows, IInv, Typed
<1>1. \A o \in Ops : op'[o] \in {op[o], None}
  BY <1>0 DEF OfferReturns, CommitReturns, PushFails, Finish, RetireInitial, Elsewhere,
       Release, Forget, Lapse, Prune, Idle, RequestExpires, vars
<1>2. LeasesOK(db', idle') /\ Stays
  BY <1>0, OthersStay DEF WInv
<1>3. BrowserOK(record, flow, op', db', lapsed')
  BY <1>0, <1>1, <1>2, ServerKeeps DEF WInv
<1> QED BY <1>1, <1>2, <1>3

(* A lease becomes established only by the commit of what the record names.*)
News == \A c \in Established' \ Established : c \in Named \/ record.initial # None

(* An answer, a failure and the rest of the world establish nothing else.  *)
LEMMA OthersEstablish ==
  ASSUME IInv, WInv,
         \/ \E o \in Ops : OfferReturns(o) \/ CommitReturns(o) \/ PushFails(o)
         \/ Elsewhere
         \/ UNCHANGED vars
  PROVE  News
<1>0. db \in Tables /\ op \in [Ops -> Pending \cup {None}]
  BY DEF IInv, Typed
<1>1. ASSUME Established' \subseteq Established PROVE News
  BY <1>1 DEF News
<1>2. ASSUME NEW o \in Ops, CommitReturns(o) PROVE News
  <2> DEFINE c == op[o].cap
             p == op[o].prev
             r == Retired(db, p)
  <2>1. /\ c \in (db.live \cap db.pending) \ lapsed /\ op[o] # None /\ op[o].kind = "commit"
        /\ p \in db.live \cup db.expired
        /\ db' = [r EXCEPT !.pending = @ \ {c}]
    BY <1>2 DEF CommitReturns, Confirmable
  <2>2. c = record.cand
    BY <2>1 DEF WInv, BrowserOK, CommitsOK
  <2>3. r \in Tables /\ r.live = db.live \ {p} /\ r.pending = db.pending
    BY <1>0, <2>1, RetiredFacts
  <2> HIDE DEF c, p, r
  <2>4. db'.live = db.live \ {p} /\ db'.pending = db.pending \ {c}
    BY <2>1, <2>3 DEF Tables
  <2>5. Established' \subseteq Established \cup {c}
    BY <2>4 DEF Established
  <2> QED BY <2>2, <2>5 DEF News, Named
<1>3. ASSUME NEW o \in Ops, PushFails(o) PROVE News
  BY <1>0, <1>1, <1>3 DEF PushFails, Established, Tables
<1>4. ASSUME Elsewhere PROVE News
  <2>1. ASSUME NEW c \in Caps, Release(c) PROVE News
    BY <1>0, <1>1, <2>1, RetiredFacts DEF Release, Established
  <2>2. ASSUME NEW c \in Caps, Forget(c) PROVE News
    BY <1>0, <1>1, <2>2 DEF Forget, Established, Tables
  <2>3. ASSUME Prune PROVE News
    BY <1>1, <2>3, CleanedTraces DEF Prune, Established
  <2>4. ASSUME db' = db PROVE News
    BY <1>1, <2>4 DEF Established
  <2> QED BY <1>4, <2>1, <2>2, <2>3, <2>4 DEF Elsewhere, Lapse, Idle, RequestExpires
<1>5. ASSUME db' = db PROVE News
  BY <1>1, <1>5 DEF Established
<1> QED BY <1>2, <1>3, <1>4, <1>5 DEF OfferReturns, vars

(* The question a flow waits for stays the one it asked.                   *)
LEMMA AskedStays ==
  ASSUME IInv, QInv, BrowserTyped, WInv, Typed', Stays, flow.op # None, op'[flow.op] = op[flow.op]
  PROVE  AskedOK(flow, record, op', db')
<1>0. /\ flow.op \in Ops /\ op[flow.op] # None /\ op[flow.op].cap \in Caps
      /\ db.pin[op[flow.op].cap] # None
      /\ record.cand # None => record.cand \in Caps /\ db.pin[record.cand] # None
  BY AssignmentAssumption DEF BrowserTyped, CoordinatorTypeOK, WInv, AskedOK, BrowserOK, RecordOK, IInv, Typed,
     QInv, AskedAndOpen, Pending
<1>1. record.cand = None => record.cand \notin db'.live
  BY AssignmentAssumption DEF Typed, Tables
<1>2. AskedOK(flow, record, op, db)
  BY DEF WInv
<1> QED BY <1>0, <1>1, <1>2 DEF AskedOK, Stays

(* What every step of the composition is to show.                          *)
StepKept ==
  /\ WInv'
  /\ Keeps(record, record', db', lapsed') \/ record.initial # None
  /\ News

(* The browser looks on.                                                   *)
LEMMA Watching ==
  ASSUME IInv, QInv, Typed', BrowserTyped, WInv, UNCHANGED browser,
         \/ \E o \in Ops : /\ OfferReturns(o) \/ CommitReturns(o) \/ PushFails(o)
                           /\ flow.op # o
         \/ Elsewhere
         \/ UNCHANGED vars
  PROVE  StepKept
<1>0. \/ \E o \in Ops : OfferReturns(o) \/ CommitReturns(o) \/ PushFails(o)
      \/ Elsewhere
      \/ UNCHANGED vars
  OBVIOUS
<1>1. /\ LeasesOK(db', idle') /\ Stays /\ BrowserOK(record, flow, op', db', lapsed')
  BY <1>0, OthersLeave
<1>2. News
  BY <1>0, OthersEstablish
<1>3. flow.op # None => op'[flow.op] = op[flow.op]
  <2>1. flow.op \in Ops \cup {None} /\ op \in [Ops -> Pending \cup {None}]
    BY DEF BrowserTyped, CoordinatorTypeOK, IInv, Typed
  <2> QED BY <2>1 DEF OfferReturns, CommitReturns, PushFails, Finish, Elsewhere,
       Release, Forget, Lapse, Prune, Idle, RequestExpires, vars
<1>4. AskedOK(flow, record, op', db')
  BY <1>1, <1>3, AskedStays DEF AskedOK
<1>5. WInv'
  BY <1>1, <1>4 DEF WInv, browser
<1> QED BY <1>2, <1>5 DEF StepKept, Keeps, browser

(* A flow ends or goes back to what it can resolve.                        *)
LEMMA Ends ==
  ASSUME LeasesOK(db', idle'), BrowserOK(record, flow, op', db', lapsed'), News,
         BrowserTyped, record' = record,
         \/ flow' = Idling
         \/ flow.at = "candidate" /\ Goto("fallback", None) /\ Over(db', lapsed', record.cand)
  PROVE  StepKept
<1>1. /\ flow'.op = None
      /\ \/ flow'.at = "idle"
         \/ flow'.at = "fallback" /\ flow.at = "candidate" /\ Over(db', lapsed', record.cand)
  <2>1. flow \in Flows
    BY DEF BrowserTyped, CoordinatorTypeOK, Flows
  <2>2. CASE flow' = Idling
    BY <2>2 DEF Idling
  <2>3. CASE flow.at = "candidate" /\ Goto("fallback", None) /\ Over(db', lapsed', record.cand)
    <3>1. flow'.at = "fallback" /\ flow'.op = None
      BY <2>1, <2>3 DEF Goto, Flows
    <3> QED BY <2>3, <3>1
  <2> QED BY <2>2, <2>3
<1>2. FlowOK(flow', record', db', lapsed')
  BY <1>1 DEF FlowOK, BrowserOK
<1>3. AskedOK(flow', record', op', db')
  BY <1>1 DEF AskedOK
<1> QED BY <1>2, <1>3 DEF StepKept, WInv, BrowserOK, Keeps

(* The answer arrives.                                                     *)
LEMMA ReceiveKept ==
  ASSUME IInv, QInv, Typed', BrowserTyped, BrowserTyped', WInv, NEW o \in Ops, flow.op = o,
         Receive(o)
  PROVE  StepKept
<1> DEFINE c == op[o].cap
<1>a. \E x \in Ops : OfferReturns(x) \/ CommitReturns(x) \/ PushFails(x)
  BY DEF Receive
<1>b. LeasesOK(db', idle') /\ Stays /\ BrowserOK(record, flow, op', db', lapsed')
  BY <1>a, OthersLeave
<1>c. News
  BY <1>a, OthersEstablish
<1>1. /\ LeasesOK(db', idle') /\ Stays /\ BrowserOK(record, flow, op', db', lapsed') /\ News
  BY <1>b, <1>c
<1>2. /\ c \in Caps /\ db.pin[c] # None /\ op[o] # None /\ flow.op # None
      /\ db \in Tables /\ PredecessorsGone(db, idle) /\ None \notin Caps /\ c \in db.live
  BY HandoverAssumption, AssignmentAssumption
     DEF Receive, OfferReturns, CommitReturns, StillGranted, IInv, Typed, QInv, AskedAndOpen,
         Pending, WInv, LeasesOK
<1>3. c \in db'.live /\ db'.prev = db.prev /\ db'.pin = db.pin
  <2>1. CASE OfferReturns(o)
    BY <1>2, <2>1 DEF OfferReturns
  <2>2. CASE CommitReturns(o)
    <3> DEFINE p == op[o].prev
               r == Retired(db, p)
    <3>1. /\ db.prev[c] = p /\ p \in db.live \cup db.expired
          /\ db' = [r EXCEPT !.pending = @ \ {c}]
      BY <2>2 DEF CommitReturns, Confirmable
    <3>2. r \in Tables /\ r.live = db.live \ {p} /\ r.pin = db.pin /\ r.prev = db.prev
      BY <1>2, <3>1, RetiredFacts DEF Retired, Tables
    <3> HIDE DEF c, p, r
    <3>3. p # None /\ c # p
      BY <1>2, <3>1 DEF PredecessorsGone, Tables
    <3> QED BY <1>2, <3>1, <3>2, <3>3 DEF Tables
  <2> QED BY <2>1, <2>2 DEF Receive
<1>4. Answers(c)
  <2>1. AskedOK(flow, record, op, db) /\ RecordOK(record, db) /\ record.cand \in Caps \cup {None}
    BY DEF WInv, BrowserOK, BrowserTyped, CoordinatorTypeOK
  <2>2. record.cand \notin db.live => record.cand \notin db'.live
    BY <1>1, <2>1, AssignmentAssumption DEF RecordOK, Stays, Typed, Tables
  <2> QED BY <1>2, <1>3, <2>1, <2>2 DEF AskedOK, Answers
<1>5. Got(c)
  BY DEF Receive
<1> HIDE DEF c
<1>6. BrowserKept /\ flow'.op = None
  BY <1>1, <1>2, <1>3, <1>4, <1>5, GotKeeps
<1>7. AskedOK(flow', record', op', db')
  BY <1>6 DEF AskedOK
<1> QED BY <1>1, <1>6, <1>7 DEF StepKept, WInv, BrowserKept

(* The push failed.                                                        *)
LEMMA FailsKept ==
  ASSUME IInv, QInv, Typed', BrowserTyped, WInv, NEW o \in Ops, flow.op = o, Fails(o)
  PROVE  StepKept
<1>a. \E x \in Ops : OfferReturns(x) \/ CommitReturns(x) \/ PushFails(x)
  BY DEF Fails
<1>b. LeasesOK(db', idle') /\ Stays /\ BrowserOK(record, flow, op', db', lapsed')
  BY <1>a, OthersLeave
<1>c. News
  BY <1>a, OthersEstablish
<1>1. /\ LeasesOK(db', idle') /\ Stays /\ BrowserOK(record, flow, op', db', lapsed') /\ News
  BY <1>b, <1>c
<1>2. record' = record /\ (flow' = Idling \/ (op[o].cap \notin db.live \cap db.recorded /\ ToldGone))
  BY DEF Fails, GiveUp, ToldGone
<1>3. ASSUME flow.at = "candidate", op[o].cap \notin db.live \cap db.recorded
      PROVE  Over(db', lapsed', record.cand)
  <2>1. /\ RecordOK(record, db) /\ record.cand \in Caps /\ db.pin[record.cand] # None
        /\ db.prev[record.cand] # None
        /\ \/ op[o].cap = record.cand
           \/ record.cand \notin db.live
    BY <1>3, HandoverAssumption DEF WInv, BrowserOK, FlowOK, RecordOK, AskedOK, BrowserTyped, CoordinatorTypeOK
  <2>2. record.cand \notin db.live
    BY <1>3, <2>1 DEF WInv, LeasesOK, LineageOK
  <2> QED BY <1>1, <2>1, <2>2 DEF Over, Stays
<1> QED BY <1>1, <1>2, <1>3, Ends DEF ToldGone

(* A flow asks.                                                            *)
LEMMA AskKept ==
  ASSUME IInv, QInv, Typed', BrowserTyped, WInv, NEW o \in Ops, Ask(o)
  PROVE  StepKept
<1>0. /\ record \in Records /\ flow \in Flows /\ op \in [Ops -> Pending \cup {None}]
  BY DEF BrowserTyped, CoordinatorTypeOK, Records, Flows, IInv, Typed
<1>1. AskedFor(o)
  BY AskAsks DEF WInv, BrowserOK
<1>2. PICK r \in Pending :
       /\ op[o] = None /\ op' = [op EXCEPT ![o] = r]
       /\ r.kind = "commit" => r.cap = record.cand /\ flow.at = "committing"
       /\ flow.at = "candidate" =>
            \/ r.cap = record.cand
            \/ db'.prev[r.cap] = record.cand /\ record.cand \notin db'.live
       /\ flow.at = "fallback" => r.cap = record.prev \/ db'.prev[r.cap] = record.prev
       /\ flow.at \in {"first", "again"} => r.cap = record.initial
       /\ flow.at = "committing" => r.cap = record.cand
  BY <1>1 DEF AskedFor
<1>3. /\ record' = record /\ flow'.at = flow.at /\ flow'.lease = flow.lease /\ flow'.op = o
      /\ flow.at \notin {"idle", "activating"}
  BY <1>0 DEF Ask, Flows
<1>4. \A x \in Ops : \/ op'[x] \in {op[x], None}
                     \/ op'[x].kind = "commit" => op'[x].cap = record.cand
  BY <1>0, <1>2
<1>5. BrowserOK(record, flow, op', db', lapsed')
  BY <1>0, <1>1, <1>4, ServerKeeps DEF WInv, AskedFor
<1>6. BrowserOK(record', flow', op', db', lapsed')
  BY <1>3, <1>5 DEF BrowserOK, FlowOK
<1>7. op'[o] = r /\ r # None
  BY <1>0, <1>2, PendingAssumption
<1>8. AskedOK(flow', record', op', db')
  BY <1>2, <1>3, <1>7 DEF AskedOK
<1>9. News
  BY <1>1 DEF AskedFor, News
<1> QED BY <1>1, <1>3, <1>6, <1>8, <1>9 DEF StepKept, WInv, AskedFor, Keeps

(* A flow begins.                                                          *)
LEMMA StartKept ==
  ASSUME WInv, BrowserTyped, BrowserOK(record, flow, op', db', lapsed'), LeasesOK(db', idle'), News,
         NEW request \in Requests, NEW n \in Nodes \cup {None}, Start(request, n)
  PROVE  StepKept
<1>1. record' = record /\ flow'.at = Entry(request) /\ flow'.op = None
  BY DEF Start, Idling
<1>2. FlowOK(flow', record', db', lapsed')
  BY <1>1 DEF FlowOK, Entry
<1>3. AskedOK(flow', record', op', db')
  BY <1>1 DEF AskedOK
<1> QED BY <1>1, <1>2, <1>3 DEF StepKept, WInv, BrowserOK, Keeps

(* An expired initial request is retired.                                  *)
LEMMA RetireKept ==
  ASSUME IInv, QInv, Typed', BrowserTyped, WInv, Retire
  PROVE  StepKept
<1>0. /\ record \in Records /\ flow \in Flows /\ None \notin Caps /\ Initials \subseteq Caps
      /\ flow.at = "first" /\ record.initial \in Initials /\ RetireInitial(record.initial)
  BY AssignmentAssumption
     DEF BrowserTyped, CoordinatorTypeOK, Records, Flows, Retire, RetireInitial, IInv, Typed
<1>1. \E i \in Initials : RetireInitial(i)
  BY <1>0
<1>2. LeasesOK(db', idle') /\ Stays /\ BrowserOK(record, flow, op', db', lapsed')
  BY <1>1, OthersLeave
<1>3. News
  BY <1>0 DEF News
<1>4. CASE GiveUp
  BY <1>2, <1>3, <1>4, Ends DEF GiveUp
<1>5. CASE record' = [record EXCEPT !.initial = None] /\ Goto("again", None)
  <2>1. /\ record'.active = record.active /\ record'.prev = record.prev /\ record'.cand = record.cand
        /\ flow'.at = "again" /\ flow'.op = None
    BY <1>0, <1>5 DEF Records, Flows, Goto
  <2>2. record.cand = None
    BY <1>0, <1>2 DEF BrowserOK, FlowOK
  <2>3. RecordOK(record', db') /\ CommitsOK(record', op', db', lapsed')
    BY <1>2, <2>1 DEF BrowserOK, RecordOK, CommitsOK
  <2>4. FlowOK(flow', record', db', lapsed')
    BY <2>1, <2>2 DEF FlowOK
  <2>5. AskedOK(flow', record', op', db')
    BY <2>1 DEF AskedOK
  <2> QED BY <1>0, <1>2, <1>3, <2>3, <2>4, <2>5 DEF StepKept, WInv, BrowserOK
<1> QED BY <1>4, <1>5 DEF Retire

(* The probed lease becomes the browser's.                                 *)
LEMMA ActivateKept ==
  ASSUME IInv, BrowserTyped, WInv, BrowserOK(record, flow, op', db', lapsed'), LeasesOK(db', idle'),
         News, UNCHANGED <<op, db>>, Activate
  PROVE  StepKept
<1>0. /\ flow \in Flows /\ None \notin Caps /\ flow.at = "activating"
      /\ RecordOK(record, db') /\ CommitsOK(record, op', db', lapsed')
      /\ flow.lease \in Caps /\ db'.pin[flow.lease] # None /\ flow.lease \notin db'.pending
      /\ \A c \in {record.active, record.prev, record.cand} \ {flow.lease, None} : Over(db', lapsed', c)
      /\ flow.op = None
  BY AssignmentAssumption
     DEF BrowserTyped, CoordinatorTypeOK, Flows, Activate, BrowserOK, FlowOK, WInv, AskedOK
<1>1. /\ record'.active = flow.lease /\ record'.prev = None /\ record'.cand = None
      /\ flow'.op = None /\ flow'.at \in {"idle", "selecting", "replacing"}
  <2>1. CASE flow' = Idling
    BY <2>1 DEF Idling, Activate
  <2>2. CASE flow' = [flow EXCEPT !.then = "done", !.lease = None,
             !.at = IF flow.then = "select" THEN "selecting" ELSE "replacing"]
    <3> DEFINE at == IF flow.then = "select" THEN "selecting" ELSE "replacing"
    <3>1. at \in {"selecting", "replacing"}
      OBVIOUS
    <3>2. flow' = [flow EXCEPT !.then = "done", !.lease = None, !.at = at]
      BY <2>2
    <3> HIDE DEF at
    <3>3. flow'.at = at /\ flow'.op = None
      BY <1>0, <3>2 DEF Flows
    <3> QED BY <3>1, <3>3 DEF Activate
  <2> QED BY <2>1, <2>2 DEF Activate
<1>2. RecordOK(record', db') /\ FlowOK(flow', record', db', lapsed')
  BY <1>0, <1>1 DEF RecordOK, FlowOK
<1>3. CommitsOK(record', op', db', lapsed')
  <2> SUFFICES ASSUME NEW o \in Ops, op'[o] # None, op'[o].kind = "commit",
                      op'[o].cap \in (db'.live \cap db'.pending) \ lapsed'
               PROVE  FALSE
    BY DEF CommitsOK
  <2>1. op'[o].cap = record.cand /\ op'[o].cap \in Caps
    BY <1>0 DEF CommitsOK, IInv, Typed, Pending
  <2> QED BY <1>0, <2>1 DEF Over
<1>4. Keeps(record, record', db', lapsed')
  BY <1>0, <1>1 DEF Keeps
<1>5. AskedOK(flow', record', op', db')
  BY <1>1 DEF AskedOK
<1> QED BY <1>2, <1>3, <1>4, <1>5 DEF StepKept, WInv, BrowserOK

LEMMA StepIsKept ==
  ASSUME IInv, QInv, Typed', BrowserTyped, BrowserTyped', WInv, [CoordinatorNext]_cvars
  PROVE  StepKept
<1>0. ASSUME UNCHANGED vars
      PROVE  /\ BrowserOK(record, flow, op', db', lapsed') /\ LeasesOK(db', idle') /\ News
             /\ UNCHANGED <<op, db, lapsed>>
  BY <1>0 DEF vars, WInv, News, Established
<1>1. ASSUME NEW request \in Requests, NEW n \in Nodes \cup {None}, Start(request, n) PROVE StepKept
  BY <1>0, <1>1, StartKept DEF Start
<1>2. ASSUME NEW o \in Ops, Receive(o) PROVE StepKept
  <2>1. CASE flow.op = o
    BY <1>2, <2>1, ReceiveKept
  <2>2. CASE flow.op # o
    BY <1>2, <2>2, Watching DEF Receive
  <2> QED BY <2>1, <2>2
<1>3. ASSUME NEW o \in Ops, Fails(o) PROVE StepKept
  <2>1. CASE flow.op = o
    BY <1>3, <2>1, FailsKept
  <2>2. CASE flow.op # o
    BY <1>3, <2>2, Watching DEF Fails
  <2> QED BY <2>1, <2>2
<1>4. ASSUME Bootstrap PROVE StepKept
  <2>1. /\ flow.at \in {"first", "again"} /\ record.initial = None /\ flow' = flow
        /\ record'.active = record.active /\ record'.prev = record.prev
        /\ record'.cand = record.cand /\ UNCHANGED <<op, db, lapsed>>
    BY <1>4 DEF Bootstrap, BrowserTyped, CoordinatorTypeOK, vars
  <2>2. flow.op = None
    <3> SUFFICES ASSUME flow.op # None PROVE FALSE
      OBVIOUS
    <3>1. op[flow.op] \in Pending /\ op[flow.op].cap = None
      BY <2>1 DEF WInv, AskedOK, IInv, Typed, BrowserTyped, CoordinatorTypeOK
    <3> QED BY <3>1, AssignmentAssumption DEF Pending
  <2>3. LeasesOK(db', idle') /\ News
    BY <1>0, <1>4 DEF Bootstrap
  <2>4. BrowserOK(record', flow', op', db', lapsed')
    BY <2>1 DEF WInv, BrowserOK, RecordOK, CommitsOK, FlowOK
  <2> QED BY <2>1, <2>2, <2>3, <2>4 DEF StepKept, WInv, AskedOK, Keeps
<1>5. ASSUME PreviousUnavailable PROVE StepKept
  <2>1. db'.prev = db.prev /\ flow.at = "previous" /\ AcceptCandidate(flow.lease)
    BY <1>0, <1>5 DEF PreviousUnavailable
  <2>2. BrowserKept /\ flow'.op = None
    BY <1>0, <1>5, <2>1, AcceptKeeps DEF PreviousUnavailable
  <2> QED BY <1>0, <1>5, <2>2 DEF PreviousUnavailable, StepKept, WInv, BrowserKept, AskedOK
<1>6. ASSUME Refusal PROVE StepKept
  <2>1. UNCHANGED vars /\ record' = record
    BY <1>6 DEF Refusal, ToldGone
  <2>2. ASSUME flow.at = "candidate" PROVE Over(db', lapsed', record.cand)
    <3>1. record.cand \notin Cleaned.live \cup Cleaned.expired
      BY <1>6, <2>2 DEF Refusal, Refused, Gone
    <3>2. Over(db, lapsed, record.cand)
      BY <3>1 DEF Over, Cleaned, Pruned, IInv, Typed, Tables
    <3> QED BY <1>0, <2>1, <3>2 
  <2> QED BY <1>0, <1>6, <2>1, <2>2, Ends DEF Refusal, ToldGone
<1>7. ASSUME Activate PROVE StepKept
  BY <1>0, <1>7, ActivateKept DEF Activate
<1>8. ASSUME GiveUp, UNCHANGED vars PROVE StepKept
  BY <1>0, <1>8, Ends DEF GiveUp
<1>9. ASSUME Elsewhere PROVE StepKept
  BY <1>9, Watching DEF Elsewhere
<1>10. ASSUME UNCHANGED cvars PROVE StepKept
  BY <1>10, Watching DEF cvars
<1> QED BY <1>1, <1>2, <1>3, <1>4, <1>5, <1>6, <1>7, <1>8, <1>9, <1>10, AskKept, RetireKept
        DEF CoordinatorNext

LEMMA WInvInit == CoordinatorInit => WInv
<1> SUFFICES ASSUME CoordinatorInit PROVE WInv
  OBVIOUS
<1>1. PICK pins \in [Caps -> Nodes \cup {None}] :
        /\ \A c \in Caps : pins[c] # None <=> c \in Legacy
        /\ db = [live |-> Legacy, expired |-> {}, revoked |-> {},
                 recorded |-> {}, pending |-> {}, marked |-> {},
                 pin |-> pins, prev |-> [c \in Caps |-> None]]
  BY DEF CoordinatorInit, Init
<1>2. /\ db.live = Legacy /\ db.expired = {} /\ db.pending = {} /\ idle = {}
      /\ \A c \in Caps : db.prev[c] = None /\ (db.pin[c] # None <=> c \in Legacy)
  BY <1>1 DEF CoordinatorInit, Init
<1>3. LeasesOK(db, idle)
  BY <1>2, AssignmentAssumption DEF LeasesOK, LineageOK, PredecessorsGone
<1>4. /\ record.active = None /\ record.prev = None /\ record.cand = None
      /\ flow.at = "idle" /\ flow.op = None /\ \A o \in Ops : op[o] = None
  BY DEF CoordinatorInit, Init, Idling
<1>5. BrowserOK(record, flow, op, db, lapsed)
  BY <1>4 DEF BrowserOK, RecordOK, CommitsOK, FlowOK
<1>6. AskedOK(flow, record, op, db)
  BY <1>4 DEF AskedOK
<1> QED BY <1>3, <1>5, <1>6 DEF WInv

(* The record names every lease of the browser for as long as it is        *)
(* established at the server (runtime/frontend-assignment.ts), whatever    *)
(* flow is given up at whatever step and whatever answer is lost: from its *)
(* commit, which can only be of the candidate written down before, until   *)
(* it is gone or can only go. While a first assignment is under way its    *)
(* request is named instead.                                               *)
THEOREM BrowserKeepsItsOwner == CoordinatorSpec => OwnerNeverLost
<1>1. IInv /\ QInv /\ BrowserTyped /\ WInv /\ [CoordinatorNext]_cvars =>
        /\ IInv' /\ QInv' /\ BrowserTyped' /\ WInv'
        /\ [\A c \in Established' :
              c \in Named \/ c \notin Established => c \in Named' \/ record.initial # None]_cvars
  <2> SUFFICES ASSUME IInv, QInv, BrowserTyped, WInv, [CoordinatorNext]_cvars
               PROVE  /\ IInv' /\ QInv' /\ BrowserTyped' /\ WInv'
                      /\ \A c \in Established' :
                           c \in Named \/ c \notin Established => c \in Named' \/ record.initial # None
    OBVIOUS
  <2>1. [Next /\ UNCHANGED endpoint]_vars
    BY BrowserIsClient
  <2>2. IInv' /\ QInv' /\ BrowserTyped'
    BY <2>1, NextIInv, QInvStep, BrowserTypedStep
  <2>3. StepKept
    BY <2>2, StepIsKept DEF IInv
  <2>4. ASSUME NEW c \in Established', c \in Named \/ c \notin Established
        PROVE  c \in Named' \/ record.initial # None
    <3>1. c \in Named \/ record.initial # None
      BY <2>3, <2>4 DEF StepKept, News
    <3>2. ~Over(db', lapsed', c) /\ c # None
      BY <2>2, AssignmentAssumption DEF Established, Over, IInv, Typed, Tables
    <3> QED BY <2>3, <3>1, <3>2 DEF StepKept, Keeps, Named
  <2> QED BY <2>2, <2>3, <2>4 DEF StepKept
<1>2. CoordinatorInit => IInv /\ QInv
  BY InitIInv, QInvInit DEF CoordinatorInit
<1> QED BY <1>1, <1>2, BrowserTypedInit, WInvInit, PTL DEF CoordinatorSpec, OwnerNeverLost
=============================================================================
