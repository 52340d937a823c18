---------------------- MODULE NodeControlDispatch_proofs ----------------------
(***************************************************************************)
(* The safety of the control dispatcher, for any number of callers, keys   *)
(* and lease-table versions, and its refinement of ControlPush.            *)
(***************************************************************************)
EXTENDS NodeControlDispatch, FiniteSetTheorems, TLAPS

(* The batches of a key are disjoint and hold exactly its waiting callers. *)
BatchesHoldWaiters ==
  \A k \in Keys :
    /\ queued[k] \cup active[k] = Waiting(k)
    /\ queued[k] \cap active[k] = {}
    /\ k \in flights <=> Waiting(k) # {}

(* Every version that is held anywhere is one the lease tables have had.   *)
VersionsAreReal ==
  /\ \A k \in Keys : carried[k] <= leases /\ known[k] <= leases
  /\ \A p \in abandoned : p[2] <= leases
  /\ \A c \in Callers : asked[c] <= leases

(* The snapshot in flight is no older than the requests it serves, and     *)
(* once it has arrived the node knows it.                                  *)
SnapshotCovers ==
  /\ \A k \in Keys : \A c \in active[k] : asked[c] <= carried[k]
  /\ \A k \in arrived : carried[k] <= known[k]

(* A queued caller has seen no send start. *)
PassedCount ==
  /\ \A k \in Keys : \A c \in queued[k] : passed[c] = 0
  /\ ServedByNextSend

(* A caller is not sent for while one that asked earlier is still queued.  *)
BatchesInOrder ==
  \A p \in earlier :
    /\ outcome[p[1]] = "waiting" /\ outcome[p[2]] = "waiting"
    /\ wants[p[1]] = wants[p[2]]
    /\ \A k \in Keys : p[2] \in active[k] => p[1] \in active[k]

IInv ==
  /\ TypeOK
  /\ BatchesHoldWaiters
  /\ VersionsAreReal
  /\ SnapshotCovers
  /\ ResolvedIsFresh
  /\ PassedCount
  /\ BatchesInOrder
  /\ closing = "closed" => flights = {}

(* The invariant holds in the initial states. *)
LEMMA InitIInv == Init => IInv
  BY DispatchAssumption DEF Init, IInv, TypeOK, BatchesHoldWaiters, Waiting,
     VersionsAreReal, SnapshotCovers, ResolvedIsFresh, PassedCount,
     ServedByNextSend, BatchesInOrder, Versions, Outcomes

(* Going round the drain loop keeps the invariant, on the first turn and   *)
(* after a send that returned.                                             *)
LEMMA StartBatchIInv ==
  ASSUME IInv, NEW k \in Keys, k \in flights, queued[k] # {},
         StartBatch(k), UNCHANGED <<closing, network, leases, wants, asked>>,
         \/ active[k] = {} /\ UNCHANGED <<outcome, earlier>>
         \/ k \in arrived /\ Settle(active[k], "resolved"),
         closing = "open"
  PROVE  IInv'
<1> USE DEF Versions, Outcomes, network, Settle
<1>1. TypeOK'
  BY DEF IInv, TypeOK, StartBatch
<1>2. BatchesHoldWaiters'
  <2> SUFFICES ASSUME NEW j \in Keys
               PROVE  /\ (queued[j] \cup active[j] = Waiting(j))'
                      /\ (queued[j] \cap active[j] = {})'
                      /\ (j \in flights <=> Waiting(j) # {})'
    BY DEF BatchesHoldWaiters
  <2>1. CASE j = k
    BY <2>1 DEF IInv, TypeOK, StartBatch, BatchesHoldWaiters, Waiting
  <2>2. CASE j # k
    BY <2>2 DEF IInv, TypeOK, StartBatch, BatchesHoldWaiters, Waiting
  <2> QED BY <2>1, <2>2
<1>3. VersionsAreReal'
  BY DEF IInv, TypeOK, StartBatch, VersionsAreReal
<1>4. SnapshotCovers'
  <2>1. \A j \in Keys : \A c \in active'[j] : asked'[c] <= carried'[j]
    BY DEF IInv, TypeOK, StartBatch, SnapshotCovers, VersionsAreReal
  <2>2. \A j \in arrived' : carried'[j] <= known'[j]
    BY DEF IInv, TypeOK, StartBatch, SnapshotCovers
  <2> QED BY <2>1, <2>2 DEF SnapshotCovers
<1>5. ResolvedIsFresh'
  BY DEF IInv, TypeOK, StartBatch, ResolvedIsFresh, SnapshotCovers, BatchesHoldWaiters, Waiting
<1>6. PassedCount'
  BY DEF IInv, TypeOK, StartBatch, PassedCount, ServedByNextSend, BatchesHoldWaiters, Waiting
<1>7. BatchesInOrder'
  <2>1. \A p \in earlier' : p \in earlier /\ p[1] \in Callers /\ p[2] \in Callers
    BY DEF IInv, TypeOK
  <2>2. \A p \in earlier' : outcome'[p[1]] = "waiting" /\ outcome'[p[2]] = "waiting"
    BY <2>1 DEF IInv, TypeOK, BatchesInOrder
  <2>3. ASSUME NEW p \in earlier', NEW j \in Keys, p[2] \in active'[j]
        PROVE  p[1] \in active'[j]
    <3>1. CASE j # k
      BY <2>1, <2>3, <3>1 DEF IInv, TypeOK, StartBatch, BatchesInOrder
    <3>2. CASE j = k
      <4>1. p[2] \in Waiting(k) /\ p[1] \in Waiting(k)
        BY <2>1, <2>3, <3>2 DEF IInv, TypeOK, StartBatch, BatchesInOrder, BatchesHoldWaiters, Waiting
      <4>2. p[1] \notin active[k]
        BY <2>1, <2>2 DEF IInv, TypeOK
      <4> QED BY <3>2, <4>1, <4>2 DEF IInv, TypeOK, StartBatch, BatchesHoldWaiters
    <3> QED BY <3>1, <3>2
  <2> QED BY <2>1, <2>2, <2>3 DEF IInv, BatchesInOrder
<1> QED BY <1>1, <1>2, <1>3, <1>4, <1>5, <1>6, <1>7 DEF IInv

(* Ending a drain keeps the invariant when it settles every caller of the  *)
(* key: rejecting both batches, or resolving a batch nobody queued behind. *)
LEMMA EndDrainIInv ==
  ASSUME IInv, NEW k \in Keys, k \in flights, EndDrain(k),
         \/ Settle(active[k] \cup queued[k], "rejected")
         \/ k \in arrived /\ queued[k] = {} /\ Settle(active[k], "resolved"),
         UNCHANGED <<arrived, closing, known, leases, wants, asked>>,
         \/ abandoned' = abandoned
         \/ abandoned' = abandoned \cup {<<k, carried[k]>>}
  PROVE  IInv'
<1> USE DEF Versions, Outcomes, Settle
<1>1. TypeOK'
  BY DEF IInv, TypeOK, EndDrain
<1>2. BatchesHoldWaiters'
  <2> SUFFICES ASSUME NEW j \in Keys
               PROVE  /\ (queued[j] \cup active[j] = Waiting(j))'
                      /\ (queued[j] \cap active[j] = {})'
                      /\ (j \in flights <=> Waiting(j) # {})'
    BY DEF BatchesHoldWaiters
  <2>1. CASE j = k
    BY <2>1 DEF IInv, TypeOK, EndDrain, BatchesHoldWaiters, Waiting
  <2>2. CASE j # k
    BY <2>2 DEF IInv, TypeOK, EndDrain, BatchesHoldWaiters, Waiting
  <2> QED BY <2>1, <2>2
<1>3. VersionsAreReal'
  BY DEF IInv, TypeOK, EndDrain, VersionsAreReal
<1>4. SnapshotCovers'
  BY DEF IInv, TypeOK, EndDrain, SnapshotCovers
<1>5. ResolvedIsFresh'
  BY DEF IInv, TypeOK, EndDrain, ResolvedIsFresh, SnapshotCovers, BatchesHoldWaiters, Waiting
<1>6. PassedCount'
  BY DEF IInv, TypeOK, EndDrain, PassedCount, ServedByNextSend
<1>7. (closing = "closed" => flights = {})'
  BY DEF IInv, TypeOK, EndDrain
<1>8. BatchesInOrder'
  <2>1. \A p \in earlier' : p \in earlier /\ p[1] \in Callers /\ p[2] \in Callers
    BY DEF IInv, TypeOK
  <2>2. \A p \in earlier' : outcome'[p[1]] = "waiting" /\ outcome'[p[2]] = "waiting"
    BY <2>1 DEF IInv, TypeOK, BatchesInOrder
  <2>3. \A j \in Keys : active'[j] = IF j = k THEN {} ELSE active[j]
    BY DEF IInv, TypeOK, EndDrain
  <2> QED BY <2>1, <2>2, <2>3 DEF IInv, BatchesInOrder
<1> QED BY <1>1, <1>2, <1>3, <1>4, <1>5, <1>6, <1>7, <1>8 DEF IInv

(* A request keeps the invariant, accepted or refused. *)
LEMMA RequestIInv ==
  ASSUME IInv, NEW c \in Callers, NEW k \in Keys, Request(c, k)
  PROVE  IInv'
<1> USE DEF Versions, Outcomes, network
<1>0. \A j \in Keys : c \notin queued[j] /\ c \notin active[j]
  BY DEF IInv, Request, BatchesHoldWaiters, Waiting
<1>1. CASE Enqueue(c, k)
  <2>1. TypeOK'
    <3>1. earlier' \in SUBSET (Callers \X Callers)
      <4>1. earlier' = earlier \cup (Waiting(k) \X {c})
        BY <1>1 DEF Enqueue
      <4>2. Waiting(k) \X {c} \in SUBSET (Callers \X Callers)
        BY DEF Waiting
      <4> QED BY <4>1, <4>2 DEF IInv, TypeOK
    <3>2. passed' \in [Callers -> Nat] /\ wants' \in [Callers -> Keys] /\ asked' \in [Callers -> Versions]
      BY DEF IInv, TypeOK, Request
    <3>3. outcome' \in [Callers -> Outcomes] /\ flights' \in SUBSET Keys /\ queued' \in [Keys -> SUBSET Callers]
      BY <1>1 DEF IInv, TypeOK, Enqueue
    <3> QED BY <3>1, <3>2, <3>3 DEF IInv, TypeOK, Request
  <2>2. BatchesHoldWaiters'
    <3> SUFFICES ASSUME NEW j \in Keys
                 PROVE  /\ (queued[j] \cup active[j] = Waiting(j))'
                        /\ (queued[j] \cap active[j] = {})'
                        /\ (j \in flights <=> Waiting(j) # {})'
      BY DEF BatchesHoldWaiters
    <3>1. Waiting(j)' = IF j = k THEN Waiting(j) \cup {c} ELSE Waiting(j)
      BY <1>1 DEF IInv, TypeOK, Request, Enqueue, Waiting
    <3>2. CASE j = k
      BY <1>0, <1>1, <3>1, <3>2 DEF IInv, TypeOK, Request, Enqueue, BatchesHoldWaiters
    <3>3. CASE j # k
      BY <1>1, <3>1, <3>3 DEF IInv, TypeOK, Request, Enqueue, BatchesHoldWaiters
    <3> QED BY <3>2, <3>3
  <2>3. VersionsAreReal'
    BY <1>1 DEF IInv, TypeOK, Request, VersionsAreReal
  <2>4. SnapshotCovers'
    BY <1>0, <1>1 DEF IInv, TypeOK, Request, SnapshotCovers
  <2>5. ResolvedIsFresh'
    BY <1>1 DEF IInv, TypeOK, Request, Enqueue, ResolvedIsFresh
  <2>6. PassedCount'
    BY <1>0, <1>1 DEF IInv, TypeOK, Request, Enqueue, PassedCount, ServedByNextSend
  <2>7. (closing = "closed" => flights = {})'
    BY <1>1 DEF Request, Enqueue
  <2>8. BatchesInOrder'
    <3>1. \A p \in earlier : p[1] \in Callers /\ p[2] \in Callers /\ p[1] # c /\ p[2] # c
      BY DEF IInv, TypeOK, Request, BatchesInOrder
    <3>2. ASSUME NEW d \in Waiting(k)
          PROVE  /\ outcome'[d] = "waiting" /\ outcome'[c] = "waiting"
                 /\ wants'[d] = wants'[c]
      BY <1>1 DEF IInv, TypeOK, Request, Enqueue, Waiting
    <3>3. ASSUME NEW p \in earlier
          PROVE  /\ outcome'[p[1]] = "waiting" /\ outcome'[p[2]] = "waiting"
                 /\ wants'[p[1]] = wants'[p[2]]
                 /\ \A j \in Keys : p[2] \in active'[j] => p[1] \in active'[j]
      BY <1>1, <3>1 DEF IInv, TypeOK, Request, Enqueue, BatchesInOrder
    <3>4. earlier' = earlier \cup (Waiting(k) \X {c}) /\ active' = active
      BY <1>1 DEF Request, Enqueue
    <3> QED BY <1>0, <3>2, <3>3, <3>4 DEF BatchesInOrder
  <2> QED BY <2>1, <2>2, <2>3, <2>4, <2>5, <2>6, <2>7, <2>8 DEF IInv
<1>2. CASE Refuse(c, k)
  <2>1. TypeOK'
    BY <1>2 DEF IInv, TypeOK, Request, Refuse
  <2>2. \A j \in Keys : Waiting(j)' = Waiting(j)
    BY <1>2 DEF IInv, TypeOK, Request, Refuse, Waiting
  <2>3. BatchesHoldWaiters'
    BY <1>2, <2>2 DEF IInv, Request, Refuse, BatchesHoldWaiters
  <2>4. VersionsAreReal'
    BY <1>2 DEF IInv, TypeOK, Request, VersionsAreReal
  <2>5. SnapshotCovers'
    BY <1>0, <1>2 DEF IInv, TypeOK, Request, SnapshotCovers
  <2>6. ResolvedIsFresh'
    BY <1>2 DEF IInv, TypeOK, Request, Refuse, ResolvedIsFresh
  <2>7. PassedCount'
    BY <1>0, <1>2 DEF IInv, TypeOK, Request, Refuse, PassedCount, ServedByNextSend
  <2>8. (closing = "closed" => flights = {})'
    BY <1>2 DEF IInv, Request, Refuse
  <2>9. BatchesInOrder'
    BY <1>2 DEF IInv, TypeOK, Request, Refuse, BatchesInOrder
  <2> QED BY <2>1, <2>3, <2>4, <2>5, <2>6, <2>7, <2>8, <2>9 DEF IInv
<1> QED BY <1>1, <1>2 DEF Request

(* Every other step keeps the invariant too. *)
LEMMA NextIInv == IInv /\ [Next]_vars => IInv'
<1> SUFFICES ASSUME IInv, [Next]_vars PROVE IInv'
  OBVIOUS
<1> USE DEF Versions, dispatch, network, callers
<1>1. CASE Change
  <2>1. leases \in Nat /\ MaxVersion \in Nat
    BY DispatchAssumption DEF IInv, TypeOK
  <2>2. TypeOK'
    BY <1>1, <2>1 DEF Change, IInv, TypeOK
  <2>3. VersionsAreReal'
    <3>1. leases' = leases + 1
      BY <1>1 DEF Change
    <3>2. \A n \in Nat : n <= leases => n <= leases'
      BY <2>1, <3>1
    <3>3. (\A j \in Keys : carried[j] <= leases /\ known[j] <= leases)'
      BY <1>1, <3>2 DEF Change, IInv, TypeOK, VersionsAreReal
    <3>4. (\A p \in abandoned : p[2] <= leases)'
      BY <1>1, <3>2 DEF Change, IInv, TypeOK, VersionsAreReal
    <3>5. (\A c \in Callers : asked[c] <= leases)'
      BY <1>1, <3>2 DEF Change, IInv, TypeOK, VersionsAreReal
    <3> QED BY <3>3, <3>4, <3>5 DEF VersionsAreReal
  <2> QED BY <1>1, <2>2, <2>3 DEF Change, IInv, BatchesHoldWaiters, Waiting,
       SnapshotCovers, ResolvedIsFresh, PassedCount, ServedByNextSend, BatchesInOrder
<1>2. ASSUME NEW c \in Callers, NEW k \in Keys, Request(c, k) PROVE IInv'
  BY <1>2, RequestIInv
<1>3. ASSUME NEW k \in Keys, Drain(k) PROVE IInv'
  <2>1. queued[k] # {}
    BY <1>3 DEF Drain, IInv, BatchesHoldWaiters
  <2>2. CASE closing = "open"
    BY <1>3, <2>1, <2>2, StartBatchIInv DEF Drain
  <2>3. CASE closing # "open"
    <3>1. active[k] \cup queued[k] = queued[k]
      BY <1>3 DEF Drain
    <3> QED BY <1>3, <2>3, <3>1, EndDrainIInv DEF Drain
  <2> QED BY <2>2, <2>3
<1>4. ASSUME NEW k \in Keys, Deliver(k) PROVE IInv'
  <2>1. known' \in [Keys -> Versions] /\ \A j \in Keys : known[j] <= known'[j] /\ known'[j] <= leases
    BY <1>4 DEF Deliver, Apply, IInv, TypeOK, VersionsAreReal
  <2>2. carried[k] <= known'[k]
    BY <1>4 DEF Deliver, Apply, IInv, TypeOK
  <2>3. TypeOK'
    BY <1>4, <2>1 DEF Deliver, IInv, TypeOK
  <2>4. BatchesHoldWaiters'
    BY <1>4 DEF Deliver, IInv, BatchesHoldWaiters, Waiting
  <2>5. VersionsAreReal'
    BY <1>4, <2>1 DEF Deliver, IInv, VersionsAreReal
  <2>6. SnapshotCovers'
    BY <1>4, <2>1, <2>2 DEF Deliver, IInv, TypeOK, SnapshotCovers
  <2>7. ResolvedIsFresh'
    BY <1>4, <2>1 DEF Deliver, IInv, TypeOK, ResolvedIsFresh
  <2> QED BY <1>4, <2>3, <2>4, <2>5, <2>6, <2>7 DEF Deliver, IInv, PassedCount, ServedByNextSend, BatchesInOrder
<1>5. ASSUME NEW p \in abandoned, DeliverAbandoned(p) PROVE IInv'
  <2>1. known' \in [Keys -> Versions] /\ \A j \in Keys : known[j] <= known'[j] /\ known'[j] <= leases
    BY <1>5 DEF DeliverAbandoned, Apply, IInv, TypeOK, VersionsAreReal
  <2>2. TypeOK'
    BY <1>5, <2>1 DEF DeliverAbandoned, IInv, TypeOK
  <2>3. BatchesHoldWaiters'
    BY <1>5 DEF DeliverAbandoned, IInv, BatchesHoldWaiters, Waiting
  <2>4. VersionsAreReal'
    BY <1>5, <2>1 DEF DeliverAbandoned, IInv, VersionsAreReal
  <2>5. SnapshotCovers'
    BY <1>5, <2>1 DEF DeliverAbandoned, IInv, TypeOK, SnapshotCovers
  <2>6. ResolvedIsFresh'
    BY <1>5, <2>1 DEF DeliverAbandoned, IInv, TypeOK, ResolvedIsFresh
  <2> QED BY <1>5, <2>2, <2>3, <2>4, <2>5, <2>6 DEF DeliverAbandoned, IInv, PassedCount, ServedByNextSend, BatchesInOrder
<1>6. ASSUME NEW k \in Keys, SendReturns(k) PROVE IInv'
  <2>1. k \in flights
    BY <1>6 DEF SendReturns, IInv, BatchesHoldWaiters
  <2>2. CASE queued[k] # {}
    BY <1>6, <2>1, <2>2, StartBatchIInv DEF SendReturns
  <2>3. CASE queued[k] = {}
    BY <1>6, <2>1, <2>3, EndDrainIInv DEF SendReturns
  <2> QED BY <2>2, <2>3
<1>7. ASSUME NEW k \in Keys, SendFails(k) PROVE IInv'
  <2>1. k \in flights
    BY <1>7 DEF SendFails, IInv, BatchesHoldWaiters
  <2> QED BY <1>7, <2>1, EndDrainIInv DEF SendFails
<1>8. CASE Close
  BY <1>8 DEF Close, IInv, TypeOK, BatchesHoldWaiters, Waiting, VersionsAreReal,
     SnapshotCovers, ResolvedIsFresh, PassedCount, ServedByNextSend, BatchesInOrder
<1>9. CASE CloseReturns
  BY <1>9 DEF CloseReturns, IInv, TypeOK, BatchesHoldWaiters, Waiting, VersionsAreReal,
     SnapshotCovers, ResolvedIsFresh, PassedCount, ServedByNextSend, BatchesInOrder
<1>10. CASE UNCHANGED vars
  BY <1>10 DEF vars, IInv, TypeOK, BatchesHoldWaiters, Waiting, VersionsAreReal,
     SnapshotCovers, ResolvedIsFresh, PassedCount, ServedByNextSend, BatchesInOrder
<1> QED BY <1>1, <1>2, <1>3, <1>4, <1>5, <1>6, <1>7, <1>8, <1>9, <1>10 DEF Next

(* In every behaviour of the dispatcher the invariant holds throughout. *)
THEOREM Invariance == Spec => []IInv
  BY InitIInv, NextIInv, PTL DEF Spec

(* A resolved request is fresh, in every behaviour. *)
THEOREM Fresh == Spec => []ResolvedIsFresh
  BY Invariance, PTL DEF IInv

(* No caller is lost, in every behaviour. *)
THEOREM NobodyLost == Spec => []NoLostWaiter
<1>1. IInv => NoLostWaiter
  BY DEF IInv, BatchesHoldWaiters, NoLostWaiter
<1> QED BY <1>1, Invariance, PTL

(* A caller waits for one send, not for an idle queue. *)
THEOREM ServedNext == Spec => []ServedByNextSend
  BY Invariance, PTL DEF IInv, PassedCount

(* A closed dispatcher is quiet. *)
THEOREM Quiet == Spec => []ClosedIsQuiet
<1>1. IInv => ClosedIsQuiet
  BY DEF IInv, TypeOK, BatchesHoldWaiters, Waiting, ClosedIsQuiet
<1> QED BY <1>1, Invariance, PTL

(* No control state is read once close() was called. *)
THEOREM Silent == Spec => NoSendAfterClose
<1>1. [Next]_vars => [closing # "open" => carried' = carried]_vars
  BY DEF Next, vars, dispatch, network, callers, Change, Request, Drain, Deliver,
     DeliverAbandoned, SendReturns, SendFails, Close, CloseReturns, EndDrain
<1> QED BY <1>1, PTL DEF Spec, NoSendAfterClose

(* The map of flights never exceeds its limit. *)
THEOREM Bounded == Spec => []PendingBounded
<1>1. Init => PendingBounded
  BY FS_EmptySet, DispatchAssumption DEF Init, PendingBounded
<1>2. IInv /\ PendingBounded /\ [Next]_vars => PendingBounded'
  <2> SUFFICES ASSUME IInv, PendingBounded, [Next]_vars PROVE PendingBounded'
    OBVIOUS
  <2>1. IsFiniteSet(flights) /\ Cardinality(flights) \in Nat
    BY DispatchAssumption, FS_Subset, FS_CardinalityType DEF IInv, TypeOK
  <2>2. ASSUME NEW c \in Callers, NEW k \in Keys, Request(c, k), Enqueue(c, k)
        PROVE  PendingBounded'
    <3>1. CASE k \in flights
      BY <2>2, <3>1 DEF Enqueue, PendingBounded
    <3>2. CASE k \notin flights
      <4>1. flights' = flights \cup {k} /\ Cardinality(flights) < MaxPending
        BY <2>2, <3>2 DEF Enqueue
      <4>2. Cardinality(flights \cup {k}) = Cardinality(flights) + 1
        BY <2>1, <3>2, FS_AddElement
      <4> QED BY <2>1, <4>1, <4>2, DispatchAssumption DEF PendingBounded
    <3> QED BY <3>1, <3>2
  <2>3. ASSUME NEW k \in Keys, EndDrain(k) PROVE PendingBounded'
    <3>1. Cardinality(flights \ {k}) <= Cardinality(flights)
      BY <2>1, FS_Subset
    <3>2. Cardinality(flights \ {k}) \in Nat
      BY <2>1, FS_Subset, FS_CardinalityType
    <3> QED BY <2>1, <2>3, <3>1, <3>2, DispatchAssumption DEF EndDrain, PendingBounded
  <2>4. CASE UNCHANGED flights
    BY <2>4 DEF PendingBounded
  <2> USE DEF dispatch
  <2>5. ASSUME NEW c \in Callers, NEW k \in Keys, Request(c, k) PROVE PendingBounded'
    BY <2>2, <2>4, <2>5 DEF Request, Refuse
  <2>6. ASSUME NEW k \in Keys, Drain(k) \/ SendReturns(k) \/ SendFails(k)
        PROVE  PendingBounded'
    BY <2>3, <2>4, <2>6 DEF Drain, SendReturns, SendFails, StartBatch
  <2>7. ASSUME NEW k \in Keys, Deliver(k) PROVE PendingBounded'
    BY <2>4, <2>7 DEF Deliver
  <2>8. ASSUME NEW p \in abandoned, DeliverAbandoned(p) PROVE PendingBounded'
    BY <2>4, <2>8 DEF DeliverAbandoned
  <2>9. CASE Change \/ Close \/ CloseReturns \/ UNCHANGED vars
    BY <2>4, <2>9 DEF Change, Close, CloseReturns, vars
  <2> QED BY <2>5, <2>6, <2>7, <2>8, <2>9 DEF Next
<1> QED BY <1>1, <1>2, Invariance, PTL DEF Spec

(* Every step of the dispatcher is a step of ControlPush or is invisible   *)
(* to the callers and to the node.                                         *)
LEMMA StepImplements ==
  ASSUME IInv, IInv', [Next]_vars
  PROVE  [Push!Next]_(Push!vars)
<1> USE DEF Push!Next, Push!vars, Versions, dispatch, network, callers
<1>1. CASE Change
  BY <1>1 DEF Change, Push!Change
<1>2. ASSUME NEW c \in Callers, NEW k \in Keys, Request(c, k) PROVE Push!Ask(c, k)
  BY <1>2 DEF Request, Enqueue, Refuse, Waiting, Push!Ask, Push!Waiting
<1>3. ASSUME NEW k \in Keys, NEW S \in SUBSET Callers, NEW result \in {"resolved", "rejected"},
             S \subseteq Waiting(k), \A p \in earlier : p[2] \in S => p[1] \in S,
             result = "resolved" => \A c \in S : known[k] >= asked[c],
             Settle(S, result), UNCHANGED <<leases, known, wants, asked>>
      PROVE  Push!Next
  BY <1>3 DEF Settle, Waiting, Push!Answer, Push!Waiting
<1>4. \A k \in Keys : /\ active[k] \in SUBSET Callers /\ queued[k] \in SUBSET Callers
                      /\ active[k] \cup queued[k] = Waiting(k)
                      /\ \A p \in earlier : p[2] \in active[k] => p[1] \in active[k]
                      /\ \A p \in earlier : p[2] \in Waiting(k) => p[1] \in Waiting(k)
  BY DEF IInv, TypeOK, BatchesHoldWaiters, BatchesInOrder, Waiting
<1>5. \A k \in arrived : \A c \in active[k] : known[k] >= asked[c]
  BY DEF IInv, TypeOK, SnapshotCovers
<1>6. ASSUME NEW k \in Keys, NEW v \in Versions, v <= leases, Apply(k, v),
             UNCHANGED <<leases, wants, asked, outcome, earlier>>
      PROVE  Push!Next
  <2>1. CASE v > known[k]
    <3>1. v \in known[k]..leases
      BY <1>6, <2>1 DEF IInv, TypeOK
    <3> QED BY <1>6, <2>1, <3>1 DEF Apply, Push!Learn
  <2>2. CASE ~(v > known[k])
    <3>1. known[k] \in known[k]..leases
      BY DEF IInv, TypeOK, VersionsAreReal
    <3> QED BY <1>6, <2>2, <3>1 DEF Apply, Push!Learn
  <2> QED BY <2>1, <2>2
<1>7. ASSUME NEW k \in Keys, Drain(k) PROVE [Push!Next]_(Push!vars)
  <2>1. CASE closing = "open"
    BY <1>7, <2>1 DEF Drain
  <2>2. CASE closing # "open"
    <3>1. Push!Next
      BY <1>3, <1>4, <1>7, <2>2 DEF Drain
    <3> QED BY <3>1
  <2> QED BY <2>1, <2>2
<1>8. ASSUME NEW k \in Keys, Deliver(k) PROVE Push!Next
  BY <1>6, <1>8 DEF Deliver, IInv, TypeOK, VersionsAreReal
<1>9. ASSUME NEW p \in abandoned, DeliverAbandoned(p) PROVE Push!Next
  BY <1>6, <1>9 DEF DeliverAbandoned, IInv, TypeOK, VersionsAreReal
<1>10. ASSUME NEW k \in Keys, SendReturns(k) PROVE Push!Next
  <2>1. \A c \in active[k] : known[k] >= asked[c]
    BY <1>5, <1>10 DEF SendReturns
  <2> QED BY <1>3, <1>4, <1>10, <2>1 DEF SendReturns
<1>11. ASSUME NEW k \in Keys, SendFails(k) PROVE Push!Next
  BY <1>3, <1>4, <1>11 DEF SendFails
<1>12. CASE Close \/ CloseReturns \/ UNCHANGED vars
  BY <1>12 DEF Close, CloseReturns, vars
<1> QED BY <1>1, <1>2, <1>7, <1>8, <1>9, <1>10, <1>11, <1>12 DEF Next

(* The dispatcher implements ControlPush. *)
THEOREM Implements == Spec => ImplementsControlPush
<1>1. Init => Push!Init
  BY DEF Init, Push!Init
<1>2. IInv /\ IInv' /\ [Next]_vars => [Push!Next]_(Push!vars)
  BY StepImplements
<1> QED BY <1>1, <1>2, Invariance, PTL DEF Spec, ImplementsControlPush, Push!Spec
=============================================================================
