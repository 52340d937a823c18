------------------------ MODULE NodeAuthority_proofs ------------------------
(***************************************************************************)
(* The node serves what the coordinator's tables say, for any number of    *)
(* sessions, messages and ticks.                                           *)
(*                                                                         *)
(* Every step of the composition is a step of LeasePool or leaves the      *)
(* tables alone, so LeasePool's invariant holds here.  The invariant says  *)
(* of each snapshot, on its way or applied, how its revision and its time  *)
(* relate to the tables as they are now: it may be old, but an ended       *)
(* generation in it is older than the end, and a session somebody waits    *)
(* for is in it if it is younger than the request.                         *)
(***************************************************************************)
EXTENDS NodeRelay, LeasePool_proofs

(* What the tables allow a snapshot of this revision to contain. *)
Sound(rev, grants, til) ==
  /\ rev <= revision
  /\ \A s \in Sessions : til[s] <= until[s]
  /\ \A s \in Sessions, g \in Gens :
       grants[s] = g /\ db.gen[s] # g => rev <= ended[s][g]
  /\ \A s \in Sessions :
       op[s] # None /\ db.gen[s] = op[s].gen /\ rev > asked[s]
         => grants[s] = op[s].gen

(* The sessions it grants were to be served at time t, but for d ticks. *)
Recent(state, grants, t, d) ==
  \A s \in Sessions, g \in Gens :
    state # "disabled" /\ grants[s] = g => t <= lastLive[s][g] + d

NetInv ==
  \A m \in net :
    /\ Sound(m.rev, m.grants, m.until)
    /\ Recent(m.state, m.grants, m.at, 0)
    /\ m.at <= now /\ now <= m.at + Delay

AgentInv ==
  /\ Sound(agent.revision, agent.grants, agent.until)
  /\ Recent(agent.state, agent.grants, agent.lastControl, Delay)

Clocks ==
  /\ \A s \in Sessions : until[s] <= now + Ttl
  /\ \A s \in Sessions, g \in Gens : lastLive[s][g] <= now
  /\ \A s \in Sessions : op[s] # None => s \notin idle

AInv == IInv /\ AuthorityTypeOK /\ NetInv /\ AgentInv /\ Clocks

-----------------------------------------------------------------------------
(* The composition is an implementation of the pool's own protocol.        *)
LEMMA StepIsPoolStep == TypeOK /\ Step => [Next]_vars
<1> SUFFICES ASSUME TypeOK, Step PROVE [Next]_vars
  OBVIOUS
<1>1. ASSUME NEW s \in Sessions,
             \/ \E prev \in Sessions \cup {None} : New(s, prev)
             \/ \E prev \in Sessions, kind \in {"replace", "select"} : Select(s, prev, kind)
             \/ Restore(s)
             \/ Renew(s)
      PROVE  Next
  BY <1>1 DEF Next
<1>2. CASE Push \/ Heartbeat
  BY <1>2 DEF Push, Heartbeat, Emit, Next
<1>3. CASE PushFails
  <2>1. Awaiting \in SUBSET Sessions
    BY DEF Awaiting
  <2> QED BY <1>3, <2>1 DEF PushFails, Next
<1>4. ASSUME NEW s \in Sessions, Returns(s) \/ Rejects(s) PROVE Next
  <2>1. {s} \in SUBSET Sessions
    OBVIOUS
  <2> QED BY <1>4, <2>1 DEF Returns, Rejects, Next
<1>5. CASE Elsewhere \/ CoordinatorRestart
  BY <1>5 DEF Elsewhere, CoordinatorRestart, Next
<1>6. CASE NodeRestart
  BY <1>6 DEF NodeRestart
<1>7. ASSUME NEW m, Lose(m) \/ \E answered \in BOOLEAN : Deliver(m, answered)
      PROVE  UNCHANGED vars
  BY <1>7 DEF Lose, Deliver
<1>8. CASE Tick
  <2> DEFINE over == {s \in Sessions : db.gen[s] # 0 /\ until[s] <= now + 1}
  <2>1. over \in SUBSET Sessions
    OBVIOUS
  <2>2. UNCHANGED vars \/ GoIdle(over)
    BY <1>8 DEF Tick
  <2> QED BY <2>1, <2>2 DEF Next
<1> QED BY <1>1, <1>2, <1>3, <1>4, <1>5, <1>6, <1>7, <1>8 DEF Step

LEMMA PoolIInv == IInv /\ [AuthorityNext]_avars => IInv'
<1>1. IInv /\ AuthorityNext => [Next]_vars
  BY StepIsPoolStep DEF IInv, AuthorityNext
<1>2. UNCHANGED avars => UNCHANGED vars
  BY DEF avars
<1> QED BY <1>1, <1>2, NextIInv

(* Whatever the messages do, the tables follow LeasePool, so its theorems  *)
(* hold of the composition.                                                *)
THEOREM Implements == AuthoritySpec => Spec
<1>1. AuthorityInit => Init
  BY DEF AuthorityInit
<1>2. IInv /\ [AuthorityNext]_avars => [Next]_vars
  BY StepIsPoolStep DEF IInv, AuthorityNext, avars
<1> QED BY <1>1, <1>2, PoolIInv, InitIInv, PTL DEF AuthoritySpec, Spec

-----------------------------------------------------------------------------
(* What every step does to the clocks and the activations. *)
Grows ==
  /\ revision <= revision' /\ now <= now'
  /\ \A s \in Sessions : until[s] <= until'[s]
  /\ \A s \in Sessions :
       op'[s] # None /\ db'.gen[s] = op'[s].gen =>
         \/ asked'[s] = revision
         \/ asked'[s] = asked[s] /\ op'[s] = op[s] /\ db.gen[s] = db'.gen[s]

LEMMA SoundKept ==
  ASSUME AuthorityTypeOK, AuthorityTypeOK', Grows, Remember,
         NEW rev \in Nat, NEW grants, NEW til \in [Sessions -> Nat],
         Sound(rev, grants, til)
  PROVE  Sound(rev, grants, til)'
<1>1. rev <= revision'
  BY DEF Sound, Grows, AuthorityTypeOK, Revisions
<1>2. \A s \in Sessions : til[s] <= until'[s]
  <2>1. \A s \in Sessions : /\ til[s] \in Nat /\ until[s] \in Nat /\ until'[s] \in Nat
                            /\ til[s] <= until[s] /\ until[s] <= until'[s]
    BY AuthorityAssumption DEF Sound, Grows, AuthorityTypeOK, Times
  <2> QED BY <2>1
<1>3. ASSUME NEW s \in Sessions, NEW g \in Gens, grants[s] = g, db'.gen[s] # g
      PROVE  rev <= ended'[s][g]
  <2>1. ended'[s][g] = IF db.gen[s] = g THEN revision ELSE ended[s][g]
    BY <1>3 DEF Remember
  <2> QED BY <1>3, <2>1 DEF Sound
<1>4. ASSUME NEW s \in Sessions, op'[s] # None, db'.gen[s] = op'[s].gen, rev > asked'[s]
      PROVE  grants[s] = op'[s].gen
  <2>1. asked'[s] # revision
    BY <1>4 DEF Sound, AuthorityTypeOK, Revisions
  <2> QED BY <1>4, <2>1 DEF Grows, Sound
<1> QED BY <1>1, <1>2, <1>3, <1>4 DEF Sound

LEMMA RecentKept ==
  ASSUME AuthorityTypeOK, AuthorityTypeOK', Grows, Remember, Clocks,
         NEW state, NEW grants, NEW t \in Nat, NEW d \in Nat,
         Recent(state, grants, t, d)
  PROVE  Recent(state, grants, t, d)'
<1> SUFFICES ASSUME NEW s \in Sessions, NEW g \in Gens, state # "disabled", grants[s] = g
             PROVE  t <= lastLive'[s][g] + d
  BY DEF Recent
<1>1. t <= lastLive[s][g] + d
  BY DEF Recent
<1>2. /\ lastLive'[s][g] \in {now', lastLive[s][g]}
      /\ lastLive[s][g] <= now /\ now <= now'
  BY DEF Remember, Clocks, Grows
<1>3. lastLive[s][g] \in Nat /\ now \in Nat /\ now' \in Nat
  BY AuthorityAssumption DEF AuthorityTypeOK, Times
<1> QED BY <1>1, <1>2, <1>3

(* The session a request is made for, and the others. *)
LEMMA RequestFacts ==
  ASSUME IInv, AuthorityTypeOK, Clocks, NEW s \in Sessions, Request(s),
         \/ \E prev \in Sessions \cup {None} : New(s, prev)
         \/ \E prev \in Sessions, kind \in {"replace", "select"} : Select(s, prev, kind)
         \/ Restore(s)
         \/ Renew(s)
  PROVE  /\ Grows
         /\ s \notin idle' /\ idle' \subseteq idle
         /\ \A t \in Sessions \ {s} : op'[t] = op[t]
<1>1. /\ s \notin idle' /\ idle' \subseteq idle
      /\ \/ op' = op
         \/ \E kind, g, prev :
              op' = [op EXCEPT ![s] = [kind |-> kind, gen |-> g, prev |-> prev]]
      /\ \A t \in Sessions \ {s} : db'.gen[t] = Swept.gen[t]
  <2>1. CASE \/ \E prev \in Sessions \cup {None} : New(s, prev)
             \/ \E prev \in Sessions, kind \in {"replace", "select"} : Select(s, prev, kind)
    <3>1. PICK kind, prev : Reserve(s, kind, prev)
      BY <2>1 DEF New, Select
    <3>2. s \notin idle
      BY <3>1 DEF Reserve, IInv, Drawn
    <3>3. \A t \in Sessions \ {s} : db'.gen[t] = Swept.gen[t]
      BY <3>1, SweptFacts DEF Reserve, IInv, Tables
    <3> QED BY <3>1, <3>2, <3>3 DEF Reserve, Begin
  <2>2. CASE Restore(s)
    <3>1. \A t \in Sessions \ {s} : db'.gen[t] = Swept.gen[t]
      BY <2>2, SweptFacts DEF Restore, IInv, Tables
    <3> QED BY <2>2, <3>1 DEF Restore, Begin
  <2>3. CASE Renew(s)
    BY <2>3 DEF Renew, Begin
  <2> QED BY <2>1, <2>2, <2>3
<1>2. \A t \in Sessions \ {s} : op'[t] = op[t]
  BY <1>1 DEF IInv, TypeOK
<1>3. /\ until' = [until EXCEPT ![s] = now + Ttl]
      /\ asked' = [asked EXCEPT ![s] = revision]
      /\ UNCHANGED <<now, revision>>
  BY DEF Request, control
<1>4. \A t \in Sessions : until[t] <= until'[t]
  <2>1. \A t \in Sessions : until[t] <= now + Ttl /\ until[t] \in Nat
    BY AuthorityAssumption DEF Clocks, AuthorityTypeOK, Times
  <2> QED BY <1>3, <2>1 DEF AuthorityTypeOK
<1>5. \A t \in Sessions \ {s} :
        op'[t] # None => asked'[t] = asked[t] /\ db.gen[t] = db'.gen[t]
  <2>1. \A t \in Sessions \ {s} : op'[t] # None => t \notin idle
    BY <1>2 DEF Clocks
  <2> QED BY <1>1, <1>3, <2>1, SweptFacts DEF IInv, AuthorityTypeOK
<1>6. asked'[s] = revision
  BY <1>3 DEF AuthorityTypeOK
<1>7. Grows
  BY <1>2, <1>3, <1>4, <1>5, <1>6, AuthorityAssumption DEF Grows, AuthorityTypeOK, Revisions
<1> QED BY <1>1, <1>2, <1>7

-----------------------------------------------------------------------------
(* A step after which every snapshot is still as recent as it has to be.   *)
LEMMA OldSnapshots ==
  ASSUME AInv, AuthorityTypeOK', Grows, Remember,
         NEW m \in net, now' <= m.at + Delay
  PROVE  /\ Sound(m.rev, m.grants, m.until)'
         /\ Recent(m.state, m.grants, m.at, 0)'
         /\ m.at <= now' /\ now' <= m.at + Delay
<1>1. m \in Snapshot /\ m.rev \in Nat /\ m.at \in Nat /\ m.until \in [Sessions -> Nat]
  BY AuthorityAssumption DEF AInv, AuthorityTypeOK, Snapshot, Revisions, Times
<1>2. Sound(m.rev, m.grants, m.until) /\ Recent(m.state, m.grants, m.at, 0) /\ m.at <= now
  BY DEF AInv, NetInv
<1>3. Sound(m.rev, m.grants, m.until)'
  BY <1>1, <1>2, SoundKept DEF AInv
<1>4. Recent(m.state, m.grants, m.at, 0)'
  BY <1>1, <1>2, RecentKept DEF AInv
<1>5. m.at <= now'
  BY <1>1, <1>2 DEF Grows, AInv, AuthorityTypeOK
<1> QED BY <1>3, <1>4, <1>5

LEMMA OldAgent ==
  ASSUME AInv, AuthorityTypeOK', Grows, Remember, UNCHANGED agent
  PROVE  AgentInv'
<1> DEFINE rev == agent.revision
           grants == agent.grants
           til == agent.until
           last == agent.lastControl
<1>1. rev \in Nat /\ last \in Nat /\ til \in [Sessions -> Nat]
  BY AuthorityAssumption DEF AInv, AuthorityTypeOK, Revisions, Times
<1>2. Sound(rev, grants, til) /\ Recent(agent.state, grants, last, Delay)
  BY DEF AInv, AgentInv
<1>3. ASSUME NEW r \in Nat, NEW h, NEW u \in [Sessions -> Nat], Sound(r, h, u)
      PROVE  Sound(r, h, u)'
  BY <1>3, SoundKept DEF AInv
<1>4. ASSUME NEW a, NEW h, NEW t \in Nat, Recent(a, h, t, Delay)
      PROVE  Recent(a, h, t, Delay)'
  BY <1>4, RecentKept, AuthorityAssumption DEF AInv
<1>5. PICK a : a = agent
  OBVIOUS
<1>6. Sound(a.revision, a.grants, a.until)' /\ Recent(a.state, a.grants, a.lastControl, Delay)'
  BY <1>1, <1>2, <1>3, <1>4, <1>5
<1>7. agent' = a
  BY <1>5
<1> QED BY <1>6, <1>7 DEF AgentInv

LEMMA TableStep ==
  ASSUME AInv, AuthorityTypeOK', Grows, Remember, UNCHANGED <<net, agent>>,
         \A m \in net : now' <= m.at + Delay
  PROVE  NetInv' /\ AgentInv'
<1>1. AgentInv'
  BY OldAgent
<1>2. ASSUME NEW m \in net
      PROVE  /\ Sound(m.rev, m.grants, m.until)'
             /\ Recent(m.state, m.grants, m.at, 0)'
             /\ m.at <= now' /\ now' <= m.at + Delay
  BY OldSnapshots
<1> QED BY <1>1, <1>2 DEF NetInv

LEMMA InitAInv == AuthorityInit => AInv
<1> SUFFICES ASSUME AuthorityInit PROVE AInv
  OBVIOUS
<1>1. IInv
  BY InitIInv DEF AuthorityInit
<1>2. 0 \in 0..MaxGen /\ 0 \in Revisions /\ 0 \in Times /\ "disabled" \in States
  BY AuthorityAssumption, PoolAssumption DEF Revisions, Times, States
<1>3. AuthorityTypeOK /\ NetInv
  <2>1. /\ agent \in [revision : Revisions, state : States,
                      grants : [Sessions -> 0..MaxGen], until : [Sessions -> Times],
                      lastControl : Times]
    BY <1>2 DEF AuthorityInit, Booted
  <2>2. now \in 0..MaxTime
    BY AuthorityAssumption DEF AuthorityInit
  <2>3. /\ until \in [Sessions -> Times] /\ asked \in [Sessions -> Revisions]
        /\ ended \in [Sessions -> [Gens -> Revisions]]
        /\ lastLive \in [Sessions -> [Gens -> Times]]
        /\ revision \in Revisions /\ pushing \in Revisions /\ acked \in Revisions
    BY <1>2 DEF AuthorityInit
  <2> QED BY <1>1, <2>1, <2>2, <2>3 DEF AuthorityInit, IInv, AuthorityTypeOK, NetInv
<1>4. AgentInv
  BY <1>2, PoolAssumption
     DEF AuthorityInit, AgentInv, Booted, Sound, Recent, Gens, Init
<1>5. Clocks
  BY AuthorityAssumption DEF AuthorityInit, Clocks, Init
<1> QED BY <1>1, <1>3, <1>4, <1>5 DEF AInv

(* The two history variables keep their types and the last is no clock     *)
(* of the future.                                                          *)
LEMMA RememberTypes ==
  ASSUME AInv, Remember, now' \in Times, now <= now'
  PROVE  /\ ended' \in [Sessions -> [Gens -> Revisions]]
         /\ lastLive' \in [Sessions -> [Gens -> Times]]
         /\ \A s \in Sessions, g \in Gens : lastLive'[s][g] <= now'
<1>1. revision \in Revisions
  BY DEF AInv, AuthorityTypeOK
<1>2. \A s \in Sessions, g \in Gens : /\ ended[s][g] \in Revisions
                                      /\ lastLive[s][g] \in Times
                                      /\ lastLive[s][g] <= now
  BY DEF AInv, AuthorityTypeOK, Clocks
<1>3. ended' \in [Sessions -> [Gens -> Revisions]]
  BY <1>1, <1>2 DEF Remember
<1>4. lastLive' \in [Sessions -> [Gens -> Times]]
  BY <1>2 DEF Remember
<1>5. ASSUME NEW s \in Sessions, NEW g \in Gens PROVE lastLive'[s][g] <= now'
  <2>1. lastLive'[s][g] \in {now', lastLive[s][g]}
    BY DEF Remember
  <2> QED BY <1>2, <2>1, AuthorityAssumption DEF AInv, AuthorityTypeOK, Times
<1> QED BY <1>3, <1>4, <1>5

(* A step that moves no message and no clock. *)
LEMMA PlainStep ==
  ASSUME AInv, IInv', Remember, Grows,
         UNCHANGED <<now, net, agent>>,
         until' \in [Sessions -> Times], asked' \in [Sessions -> Revisions],
         revision' \in Revisions, pushing' \in Revisions, acked' \in Revisions,
         \A s \in Sessions : until'[s] <= now' + Ttl,
         \A s \in Sessions : op'[s] # None => s \notin idle'
  PROVE  AInv'
<1>1. now \in Times /\ now <= now'
  BY AuthorityAssumption DEF AInv, AuthorityTypeOK, Times
<1>2. AuthorityTypeOK'
  BY <1>1, RememberTypes DEF AInv, AuthorityTypeOK, IInv
<1>3. NetInv' /\ AgentInv'
  BY <1>2, TableStep DEF AInv, NetInv
<1>4. Clocks'
  BY <1>1, RememberTypes DEF Clocks
<1> QED BY <1>2, <1>3, <1>4 DEF AInv

LEMMA RequestAInv ==
  ASSUME AInv, IInv', Remember, NEW s \in Sessions, Request(s),
         \/ \E prev \in Sessions \cup {None} : New(s, prev)
         \/ \E prev \in Sessions, kind \in {"replace", "select"} : Select(s, prev, kind)
         \/ Restore(s)
         \/ Renew(s)
  PROVE  AInv'
<1>1. /\ Grows /\ s \notin idle' /\ idle' \subseteq idle
      /\ \A t \in Sessions \ {s} : op'[t] = op[t]
  BY RequestFacts DEF AInv
<1>2. /\ until' = [until EXCEPT ![s] = now + Ttl]
      /\ asked' = [asked EXCEPT ![s] = revision]
      /\ UNCHANGED <<now, revision, pushing, acked, net, agent>>
  BY DEF Request, control
<1>3. now + Ttl \in Times
  BY AuthorityAssumption DEF AInv, AuthorityTypeOK, Times
<1>4. until' \in [Sessions -> Times] /\ asked' \in [Sessions -> Revisions]
  BY <1>2, <1>3 DEF AInv, AuthorityTypeOK
<1>5. \A t \in Sessions : until'[t] <= now' + Ttl
  BY <1>2, <1>3 DEF AInv, AuthorityTypeOK, Clocks, Times
<1>6. \A t \in Sessions : op'[t] # None => t \notin idle'
  BY <1>1 DEF AInv, Clocks
<1> QED BY <1>1, <1>2, <1>4, <1>5, <1>6, PlainStep DEF AInv, AuthorityTypeOK

(* A step that only ends activations, or only changes the tables. *)
LEMMA EndingAInv ==
  ASSUME AInv, IInv', Remember,
         UNCHANGED <<now, net, agent, until, asked, revision>>,
         pushing' \in Revisions, acked' \in Revisions, idle' = idle,
         \A s \in Sessions : op'[s] # None =>
            op'[s] = op[s] /\ (db'.gen[s] = 0 \/ db'.gen[s] = db.gen[s])
  PROVE  AInv'
<1>1. \A s \in Sessions : op'[s] # None => op'[s].gen # 0
  BY DEF IInv, TypeOK, Activation, Gens
<1>2. Grows
  BY <1>1, AuthorityAssumption DEF Grows, AInv, AuthorityTypeOK, Revisions, Times
<1> QED BY <1>2, PlainStep DEF AInv, AuthorityTypeOK, Clocks

LEMMA TablesAInv ==
  ASSUME AInv, IInv', Remember,
         \/ \E s \in Sessions : Returns(s) \/ Rejects(s)
         \/ PushFails \/ Elsewhere \/ CoordinatorRestart
  PROVE  AInv'
<1>1. /\ TypeOK /\ IInv /\ db \in Tables
      /\ pushing \in Revisions /\ acked \in Revisions /\ 0 \in Revisions
  BY AuthorityAssumption
     DEF AInv, AuthorityTypeOK, TypeOK, Revisions, Tables
<1>2. ASSUME NEW S \in SUBSET Sessions, Fail(S)
      PROVE  /\ idle' = idle
             /\ \A s \in Sessions : op'[s] # None =>
                  op'[s] = op[s] /\ (db'.gen[s] = 0 \/ db'.gen[s] = db.gen[s])
  BY <1>1, <1>2 DEF Fail, Tables
<1>3. ASSUME NEW s \in Sessions, Returns(s) PROVE AInv'
  <2>1. /\ Return(s) /\ UNCHANGED <<now, net, agent, until, asked, revision, pushing, acked>>
    BY <1>3 DEF Returns, control
  <2>2. \A t \in Sessions : op'[t] # None => op'[t] = op[t]
    BY <1>1, <2>1 DEF Return, TypeOK
  <2>3. \A t \in Sessions : db'.gen[t] = 0 \/ db'.gen[t] = db.gen[t]
    BY <1>1, <2>1, SettledFacts DEF Return
  <2> QED BY <1>1, <2>1, <2>2, <2>3, EndingAInv DEF Return
<1>4. ASSUME NEW s \in Sessions, Rejects(s) PROVE AInv'
  <2>1. {s} \in SUBSET Sessions /\ Fail({s})
    BY <1>4 DEF Rejects
  <2> QED BY <1>1, <1>2, <1>4, <2>1, EndingAInv DEF Rejects, control
<1>5. CASE PushFails
  <2>1. /\ pushing' = 0 /\ UNCHANGED <<now, net, agent, until, asked, revision, acked>>
        /\ Awaiting \in SUBSET Sessions
        /\ UNCHANGED vars \/ Fail(Awaiting)
    BY <1>5 DEF PushFails, Awaiting
  <2>2. CASE UNCHANGED vars
    BY <1>1, <2>1, <2>2, EndingAInv DEF vars
  <2>3. CASE Fail(Awaiting)
    BY <1>1, <1>2, <2>1, <2>3, EndingAInv
  <2> QED BY <2>1, <2>2, <2>3
<1>6. CASE CoordinatorRestart
  <2>1. /\ \A s \in Sessions : op'[s] = None
        /\ idle' = idle /\ pushing' = 0
        /\ UNCHANGED <<now, net, agent, until, asked, revision, acked>>
    BY <1>6 DEF CoordinatorRestart, Restart
  <2> QED BY <1>1, <2>1, EndingAInv
<1>7. CASE Elsewhere
  <2>1. UNCHANGED <<now, net, agent, until, asked, revision, pushing, acked>>
    BY <1>7 DEF Elsewhere, control
  <2>2. ASSUME NEW s \in Sessions, Release(s) PROVE AInv'
    <3>1. op' = op /\ idle' = idle /\ db' = Retired(db, s)
      BY <2>2 DEF Release
    <3>2. \A t \in Sessions : db'.gen[t] = 0 \/ db'.gen[t] = db.gen[t]
      BY <1>1, <3>1, RetiredFacts
    <3> QED BY <1>1, <2>1, <3>1, <3>2, EndingAInv
  <2>3. ASSUME NEW s \in Sessions, Forget(s) PROVE AInv'
    <3>1. op' = op /\ idle' = idle /\ db'.gen = db.gen
      BY <1>1, <2>3 DEF Forget, Tables
    <3> QED BY <1>1, <2>1, <3>1, EndingAInv
  <2>4. CASE Prune
    <3>1. op' = op /\ idle' = idle /\ db' = Swept
      BY <2>4 DEF Prune
    <3>2. \A t \in Sessions : db'.gen[t] = 0 \/ db'.gen[t] = db.gen[t]
      BY <1>1, <3>1, SweptFacts
    <3> QED BY <1>1, <2>1, <3>1, <3>2, EndingAInv
  <2>5. ASSUME NEW state, NEW up, Change(state, up) PROVE AInv'
    BY <1>1, <2>1, <2>5, EndingAInv DEF Change
  <2> QED BY <1>7, <2>2, <2>3, <2>4, <2>5 DEF Elsewhere
<1> QED BY <1>3, <1>4, <1>5, <1>6, <1>7

(* nodeState(): the new snapshot agrees with the tables it leaves. *)
LEMMA EmitAInv ==
  ASSUME AInv, IInv', Remember, NEW kind \in {"push", "reply"}, Emit(kind),
         pushing' \in Revisions
  PROVE  AInv'
<1>0. PICK m : m = StateOf(kind)
  OBVIOUS
<1>1. /\ revision < MaxRev /\ revision' = revision + 1 /\ net' = net \cup {m}
      /\ db' = Swept
      /\ UNCHANGED <<now, until, asked, acked, agent>>
      /\ UNCHANGED <<idle, used, known, op, node, issued, dead, replaces>>
  BY <1>0 DEF Emit, Prune
<1>2. /\ TypeOK /\ AuthorityTypeOK /\ Clocks
      /\ now \in Nat /\ revision \in Nat /\ now \in Times
      /\ until \in [Sessions -> Nat] /\ asked \in [Sessions -> Nat]
  BY AuthorityAssumption DEF AInv, AuthorityTypeOK, Revisions, Times
<1>3. revision' \in Revisions /\ revision < revision'
  BY <1>1, <1>2, AuthorityAssumption DEF Revisions
<1>4. /\ m.kind = kind /\ m.rev = revision' /\ m.state = node.state /\ m.grants = db'.gen
      /\ m.until = until /\ m.at = now
  BY <1>0, <1>1 DEF StateOf
<1>5. m \in Snapshot
  <2>1. Swept.gen \in [Sessions -> 0..MaxGen] /\ node.state \in States
    BY <1>2, SweptFacts DEF Tables, TypeOK
  <2> QED BY <1>0, <1>1, <1>2, <1>3, <2>1 DEF StateOf, Snapshot, AuthorityTypeOK
<1>6. Grows
  <2>1. \A s \in Sessions : op[s] # None => db'.gen[s] = db.gen[s]
    BY <1>1, <1>2, SweptFacts DEF Clocks
  <2> QED BY <1>1, <1>2, <1>3, <2>1 DEF Grows
<1>7. AuthorityTypeOK'
  <2>1. now <= now' /\ now' \in Times
    BY <1>1, <1>2
  <2> QED BY <1>1, <1>2, <1>3, <1>5, <2>1, RememberTypes DEF AuthorityTypeOK, IInv
<1>8. AgentInv'
  BY <1>1, <1>6, <1>7, OldAgent
<1>9. ASSUME NEW x \in net
      PROVE  /\ Sound(x.rev, x.grants, x.until)'
             /\ Recent(x.state, x.grants, x.at, 0)'
             /\ x.at <= now' /\ now' <= x.at + Delay
  BY <1>1, <1>6, <1>7, OldSnapshots DEF AInv, NetInv
<1>10. Sound(m.rev, m.grants, m.until)'
  <2>1. m.rev <= revision'
    BY <1>3, <1>4 DEF Revisions
  <2>2. \A s \in Sessions : m.until[s] <= until'[s]
    BY <1>1, <1>2, <1>4
  <2>3. \A s \in Sessions, g \in Gens : m.grants[s] = g => db'.gen[s] = g
    BY <1>4
  <2>4. \A s \in Sessions : db'.gen[s] = op'[s].gen => m.grants[s] = op'[s].gen
    BY <1>4
  <2> QED BY <2>1, <2>2, <2>3, <2>4 DEF Sound
<1>11. Recent(m.state, m.grants, m.at, 0)'
  <2>1. ASSUME NEW s \in Sessions, NEW g \in Gens, m.state # "disabled", m.grants[s] = g
        PROVE  m.at <= lastLive'[s][g] + 0
    <3>1. lastLive'[s][g] = now
      BY <1>1, <1>4, <2>1 DEF Remember, Served
    <3> QED BY <1>2, <1>4, <3>1
  <2> QED BY <2>1 DEF Recent
<1>12. NetInv'
  <2>1. m.at <= now' /\ now' <= m.at + Delay
    BY <1>1, <1>2, <1>4, AuthorityAssumption
  <2>2. \A x \in net' : x \in net \/ x = m
    BY <1>1
  <2> QED BY <1>9, <1>10, <1>11, <2>1, <2>2 DEF NetInv
<1>13. Clocks'
  BY <1>1, <1>2, RememberTypes DEF Clocks
<1> QED BY <1>7, <1>8, <1>12, <1>13 DEF AInv

-----------------------------------------------------------------------------
(* The tables are left alone: what was true of a snapshot stays true. *)
LEMMA NodeSideGrows ==
  ASSUME AInv, UNCHANGED <<vars, until, asked, revision>>, now <= now'
  PROVE  Grows
BY AuthorityAssumption DEF Grows, vars, AInv, AuthorityTypeOK, Revisions, Times

(* A snapshot in place of the agent's state; a is what the agent becomes.  *)
LEMMA NodeSideAInv ==
  ASSUME AInv, IInv', Remember, UNCHANGED <<vars, now, until, asked, revision>>,
         net' \subseteq net, pushing' \in Revisions, acked' \in Revisions,
         agent' \in [revision : Revisions, state : States,
                     grants : [Sessions -> 0..MaxGen],
                     until : [Sessions -> Times], lastControl : Times],
         AgentInv'
  PROVE  AInv'
<1>1. Grows /\ now <= now' /\ now' \in Times
  BY NodeSideGrows, AuthorityAssumption DEF AInv, AuthorityTypeOK, Times
<1>2. AuthorityTypeOK'
  BY <1>1, RememberTypes DEF AInv, AuthorityTypeOK, IInv
<1>3. ASSUME NEW m \in net'
      PROVE  /\ Sound(m.rev, m.grants, m.until)'
             /\ Recent(m.state, m.grants, m.at, 0)'
             /\ m.at <= now' /\ now' <= m.at + Delay
  BY <1>1, <1>2, OldSnapshots DEF AInv, NetInv
<1>4. NetInv'
  BY <1>3 DEF NetInv
<1>5. Clocks'
  BY <1>1, RememberTypes DEF Clocks, AInv, vars
<1> QED BY <1>2, <1>4, <1>5 DEF AInv

LEMMA NodeAInv ==
  ASSUME AInv, IInv', Remember,
         \/ NodeRestart
         \/ \E m \in net : Lose(m) \/ \E answered \in BOOLEAN : Deliver(m, answered)
  PROVE  AInv'
<1>1. /\ AuthorityTypeOK /\ 0 \in Revisions /\ 0 \in Times /\ 0 \in 0..MaxGen
      /\ "disabled" \in States /\ now \in Times /\ now <= now
  BY AuthorityAssumption, PoolAssumption
     DEF AInv, AuthorityTypeOK, Revisions, Times, States
<1>2. CASE NodeRestart
  <2>1. /\ agent' = Booted /\ net' \subseteq net
        /\ UNCHANGED <<vars, now, until, asked, revision, pushing, acked>>
    BY <1>2 DEF NodeRestart
  <2>2. agent' \in [revision : Revisions, state : States,
                    grants : [Sessions -> 0..MaxGen],
                    until : [Sessions -> Times], lastControl : Times]
    BY <1>1, <2>1 DEF Booted
  <2>3. /\ agent'.revision = 0 /\ agent'.state = "disabled"
        /\ \A s \in Sessions : agent'.grants[s] = 0 /\ agent'.until[s] = 0
    BY <2>1 DEF Booted
  <2>4. AgentInv'
    <3>1. /\ revision' \in Nat
          /\ \A s \in Sessions : until'[s] \in Nat /\ asked'[s] \in Nat
          /\ \A g \in Gens : g # 0
      BY <1>1, <2>1, AuthorityAssumption DEF AuthorityTypeOK, Revisions, Times, Gens
    <3>2. Sound(agent.revision, agent.grants, agent.until)'
      BY <2>3, <3>1 DEF Sound
    <3>3. Recent(agent.state, agent.grants, agent.lastControl, Delay)'
      BY <2>3 DEF Recent
    <3> QED BY <3>2, <3>3 DEF AgentInv
  <2> QED BY <1>1, <2>1, <2>2, <2>4, NodeSideAInv DEF AuthorityTypeOK
<1>3. ASSUME NEW m \in net, Lose(m) PROVE AInv'
  <2>1. /\ net' \subseteq net
        /\ UNCHANGED <<vars, now, until, asked, revision, pushing, acked, agent>>
    BY <1>3 DEF Lose
  <2>2. AuthorityTypeOK'
    <3>1. now <= now' /\ now' \in Times
      BY <1>1, <2>1
    <3> QED BY <1>1, <2>1, <3>1, RememberTypes DEF AuthorityTypeOK, IInv
  <2>3. AgentInv'
    BY <1>1, <2>1, <2>2, OldAgent, NodeSideGrows
  <2> QED BY <1>1, <2>1, <2>3, NodeSideAInv DEF AuthorityTypeOK
<1>4. ASSUME NEW m \in net, NEW answered \in BOOLEAN, Deliver(m, answered) PROVE AInv'
  <2>1. /\ agent' = Applied(m) /\ net' \subseteq net
        /\ UNCHANGED <<vars, now, until, asked, revision>>
    BY <1>4 DEF Deliver
  <2>2. m \in Snapshot
    BY <1>1 DEF AuthorityTypeOK
  <2>3. pushing' \in Revisions /\ acked' \in Revisions
    BY <1>1, <1>4, <2>2 DEF Deliver, AuthorityTypeOK, Snapshot
  <2>4. agent' \in [revision : Revisions, state : States,
                    grants : [Sessions -> 0..MaxGen],
                    until : [Sessions -> Times], lastControl : Times]
    BY <1>1, <2>1, <2>2 DEF Applied, AuthorityTypeOK, Snapshot
  <2>5. AuthorityTypeOK'
    <3>1. now <= now' /\ now' \in Times
      BY <1>1, <2>1
    <3>2. net' \in SUBSET Snapshot
      BY <1>1, <2>1 DEF AuthorityTypeOK
    <3> QED BY <1>1, <2>1, <2>3, <2>4, <3>1, <3>2, RememberTypes
            DEF AuthorityTypeOK, IInv
  <2>6. Grows
    BY <1>1, <2>1, NodeSideGrows
  <2>7. AgentInv'
    <3>1. CASE agent' = agent
      BY <2>5, <2>6, <3>1, OldAgent
    <3>2. CASE agent' # agent
      <4>1. /\ agent'.revision = m.rev /\ agent'.state = m.state
            /\ agent'.grants = m.grants /\ agent'.until = m.until
            /\ agent'.lastControl = now
        BY <2>1, <3>2 DEF Applied
      <4>2. /\ Sound(m.rev, m.grants, m.until)'
            /\ Recent(m.state, m.grants, m.at, 0)'
            /\ now' <= m.at + Delay
        BY <2>1, <2>5, <2>6, OldSnapshots DEF AInv, NetInv
      <4>3. Sound(agent.revision, agent.grants, agent.until)'
        BY <4>1, <4>2 DEF Sound
      <4>4. ASSUME NEW s \in Sessions, NEW g \in Gens,
                   m.state # "disabled", m.grants[s] = g
            PROVE  now <= lastLive'[s][g] + Delay
        <5>1. m.at <= lastLive'[s][g] + 0
          BY <4>2, <4>4 DEF Recent
        <5>2. m.at \in Nat /\ lastLive'[s][g] \in Nat /\ now \in Nat
          BY <1>1, <2>2, <2>5, AuthorityAssumption DEF Snapshot, AuthorityTypeOK, Times
        <5> QED BY <2>1, <4>2, <5>1, <5>2, AuthorityAssumption
      <4>5. Recent(agent.state, agent.grants, agent.lastControl, Delay)'
        BY <4>1, <4>4 DEF Recent
      <4> QED BY <4>3, <4>5 DEF AgentInv
    <3> QED BY <3>1, <3>2
  <2> QED BY <2>1, <2>3, <2>4, <2>7, NodeSideAInv
<1> QED BY <1>2, <1>3, <1>4

LEMMA TickAInv ==
  ASSUME AInv, IInv', Remember, Tick
  PROVE  AInv'
<1> DEFINE over == {s \in Sessions : db.gen[s] # 0 /\ until[s] <= now + 1}
<1>1. /\ now < MaxTime /\ now' = now + 1 /\ \A m \in net : now < m.at + Delay
      /\ UNCHANGED vars \/ GoIdle(over)
      /\ UNCHANGED <<until, asked, revision, pushing, acked, net, agent>>
  BY DEF Tick, control
<1>2. AuthorityTypeOK /\ now \in 0..MaxTime
  BY DEF AInv, AuthorityTypeOK
<1>3. /\ UNCHANGED <<db, op>>
      /\ \A s \in Sessions : op'[s] # None => s \notin idle'
  BY <1>1 DEF GoIdle, vars, AInv, Clocks
<1>4. now <= now' /\ now' \in Times /\ now' \in 0..MaxTime
  BY <1>1, <1>2, AuthorityAssumption DEF Times
<1>5. Grows
  BY <1>1, <1>2, <1>3, <1>4, AuthorityAssumption
     DEF Grows, AuthorityTypeOK, Revisions, Times
<1>6. AuthorityTypeOK'
  BY <1>1, <1>2, <1>4, RememberTypes DEF AuthorityTypeOK, IInv
<1>7. \A m \in net : now' <= m.at + Delay
  <2>1. \A m \in net : m.at \in Nat /\ now \in Nat
    BY <1>2, AuthorityAssumption DEF AuthorityTypeOK, Snapshot, Times
  <2> QED BY <1>1, <2>1, AuthorityAssumption
<1>8. NetInv' /\ AgentInv'
  BY <1>1, <1>5, <1>6, <1>7, TableStep
<1>9. Clocks'
  <2>1. \A s \in Sessions : until[s] \in Nat /\ until[s] <= now + Ttl /\ now \in Nat
    BY <1>2, AuthorityAssumption DEF AInv, Clocks, AuthorityTypeOK, Times
  <2>2. \A s \in Sessions : until'[s] <= now' + Ttl
    BY <1>1, <2>1, AuthorityAssumption
  <2> QED BY <1>3, <1>4, <2>2, RememberTypes DEF Clocks
<1> QED BY <1>6, <1>8, <1>9 DEF AInv

LEMMA NextAInv == AInv /\ [AuthorityNext]_avars => AInv'
<1> SUFFICES ASSUME AInv, [AuthorityNext]_avars PROVE AInv'
  OBVIOUS
<1>1. IInv'
  BY PoolIInv DEF AInv
<1>2. CASE AuthorityNext
  <2>1. Step /\ Remember
    BY <1>2 DEF AuthorityNext
  <2>2. CASE Push \/ Heartbeat
    <3>1. 0 \in Revisions /\ (revision < MaxRev => revision + 1 \in Revisions)
      BY AuthorityAssumption DEF AInv, AuthorityTypeOK, Revisions
    <3>2. PICK kind \in {"push", "reply"} : Emit(kind)
      BY <2>2 DEF Push, Heartbeat
    <3>3. pushing' \in Revisions
      BY <2>2, <3>1 DEF Push, Heartbeat, Emit, AInv, AuthorityTypeOK
    <3> QED BY <1>1, <2>1, <3>2, <3>3, EmitAInv
  <2> QED
    BY <1>1, <2>1, <2>2, RequestAInv, TablesAInv, NodeAInv, TickAInv DEF Step
<1>3. CASE UNCHANGED avars
  <2>1. UNCHANGED <<db, idle, used, known, op, node, issued, dead, replaces, now, until,
                    asked, revision, pushing, acked, net, agent, ended, lastLive>>
    BY <1>3 DEF avars, vars, control, history
  <2>2. AuthorityTypeOK' /\ Clocks'
    BY <1>1, <2>1 DEF AInv, AuthorityTypeOK, IInv, Clocks
  <2>3. NetInv' /\ AgentInv'
    BY <2>1 DEF AInv, NetInv, AgentInv, Sound, Recent
  <2> QED BY <1>1, <2>2, <2>3 DEF AInv
<1> QED BY <1>2, <1>3

THEOREM AuthorityInvariance == AuthoritySpec => []AInv
  BY InitAInv, NextAInv, PTL DEF AuthoritySpec

LEMMA AInvStops == AInv => StopBound
<1> SUFFICES ASSUME AInv, NEW s \in Sessions, NEW g \in Gens, Authorises(s, g)
             PROVE  now <= lastLive[s][g] + Fresh + Delay
  BY DEF StopBound
<1>1. /\ now <= agent.lastControl + Fresh
      /\ agent.lastControl <= lastLive[s][g] + Delay
  BY DEF Authorises, AInv, AgentInv, Recent
<1>2. now \in Nat /\ agent.lastControl \in Nat /\ lastLive[s][g] \in Nat
  BY AuthorityAssumption DEF AInv, AuthorityTypeOK, Times
<1> QED BY <1>1, <1>2, AuthorityAssumption

(* A node serves nothing longer than Fresh + Delay after the coordinator   *)
(* stopped wanting it served.                                              *)
THEOREM Stops == AuthoritySpec => []StopBound
  BY AInvStops, AuthorityInvariance, PTL

(* A ticket is handed out only when the node knows its session.            *)
THEOREM Usable == AuthoritySpec => []UsableWhenIssued
<1>1. AInv => UsableWhenIssued
  <2> SUFFICES ASSUME AInv, NEW s \in Sessions, op[s] # None, Answered(s), Current(s),
                      agent.revision >= acked
               PROVE  agent.grants[s] = op[s].gen
    BY DEF UsableWhenIssued
  <2>1. agent.revision > asked[s]
    BY AuthorityAssumption DEF Answered, AInv, AuthorityTypeOK, Revisions
  <2> QED BY <2>1 DEF AInv, AgentInv, Sound, Current
<1> QED BY <1>1, AuthorityInvariance, PTL

(* The node's own expiry is never later than the coordinator's.            *)
THEOREM IdleStops == AuthoritySpec => []NoIdleService
<1>1. AInv => NoIdleService
  <2> SUFFICES ASSUME AInv, NEW s \in Sessions, NEW g \in Gens, Authorises(s, g)
               PROVE  now < until[s]
    BY DEF NoIdleService
  <2>1. now < agent.until[s] /\ agent.until[s] <= until[s]
    BY DEF Authorises, AInv, AgentInv, Sound
  <2>2. now \in Nat /\ agent.until[s] \in Nat /\ until[s] \in Nat
    BY AuthorityAssumption DEF AInv, AuthorityTypeOK, Times
  <2> QED BY <2>1, <2>2
<1> QED BY <1>1, AuthorityInvariance, PTL

(* No message makes a node go back behind the end of a generation.         *)
THEOREM EndedStaysEnded == AuthoritySpec => NoRevival
<1>1. ASSUME AInv, AInv', [AuthorityNext]_avars,
             NEW s \in Sessions, NEW g \in Gens,
             db.gen[s] # g, db'.gen[s] # g, agent.revision > ended[s][g]
      PROVE  ~ Authorises(s, g)'
  <2>1. ended'[s][g] = ended[s][g]
    BY <1>1 DEF AuthorityNext, Remember, avars, history
  <2>2. g # 0 /\ ended[s][g] \in Nat /\ agent.revision \in Nat /\ agent'.revision \in Nat
    <3>1. AuthorityTypeOK /\ AuthorityTypeOK' /\ Revisions \subseteq Nat
      BY <1>1, AuthorityAssumption DEF AInv, Revisions
    <3>2. ended[s][g] \in Revisions /\ agent.revision \in Revisions
      BY <3>1 DEF AuthorityTypeOK
    <3>3. agent'.revision \in Revisions
      BY <3>1 DEF AuthorityTypeOK
    <3>4. g # 0
      BY PoolAssumption DEF Gens
    <3>5. \A x \in Revisions : x \in Nat
      BY <3>1
    <3>6. ended[s][g] \in Nat /\ agent.revision \in Nat
      BY <3>2, <3>5
    <3>7. agent'.revision \in Nat
      BY <3>3, <3>5
    <3> QED BY <3>4, <3>6, <3>7
  <2>3. agent'.revision >= agent.revision \/ agent' = Booted
    <3>1. ASSUME NEW m \in net, NEW answered \in BOOLEAN, Deliver(m, answered)
          PROVE  agent'.revision >= agent.revision
      <4>1. m.rev \in Nat
        BY <1>1, AuthorityAssumption DEF AInv, AuthorityTypeOK, Snapshot, Revisions
      <4> QED BY <2>2, <3>1, <4>1 DEF Deliver, Applied
    <3>2. UNCHANGED agent => agent'.revision >= agent.revision
      BY <2>2
    <3>3. CASE UNCHANGED avars
      BY <3>2, <3>3 DEF avars
    <3>4. CASE Step
      BY <3>1, <3>2, <3>4 DEF Step, Request, Push, Heartbeat, Emit, PushFails, Returns,
         Rejects, Elsewhere, CoordinatorRestart, Lose, NodeRestart, Tick
    <3> QED BY <1>1, <3>3, <3>4 DEF AuthorityNext
  <2>4. agent'.grants[s] = g => agent'.revision <= ended'[s][g]
    BY <1>1 DEF AInv, AgentInv, Sound
  <2>5. CASE agent' = Booted
    BY <2>5 DEF Booted, Authorises
  <2>6. CASE agent'.revision >= agent.revision
    BY <1>1, <2>1, <2>2, <2>4, <2>6 DEF Authorises
  <2> QED BY <2>3, <2>5, <2>6
<1>2. AInv /\ AInv' /\ [AuthorityNext]_avars =>
        [\A s \in Sessions, g \in Gens :
           (db.gen[s] # g /\ db'.gen[s] # g /\ agent.revision > ended[s][g])
             => ~ Authorises(s, g)']_avars
  BY <1>1
<1> QED BY <1>2, AuthorityInvariance, PTL DEF AuthoritySpec, NoRevival

-----------------------------------------------------------------------------
(***************************************************************************)
(* The relays of a node end in bounded time, for any number of sessions,   *)
(* relays, messages and ticks.                                             *)
(*                                                                         *)
(* Every step is a step of the system around the relays or leaves it       *)
(* alone, so its invariant holds here.  Of an open relay the invariant     *)
(* says that the snapshot in force grants its generation, and that its     *)
(* generation was to be served not long before the last round of checks.   *)
(***************************************************************************)
Granted(s, g) == agent.state # "disabled" /\ agent.grants[s] = g
Lately(s, g) == checked <= lastLive[s][g] + Fresh + Delay

RInv ==
  /\ AInv
  /\ relays \in [Relays -> Socket \cup {None}]
  /\ checked \in 0..MaxTime
  /\ checked <= now /\ now <= checked + Recheck
  /\ \A r \in OpenRelays :
       Granted(relays[r].session, relays[r].gen) /\ Lately(relays[r].session, relays[r].gen)

LEMMA AroundIsAuthority == RelayNext \/ UNCHANGED rvars => [AuthorityNext]_avars
  BY DEF RelayNext, Around, rvars

(* The system around the relays does not notice them. *)
THEOREM ImplementsAuthority == RelaySpec => AuthoritySpec
<1>1. RelayInit => AuthorityInit
  BY DEF RelayInit
<1>2. [RelayNext]_rvars => [AuthorityNext]_avars
  BY AroundIsAuthority
<1> QED BY <1>1, <1>2, PTL DEF RelaySpec, AuthoritySpec

LEMMA Passing ==
  ASSUME AInv, AInv', [AuthorityNext]_avars
  PROVE  /\ now \in Nat /\ (now' = now \/ now' = now + 1) /\ now' \in 0..MaxTime
         /\ \A s \in Sessions, g \in Gens :
              /\ lastLive[s][g] \in Nat /\ lastLive'[s][g] \in Nat
              /\ lastLive[s][g] <= lastLive'[s][g]
<1>1. now \in Nat /\ now' \in 0..MaxTime
  BY AuthorityAssumption DEF AInv, AuthorityTypeOK
<1>2. now' = now \/ now' = now + 1
  BY DEF AuthorityNext, Step, Request, Push, Heartbeat, Emit, PushFails, Returns, Rejects,
         Elsewhere, CoordinatorRestart, Lose, Deliver, NodeRestart, Tick, avars
<1>3. ASSUME NEW s \in Sessions, NEW g \in Gens
      PROVE  /\ lastLive[s][g] \in Nat /\ lastLive'[s][g] \in Nat
             /\ lastLive[s][g] <= lastLive'[s][g]
  <2>1. lastLive[s][g] \in Nat /\ lastLive'[s][g] \in Nat /\ lastLive[s][g] <= now
    BY AuthorityAssumption DEF AInv, AuthorityTypeOK, Clocks, Times
  <2>2. lastLive'[s][g] \in {lastLive[s][g], now'}
    BY DEF AuthorityNext, Remember, avars, history
  <2> QED BY <1>1, <1>2, <2>1, <2>2
<1> QED BY <1>1, <1>2, <1>3

(* What recheckConnections() leaves open is granted. *)
LEMMA RecheckLeaves ==
  ASSUME RecheckConnections, relays \in [Relays -> Socket \cup {None}],
         AInv', now' \in Nat, checked' \in Nat, checked' <= now'
  PROVE  /\ relays' \in [Relays -> Socket \cup {None}]
         /\ \A r \in OpenRelays' :
              Granted(relays[r].session, relays[r].gen)' /\ Lately(relays[r].session, relays[r].gen)'
<1>1. relays' \in [Relays -> Socket \cup {None}]
  <2>1. \A r \in OpenRelays : [relays[r] EXCEPT !.open = FALSE] \in Socket
    BY DEF OpenRelays, Socket
  <2> QED BY <2>1 DEF RecheckConnections, Refused
<1>2. ASSUME NEW r \in OpenRelays'
      PROVE  Granted(relays[r].session, relays[r].gen)' /\ Lately(relays[r].session, relays[r].gen)'
  <2>1. r \in Relays /\ relays'[r] # None /\ relays'[r].open /\ relays'[r] \in Socket
    BY <1>1, <1>2 DEF OpenRelays
  <2>2. r \notin Refused
    <3> SUFFICES ASSUME r \in Refused PROVE FALSE
      OBVIOUS
    <3>1. relays'[r] = [relays[r] EXCEPT !.open = FALSE] /\ relays[r] \in Socket
      BY <2>1 DEF RecheckConnections, Refused, OpenRelays
    <3> QED BY <2>1, <3>1 DEF Socket
  <2>3. relays'[r] = relays[r] /\ r \in OpenRelays
    BY <2>1, <2>2 DEF RecheckConnections, OpenRelays
  <2>4. PICK s \in Sessions, g \in Gens : relays[r].session = s /\ relays[r].gen = g
    BY <2>1, <2>3 DEF Socket
  <2>5. Authorises(s, g)'
    BY <2>2, <2>3, <2>4 DEF Refused
  <2>6. now' <= lastLive'[s][g] + Fresh + Delay
    <3>1. StopBound'
      BY AInvStops, PTL
    <3> QED BY <2>5, <3>1 DEF StopBound
  <2>7. lastLive'[s][g] \in Nat
    BY AuthorityAssumption DEF AInv, AuthorityTypeOK, Times
  <2>8. checked' <= lastLive'[s][g] + Fresh + Delay
    BY <2>6, <2>7, AuthorityAssumption
  <2>9. agent'.state # "disabled" /\ agent'.grants[s] = g
    BY <2>5 DEF Authorises
  <2> QED BY <2>3, <2>4, <2>8, <2>9 DEF Granted, Lately
<1> QED BY <1>1, <1>2

LEMMA RInitHolds == RelayInit => RInv
<1> SUFFICES ASSUME RelayInit PROVE RInv
  OBVIOUS
<1>1. AInv
  BY InitAInv DEF RelayInit
<1>2. OpenRelays = {}
  BY DEF RelayInit, OpenRelays
<1>3. now = 1 /\ checked = 1
  BY DEF RelayInit, AuthorityInit
<1> QED BY <1>1, <1>2, <1>3, RelayAssumption, AuthorityAssumption DEF RInv, RelayInit

LEMMA AroundRInv ==
  ASSUME RInv, AInv', Around
  PROVE  RInv'
<1>1. /\ now \in Nat /\ (now' = now \/ now' = now + 1) /\ now' \in 0..MaxTime
      /\ \A s \in Sessions, g \in Gens :
           /\ lastLive[s][g] \in Nat /\ lastLive'[s][g] \in Nat
           /\ lastLive[s][g] <= lastLive'[s][g]
  BY Passing DEF RInv, Around
<1>2. checked \in Nat /\ checked' \in {checked, now'} /\ MaxTime \in Nat
  BY AuthorityAssumption DEF RInv, Around, Follow
<1>3. checked' \in 0..MaxTime /\ checked' <= now' /\ now' <= checked' + Recheck
  BY <1>1, <1>2, RelayAssumption DEF RInv, Around
<1>4. CASE agent' = Booted
  <2>1. OpenRelays' = {} /\ relays' \in [Relays -> Socket \cup {None}]
    BY <1>4 DEF Around, Follow, OpenRelays
  <2> QED BY <1>3, <2>1 DEF RInv
<1>5. CASE agent' # Booted /\ agent' # agent
  <2>1. RecheckConnections
    BY <1>5 DEF Around, Follow
  <2>2. /\ relays' \in [Relays -> Socket \cup {None}]
        /\ \A r \in OpenRelays' :
             Granted(relays[r].session, relays[r].gen)' /\ Lately(relays[r].session, relays[r].gen)'
    BY <1>1, <1>3, <2>1, RecheckLeaves DEF RInv
  <2> QED BY <1>3, <2>2 DEF RInv
<1>6. CASE agent' # Booted /\ agent' = agent
  <2>1. relays' = relays /\ checked' = checked
    BY <1>6 DEF Around, Follow
  <2>2. OpenRelays' = OpenRelays
    BY <2>1 DEF OpenRelays
  <2>3. ASSUME NEW r \in OpenRelays
        PROVE  Granted(relays[r].session, relays[r].gen)' /\ Lately(relays[r].session, relays[r].gen)'
    <3>1. PICK s \in Sessions, g \in Gens : relays[r].session = s /\ relays[r].gen = g
      BY DEF RInv, OpenRelays, Socket
    <3>2. agent.state # "disabled" /\ agent.grants[s] = g
          /\ checked <= lastLive[s][g] + Fresh + Delay
      BY <3>1 DEF RInv, Granted, Lately
    <3>3. checked <= lastLive'[s][g] + Fresh + Delay
      BY <1>1, <1>2, <3>2, AuthorityAssumption
    <3> QED BY <1>6, <2>1, <3>1, <3>2, <3>3 DEF Granted, Lately
  <2> QED BY <1>3, <2>1, <2>2, <2>3 DEF RInv
<1> QED BY <1>4, <1>5, <1>6

LEMMA OwnRInv ==
  ASSUME RInv, UNCHANGED avars,
         \/ Round
         \/ \E r \in Relays, s \in Sessions, g \in Gens : Upgrade(r, s, g)
         \/ \E r \in Relays : End(r) \/ Close(r)
         \/ UNCHANGED <<relays, checked>>
  PROVE  RInv'
<1>1. AInv'
  BY NextAInv DEF RInv
<1>2. /\ now' = now /\ agent' = agent /\ lastLive' = lastLive
      /\ now \in 0..MaxTime /\ MaxTime \in Nat /\ checked \in Nat /\ checked \in 0..MaxTime
      /\ relays \in [Relays -> Socket \cup {None}]
      /\ checked <= now /\ now <= checked + Recheck
  BY AuthorityAssumption DEF avars, history, RInv, AInv, AuthorityTypeOK
<1>3. CASE Round
  <2>1. checked' = now /\ now \in Nat /\ now <= now + Recheck
    BY <1>2, <1>3, RelayAssumption DEF Round
  <2>2. /\ relays' \in [Relays -> Socket \cup {None}]
        /\ \A r \in OpenRelays' :
             Granted(relays[r].session, relays[r].gen)' /\ Lately(relays[r].session, relays[r].gen)'
    BY <1>1, <1>2, <1>3, <2>1, RecheckLeaves DEF Round
  <2> QED BY <1>1, <1>2, <2>1, <2>2 DEF RInv
<1>4. ASSUME NEW q \in Relays, NEW x \in Socket, Granted(x.session, x.gen),
             Lately(x.session, x.gen), relays' = [relays EXCEPT ![q] = x], checked' = checked
      PROVE  RInv'
  <2>1. relays' \in [Relays -> Socket \cup {None}]
    BY <1>2, <1>4
  <2>2. \A r \in OpenRelays' : r = q \/ (r \in OpenRelays /\ relays'[r] = relays[r])
    BY <1>2, <1>4 DEF OpenRelays
  <2>3. relays'[q] = x
    BY <1>2, <1>4
  <2>4. ASSUME NEW r \in OpenRelays'
        PROVE  Granted(relays[r].session, relays[r].gen)' /\ Lately(relays[r].session, relays[r].gen)'
    BY <1>2, <1>4, <2>2, <2>3 DEF RInv, Granted, Lately
  <2> QED BY <1>1, <1>2, <1>4, <2>1, <2>4 DEF RInv
<1>5. ASSUME NEW r \in Relays, NEW s \in Sessions, NEW g \in Gens, Upgrade(r, s, g)
      PROVE  RInv'
  <2> DEFINE x == [session |-> s, gen |-> g, open |-> TRUE]
  <2>1. x \in Socket /\ x.session = s /\ x.gen = g
    BY DEF Socket
  <2>2. agent.state # "disabled" /\ agent.grants[s] = g
    BY <1>5 DEF Upgrade, Authorises
  <2>3. now <= lastLive[s][g] + Fresh + Delay
    BY <1>5, AInvStops DEF RInv, StopBound, Upgrade
  <2>4. lastLive[s][g] \in Nat
    BY AuthorityAssumption DEF RInv, AInv, AuthorityTypeOK, Times
  <2>5. checked <= lastLive[s][g] + Fresh + Delay
    BY <1>2, <2>3, <2>4, AuthorityAssumption
  <2> HIDE DEF x
  <2>6. relays' = [relays EXCEPT ![r] = x] /\ checked' = checked
    BY <1>5 DEF Upgrade, x
  <2> QED BY <1>4, <2>1, <2>2, <2>5, <2>6 DEF Granted, Lately
<1>6. ASSUME \A r \in OpenRelays' : r \in OpenRelays /\ relays'[r] = relays[r],
             relays' \in [Relays -> Socket \cup {None}], checked' = checked
      PROVE  RInv'
  <2>1. ASSUME NEW r \in OpenRelays'
        PROVE  Granted(relays[r].session, relays[r].gen)' /\ Lately(relays[r].session, relays[r].gen)'
    BY <1>2, <1>6 DEF RInv, Granted, Lately
  <2> QED BY <1>1, <1>2, <1>6, <2>1 DEF RInv
<1>7. ASSUME NEW r \in Relays, End(r) \/ Close(r) PROVE RInv'
  <2>1. checked' = checked
    BY <1>7 DEF End, Close
  <2>2. CASE End(r)
    <3>1. relays[r] \in Socket /\ [relays[r] EXCEPT !.open = FALSE] \in Socket
          /\ relays' = [relays EXCEPT ![r] = [relays[r] EXCEPT !.open = FALSE]]
      BY <1>2, <2>2 DEF End, OpenRelays, Socket
    <3>2. ~ relays'[r].open
      BY <1>2, <3>1 DEF Socket
    <3> QED BY <1>2, <1>6, <2>1, <3>1, <3>2 DEF OpenRelays
  <2>3. CASE Close(r)
    BY <1>2, <1>6, <2>1, <2>3 DEF Close, OpenRelays
  <2> QED BY <1>7, <2>2, <2>3
<1>8. CASE UNCHANGED <<relays, checked>>
  BY <1>2, <1>6, <1>8 DEF OpenRelays
<1> QED BY <1>3, <1>5, <1>7, <1>8

THEOREM RelayInvariance == RelaySpec => []RInv
<1>1. ASSUME RInv, [RelayNext]_rvars PROVE RInv'
  <2>1. AInv'
    BY <1>1, NextAInv, AroundIsAuthority DEF RInv
  <2>2. CASE Around
    BY <1>1, <2>1, <2>2, AroundRInv
  <2> QED BY <1>1, <2>2, OwnRInv DEF RelayNext, rvars
<1> QED BY <1>1, RInitHolds, PTL DEF RelaySpec

(* A relay outlives what it was granted for by a bounded time.             *)
THEOREM RelaysEnd == RelaySpec => []RelayStops
<1>1. RInv => RelayStops
  <2> SUFFICES ASSUME RInv, NEW r \in OpenRelays
               PROVE  now <= lastLive[relays[r].session][relays[r].gen] + Fresh + Delay + Recheck
    BY DEF RelayStops
  <2>1. PICK s \in Sessions, g \in Gens : relays[r].session = s /\ relays[r].gen = g
    BY DEF RInv, OpenRelays, Socket
  <2>2. checked <= lastLive[s][g] + Fresh + Delay /\ now <= checked + Recheck
    BY <2>1 DEF RInv, Lately
  <2>3. now \in Nat /\ checked \in Nat /\ lastLive[s][g] \in Nat
    BY AuthorityAssumption DEF RInv, AInv, AuthorityTypeOK, Times
  <2> QED BY <2>1, <2>2, <2>3, AuthorityAssumption, RelayAssumption
<1> QED BY <1>1, RelayInvariance, PTL

(* No relay of a generation the node was told has ended.                   *)
THEOREM ControlCloses == RelaySpec => []ClosedByControl
<1>1. RInv => ClosedByControl
  <2> SUFFICES ASSUME RInv, NEW r \in OpenRelays
               PROVE  /\ agent.state # "disabled"
                      /\ db.gen[relays[r].session] # relays[r].gen
                           => agent.revision <= ended[relays[r].session][relays[r].gen]
    BY DEF ClosedByControl
  <2>1. PICK s \in Sessions, g \in Gens : relays[r].session = s /\ relays[r].gen = g
    BY DEF RInv, OpenRelays, Socket
  <2> QED BY <2>1 DEF RInv, Granted, AInv, AgentInv, Sound
<1> QED BY <1>1, RelayInvariance, PTL
=============================================================================
