-------------------------- MODULE LeasePool_proofs --------------------------
(***************************************************************************)
(* What holds of the session tables for any number of sessions and         *)
(* generations.  The invariant adds to the run's properties what makes     *)
(* them inductive: a ticket's generation is never above what the row or    *)
(* the restorable tombstone of its session says, and where a restore could *)
(* still be taken back, not above the tombstone either.                    *)
(***************************************************************************)
EXTENDS LeasePool, TLAPS

Tables == [gen : [Sessions -> 0..MaxGen], ghost : [Sessions -> 0..MaxGen],
           revoked : SUBSET Sessions]

(* Everything that is written down about a session was drawn before. *)
Drawn ==
  /\ idle \subseteq used /\ dead \subseteq used
  /\ \A s \in Sessions :
       db.gen[s] # 0 \/ db.ghost[s] # 0 \/ op[s] # None => s \in used

Shape ==
  \A s \in Sessions : op[s] # None =>
    /\ op[s].kind \in {"restore", "renew"} => op[s].prev = None
    /\ op[s].kind \in {"replace", "select"} => op[s].prev \in Sessions

(* The generation of a ticket against row and tombstone. *)
Held(s, g) ==
  /\ s \in used
  /\ db.gen[s] # 0 => g <= db.gen[s]
  /\ db.gen[s] = 0 /\ db.ghost[s] # 0 => g <= db.ghost[s]
  /\ op[s] # None /\ op[s].kind # "renew" /\ db.ghost[s] # 0 => g <= db.ghost[s]

AllHeld == \A s \in Sessions, g \in Gens : <<s, g>> \in issued => Held(s, g)

ReplacedAreDead ==
  \A s \in Sessions : replaces[s] # None => replaces[s] \in dead

IInv ==
  TypeOK /\ Drawn /\ Shape /\ AllHeld /\ RevokedIsFinal
    /\ ReplacedAreDead /\ OneReplacement

-----------------------------------------------------------------------------
LEMMA SweptFacts ==
  ASSUME TypeOK
  PROVE  /\ Swept \in Tables
         /\ \A s \in Sessions :
              /\ Swept.gen[s] = IF s \in idle THEN 0 ELSE db.gen[s]
              /\ Swept.ghost[s] = IF s \in idle /\ db.gen[s] # 0
                                  THEN db.gen[s] ELSE db.ghost[s]
BY PoolAssumption DEF TypeOK, Swept, Pruned, Tables

LEMMA RetiredFacts ==
  ASSUME NEW d \in Tables, NEW s \in Sessions
  PROVE  /\ Retired(d, s) \in Tables
         /\ Retired(d, s).gen[s] = 0 /\ Retired(d, s).ghost[s] = 0
         /\ \A t \in Sessions \ {s} :
              /\ Retired(d, s).gen[t] = d.gen[t]
              /\ Retired(d, s).ghost[t] = d.ghost[t]
<1>1. 0 \in 0..MaxGen
  BY PoolAssumption
<1>2. CASE d.gen[s] # 0 \/ d.ghost[s] # 0
  <2> DEFINE r == Retired(d, s)
  <2>1. /\ r.gen = [d.gen EXCEPT ![s] = 0]
        /\ r.ghost = [d.ghost EXCEPT ![s] = 0]
        /\ r.revoked = d.revoked \cup {s}
        /\ r = [gen |-> r.gen, ghost |-> r.ghost, revoked |-> r.revoked]
    BY <1>2 DEF Retired, Tables
  <2> HIDE DEF r
  <2>2. r \in Tables
    BY <1>1, <2>1 DEF Tables
  <2>3. /\ r.gen[s] = 0 /\ r.ghost[s] = 0
        /\ \A t \in Sessions \ {s} : r.gen[t] = d.gen[t] /\ r.ghost[t] = d.ghost[t]
    BY <2>1 DEF Tables
  <2> QED BY <2>2, <2>3 DEF r
<1>3. CASE d.gen[s] = 0 /\ d.ghost[s] = 0
  BY <1>3 DEF Retired
<1> QED BY <1>2, <1>3

LEMMA InitIInv == Init => IInv
<1> SUFFICES ASSUME Init PROVE IInv
  OBVIOUS
<1>1. /\ db.gen = [s \in Sessions |-> 0] /\ db.ghost = [s \in Sessions |-> 0]
      /\ db.revoked = {}
      /\ db = [gen |-> db.gen, ghost |-> db.ghost, revoked |-> db.revoked]
  BY DEF Init
<1>2. TypeOK
  BY <1>1, PoolAssumption DEF Init, TypeOK, States
<1>3. Drawn /\ Shape /\ AllHeld /\ RevokedIsFinal /\ ReplacedAreDead /\ OneReplacement
  BY <1>1 DEF Init, Drawn, Shape, AllHeld, RevokedIsFinal, ReplacedAreDead, OneReplacement
<1> QED BY <1>2, <1>3 DEF IInv

-----------------------------------------------------------------------------
(* What a step that revokes nothing and signs nothing has to show about    *)
(* each session drawn before.                                              *)
Evolves(s) ==
  /\ db'.gen[s] # 0 \/ db'.ghost[s] # 0 \/ op'[s] # None => s \in used'
  /\ s \in used =>
       /\ db.gen[s] = 0 /\ db.ghost[s] = 0 => db'.gen[s] = 0 /\ db'.ghost[s] = 0
       /\ \A g \in Gens : Held(s, g) => Held(s, g)'

LEMMA Evolution ==
  ASSUME IInv, TypeOK', Shape', UNCHANGED <<issued, dead, replaces>>,
         used \subseteq used', idle' \subseteq used',
         \A s \in Sessions : Evolves(s)
  PROVE  IInv'
<1>1. Drawn'
  BY DEF IInv, Drawn, Evolves
<1>2. AllHeld'
  BY DEF IInv, AllHeld, Evolves, Held
<1>3. RevokedIsFinal'
  BY DEF IInv, Drawn, RevokedIsFinal, Evolves, TypeOK
<1>4. ReplacedAreDead' /\ OneReplacement'
  BY DEF IInv, ReplacedAreDead, OneReplacement
<1> QED BY <1>1, <1>2, <1>3, <1>4 DEF IInv

(* Pruning alone keeps what is known of a session's generations. *)
LEMMA SweptHeld ==
  ASSUME TypeOK, NEW s \in Sessions, NEW g \in Gens, Held(s, g)
  PROVE  /\ Swept.gen[s] # 0 => g <= Swept.gen[s]
         /\ Swept.ghost[s] # 0 /\ Swept.gen[s] = 0 => g <= Swept.ghost[s]
         /\ op[s] # None /\ op[s].kind # "renew" /\ Swept.ghost[s] # 0
              => g <= Swept.ghost[s]
BY SweptFacts DEF Held

LEMMA ReserveIInv ==
  ASSUME IInv, NEW s \in Sessions, NEW kind \in {"new", "replace", "select"},
         NEW prev \in Sessions \cup {None}, Reserve(s, kind, prev),
         kind # "new" => prev \in Sessions
  PROVE  IInv'
<1>1. /\ s \notin used /\ used' = used \cup {s}
      /\ db' = [Swept EXCEPT !.gen[s] = 1]
      /\ op' = [op EXCEPT ![s] = [kind |-> kind, gen |-> 1, prev |-> prev]]
      /\ UNCHANGED <<idle, known, node, issued, dead, replaces>>
  BY DEF Reserve, Begin
<1>2. TypeOK /\ Drawn /\ Shape
  BY DEF IInv
<1>3. 1 \in Gens /\ 1 \in 0..MaxGen
  BY PoolAssumption DEF Gens
<1>4. /\ Swept \in Tables /\ db' \in Tables
      /\ db'.gen = [Swept.gen EXCEPT ![s] = 1] /\ db'.ghost = Swept.ghost
  BY <1>1, <1>2, <1>3, SweptFacts DEF Tables
<1>5. op' \in [Sessions -> Activation \cup {None}]
  BY <1>1, <1>2, <1>3 DEF TypeOK, Activation, Kinds
<1>6. TypeOK'
  BY <1>1, <1>2, <1>4, <1>5 DEF TypeOK, Tables
<1>7. Shape'
  BY <1>1, <1>2, <1>5 DEF Shape, TypeOK
<1>8. ASSUME NEW t \in Sessions PROVE Evolves(t)
  <2>1. CASE t = s
    BY <1>1, <2>1 DEF Evolves
  <2>2. CASE t # s
    <3>1. db'.gen[t] = Swept.gen[t] /\ db'.ghost[t] = Swept.ghost[t] /\ op'[t] = op[t]
      BY <1>1, <1>2, <1>4, <2>2 DEF Tables, TypeOK
    <3>2. db'.gen[t] # 0 \/ db'.ghost[t] # 0 \/ op'[t] # None => t \in used
      BY <3>1, <1>2, SweptFacts DEF Drawn
    <3>3. db.gen[t] = 0 /\ db.ghost[t] = 0 => db'.gen[t] = 0 /\ db'.ghost[t] = 0
      BY <3>1, <1>2, SweptFacts
    <3>4. ASSUME NEW g \in Gens, Held(t, g) PROVE Held(t, g)'
      BY <1>1, <1>2, <3>1, <3>4, SweptHeld DEF Held
    <3> QED BY <1>1, <3>2, <3>3, <3>4 DEF Evolves
  <2> QED BY <2>1, <2>2
<1> QED
  BY <1>1, <1>2, <1>6, <1>7, <1>8, Evolution DEF Drawn

LEMMA RestoreIInv ==
  ASSUME IInv, NEW s \in Sessions, Restore(s)
  PROVE  IInv'
<1> DEFINE g0 == Swept.ghost[s]
<1>1. /\ s \in known /\ Swept.gen[s] = 0 /\ g0 # 0 /\ g0 < MaxGen
      /\ db' = [Swept EXCEPT !.gen[s] = g0 + 1]
      /\ idle' = idle \ {s}
      /\ op' = [op EXCEPT ![s] = [kind |-> "restore", gen |-> g0 + 1, prev |-> None]]
      /\ UNCHANGED <<used, known, node, issued, dead, replaces>>
  BY DEF Restore, Begin
<1>2. TypeOK /\ Drawn /\ Shape
  BY DEF IInv
<1>3. g0 + 1 \in Gens /\ g0 \in Nat
  BY <1>1, <1>2, SweptFacts, PoolAssumption DEF Tables, Gens
<1> HIDE DEF g0
<1>4. /\ Swept \in Tables /\ db' \in Tables
      /\ db'.gen = [Swept.gen EXCEPT ![s] = g0 + 1] /\ db'.ghost = Swept.ghost
  BY <1>1, <1>2, <1>3, SweptFacts DEF Tables, Gens
<1>5. op' \in [Sessions -> Activation \cup {None}]
  BY <1>1, <1>2, <1>3 DEF TypeOK, Activation, Kinds
<1>6. TypeOK'
  BY <1>1, <1>2, <1>4, <1>5 DEF TypeOK, Tables
<1>7. Shape'
  BY <1>1, <1>2, <1>5 DEF Shape, TypeOK
<1>8. ASSUME NEW t \in Sessions PROVE Evolves(t)
  <2>1. CASE t = s
    <3>1. db'.gen[s] = g0 + 1 /\ db'.ghost[s] = g0 /\ op'[s].kind = "restore"
      BY <1>1, <1>2, <1>4 DEF Tables, TypeOK, g0
    <3>2. s \in used /\ ~ (db.gen[s] = 0 /\ db.ghost[s] = 0)
      BY <1>1, <1>2, SweptFacts DEF TypeOK, g0
    <3>3. ASSUME NEW g \in Gens, Held(s, g) PROVE Held(s, g)'
      BY <1>1, <1>2, <1>3, <3>1, <3>2, <3>3, SweptHeld DEF Held, g0, Gens
    <3> QED BY <1>1, <2>1, <3>2, <3>3 DEF Evolves
  <2>2. CASE t # s
    <3>1. db'.gen[t] = Swept.gen[t] /\ db'.ghost[t] = Swept.ghost[t] /\ op'[t] = op[t]
      BY <1>1, <1>2, <1>4, <2>2 DEF Tables, TypeOK
    <3>2. db'.gen[t] # 0 \/ db'.ghost[t] # 0 \/ op'[t] # None => t \in used
      BY <3>1, <1>2, SweptFacts DEF Drawn
    <3>3. db.gen[t] = 0 /\ db.ghost[t] = 0 => db'.gen[t] = 0 /\ db'.ghost[t] = 0
      BY <3>1, <1>2, SweptFacts
    <3>4. ASSUME NEW g \in Gens, Held(t, g) PROVE Held(t, g)'
      BY <1>1, <1>2, <3>1, <3>4, SweptHeld DEF Held
    <3> QED BY <1>1, <3>2, <3>3, <3>4 DEF Evolves
  <2> QED BY <2>1, <2>2
<1> QED
  BY <1>1, <1>2, <1>6, <1>7, <1>8, Evolution DEF Drawn

LEMMA RenewIInv ==
  ASSUME IInv, NEW s \in Sessions, Renew(s)
  PROVE  IInv'
<1>1. /\ s \in known /\ Swept.gen[s] # 0
      /\ db' = Swept /\ idle' = idle \ {s}
      /\ \/ op' = [op EXCEPT ![s] = [kind |-> "renew", gen |-> Swept.gen[s], prev |-> None]]
         \/ op' = op
      /\ UNCHANGED <<used, known, node, issued, dead, replaces>>
  BY DEF Renew, Begin
<1>2. TypeOK /\ Drawn /\ Shape
  BY DEF IInv
<1>3. Swept.gen[s] \in Gens /\ Swept \in Tables
  BY <1>1, <1>2, SweptFacts, PoolAssumption DEF Tables, Gens
<1>4. op' \in [Sessions -> Activation \cup {None}]
  BY <1>1, <1>2, <1>3 DEF TypeOK, Activation, Kinds
<1>5. TypeOK'
  BY <1>1, <1>2, <1>3, <1>4 DEF TypeOK, Tables
<1>6. Shape'
  BY <1>1, <1>2, <1>4 DEF Shape, TypeOK
<1>7. ASSUME NEW t \in Sessions PROVE Evolves(t)
  <2>1. (t = s /\ op'[t].kind = "renew") \/ op'[t] = op[t]
    BY <1>1, <1>2 DEF TypeOK
  <2>2. db'.gen[t] # 0 \/ db'.ghost[t] # 0 \/ op'[t] # None => t \in used
    BY <1>1, <1>2, <2>1, SweptFacts DEF Drawn, TypeOK
  <2>3. db.gen[t] = 0 /\ db.ghost[t] = 0 => db'.gen[t] = 0 /\ db'.ghost[t] = 0
    BY <1>1, <1>2, SweptFacts
  <2>4. ASSUME NEW g \in Gens, Held(t, g) PROVE Held(t, g)'
    BY <1>1, <1>2, <2>1, <2>4, SweptHeld DEF Held
  <2> QED BY <1>1, <2>2, <2>3, <2>4 DEF Evolves
<1> QED
  BY <1>1, <1>2, <1>5, <1>6, <1>7, Evolution DEF Drawn

LEMMA FailIInv ==
  ASSUME IInv, NEW S \in SUBSET Sessions, Fail(S)
  PROVE  IInv'
<1> DEFINE undone == {s \in S : op[s].kind # "renew" /\ db.gen[s] = op[s].gen}
<1>1. /\ \A s \in S : op[s] # None
      /\ db' = [db EXCEPT !.gen = [s \in Sessions |-> IF s \in undone THEN 0 ELSE db.gen[s]]]
      /\ op' = [s \in Sessions |-> IF s \in S THEN None ELSE op[s]]
      /\ UNCHANGED <<idle, used, known, node, issued, dead, replaces>>
  BY DEF Fail
<1>2. TypeOK /\ Drawn /\ Shape
  BY DEF IInv
<1>3. /\ undone \subseteq S /\ \A s \in undone : op[s].kind # "renew"
  OBVIOUS
<1> HIDE DEF undone
<1>4. /\ db' \in Tables /\ db'.ghost = db.ghost
      /\ db'.gen = [s \in Sessions |-> IF s \in undone THEN 0 ELSE db.gen[s]]
  BY <1>1, <1>2, PoolAssumption DEF Tables, TypeOK
<1>5. TypeOK'
  BY <1>1, <1>2, <1>4 DEF TypeOK, Tables
<1>6. Shape'
  BY <1>1, <1>2 DEF Shape, TypeOK
<1>7. ASSUME NEW t \in Sessions PROVE Evolves(t)
  <2>1. db'.gen[t] # 0 \/ db'.ghost[t] # 0 \/ op'[t] # None => t \in used
    BY <1>1, <1>2, <1>4 DEF Drawn
  <2>2. ASSUME NEW g \in Gens, Held(t, g) PROVE Held(t, g)'
    BY <1>1, <1>2, <1>3, <1>4, <2>2 DEF Held
  <2> QED BY <1>1, <1>4, <2>1, <2>2 DEF Evolves
<1> QED
  BY <1>1, <1>2, <1>5, <1>6, <1>7, Evolution DEF Drawn

LEMMA QuietIInv ==
  ASSUME IInv,
         \/ Prune
         \/ \E s \in Sessions : Forget(s)
         \/ \E S \in SUBSET Sessions : GoIdle(S)
         \/ \E state \in States, up \in BOOLEAN : Change(state, up)
         \/ Restart
         \/ UNCHANGED vars
  PROVE  IInv'
<1>1. TypeOK /\ Drawn /\ Shape
  BY DEF IInv
<1>2. CASE Prune
  <2>1. db' = Swept /\ UNCHANGED <<idle, used, known, op, node, issued, dead, replaces>>
    BY <1>2 DEF Prune
  <2>2. TypeOK' /\ Shape'
    BY <1>1, <2>1, SweptFacts DEF TypeOK, Shape, Tables
  <2>3. ASSUME NEW t \in Sessions PROVE Evolves(t)
    <3>1. db'.gen[t] # 0 \/ db'.ghost[t] # 0 \/ op'[t] # None => t \in used
      BY <1>1, <2>1, SweptFacts DEF Drawn
    <3>2. db.gen[t] = 0 /\ db.ghost[t] = 0 => db'.gen[t] = 0 /\ db'.ghost[t] = 0
      BY <1>1, <2>1, SweptFacts
    <3>3. ASSUME NEW g \in Gens, Held(t, g) PROVE Held(t, g)'
      BY <1>1, <2>1, <3>3, SweptHeld DEF Held
    <3> QED BY <2>1, <3>1, <3>2, <3>3 DEF Evolves
  <2> QED BY <1>1, <2>1, <2>2, <2>3, Evolution DEF Drawn
<1>3. ASSUME NEW s \in Sessions, Forget(s) PROVE IInv'
  <2>1. /\ op[s] = None
        /\ db' = [db EXCEPT !.ghost[s] = 0, !.revoked = @ \ {s}]
        /\ UNCHANGED <<idle, used, known, op, node, issued, dead, replaces>>
    BY <1>3 DEF Forget
  <2>2. /\ db' \in Tables /\ db'.gen = db.gen
        /\ db'.ghost = [db.ghost EXCEPT ![s] = 0]
    <3>1. /\ db'.gen = db.gen /\ db'.ghost = [db.ghost EXCEPT ![s] = 0]
          /\ db'.revoked = db.revoked \ {s}
          /\ db' = [gen |-> db'.gen, ghost |-> db'.ghost, revoked |-> db'.revoked]
      BY <1>1, <2>1 DEF TypeOK
    <3>2. /\ db.gen \in [Sessions -> 0..MaxGen] /\ db.revoked \in SUBSET Sessions
          /\ [db.ghost EXCEPT ![s] = 0] \in [Sessions -> 0..MaxGen]
      BY <1>1, PoolAssumption DEF TypeOK
    <3>3. db'.gen \in [Sessions -> 0..MaxGen] /\ db'.ghost \in [Sessions -> 0..MaxGen]
      BY <3>1, <3>2
    <3>4. db'.revoked \in SUBSET Sessions
      BY <3>1, <3>2
    <3> QED BY <3>1, <3>3, <3>4 DEF Tables
  <2>3. TypeOK' /\ Shape'
    BY <1>1, <2>1, <2>2 DEF TypeOK, Shape, Tables
  <2>4. ASSUME NEW t \in Sessions PROVE Evolves(t)
    <3>1. db'.gen[t] = db.gen[t] /\ db'.ghost[t] \in {0, db.ghost[t]}
      BY <1>1, <2>2 DEF TypeOK
    <3> QED BY <1>1, <2>1, <3>1 DEF Evolves, Held, Drawn
  <2> QED BY <1>1, <2>1, <2>3, <2>4, Evolution DEF Drawn
<1>4. ASSUME NEW S \in SUBSET Sessions, GoIdle(S) PROVE IInv'
  <2>1. /\ \A s \in S : db.gen[s] # 0
        /\ idle' = idle \cup S
        /\ UNCHANGED <<db, used, known, op, node, issued, dead, replaces>>
    BY <1>4 DEF GoIdle
  <2>2. TypeOK' /\ Shape'
    BY <1>1, <2>1 DEF TypeOK, Shape
  <2>3. \A t \in Sessions : Evolves(t)
    BY <1>1, <2>1 DEF Evolves, Held, Drawn
  <2>4. idle' \subseteq used'
    BY <1>1, <2>1 DEF Drawn
  <2> QED BY <2>1, <2>2, <2>3, <2>4, Evolution
<1>5. ASSUME NEW state \in States, NEW up \in BOOLEAN, Change(state, up) PROVE IInv'
  <2>1. /\ node' = [state |-> state, up |-> up]
        /\ UNCHANGED <<db, idle, used, known, op, issued, dead, replaces>>
    BY <1>5 DEF Change
  <2>2. TypeOK' /\ Shape'
    BY <1>1, <2>1 DEF TypeOK, Shape
  <2>3. \A t \in Sessions : Evolves(t)
    BY <1>1, <2>1 DEF Evolves, Held, Drawn
  <2> QED BY <1>1, <2>1, <2>2, <2>3, Evolution DEF Drawn
<1>6. CASE Restart
  <2>1. /\ op' = [s \in Sessions |-> None]
        /\ UNCHANGED <<db, idle, used, known, node, issued, dead, replaces>>
    BY <1>6 DEF Restart
  <2>2. TypeOK' /\ Shape'
    BY <1>1, <2>1 DEF TypeOK, Shape
  <2>3. \A t \in Sessions : Evolves(t)
    BY <1>1, <2>1 DEF Evolves, Held, Drawn
  <2> QED BY <1>1, <2>1, <2>2, <2>3, Evolution DEF Drawn
<1>7. CASE UNCHANGED vars
  <2>1. TypeOK' /\ Shape'
    BY <1>1, <1>7 DEF TypeOK, Shape, vars
  <2>2. \A t \in Sessions : Evolves(t)
    BY <1>1, <1>7 DEF Evolves, Held, Drawn, vars
  <2> QED BY <1>1, <1>7, <2>1, <2>2, Evolution DEF Drawn, vars
<1> QED BY <1>2, <1>3, <1>4, <1>5, <1>6, <1>7

-----------------------------------------------------------------------------
LEMMA ReleaseIInv ==
  ASSUME IInv, NEW s \in Sessions, Release(s)
  PROVE  IInv'
<1>1. /\ s \in known /\ db' = Retired(db, s) /\ dead' = dead \cup {s}
      /\ UNCHANGED <<idle, used, known, op, node, issued, replaces>>
  BY DEF Release
<1>2. TypeOK /\ Drawn /\ Shape
  BY DEF IInv
<1>3. db \in Tables
  BY <1>2 DEF TypeOK, Tables
<1>4. /\ db' \in Tables /\ db'.gen[s] = 0 /\ db'.ghost[s] = 0
      /\ \A t \in Sessions \ {s} : db'.gen[t] = db.gen[t] /\ db'.ghost[t] = db.ghost[t]
  BY <1>1, <1>3, RetiredFacts
<1>5. TypeOK'
  BY <1>1, <1>2, <1>4 DEF TypeOK, Tables
<1>6. Drawn' /\ Shape'
  BY <1>1, <1>2, <1>4 DEF Drawn, Shape, TypeOK
<1>7. AllHeld'
  <2> SUFFICES ASSUME NEW t \in Sessions, NEW g \in Gens, <<t, g>> \in issued
               PROVE  Held(t, g)'
    BY <1>1 DEF AllHeld
  <2>1. Held(t, g)
    BY DEF IInv, AllHeld
  <2>2. CASE t = s
    BY <1>1, <1>4, <2>1, <2>2 DEF Held
  <2>3. CASE t # s
    BY <1>1, <1>4, <2>1, <2>3 DEF Held
  <2> QED BY <2>2, <2>3
<1>8. RevokedIsFinal'
  BY <1>1, <1>2, <1>4 DEF IInv, RevokedIsFinal, TypeOK
<1>9. ReplacedAreDead' /\ OneReplacement'
  BY <1>1 DEF IInv, ReplacedAreDead, OneReplacement
<1> QED BY <1>5, <1>6, <1>7, <1>8, <1>9 DEF IInv

(* What a returning activation does to rows and tombstones. *)
LEMMA SettledFacts ==
  ASSUME IInv, NEW s \in Sessions, op[s] # None, Current(s)
  PROVE  /\ Settled(s) \in Tables
         /\ \A t \in Sessions :
              \/ Settled(s).gen[t] = 0 /\ Settled(s).ghost[t] = 0
              \/ /\ Settled(s).gen[t] = db.gen[t]
                 /\ Settled(s).ghost[t] \in {0, db.ghost[t]}
                 /\ t \notin Ends(s)
         /\ op[s].gen \in Gens /\ op[s].gen = db.gen[s]
<1>1. TypeOK /\ Shape /\ db \in Tables /\ op[s] \in Activation
  BY DEF IInv, TypeOK, Tables
<1>2. op[s].gen \in Gens /\ op[s].gen = db.gen[s] /\ op[s].prev \in Sessions \cup {None}
  BY <1>1 DEF Current, Activation
<1>3. CASE op[s].kind = "restore"
  <2>1. op[s].prev = None /\ Ends(s) = {}
    BY <1>1, <1>3, PoolAssumption DEF Shape, Ends
  <2> DEFINE r == Settled(s)
  <2>2. /\ r.gen = db.gen /\ r.ghost = [db.ghost EXCEPT ![s] = 0]
        /\ r.revoked = db.revoked \ {s}
        /\ r = [gen |-> r.gen, ghost |-> r.ghost, revoked |-> r.revoked]
    BY <1>1, <1>3 DEF Settled, Tables
  <2> HIDE DEF r
  <2>3. /\ db.gen \in [Sessions -> 0..MaxGen] /\ db.revoked \in SUBSET Sessions
        /\ db.ghost \in [Sessions -> 0..MaxGen]
        /\ [db.ghost EXCEPT ![s] = 0] \in [Sessions -> 0..MaxGen]
    BY <1>1, PoolAssumption DEF TypeOK
  <2>4. /\ r.gen \in [Sessions -> 0..MaxGen] /\ r.ghost \in [Sessions -> 0..MaxGen]
        /\ r.revoked \in SUBSET Sessions
    BY <2>2, <2>3
  <2>5. r \in Tables
    BY <2>2, <2>4 DEF Tables
  <2>6. \A t \in Sessions : r.gen[t] = db.gen[t] /\ r.ghost[t] \in {0, db.ghost[t]}
    BY <2>2, <2>3
  <2> QED BY <1>2, <2>1, <2>5, <2>6 DEF r
<1>4. CASE op[s].kind # "restore" /\ op[s].prev # None
  <2>1. op[s].prev \in Sessions /\ Ends(s) \subseteq {op[s].prev}
    BY <1>2, <1>4 DEF Ends
  <2>2. Settled(s) = Retired(db, op[s].prev)
    BY <1>4 DEF Settled
  <2>3. /\ Settled(s) \in Tables
        /\ Settled(s).gen[op[s].prev] = 0 /\ Settled(s).ghost[op[s].prev] = 0
        /\ \A t \in Sessions \ {op[s].prev} :
             /\ Settled(s).gen[t] = db.gen[t]
             /\ Settled(s).ghost[t] = db.ghost[t]
    BY <1>1, <2>1, <2>2, RetiredFacts
  <2> QED BY <1>2, <2>1, <2>3
<1>5. CASE op[s].kind # "restore" /\ op[s].prev = None
  BY <1>1, <1>2, <1>5, PoolAssumption DEF Settled, Ends
<1> QED BY <1>3, <1>4, <1>5

LEMMA ReturnIInv ==
  ASSUME IInv, NEW s \in Sessions, Return(s)
  PROVE  IInv'
<1>1. /\ op[s] # None /\ Current(s)
      /\ db' = Settled(s) /\ issued' = issued \cup {<<s, op[s].gen>>}
      /\ known' \in {known, known \cup {s}} /\ dead' = dead \cup Ends(s)
      /\ replaces' = IF Displaces(s) THEN [replaces EXCEPT ![s] = op[s].prev]
                                     ELSE replaces
      /\ op' = [op EXCEPT ![s] = None]
      /\ UNCHANGED <<idle, used, node>>
  BY DEF Return
<1>2. TypeOK /\ Drawn /\ Shape
  BY DEF IInv
<1>3. /\ db' \in Tables /\ op[s].gen \in Gens /\ op[s].gen = db.gen[s]
      /\ \A t \in Sessions :
           \/ db'.gen[t] = 0 /\ db'.ghost[t] = 0
           \/ /\ db'.gen[t] = db.gen[t] /\ db'.ghost[t] \in {0, db.ghost[t]}
              /\ t \notin Ends(s)
  BY <1>1, SettledFacts
<1>4. op[s] \in Activation /\ op[s].prev \in Sessions \cup {None} /\ s \in used
  BY <1>1, <1>2 DEF TypeOK, Activation, Drawn
<1>5. /\ Ends(s) \subseteq Sessions /\ Ends(s) \subseteq {op[s].prev}
      /\ \A p \in Ends(s) : db.gen[p] # 0 \/ db.ghost[p] # 0
  BY DEF Ends
<1>6. Displaces(s) => op[s].prev \in Ends(s)
  <2>1. op[s].kind \in {"replace", "select"} => op[s].prev \in Ends(s)
    BY <1>1, <1>2 DEF Shape, Current, Ends
  <2> QED BY <2>1, <1>5 DEF Displaces
<1>7. \A t \in Sessions : op'[t] = IF t = s THEN None ELSE op[t]
  BY <1>1, <1>2 DEF TypeOK
<1>8. \A t \in Sessions :
        replaces'[t] = IF t = s /\ Displaces(s) THEN op[s].prev ELSE replaces[t]
  BY <1>1, <1>2 DEF TypeOK
<1>9. TypeOK'
  <2>1. op' \in [Sessions -> Activation \cup {None}]
    BY <1>1, <1>2 DEF TypeOK
  <2>2. replaces' \in [Sessions -> Sessions \cup {None}]
    BY <1>1, <1>2, <1>4 DEF TypeOK
  <2>3. issued' \in SUBSET (Sessions \X Gens)
    BY <1>1, <1>2, <1>3 DEF TypeOK
  <2>4. known' \in SUBSET used' /\ dead' \in SUBSET Sessions
    BY <1>1, <1>2, <1>4, <1>5 DEF TypeOK
  <2> QED BY <1>1, <1>2, <1>3, <2>1, <2>2, <2>3, <2>4 DEF TypeOK, Tables
<1>10. Drawn'
  BY <1>1, <1>2, <1>3, <1>5, <1>7 DEF Drawn
<1>11. Shape'
  BY <1>2, <1>7 DEF Shape
<1>12. AllHeld'
  <2> SUFFICES ASSUME NEW t \in Sessions, NEW g \in Gens, <<t, g>> \in issued'
               PROVE  Held(t, g)'
    BY DEF AllHeld
  <2>1. <<t, g>> \in issued \/ (t = s /\ g = db.gen[s])
    BY <1>1, <1>3
  <2>2. CASE <<t, g>> \in issued
    <3>1. Held(t, g)
      BY <2>2 DEF IInv, AllHeld
    <3> QED BY <1>1, <1>3, <1>7, <3>1 DEF Held
  <2>3. CASE t = s /\ g = db.gen[s]
    BY <1>1, <1>3, <1>4, <1>7, <2>3 DEF Held, Gens
  <2> QED BY <2>1, <2>2, <2>3
<1>13. RevokedIsFinal'
  BY <1>1, <1>2, <1>3, <1>5 DEF IInv, RevokedIsFinal, TypeOK
<1>14. ReplacedAreDead' /\ OneReplacement'
  <2>1. Displaces(s) => op[s].prev \notin dead
    BY <1>5, <1>6 DEF IInv, RevokedIsFinal
  <2> QED
    BY <1>1, <1>6, <1>8, <2>1 DEF IInv, ReplacedAreDead, OneReplacement
<1> QED BY <1>9, <1>10, <1>11, <1>12, <1>13, <1>14 DEF IInv

LEMMA NextIInv == IInv /\ [Next]_vars => IInv'
<1> SUFFICES ASSUME IInv, [Next]_vars PROVE IInv'
  OBVIOUS
<1>1. ASSUME NEW s \in Sessions, NEW prev \in Sessions \cup {None}, New(s, prev)
      PROVE  IInv'
  BY <1>1, ReserveIInv DEF New
<1>2. ASSUME NEW s \in Sessions, NEW prev \in Sessions,
             NEW kind \in {"replace", "select"}, Select(s, prev, kind)
      PROVE  IInv'
  BY <1>2, ReserveIInv DEF Select
<1>3. CASE UNCHANGED vars
  BY <1>3, QuietIInv
<1> QED
  BY <1>1, <1>2, <1>3, RestoreIInv, RenewIInv, ReturnIInv, FailIInv, ReleaseIInv, QuietIInv
     DEF Next

THEOREM Invariance == Spec => []IInv
  BY InitIInv, NextIInv, PTL DEF Spec

(* What was revoked has no row and no restorable tombstone, whatever       *)
(* activation was under way or was cut off by a restart.                   *)
THEOREM Final == Spec => []RevokedIsFinal
  BY Invariance, PTL DEF IInv

(* No session has two successors.                                          *)
THEOREM OneSuccessor == Spec => []OneReplacement
  BY Invariance, PTL DEF IInv

(* A generation for which a ticket was signed is live for one stretch of   *)
(* time only.                                                              *)
THEOREM OneLife == Spec => TicketsOfOneLife
<1>1. ASSUME IInv, Next, NEW s \in Sessions, NEW g \in Gens, <<s, g>> \in issued,
             db.gen[s] # g
      PROVE  db'.gen[s] # g
  <2>1. TypeOK /\ Drawn /\ Held(s, g) /\ g # 0 /\ g \in Nat
    BY <1>1 DEF IInv, AllHeld, Gens
  <2>2. db'.gen[s] \in {0, db.gen[s]} => db'.gen[s] # g
    BY <1>1, <2>1
  <2>3. Swept.gen[s] \in {0, db.gen[s]} /\ Swept \in Tables
    BY <2>1, SweptFacts
  <2>4. ASSUME NEW x \in Sessions, NEW kind, NEW prev, Reserve(x, kind, prev)
        PROVE  db'.gen[s] # g
    <3>1. x # s /\ db' = [Swept EXCEPT !.gen[x] = 1]
      BY <2>1, <2>4 DEF Reserve, Held
    <3> QED BY <2>2, <2>3, <3>1 DEF Tables
  <2>5. ASSUME NEW x \in Sessions, Restore(x) PROVE db'.gen[s] # g
    <3>1. /\ Swept.gen[x] = 0 /\ Swept.ghost[x] # 0
          /\ db' = [Swept EXCEPT !.gen[x] = Swept.ghost[x] + 1]
      BY <2>5 DEF Restore
    <3>2. CASE x = s
      <4>1. g <= Swept.ghost[s] /\ Swept.ghost[s] \in Nat
        BY <2>1, <2>3, <3>1, <3>2, SweptHeld DEF Tables
      <4>2. db'.gen[s] = Swept.ghost[s] + 1
        BY <2>3, <3>1, <3>2 DEF Tables
      <4> QED BY <2>1, <4>1, <4>2
    <3>3. CASE x # s
      BY <2>2, <2>3, <3>1, <3>3 DEF Tables
    <3> QED BY <3>2, <3>3
  <2>6. ASSUME NEW x \in Sessions, Renew(x) \/ Prune PROVE db'.gen[s] # g
    BY <2>2, <2>3, <2>6 DEF Renew, Prune
  <2>7. ASSUME NEW x \in Sessions, Return(x) PROVE db'.gen[s] # g
    <3>1. db' = Settled(x) /\ Settled(x).gen[s] \in {0, db.gen[s]}
      BY <1>1, <2>7, SettledFacts DEF Return
    <3> QED BY <2>2, <3>1
  <2>8. ASSUME NEW S \in SUBSET Sessions, Fail(S) PROVE db'.gen[s] # g
    <3>1. db'.gen[s] \in {0, db.gen[s]}
      BY <2>1, <2>8 DEF Fail, TypeOK
    <3> QED BY <2>2, <3>1
  <2>9. ASSUME NEW x \in Sessions, Release(x) PROVE db'.gen[s] # g
    <3>1. db' = Retired(db, x) /\ db \in Tables
      BY <2>1, <2>9 DEF Release, TypeOK, Tables
    <3> QED BY <2>2, <3>1, RetiredFacts
  <2>10. ASSUME NEW x \in Sessions, Forget(x) PROVE db'.gen[s] # g
    <3>1. db'.gen[s] = db.gen[s]
      BY <2>1, <2>10 DEF Forget, TypeOK
    <3> QED BY <2>2, <3>1
  <2> QED
    BY <1>1, <2>2, <2>4, <2>5, <2>6, <2>7, <2>8, <2>9, <2>10
       DEF Next, New, Select, GoIdle, Change, Restart
<1>2. IInv /\ [Next]_vars =>
        [\A t \in issued : db.gen[t[1]] # t[2] => db'.gen[t[1]] # t[2]]_vars
  <2> SUFFICES ASSUME IInv, Next, NEW t \in issued, db.gen[t[1]] # t[2]
               PROVE  db'.gen[t[1]] # t[2]
    BY DEF vars
  <2>1. PICK s \in Sessions, g \in Gens : t = <<s, g>>
    BY DEF IInv, TypeOK
  <2> QED BY <1>1, <2>1
<1> QED BY <1>2, Invariance, PTL DEF Spec, TicketsOfOneLife

(* A replacement continues only a session that was not revoked.            *)
THEOREM ReplacesTheLiving == Spec => NoSuccessorOfRevoked
<1>1. ASSUME IInv, Next, NEW t \in Sessions, replaces'[t] # replaces[t]
      PROVE  replaces'[t] \notin dead
  <2>1. ASSUME NEW s \in Sessions, Return(s) PROVE replaces'[t] \notin dead
    <3>1. /\ op[s] # None /\ Current(s)
          /\ replaces' = IF Displaces(s) THEN [replaces EXCEPT ![s] = op[s].prev]
                                         ELSE replaces
      BY <2>1 DEF Return
    <3>2. Displaces(s) /\ replaces'[t] = op[s].prev
      BY <1>1, <3>1 DEF IInv, TypeOK
    <3>3. Displaces(s) => op[s].prev \in Ends(s)
      BY <1>1, <3>1 DEF IInv, Shape, Current, Displaces, Ends
    <3>4. \A p \in Ends(s) : p \in Sessions /\ (db.gen[p] # 0 \/ db.ghost[p] # 0)
      BY DEF Ends
    <3> QED BY <1>1, <3>2, <3>3, <3>4 DEF IInv, RevokedIsFinal
  <2>2. (\E s \in Sessions : Return(s)) \/ UNCHANGED replaces
    BY <1>1 DEF Next, New, Select, Reserve, Restore, Renew, Fail, Release, Forget, Prune,
       GoIdle, Change, Restart
  <2> QED BY <1>1, <2>1, <2>2
<1>2. IInv /\ [Next]_vars =>
        [\A s \in Sessions : replaces'[s] # replaces[s] => replaces'[s] \notin dead]_vars
  BY <1>1 DEF vars
<1> QED BY <1>2, Invariance, PTL DEF Spec, NoSuccessorOfRevoked

-----------------------------------------------------------------------------
(* A session is only ever to take the place of another one. *)
OfAnother == \A s \in Sessions : op[s] # None => op[s].prev # s

LEMMA NextOfAnother == IInv /\ OfAnother /\ [Next]_vars => OfAnother'
<1> SUFFICES ASSUME IInv, OfAnother, [Next]_vars PROVE OfAnother'
  OBVIOUS
<1> USE DEF OfAnother
<1>1. TypeOK /\ op \in [Sessions -> Activation \cup {None}]
  BY DEF IInv, TypeOK
<1>2. ASSUME NEW s \in Sessions, NEW kind, NEW g, NEW prev, prev # s,
             op' = [op EXCEPT ![s] = [kind |-> kind, gen |-> g, prev |-> prev]]
      PROVE  OfAnother'
  BY <1>1, <1>2
<1>3. ASSUME NEW s \in Sessions, NEW kind, NEW prev \in known \cup {None},
             Reserve(s, kind, prev)
      PROVE  OfAnother'
  <2>1. prev # s
    BY <1>1, <1>3, PoolAssumption DEF Reserve, TypeOK
  <2> QED BY <1>2, <1>3, <2>1 DEF Reserve, Begin
<1>4. ASSUME NEW s \in Sessions, NEW prev \in Sessions \cup {None},
             New(s, prev) \/ \E kind \in {"replace", "select"} : Select(s, prev, kind)
      PROVE  OfAnother'
  BY <1>3, <1>4 DEF New, Select
<1>5. ASSUME NEW s \in Sessions, Restore(s) \/ Renew(s) PROVE OfAnother'
  <2>1. None # s
    BY PoolAssumption
  <2>2. ASSUME NEW kind, NEW g, Begin(s, kind, g, None) PROVE OfAnother'
    BY <1>2, <2>1, <2>2 DEF Begin
  <2> QED BY <1>5, <2>2 DEF Restore, Renew
<1>6. ASSUME NEW s \in Sessions, Return(s) PROVE OfAnother'
  BY <1>1, <1>6 DEF Return
<1>7. ASSUME NEW S \in SUBSET Sessions, Fail(S) PROVE OfAnother'
  BY <1>1, <1>7 DEF Fail
<1>8. CASE Restart
  BY <1>8 DEF Restart
<1>9. CASE UNCHANGED op
  BY <1>9
<1> QED
  BY <1>4, <1>5, <1>6, <1>7, <1>8, <1>9
     DEF Next, vars, Release, Forget, Prune, GoIdle, Change

(* A life that begins with this step is above every ticket of its session. *)
LEMMA StartsAbove ==
  ASSUME IInv, NEW s \in Sessions, Swept.gen[s] = 0, Swept.ghost[s] # 0
  PROVE  \A h \in Gens : <<s, h>> \in issued => h < Swept.ghost[s] + 1
<1>1. TypeOK /\ Swept.ghost[s] \in Nat
  BY SweptFacts DEF IInv, Tables
<1>2. \A h \in Gens : <<s, h>> \in issued => h <= Swept.ghost[s]
  BY <1>1, SweptHeld DEF IInv, AllHeld
<1> QED BY <1>1, <1>2 DEF Gens

(* Every step of the tables is a step of SessionLives or changes nothing   *)
(* that it speaks of.                                                      *)
LEMMA StepImplements ==
  ASSUME IInv, OfAnother, [Next]_vars
  PROVE  [Lives!Next]_(Lives!vars)
<1> USE DEF Lives!Next, Lives!vars
<1>1. /\ TypeOK /\ Drawn /\ Shape /\ RevokedIsFinal /\ db \in Tables
      /\ db.gen \in [Sessions -> 0..MaxGen]
  BY DEF IInv, TypeOK, Tables
<1> DEFINE over == {s \in idle : db.gen[s] # 0}
<1>2. over \in SUBSET Lives!Alive /\ Swept \in Tables /\ Swept.gen = Lives!Over(over)
  BY <1>1, SweptFacts DEF TypeOK, Swept, Pruned, Lives!Over, Lives!Alive
<1> HIDE DEF over
<1>3. ASSUME NEW s \in Sessions, NEW kind, NEW prev, Reserve(s, kind, prev)
      PROVE  Lives!Next
  <2>1. s \notin dead /\ \A h \in Gens : <<s, h>> \notin issued
    BY <1>1, <1>3 DEF Reserve, Drawn, IInv, AllHeld, Held
  <2>2. 1 \in Gens
    BY PoolAssumption DEF Gens
  <2>3. db'.gen = [Lives!Over(over) EXCEPT ![s] = 1]
    BY <1>2, <1>3 DEF Reserve, Tables
  <2>4. Lives!Start(s, 1, over)
    BY <1>3, <2>1, <2>3 DEF Reserve, Lives!Start
  <2> QED BY <1>2, <2>2, <2>4
<1>4. ASSUME NEW s \in Sessions, Restore(s) PROVE Lives!Next
  <2> DEFINE g == Swept.ghost[s] + 1
  <2>1. /\ Swept.gen[s] = 0 /\ Swept.ghost[s] # 0 /\ Swept.ghost[s] < MaxGen
        /\ db' = [Swept EXCEPT !.gen[s] = g]
    BY <1>4 DEF Restore
  <2>2. g \in Gens
    BY <1>2, <2>1, PoolAssumption DEF Tables, Gens
  <2>3. \A h \in Gens : <<s, h>> \in issued => h < g
    BY <2>1, StartsAbove
  <2>4. s \notin dead
    BY <1>1, <2>1, SweptFacts DEF RevokedIsFinal
  <2> HIDE DEF g
  <2>5. db'.gen = [Lives!Over(over) EXCEPT ![s] = g]
    BY <1>2, <2>1 DEF Tables
  <2>6. Lives!Start(s, g, over)
    BY <1>4, <2>3, <2>4, <2>5 DEF Restore, Lives!Start
  <2> QED BY <1>2, <2>2, <2>6
<1>5. ASSUME NEW S \in SUBSET Lives!Alive, db'.gen = Lives!Over(S),
             UNCHANGED <<issued, dead, replaces>>
      PROVE  Lives!Next
  BY <1>5 DEF Lives!Lapse
<1>6. ASSUME NEW s \in Sessions, Renew(s) PROVE Lives!Next
  BY <1>2, <1>5, <1>6 DEF Renew
<1>7. ASSUME NEW S \in SUBSET Sessions, Fail(S) PROVE Lives!Next
  <2> DEFINE undone == {s \in S : op[s].kind # "renew" /\ db.gen[s] = op[s].gen}
  <2>1. db'.gen = Lives!Over(undone)
    BY <1>1, <1>7 DEF Fail, Lives!Over, Tables
  <2>2. undone \in SUBSET Lives!Alive
    BY <1>1, <1>7 DEF Fail, TypeOK, Activation, Gens, Lives!Alive
  <2> QED BY <1>5, <1>7, <2>1, <2>2 DEF Fail
<1>8. ASSUME NEW s \in Sessions, NEW d, d = Retired(db, s)
      PROVE  d.gen = Lives!Over({s})
  <2>1. d \in Tables /\ d.gen[s] = 0 /\ \A t \in Sessions \ {s} : d.gen[t] = db.gen[t]
    BY <1>1, <1>8, RetiredFacts
  <2>2. d.gen \in [Sessions -> 0..MaxGen]
    BY <2>1 DEF Tables
  <2> QED BY <1>1, <2>1, <2>2 DEF Lives!Over
<1>9. ASSUME NEW s \in Sessions, Release(s) PROVE Lives!Next
  <2>1. s \notin dead
    BY <1>1, <1>9 DEF Release, RevokedIsFinal
  <2>2. db'.gen = Lives!Over({s})
    BY <1>8, <1>9 DEF Release
  <2> QED BY <1>9, <2>1, <2>2 DEF Release, Lives!Revoke
<1>10. ASSUME NEW s \in Sessions, Return(s) PROVE Lives!Next
  <2>1. /\ op[s] # None /\ Current(s) /\ db' = Settled(s)
        /\ issued' = issued \cup {<<s, op[s].gen>>}
        /\ dead' = dead \cup Ends(s)
        /\ replaces' = IF Displaces(s) THEN [replaces EXCEPT ![s] = op[s].prev]
                                       ELSE replaces
    BY <1>10 DEF Return
  <2>2. op[s].gen \in Gens /\ op[s].gen = db.gen[s]
    BY <2>1, SettledFacts
  <2>3. CASE Ends(s) # {}
    <3> DEFINE p == op[s].prev
    <3>1. p \in Sessions /\ Ends(s) = {p} /\ (db.gen[p] # 0 \/ db.ghost[p] # 0)
      BY <2>3 DEF Ends
    <3>2. p # s /\ p \notin dead
      BY <1>1, <2>1, <3>1 DEF OfAnother, RevokedIsFinal
    <3>3. Displaces(s)
      BY <2>3 DEF Displaces
    <3>4. db' = Retired(db, p)
      BY <1>1, <2>1, <3>1, PoolAssumption DEF Settled, Shape
    <3>5. db'.gen = Lives!Over({p})
      BY <1>8, <3>1, <3>4
    <3> HIDE DEF p
    <3>6. replaces' = [replaces EXCEPT ![s] = p]
      BY <2>1, <3>3 DEF p
    <3> QED BY <2>1, <2>2, <3>1, <3>2, <3>5, <3>6 DEF Lives!Displace
  <2>4. CASE Ends(s) = {}
    <3>1. op[s].prev \notin Sessions \/ (db.gen[op[s].prev] = 0 /\ db.ghost[op[s].prev] = 0)
      BY <2>4 DEF Ends
    <3>2. ~ Displaces(s)
      BY <1>1, <2>1, <2>4, <3>1 DEF Displaces, Shape, Current
    <3>3. db'.gen = db.gen
      BY <1>1, <2>1, <3>1 DEF Settled, Retired, Tables, TypeOK, Activation
    <3> QED BY <2>1, <2>2, <2>4, <3>2, <3>3 DEF Lives!Sign
  <2> QED BY <2>3, <2>4
<1>11. ASSUME NEW s \in Sessions, Forget(s) PROVE UNCHANGED Lives!vars
  BY <1>1, <1>11 DEF Forget, Tables
<1>12. CASE UNCHANGED <<db, issued, dead, replaces>>
  BY <1>12
<1>13. ASSUME NEW s \in Sessions, NEW prev \in Sessions \cup {None},
              New(s, prev) \/ \E kind \in {"replace", "select"} : Select(s, prev, kind)
       PROVE  Lives!Next
  BY <1>3, <1>13 DEF New, Select
<1>14. ASSUME \/ \E S \in SUBSET Sessions : GoIdle(S)
              \/ \E state \in States, up \in BOOLEAN : Change(state, up)
              \/ Restart \/ UNCHANGED vars
       PROVE  UNCHANGED Lives!vars
  BY <1>12, <1>14 DEF GoIdle, Change, Restart, vars
<1> HIDE DEF Lives!Next, Lives!vars
<1>15. CASE \E s \in Sessions : Restore(s) \/ Renew(s) \/ Return(s)
  BY <1>4, <1>6, <1>10, <1>15
<1>16. CASE \E s \in Sessions : Release(s) \/ Forget(s)
  BY <1>9, <1>11, <1>16
<1>17. CASE Prune
  BY <1>2, <1>5, <1>17 DEF Prune
<1>18. CASE \E s \in Sessions, prev \in Sessions \cup {None} :
              New(s, prev) \/ \E kind \in {"replace", "select"} : Select(s, prev, kind)
  BY <1>13, <1>18
<1> QED BY <1>7, <1>14, <1>15, <1>16, <1>17, <1>18 DEF Next

(* The coordinator's tables implement SessionLives: a ticket is good for   *)
(* one life, a revocation is final, and a replacement ends what it         *)
(* replaces in the same step.                                              *)
THEOREM KeepsLives == Spec => ImplementsSessionLives
<1>1. Init => OfAnother /\ Lives!Init
  BY DEF Init, OfAnother, Lives!Init
<1>2. Spec => []OfAnother
  BY <1>1, NextOfAnother, Invariance, PTL DEF Spec
<1>3. IInv /\ OfAnother /\ [Next]_vars => [Lives!Next]_(Lives!vars)
  BY StepImplements
<1> QED BY <1>1, <1>2, <1>3, Invariance, PTL DEF Spec, ImplementsSessionLives, Lives!Spec
=============================================================================
