---------------------------- MODULE AiRouter_proofs ----------------------------
(***************************************************************************)
(* What holds of the chats for any number of chats, clients and providers, *)
(* any limits and any clock: an answer comes from one model, the counters  *)
(* of the replies in progress are exact, and the usage of a provider is    *)
(* what the chats of the current window cost; a refused visitor is told    *)
(* the time of the first chance.                                           *)
(*                                                                         *)
(* An answer that has begun is streaming, and a streaming chat never       *)
(* changes its provider; every way out of a handler that counted passes    *)
(* Over once, and no other step changes who is waiting.                    *)
(***************************************************************************)
EXTENDS AiRouter, FiniteSetTheorems, WellFoundedInduction, TLAPS

Fields == {"state", "client", "size", "at", "streaming", "aborted", "wrote", "retry"}

Shape ==
  /\ DOMAIN chats = Chats /\ DOMAIN active = Clients
  /\ \A c \in Chats : DOMAIN chats[c] = Fields /\ chats[c].client \in Clients

BegunIsStreaming ==
  \A c \in Chats \ Titles :
    /\ chats[c].wrote \subseteq {chats[c].at}
    /\ chats[c].wrote # {} => chats[c].streaming = TRUE
    /\ chats[c].state = "idle" => chats[c].wrote = {}

Busy == {c \in Chats : chats[c].state \in Waiting}
BusyOf(i) == {c \in Chats : chats[c].state \in Waiting /\ chats[c].client = i}

Counted ==
  /\ total = Cardinality(Busy)
  /\ \A i \in Clients : active[i] = Cardinality(BusyOf(i))

IInv == Shape /\ BegunIsStreaming /\ Counted

Others(c) == \A b \in Chats \ {c} : chats'[b] = chats[b]

(* A handler that goes on, perhaps with the next provider. *)
GoesOn(c) ==
  /\ chats'[c].state \in Waiting /\ chats'[c].client = chats[c].client
  /\ c \in Titles \/ ( /\ chats'[c].wrote \subseteq {chats'[c].at}
                       /\ chats'[c].wrote # {} => chats'[c].streaming = TRUE )

Ends(c) ==
  /\ chats'[c].state = "over" /\ chats'[c].client = chats[c].client
  /\ chats'[c].wrote = {}

-----------------------------------------------------------------------------
(* The busy chats are finitely many, so they can be counted.                 *)
LEMMA BusyFinite ==
  /\ IsFiniteSet(Busy) /\ Cardinality(Busy) \in Nat
  /\ \A i \in Clients : IsFiniteSet(BusyOf(i)) /\ Cardinality(BusyOf(i)) \in Nat
<1>1. IsFiniteSet(Chats)
  BY RouterAssumption
<1>2. Busy \subseteq Chats /\ \A i \in Clients : BusyOf(i) \subseteq Chats
  BY DEF Busy, BusyOf
<1> QED BY <1>1, <1>2, FS_Subset, FS_CardinalityType

(* A step that changes nobody's waiting keeps the counters exact.            *)
LEMMA Steady ==
  ASSUME IInv, NEW c \in Chats, Others(c),
         chats[c].state \in Waiting <=> chats'[c].state \in Waiting,
         chats'[c].client = chats[c].client, UNCHANGED <<active, total>>
  PROVE  Counted'
<1>1. Busy' = Busy /\ \A i \in Clients : BusyOf(i)' = BusyOf(i)
  BY DEF Others, Busy, BusyOf
<1> QED BY <1>1 DEF IInv, Counted

(* A chat that begins to wait counts once.                                   *)
LEMMA Joined ==
  ASSUME IInv, NEW c \in Chats, Others(c), chats[c].state \notin Waiting, GoesOn(c),
         total' = total + 1, active' = [active EXCEPT ![chats[c].client] = @ + 1]
  PROVE  Counted'
<1>1. DOMAIN active = Clients
  BY DEF IInv, Shape
<1>0. PICK i \in Clients : i = chats[c].client
  BY DEF IInv, Shape
<1>2. /\ Busy' = Busy \union {c} /\ c \notin Busy
      /\ BusyOf(i)' = BusyOf(i) \union {c} /\ c \notin BusyOf(i)
      /\ \A j \in Clients \ {i} : BusyOf(j)' = BusyOf(j)
  BY <1>0 DEF Others, GoesOn, Busy, BusyOf
<1>3. Cardinality(Busy') = Cardinality(Busy) + 1
  BY <1>2, BusyFinite, FS_AddElement
<1>4. Cardinality(BusyOf(i)') = Cardinality(BusyOf(i)) + 1
  BY <1>1, <1>2, BusyFinite, FS_AddElement
<1>5. active'[i] = active[i] + 1 /\ \A j \in Clients \ {i} : active'[j] = active[j]
  BY <1>1, <1>0
<1>6. ASSUME NEW j \in Clients PROVE active'[j] = Cardinality(BusyOf(j)')
  <2>1. CASE j = i
    <3>1. active[i] = Cardinality(BusyOf(i))
      BY <1>1 DEF IInv, Counted
    <3> QED BY <1>4, <1>5, <2>1, <3>1
  <2>2. CASE j # i
    BY <1>2, <1>5, <2>2 DEF IInv, Counted
  <2> QED BY <2>1, <2>2
<1> QED BY <1>3, <1>6 DEF IInv, Counted

(* A chat that stops waiting is no longer counted.                           *)
LEMMA Left ==
  ASSUME IInv, NEW c \in Chats, Others(c), chats[c].state \in Waiting, Ends(c),
         total' = total - 1, active' = [active EXCEPT ![chats[c].client] = @ - 1]
  PROVE  Counted'
<1>1. DOMAIN active = Clients
  BY DEF IInv, Shape
<1>0. PICK i \in Clients : i = chats[c].client
  BY DEF IInv, Shape
<1>2. /\ Busy' = Busy \ {c} /\ c \in Busy
      /\ BusyOf(i)' = BusyOf(i) \ {c} /\ c \in BusyOf(i)
      /\ \A j \in Clients \ {i} : BusyOf(j)' = BusyOf(j)
  BY <1>0 DEF Others, Ends, Busy, BusyOf, Waiting
<1>3. Cardinality(Busy') = Cardinality(Busy) - 1
  BY <1>2, BusyFinite, FS_RemoveElement
<1>4. Cardinality(BusyOf(i)') = Cardinality(BusyOf(i)) - 1
  <2>1. IsFiniteSet(BusyOf(i))
    BY <1>1, BusyFinite
  <2>2. Cardinality(BusyOf(i) \ {c}) = Cardinality(BusyOf(i)) - 1
    BY <1>2, <2>1, FS_RemoveElement
  <2> QED BY <1>2, <2>2
<1>5. active'[i] = active[i] - 1 /\ \A j \in Clients \ {i} : active'[j] = active[j]
  BY <1>1, <1>0
<1>6. ASSUME NEW j \in Clients PROVE active'[j] = Cardinality(BusyOf(j)')
  <2>1. CASE j = i
    <3>1. active[i] = Cardinality(BusyOf(i))
      BY <1>1 DEF IInv, Counted
    <3> QED BY <1>4, <1>5, <2>1, <3>1
  <2>2. CASE j # i
    BY <1>2, <1>5, <2>2 DEF IInv, Counted
  <2> QED BY <2>1, <2>2
<1> QED BY <1>3, <1>6 DEF IInv, Counted

(* A step of one chat that goes on or ends keeps what has begun streaming.   *)
LEMMA OneChat ==
  ASSUME IInv, NEW c \in Chats, Others(c), GoesOn(c) \/ Ends(c)
  PROVE  BegunIsStreaming'
BY DEF IInv, BegunIsStreaming, Others, GoesOn, Ends, Waiting

-----------------------------------------------------------------------------
(* What the parts of a handler do to its chat. *)
LEMMA GoneFacts ==
  ASSUME IInv, NEW c \in Chats, NEW r, chats' = [chats EXCEPT ![c] = Gone(c, r)],
         active' = active \/ active' = [active EXCEPT ![chats[c].client] = @ - 1]
  PROVE  Others(c) /\ Ends(c) /\ Shape'
<1>1. DOMAIN chats = Chats /\ DOMAIN active = Clients /\ DOMAIN chats[c] = Fields
  BY DEF IInv, Shape
<1>2. /\ DOMAIN chats' = Chats /\ Others(c) /\ chats'[c] = Gone(c, r)
      /\ DOMAIN active' = Clients
  BY <1>1 DEF Others
<1>3. /\ DOMAIN chats'[c] = Fields /\ chats'[c].state = "over"
      /\ chats'[c].client = chats[c].client /\ chats'[c].wrote = {}
  BY <1>1, <1>2 DEF Gone, Fields
<1> QED BY <1>2, <1>3 DEF Ends, Others, IInv, Shape

(* The finally block keeps the invariant.                                    *)
LEMMA OverStep ==
  ASSUME IInv, NEW c \in Chats, NEW r, chats[c].state \in Waiting, Over(c, r)
  PROVE  IInv'
<1>1. Others(c) /\ Ends(c) /\ Shape'
  BY GoneFacts DEF Over
<1> QED BY <1>1, OneChat, Left DEF Over, IInv

(* An attempt moves one chat, to a provider of which it has no text yet.     *)
LEMMA AttemptFacts ==
  ASSUME IInv, NEW c \in Chats, NEW u, NEW costs, NEW cool, Attempt(c, u, costs, cool),
         c \in Titles \/ chats[c].wrote = {}
  PROVE  /\ Others(c) /\ GoesOn(c) /\ DOMAIN chats' = Chats
         /\ \A b \in Chats : DOMAIN chats'[b] = Fields /\ chats'[b].client \in Clients
<1>1. DOMAIN chats = Chats /\ DOMAIN chats[c] = Fields
  BY DEF IInv, Shape
<1>2. PICK p : chats' = [chats EXCEPT ![c].state = "fetching", ![c].at = p]
  BY DEF Attempt
<1>3. DOMAIN chats' = Chats /\ Others(c)
  BY <1>1, <1>2 DEF Others
<1>4. chats'[c] = [chats[c] EXCEPT !.state = "fetching", !.at = p]
  BY <1>1, <1>2
<1>5. /\ DOMAIN chats'[c] = Fields /\ chats'[c].state = "fetching"
      /\ chats'[c].client = chats[c].client /\ chats'[c].wrote = chats[c].wrote
  BY <1>1, <1>4 DEF Fields
<1> QED BY <1>3, <1>5 DEF GoesOn, Waiting, Others, IInv, Shape

(* The catch block keeps the invariant, whether it ends or fails over.       *)
LEMMA FailedStep ==
  ASSUME IInv, NEW c \in Chats, NEW u, NEW costs, NEW cool, NEW retryable,
         chats[c].state \in Waiting, Failed(c, u, costs, cool, retryable)
  PROVE  IInv'
<1>1. ASSUME NEW r, Over(c, r) PROVE IInv'
  BY <1>1, OverStep
<1>2. CASE /\ ~ chats[c].streaming /\ Attempt(c, u, costs, cool)
           /\ UNCHANGED <<active, total>>
  <2>1. c \in Titles \/ chats[c].wrote = {}
    BY <1>2 DEF IInv, BegunIsStreaming
  <2>2. /\ Others(c) /\ GoesOn(c) /\ DOMAIN chats' = Chats
        /\ \A b \in Chats : DOMAIN chats'[b] = Fields /\ chats'[b].client \in Clients
    BY <1>2, <2>1, AttemptFacts
  <2>3. Counted'
    BY <1>2, <2>2, Steady DEF GoesOn
  <2> QED BY <1>2, <2>2, <2>3, OneChat DEF IInv, Shape
<1> QED BY <1>1, <1>2 DEF Failed

(* Admission keeps the invariant, granted or refused.                        *)
LEMMA AdmitStep ==
  ASSUME IInv, NEW c \in Chats, Admit(c) \/ Turn(c)
  PROVE  IInv'
<1>1. chats[c].state \notin Waiting
  BY DEF Admit, Turn, Waiting
<1>2. ASSUME NEW r, chats' = [chats EXCEPT ![c] = Gone(c, r)], UNCHANGED <<active, total>>
      PROVE  IInv'
  <2>1. Others(c) /\ Ends(c) /\ Shape'
    BY <1>2, GoneFacts
  <2>2. Counted'
    BY <1>1, <1>2, <2>1, Steady DEF Ends, Waiting
  <2> QED BY <2>1, <2>2, OneChat DEF IInv
<1>3. CASE /\ Attempt(c, usage, ledger, until) /\ (c \in Titles \/ chats[c].wrote = {})
           /\ active' = [active EXCEPT ![chats[c].client] = @ + 1] /\ total' = total + 1
  <2>1. /\ Others(c) /\ GoesOn(c) /\ DOMAIN chats' = Chats
        /\ \A b \in Chats : DOMAIN chats'[b] = Fields /\ chats'[b].client \in Clients
    BY <1>3, AttemptFacts
  <2>2. Counted'
    BY <1>1, <1>3, <2>1, Joined
  <2>3. DOMAIN active' = Clients
    BY <1>3 DEF IInv, Shape
  <2> QED BY <2>1, <2>2, <2>3, OneChat DEF IInv, Shape
<1>4. c \in Titles \/ chats[c].state # "idle" \/ chats[c].wrote = {}
  BY DEF IInv, BegunIsStreaming
<1> QED BY <1>2, <1>3, <1>4 DEF Admit, Turn

-----------------------------------------------------------------------------
(* Steps of a handler that leave it where it waits. *)
LEMMA WaitingSteps ==
  ASSUME IInv, NEW c \in Chats, Opened(c) \/ Delta(c) \/ Abort(c)
  PROVE  IInv'
<1>1. DOMAIN chats = Chats /\ DOMAIN chats[c] = Fields /\ chats[c].state \in Waiting
  BY DEF IInv, Shape, Opened, Delta, Abort, Waiting
<1>2. UNCHANGED <<active, total>>
  BY DEF Opened, Delta, Abort
<1>3. PICK rec : /\ chats' = [chats EXCEPT ![c] = rec] /\ DOMAIN rec = Fields
                 /\ rec.state \in Waiting /\ rec.client = chats[c].client
                 /\ rec.at = chats[c].at
                 /\ \/ rec.wrote = chats[c].wrote /\ rec.streaming = chats[c].streaming
                    \/ /\ rec.wrote = chats[c].wrote \union {chats[c].at}
                       /\ rec.streaming = (c \notin Titles)
  <2>1. CASE Opened(c)
    <3> DEFINE new == [chats[c] EXCEPT !.state = "reading"]
    <3>1. chats' = [chats EXCEPT ![c] = new]
      BY <1>1, <2>1 DEF Opened
    <3>2. /\ DOMAIN new = Fields /\ new.state \in Waiting /\ new.client = chats[c].client
          /\ new.at = chats[c].at
          /\ new.wrote = chats[c].wrote /\ new.streaming = chats[c].streaming
      BY <1>1 DEF Fields, Waiting
    <3> QED BY <3>1, <3>2
  <2>2. CASE Delta(c)
    <3> DEFINE new == [chats[c] EXCEPT !.streaming = c \notin Titles, !.wrote = @ \union {chats[c].at}]
    <3>1. chats' = [chats EXCEPT ![c] = new]
      BY <1>1, <2>2 DEF Delta
    <3>2. /\ DOMAIN new = Fields /\ new.state \in Waiting /\ new.client = chats[c].client
          /\ new.at = chats[c].at
          /\ new.wrote = chats[c].wrote \union {chats[c].at}
          /\ new.streaming = (c \notin Titles)
      BY <1>1 DEF Fields, Waiting
    <3> QED BY <3>1, <3>2
  <2>3. CASE Abort(c)
    <3> DEFINE new == [chats[c] EXCEPT !.aborted = TRUE]
    <3>1. chats' = [chats EXCEPT ![c] = new]
      BY <1>1, <2>3 DEF Abort
    <3>2. /\ DOMAIN new = Fields /\ new.state \in Waiting /\ new.client = chats[c].client
          /\ new.at = chats[c].at
          /\ new.wrote = chats[c].wrote /\ new.streaming = chats[c].streaming
      BY <1>1 DEF Fields, Waiting
    <3> QED BY <3>1, <3>2
  <2> QED BY <2>1, <2>2, <2>3
<1>4. DOMAIN chats' = Chats /\ Others(c) /\ chats'[c] = rec
  BY <1>1, <1>3 DEF Others
<1>5. GoesOn(c)
  <2>1. CASE c \in Titles
    BY <1>3, <1>4, <2>1 DEF GoesOn
  <2>2. CASE c \notin Titles
    BY <1>3, <1>4, <2>2 DEF GoesOn, IInv, BegunIsStreaming
  <2> QED BY <2>1, <2>2
<1>6. Counted'
  BY <1>1, <1>2, <1>4, <1>5, Steady DEF GoesOn
<1>7. Shape'
  BY <1>2, <1>3, <1>4 DEF Others, IInv, Shape
<1> QED BY <1>4, <1>5, <1>6, <1>7, OneChat DEF IInv

(* What the provider sends, or fails to send, keeps the invariant.           *)
LEMMA ProviderSteps ==
  ASSUME IInv, NEW c \in Chats,
         Rejected(c) \/ Interrupted(c) \/ Completed(c) \/ Empty(c)
  PROVE  IInv'
<1>1. chats[c].state \in Waiting
  BY DEF Rejected, Interrupted, Completed, Empty, Waiting
<1>2. CASE Rejected(c)
  BY <1>1, <1>2, FailedStep DEF Rejected
<1>3. CASE Interrupted(c)
  BY <1>1, <1>3, FailedStep DEF Interrupted, Broken
<1>4. CASE Completed(c)
  BY <1>1, <1>4, OverStep DEF Completed
<1>5. CASE Empty(c)
  BY <1>1, <1>5, FailedStep DEF Empty, Broken
<1> QED BY <1>2, <1>3, <1>4, <1>5

(* The clock and stuttering keep it too.                                     *)
LEMMA StutterStep ==
  ASSUME IInv, UNCHANGED <<chats, active, total>>
  PROVE  IInv'
BY DEF IInv, Shape, BegunIsStreaming, Counted, Busy, BusyOf

(* Nobody waits at the start.                                                *)
LEMMA IInvInit == Init => IInv
<1> SUFFICES ASSUME Init PROVE IInv
  OBVIOUS
<1>1. /\ \A c \in Chats : /\ DOMAIN chats[c] = Fields /\ chats[c].client \in Clients
                          /\ chats[c].state = "idle" /\ chats[c].wrote = {}
      /\ DOMAIN chats = Chats /\ DOMAIN active = Clients
      /\ total = 0 /\ \A i \in Clients : active[i] = 0
  BY DEF Init, Fields
<1>2. Busy = {} /\ \A i \in Clients : BusyOf(i) = {}
  BY <1>1 DEF Busy, BusyOf, Waiting
<1>3. Counted
  BY <1>1, <1>2, FS_EmptySet DEF Counted
<1> QED BY <1>1, <1>3 DEF IInv, Shape, BegunIsStreaming

(* Every step keeps the invariant.                                           *)
LEMMA IInvStep == IInv /\ [Next]_vars => IInv'
<1> SUFFICES ASSUME IInv, [Next]_vars PROVE IInv'
  OBVIOUS
<1>1. CASE Tick \/ UNCHANGED vars
  BY <1>1, StutterStep DEF Tick, vars
<1>2. ASSUME NEW c \in Chats, Turn(c) \/ Admit(c)
      PROVE  IInv'
  BY <1>2, AdmitStep
<1>3. ASSUME NEW c \in Chats, Rejected(c) \/ Interrupted(c) \/ Completed(c) \/ Empty(c)
      PROVE  IInv'
  BY <1>3, ProviderSteps
<1>4. ASSUME NEW c \in Chats, Opened(c) \/ Delta(c) \/ Abort(c)
      PROVE  IInv'
  BY <1>4, WaitingSteps
<1> QED BY <1>1, <1>2, <1>3, <1>4 DEF Next

(* The invariant always holds.                                               *)
LEMMA RouterInvariance == Spec => []IInv
BY IInvInit, IInvStep, PTL DEF Spec

(* A visitor's answer comes from one provider, whatever failed and failed    *)
(* over before it began.                                                     *)
THEOREM OneModel == Spec => []OneModelPerAnswer
<1>1. IInv => OneModelPerAnswer
  <2> SUFFICES ASSUME IInv, NEW c \in Chats \ Titles PROVE Cardinality(chats[c].wrote) <= 1
    BY DEF OneModelPerAnswer
  <2>1. chats[c].wrote = {} \/ chats[c].wrote = {chats[c].at}
    BY DEF IInv, BegunIsStreaming
  <2>2. Cardinality(chats[c].wrote) \in {0, 1}
    BY <2>1, FS_EmptySet, FS_Singleton
  <2> QED BY <2>2
<1> QED BY <1>1, RouterInvariance, PTL

(* The counters of the replies in progress are exact: no way out of a        *)
(* handler keeps its slot or returns it twice.                               *)
THEOREM Slots == Spec => []SlotsExact
<1>1. IInv => SlotsExact
  BY DEF IInv, Counted, Busy, BusyOf, SlotsExact
<1> QED BY <1>1, RouterInvariance, PTL

-----------------------------------------------------------------------------
(* Sums over finite sets.  The windows account for their chats by a sum, a   *)
(* recursive function over the subsets of a set: it exists, two of them      *)
(* agree where both are defined, and what it gives does not depend on the    *)
(* order in which it takes the elements.                                     *)
Below == {p \in Nat \X Nat : p[1] < p[2]}

(* A set of naturals has a least element. *)
LEMMA Least ==
  ASSUME NEW T \in SUBSET Nat, T # {}
  PROVE  \E x \in T : \A y \in T : x <= y
<1>0. IsWellFoundedOn(Below, Nat)
  BY NatLessThanWellFounded, Zenon DEF OpToRel, Below
<1>1. PICK x \in T : \A y \in T : ~(<<y, x>> \in Below)
  BY WFMin, <1>0
<1>2. ASSUME NEW y \in T PROVE x <= y
  <2>1. x \in Nat /\ y \in Nat
    OBVIOUS
  <2>2. y < x => <<y, x>> \in Below
    BY <2>1 DEF Below
  <2> QED BY <1>1, <2>1, <2>2
<1> QED BY <1>2

(* A set with 0 and the successor of each of its elements has all of Nat.    *)
LEMMA Induction ==
  ASSUME NEW T, 0 \in T, \A n \in Nat : n \in T => n + 1 \in T
  PROVE  \A n \in Nat : n \in T
<1> DEFINE Rest == Nat \ T
<1>1. SUFFICES ASSUME Rest # {} PROVE FALSE
  OBVIOUS
<1>2. PICK x \in Rest : \A y \in Rest : x <= y
  <2>1. Rest \in SUBSET Nat
    OBVIOUS
  <2> QED BY <1>1, <2>1, Least
<1>3. x - 1 \in Nat /\ x - 1 \notin Rest
  BY <1>2
<1> QED BY <1>2, <1>3

-----------------------------------------------------------------------------
(* A sum over a set takes its elements in the order of CHOOSE. *)
Some(s) == CHOOSE x \in s : TRUE

Adds(f, S, g) ==
  g = [s \in SUBSET S |-> IF s = {} THEN 0 ELSE f[Some(s)] + g[s \ {Some(s)}]]

Total(f, S) == (CHOOSE g : Adds(f, S, g))[S]

(* What is taken from a nonempty set is in it.                               *)
LEMMA SomeIn == ASSUME NEW s, s # {} PROVE Some(s) \in s
  BY DEF Some

(* The equations of a recursive sum.                                         *)
LEMMA AddsFields ==
  ASSUME NEW f, NEW S, NEW g, Adds(f, S, g)
  PROVE  /\ g[{}] = 0
         /\ \A s \in SUBSET S : s # {} => g[s] = f[Some(s)] + g[s \ {Some(s)}]
<1>1. \A s \in SUBSET S : g[s] = IF s = {} THEN 0 ELSE f[Some(s)] + g[s \ {Some(s)}]
  BY Zenon DEF Adds
<1>2. {} \in SUBSET S
  OBVIOUS
<1> QED BY <1>1, <1>2

(* The second of them.                                                       *)
LEMMA AddsNext ==
  ASSUME NEW f, NEW S, NEW g, Adds(f, S, g)
  PROVE  \A s \in SUBSET S : s # {} => g[s] = f[Some(s)] + g[s \ {Some(s)}]
<1>1. \A s \in SUBSET S : g[s] = IF s = {} THEN 0 ELSE f[Some(s)] + g[s \ {Some(s)}]
  BY Zenon DEF Adds
<1> QED BY <1>1

(* A set with one element less.                                              *)
LEMMA Fewer ==
  ASSUME NEW s, IsFiniteSet(s), NEW x \in s, NEW N \in Nat, Cardinality(s) = N + 1
  PROVE  Cardinality(s \ {x}) = N
<1>1. Cardinality(s \ {x}) = Cardinality(s) - 1
  BY FS_RemoveElement
<1> QED BY <1>1

(* A function that satisfies the equations exists, built size by size.       *)
LEMMA AddsExists ==
  ASSUME NEW f, NEW S, IsFiniteSet(S)
  PROVE  \E g : Adds(f, S, g)
<1> DEFINE D(N) == {s \in SUBSET S : Cardinality(s) <= N}
           Run(N, g) == g = [s \in D(N) |-> IF s = {} THEN 0 ELSE f[Some(s)] + g[s \ {Some(s)}]]
           T == {N \in Nat : \E g : Run(N, g)}
<1>0. \A s \in SUBSET S : IsFiniteSet(s) /\ Cardinality(s) \in Nat /\ (Cardinality(s) = 0 <=> s = {})
  BY FS_Subset, FS_CardinalityType, FS_EmptySet
<1>1. 0 \in T
  <2> DEFINE g == [s \in D(0) |-> 0]
  <2>1. \A s \in D(0) : s = {}
    BY <1>0
  <2>2. g = [s \in D(0) |-> IF s = {} THEN 0 ELSE f[Some(s)] + g[s \ {Some(s)}]]
    BY <2>1
  <2> QED BY <2>2
<1>2. ASSUME NEW N \in Nat, N \in T PROVE N + 1 \in T
  <2>1. PICK g : Run(N, g)
    BY <1>2
  <2> DEFINE E == D(N + 1)
             h == [s \in E |-> IF s = {} THEN 0 ELSE f[Some(s)] + g[s \ {Some(s)}]]
  <2>2. \A s \in D(N) : g[s] = IF s = {} THEN 0 ELSE f[Some(s)] + g[s \ {Some(s)}]
    BY <2>1, Zenon
  <2>3. \A s \in D(N) : s \in E
    BY <1>0
  <2>4. ASSUME NEW s \in E, s # {}
        PROVE  s \ {Some(s)} \in D(N)
    <3>1. Some(s) \in s /\ s \in SUBSET S
      BY <2>4, SomeIn
    <3>2. IsFiniteSet(s) /\ Cardinality(s) <= N + 1 /\ Cardinality(s) \in Nat
      BY <1>0, <3>1
    <3>3. Cardinality(s \ {Some(s)}) = Cardinality(s) - 1
      BY <3>1, <3>2, FS_RemoveElement
    <3> QED BY <3>1, <3>2, <3>3
  <2>5. \A s \in E : h[s] = IF s = {} THEN 0 ELSE f[Some(s)] + g[s \ {Some(s)}]
    BY Zenon
  <2> HIDE DEF h, E, D
  <2>6. \A s \in D(N) : h[s] = g[s]
    BY <2>2, <2>3, <2>5, Zenon
  <2>7. ASSUME NEW s \in E
        PROVE  h[s] = IF s = {} THEN 0 ELSE f[Some(s)] + h[s \ {Some(s)}]
    <3>1. CASE s = {}
      BY <2>5, <3>1
    <3>2. CASE s # {}
      BY <2>4, <2>5, <2>6, <3>2
    <3> QED BY <3>1, <3>2
  <2>8. h = [s \in E |-> h[s]]
    BY DEF h
  <2>9. h = [s \in E |-> IF s = {} THEN 0 ELSE f[Some(s)] + h[s \ {Some(s)}]]
    BY <2>7, <2>8, Zenon
  <2> QED BY <2>9 DEF E
<1>3. \A N \in Nat : N \in T
  <2> HIDE DEF T
  <2> QED BY <1>1, <1>2, Induction
<1>4. Cardinality(S) \in Nat
  BY FS_CardinalityType
<1>5. PICK g : Run(Cardinality(S), g)
  BY <1>3, <1>4
<1>6. D(Cardinality(S)) = SUBSET S
  BY FS_Subset
<1> HIDE DEF D
<1> QED BY <1>5, <1>6, Zenon DEF Adds

(* The order is the same in every superset. *)
LEMMA AddsOnce ==
  ASSUME NEW f, NEW S, IsFiniteSet(S), NEW g, Adds(f, S, g),
         NEW R, IsFiniteSet(R), NEW h, Adds(f, R, h)
  PROVE  \A s \in SUBSET S : s \in SUBSET R => g[s] = h[s]
<1> DEFINE T == {N \in Nat : \A s \in SUBSET S : s \in SUBSET R /\ Cardinality(s) = N => g[s] = h[s]}
<1>0. \A s \in SUBSET S : IsFiniteSet(s) /\ Cardinality(s) \in Nat /\ (Cardinality(s) = 0 <=> s = {})
  BY FS_Subset, FS_CardinalityType, FS_EmptySet
<1>g. \A s \in SUBSET S : s # {} => g[s] = f[Some(s)] + g[s \ {Some(s)}]
  BY AddsNext
<1>h. \A s \in SUBSET R : s # {} => h[s] = f[Some(s)] + h[s \ {Some(s)}]
  BY AddsNext
<1>1. 0 \in T
  BY <1>0, AddsFields
<1>2. ASSUME NEW N \in Nat, N \in T PROVE N + 1 \in T
  <2> SUFFICES ASSUME NEW s \in SUBSET S, s \in SUBSET R, Cardinality(s) = N + 1
               PROVE  g[s] = h[s]
    OBVIOUS
  <2>1. s # {} /\ IsFiniteSet(s)
    BY <1>0
  <2>2. Some(s) \in s
    BY <2>1, SomeIn
  <2>3. Cardinality(s \ {Some(s)}) = N
    BY <2>1, <2>2, Fewer
  <2>4. g[s \ {Some(s)}] = h[s \ {Some(s)}]
    BY <1>2, <2>3
  <2>5. g[s] = f[Some(s)] + g[s \ {Some(s)}]
    BY <2>1, <1>g
  <2>6. h[s] = f[Some(s)] + h[s \ {Some(s)}]
    BY <2>1, <1>h
  <2> QED BY <2>4, <2>5, <2>6
<1>3. \A N \in Nat : N \in T
  <2> HIDE DEF T
  <2> QED BY <1>1, <1>2, Induction
<1> QED BY <1>0, <1>3

(* The sum is what any function with the equations gives.                    *)
LEMMA TotalOf ==
  ASSUME NEW f, NEW S, IsFiniteSet(S), NEW g, Adds(f, S, g), NEW s \in SUBSET S
  PROVE  Total(f, s) = g[s]
<1>1. IsFiniteSet(s)
  BY FS_Subset
<1>2. Adds(f, s, CHOOSE h : Adds(f, s, h))
  BY <1>1, AddsExists, Zenon
<1> DEFINE k == CHOOSE h : Adds(f, s, h)
<1>3. Total(f, s) = k[s]
  BY Zenon DEF Total
<1> HIDE DEF k
<1>4. k[s] = g[s]
  BY <1>1, <1>2, AddsOnce DEF k
<1> QED BY <1>3, <1>4

(* Nothing sums to 0.                                                        *)
LEMMA TotalEmpty == ASSUME NEW f PROVE Total(f, {}) = 0
<1>1. IsFiniteSet({})
  BY FS_EmptySet
<1>2. PICK g : Adds(f, {}, g)
  BY <1>1, AddsExists
<1>3. Total(f, {}) = g[{}]
  BY <1>1, <1>2, TotalOf
<1> QED BY <1>2, <1>3, AddsFields

(* A sum is its first element and the rest.                                  *)
LEMMA TotalFirst ==
  ASSUME NEW f, NEW S, IsFiniteSet(S), S # {}
  PROVE  Total(f, S) = f[Some(S)] + Total(f, S \ {Some(S)})
<1>1. PICK g : Adds(f, S, g)
  BY AddsExists
<1>2. S \in SUBSET S /\ S \ {Some(S)} \in SUBSET S
  OBVIOUS
<1>3. Total(f, S) = g[S] /\ Total(f, S \ {Some(S)}) = g[S \ {Some(S)}]
  BY <1>1, <1>2, TotalOf
<1>4. g[S] = f[Some(S)] + g[S \ {Some(S)}]
  BY ONLY <1>1, <1>2, AddsFields, S # {}
<1> QED BY <1>3, <1>4

(* A sum of integers is an integer.                                          *)
LEMMA TotalType ==
  ASSUME NEW S, IsFiniteSet(S), NEW f, \A x \in S : f[x] \in Int
  PROVE  \A s \in SUBSET S : Total(f, s) \in Int
<1> DEFINE T == {N \in Nat : \A s \in SUBSET S : Cardinality(s) = N => Total(f, s) \in Int}
<1>0. \A s \in SUBSET S : IsFiniteSet(s) /\ Cardinality(s) \in Nat /\ (Cardinality(s) = 0 <=> s = {})
  BY FS_Subset, FS_CardinalityType, FS_EmptySet
<1>1. 0 \in T
  BY <1>0, TotalEmpty
<1>2. ASSUME NEW N \in Nat, N \in T PROVE N + 1 \in T
  <2> SUFFICES ASSUME NEW s \in SUBSET S, Cardinality(s) = N + 1 PROVE Total(f, s) \in Int
    OBVIOUS
  <2>1. s # {} /\ IsFiniteSet(s)
    BY <1>0
  <2>2. Some(s) \in s
    BY <2>1, SomeIn
  <2>3. Cardinality(s \ {Some(s)}) = N
    BY <2>1, <2>2, Fewer
  <2>4. Total(f, s \ {Some(s)}) \in Int /\ f[Some(s)] \in Int
    BY <1>2, <2>2, <2>3
  <2> QED BY <2>1, <2>4, TotalFirst
<1>3. \A N \in Nat : N \in T
  <2> HIDE DEF T
  <2> QED BY <1>1, <1>2, Induction
<1> QED BY <1>0, <1>3

(* The sum does not depend on the order. *)
LEMMA TotalTakes ==
  ASSUME NEW S, IsFiniteSet(S), NEW f, \A x \in S : f[x] \in Int
  PROVE  /\ Total(f, S) \in Int
         /\ \A x \in S : Total(f, S) = f[x] + Total(f, S \ {x})
<1> DEFINE P(s) == /\ Total(f, s) \in Int
                   /\ \A x \in s : Total(f, s) = f[x] + Total(f, s \ {x})
           T == {N \in Nat : \A s \in SUBSET S : Cardinality(s) = N => P(s)}
<1>0. \A s \in SUBSET S : IsFiniteSet(s) /\ Cardinality(s) \in Nat /\ (Cardinality(s) = 0 <=> s = {})
  BY FS_Subset, FS_CardinalityType, FS_EmptySet
<1>1. 0 \in T
  BY <1>0, TotalEmpty
<1>2. ASSUME NEW N \in Nat, N \in T PROVE N + 1 \in T
  <2> SUFFICES ASSUME NEW s \in SUBSET S, Cardinality(s) = N + 1 PROVE P(s)
    OBVIOUS
  <2>1. s # {} /\ IsFiniteSet(s)
    BY <1>0
  <2> DEFINE y == Some(s)
  <2>2. y \in s
    BY <2>1, SomeIn
  <2>3. ASSUME NEW z \in s
        PROVE  /\ s \ {z} \in SUBSET S /\ Total(f, s \ {z}) \in Int
               /\ \A x \in s \ {z} : Total(f, s \ {z}) = f[x] + Total(f, (s \ {z}) \ {x})
               /\ f[z] \in Int
    <3>1. Cardinality(s \ {z}) = N
      BY <2>1, Fewer
    <3>2. P(s \ {z})
      BY <1>2, <3>1
    <3> QED BY <3>2
  <2>4. Total(f, s) = f[y] + Total(f, s \ {y})
    BY <2>1, TotalFirst
  <2> HIDE DEF y
  <2>5. Total(f, s) \in Int
    BY <2>2, <2>3, <2>4
  <2>6. ASSUME NEW x \in s PROVE Total(f, s) = f[x] + Total(f, s \ {x})
    <3>1. CASE x = y
      BY <2>4, <3>1
    <3>2. CASE x # y
      <4>1. Total(f, s \ {y}) = f[x] + Total(f, (s \ {y}) \ {x})
        BY <2>2, <2>3, <3>2
      <4>2. Total(f, s \ {x}) = f[y] + Total(f, (s \ {x}) \ {y})
        BY <2>2, <2>3, <3>2
      <4>3. (s \ {x}) \ {y} = (s \ {y}) \ {x}
        OBVIOUS
      <4>4. Total(f, (s \ {x}) \ {y}) \in Int
        BY TotalType
      <4>5. f[x] \in Int /\ f[y] \in Int
        BY <2>2, <2>3
      <4>6. Total(f, (s \ {y}) \ {x}) \in Int
        BY <4>3, <4>4
      <4>7. Total(f, s \ {x}) = f[y] + Total(f, (s \ {y}) \ {x})
        BY ONLY <4>2, <4>3
      <4> DEFINE r == Total(f, (s \ {y}) \ {x})
      <4>8. /\ Total(f, s) = f[y] + (f[x] + r) /\ f[x] + Total(f, s \ {x}) = f[x] + (f[y] + r)
        BY ONLY <2>4, <4>1, <4>7
      <4>9. r \in Int
        BY <4>6
      <4> HIDE DEF r
      <4> QED BY ONLY <4>5, <4>8, <4>9
    <3> QED BY <3>1, <3>2
  <2> QED BY <2>5, <2>6
<1>3. \A N \in Nat : N \in T
  <2> HIDE DEF T
  <2> QED BY <1>1, <1>2, Induction
<1> QED BY <1>0, <1>3

(* Equal values have equal sums.                                             *)
LEMMA TotalSame ==
  ASSUME NEW S, IsFiniteSet(S), NEW f, NEW h, \A x \in S : f[x] = h[x]
  PROVE  Total(f, S) = Total(h, S)
<1> DEFINE T == {N \in Nat : \A s \in SUBSET S : Cardinality(s) = N => Total(f, s) = Total(h, s)}
<1>0. \A s \in SUBSET S : IsFiniteSet(s) /\ Cardinality(s) \in Nat /\ (Cardinality(s) = 0 <=> s = {})
  BY FS_Subset, FS_CardinalityType, FS_EmptySet
<1>1. 0 \in T
  BY <1>0, TotalEmpty
<1>2. ASSUME NEW N \in Nat, N \in T PROVE N + 1 \in T
  <2> SUFFICES ASSUME NEW s \in SUBSET S, Cardinality(s) = N + 1 PROVE Total(f, s) = Total(h, s)
    OBVIOUS
  <2>1. s # {} /\ IsFiniteSet(s)
    BY <1>0
  <2>2. Some(s) \in s
    BY <2>1, SomeIn
  <2>3. Cardinality(s \ {Some(s)}) = N
    BY <2>1, <2>2, Fewer
  <2>4. Total(f, s \ {Some(s)}) = Total(h, s \ {Some(s)})
    BY <1>2, <2>3
  <2>5. Total(f, s) = f[Some(s)] + Total(f, s \ {Some(s)})
    BY <2>1, TotalFirst
  <2>6. Total(h, s) = h[Some(s)] + Total(h, s \ {Some(s)})
    BY <2>1, TotalFirst
  <2>7. f[Some(s)] = h[Some(s)]
    BY <2>2
  <2> QED BY ONLY <2>4, <2>5, <2>6, <2>7
<1>3. \A N \in Nat : N \in T
  <2> HIDE DEF T
  <2> QED BY <1>1, <1>2, Induction
<1> QED BY <1>0, <1>3

(* A sum of naturals is a natural.                                           *)
LEMMA TotalNat ==
  ASSUME NEW S, IsFiniteSet(S), NEW f, \A x \in S : f[x] \in Nat
  PROVE  Total(f, S) \in Nat
<1> DEFINE T == {N \in Nat : \A s \in SUBSET S : Cardinality(s) = N => Total(f, s) \in Nat}
<1>0. \A s \in SUBSET S : IsFiniteSet(s) /\ Cardinality(s) \in Nat /\ (Cardinality(s) = 0 <=> s = {})
  BY FS_Subset, FS_CardinalityType, FS_EmptySet
<1>1. 0 \in T
  BY <1>0, TotalEmpty
<1>2. ASSUME NEW N \in Nat, N \in T PROVE N + 1 \in T
  <2> SUFFICES ASSUME NEW s \in SUBSET S, Cardinality(s) = N + 1 PROVE Total(f, s) \in Nat
    OBVIOUS
  <2>1. s # {} /\ IsFiniteSet(s)
    BY <1>0
  <2>2. Some(s) \in s
    BY <2>1, SomeIn
  <2>3. Cardinality(s \ {Some(s)}) = N
    BY <2>1, <2>2, Fewer
  <2>4. Total(f, s \ {Some(s)}) \in Nat /\ f[Some(s)] \in Nat
    BY <1>2, <2>2, <2>3
  <2> QED BY <2>1, <2>4, TotalFirst
<1>3. \A N \in Nat : N \in T
  <2> HIDE DEF T
  <2> QED BY <1>1, <1>2, Induction
<1> QED BY <1>0, <1>3

(* A new element, or an element whose value changes. *)
LEMMA TotalJoin ==
  ASSUME NEW S, IsFiniteSet(S), NEW f, NEW h, NEW c, c \notin S,
         \A x \in S : f[x] \in Nat /\ h[x] = f[x], h[c] \in Nat
  PROVE  Total(h, S \union {c}) = h[c] + Total(f, S) /\ Total(f, S) \in Nat
<1> DEFINE R == S \union {c}
<1>1. IsFiniteSet(R)
  BY FS_AddElement
<1>2. \A x \in R : h[x] \in Int
  OBVIOUS
<1>3. c \in R /\ R \ {c} = S
  OBVIOUS
<1> HIDE DEF R
<1>4. Total(h, R) = h[c] + Total(h, R \ {c})
  BY <1>1, <1>2, <1>3, TotalTakes
<1>5. Total(h, S) = Total(f, S)
  BY TotalSame
<1>6. Total(f, S) \in Nat
  BY TotalNat
<1> QED BY <1>3, <1>4, <1>5, <1>6 DEF R

(* Two sums that differ in one value share the rest.                         *)
LEMMA TotalUpdate ==
  ASSUME NEW S, IsFiniteSet(S), NEW f, NEW h, NEW c \in S,
         \A x \in S \ {c} : h[x] = f[x], \A x \in S : f[x] \in Nat /\ h[x] \in Nat
  PROVE  \E rest \in Nat : Total(f, S) = f[c] + rest /\ Total(h, S) = h[c] + rest
<1> DEFINE R == S \ {c}
<1>1. IsFiniteSet(R)
  BY FS_RemoveElement
<1>2. Total(f, R) = Total(h, R)
  BY <1>1, TotalSame
<1>3. Total(f, R) \in Nat
  BY <1>1, TotalNat
<1>4. Total(f, S) = f[c] + Total(f, R)
  BY TotalTakes
<1>5. Total(h, S) = h[c] + Total(h, R)
  BY TotalTakes
<1> QED BY <1>2, <1>3, <1>4, <1>5

-----------------------------------------------------------------------------
(* The fold of the community module is that sum.                             *)
LEMMA CostIsTotal ==
  ASSUME NEW p, NEW C \in SUBSET Chats
  PROVE  Cost(p, C) = Total([c \in C |-> ledger[c][p].tokens], C)
<1> DEFINE f == [c \in C |-> ledger[c][p].tokens]
           Steps(g) == g = [s \in SUBSET C |-> IF s = {} THEN 0
                              ELSE LET x == CHOOSE x \in s : TRUE
                                   IN ledger[x][p].tokens + g[s \ {x}]]
<1>1. Cost(p, C) = (CHOOSE g : Steps(g))[C]
  BY Zenon DEF Cost, MapThenSumSet, MapThenFoldSet
<1>2. ASSUME NEW g PROVE Steps(g) <=> Adds(f, C, g)
  <2>1. ASSUME NEW s \in SUBSET C, s # {} PROVE f[Some(s)] = ledger[Some(s)][p].tokens
    BY <2>1, SomeIn
  <2>2. \A s : Some(s) = CHOOSE x \in s : TRUE
    BY DEF Some
  <2>3. [s \in SUBSET C |-> IF s = {} THEN 0
                              ELSE LET x == CHOOSE x \in s : TRUE
                                   IN ledger[x][p].tokens + g[s \ {x}]]
        = [s \in SUBSET C |-> IF s = {} THEN 0 ELSE f[Some(s)] + g[s \ {Some(s)}]]
    <3> SUFFICES ASSUME NEW s \in SUBSET C
                 PROVE (IF s = {} THEN 0
                              ELSE LET x == CHOOSE x \in s : TRUE
                                   IN ledger[x][p].tokens + g[s \ {x}])
                       = (IF s = {} THEN 0 ELSE f[Some(s)] + g[s \ {Some(s)}])
      OBVIOUS
    <3> HIDE DEF f
    <3> QED BY <2>1 DEF Some
  <2> QED BY <2>3, Zenon DEF Adds
<1> HIDE DEF f, Steps
<1>3. (CHOOSE g : Steps(g)) = (CHOOSE g : Adds(f, C, g))
  BY <1>2, Zenon
<1> QED BY <1>1, <1>3, Zenon DEF Total, f

-----------------------------------------------------------------------------
(* The inductive invariant of the windows.  No chat is in a window that is    *)
(* yet to come (so a new window begins empty), and a chat has nothing with a *)
(* provider that it has not tried (so it enters a window once).              *)
Rows   == [Providers -> [Periods -> [reset : Nat, requests : Nat, tokens : Nat]]]
Costs  == [Chats -> [Providers -> [minute : Nat, day : Nat, tokens : Nat]]]

Within(costs, p, k, t) == {c \in Chats : costs[c][p][k] = t}
Spent(costs, p, C) == Total([c \in C |-> costs[c][p].tokens], C)

RowAccounts(row, costs, p, k) ==
  /\ row.requests = Cardinality(Within(costs, p, k, row.reset))
  /\ row.tokens = Spent(costs, p, Within(costs, p, k, row.reset))

Accounts(u, costs) ==
  /\ u \in Rows /\ costs \in Costs
  /\ \A p \in Providers, k \in Periods :
       /\ \A c \in Chats : costs[c][p][k] <= u[p][k].reset
       /\ u[p][k].reset # 0 => RowAccounts(u[p][k], costs, p, k)

Places ==
  \A c \in Chats :
    /\ chats[c].size \in Nat /\ chats[c].at \in Nat
    /\ chats[c].state \in Waiting => chats[c].at \in Providers
    /\ chats[c].state # "over" =>
         \A p \in Providers : p > chats[c].at => ledger[c][p] = Free

AInv == Shape /\ now \in Nat /\ Accounts(usage, ledger) /\ Places

-----------------------------------------------------------------------------
(* Every set of chats is finite.                                             *)
LEMMA ChatsFinite == IsFiniteSet(Chats) /\ \A C \in SUBSET Chats : IsFiniteSet(C)
  BY RouterAssumption, FS_Subset

(* The types of a ledger entry.                                              *)
LEMMA CostFields ==
  ASSUME NEW costs \in Costs, NEW c \in Chats, NEW p \in Providers
  PROVE  /\ costs[c][p] \in [minute : Nat, day : Nat, tokens : Nat]
         /\ costs[c][p].tokens \in Nat
         /\ \A k \in Periods : costs[c][p][k] \in Nat
<1>1. costs[c][p] \in [minute : Nat, day : Nat, tokens : Nat]
  BY DEF Costs
<1>2. costs[c][p]["minute"] \in Nat /\ costs[c][p]["day"] \in Nat /\ costs[c][p].tokens \in Nat
  BY <1>1
<1> QED BY <1>1, <1>2 DEF Periods

(* The types of a usage row.                                                 *)
LEMMA RowFields ==
  ASSUME NEW u \in Rows, NEW p \in Providers, NEW k \in Periods
  PROVE  /\ u[p] \in [Periods -> [reset : Nat, requests : Nat, tokens : Nat]]
         /\ u[p][k] \in [reset : Nat, requests : Nat, tokens : Nat]
         /\ u[p][k].reset \in Nat /\ u[p][k].requests \in Nat /\ u[p][k].tokens \in Nat
<1>1. u[p][k] \in [reset : Nat, requests : Nat, tokens : Nat]
  BY DEF Rows
<1> QED BY <1>1 DEF Rows

(* A window ends after the time that opens it.                               *)
LEMMA WindowEndLater ==
  ASSUME NEW k \in Periods, NEW t \in Nat
  PROVE  WindowEnd(k, t) \in Nat /\ WindowEnd(k, t) > t
BY RouterAssumption DEF WindowEnd, Periods

(* No chat costs nothing.                                                    *)
LEMMA SpentEmpty == ASSUME NEW costs, NEW p PROVE Spent(costs, p, {}) = 0
  BY TotalEmpty DEF Spent

(* What read() finds is still running, and accounts for its window. *)
LEMMA ReadAccounts ==
  ASSUME NEW u, NEW costs, Accounts(u, costs), now \in Nat,
         NEW p \in Providers, NEW k \in Periods, NEW row, row = Read(u, p, k, now)
  PROVE  /\ row \in [reset : Nat, requests : Nat, tokens : Nat]
         /\ row.reset > now /\ row.reset >= u[p][k].reset
         /\ RowAccounts(row, costs, p, k)
<1>1. u \in Rows /\ costs \in Costs /\ \A c \in Chats : costs[c][p][k] <= u[p][k].reset
  BY DEF Accounts
<1>2. u[p][k] \in [reset : Nat, requests : Nat, tokens : Nat] /\ u[p][k].reset \in Nat
  BY <1>1, RowFields
<1>3. CASE u[p][k].reset > now
  <2>1. row = u[p][k]
    BY <1>3 DEF Read
  <2>2. u[p][k].reset # 0
    BY <1>2, <1>3
  <2>3. RowAccounts(u[p][k], costs, p, k)
    BY <2>2 DEF Accounts
  <2> QED BY <1>2, <1>3, <2>1, <2>3
<1>4. CASE ~ (u[p][k].reset > now)
  <2>1. row = [reset |-> WindowEnd(k, now), requests |-> 0, tokens |-> 0]
    BY <1>4 DEF Read
  <2>2. WindowEnd(k, now) \in Nat /\ WindowEnd(k, now) > now
    BY WindowEndLater
  <2>3. row.reset = WindowEnd(k, now) /\ row.requests = 0 /\ row.tokens = 0
    BY <2>1
  <2>4. \A c \in Chats : costs[c][p][k] # row.reset
    BY <1>1, <1>2, <1>4, <2>2, <2>3, CostFields
  <2>5. Within(costs, p, k, row.reset) = {}
    BY <2>4 DEF Within
  <2>6. RowAccounts(row, costs, p, k)
    BY <2>3, <2>5, SpentEmpty, FS_EmptySet DEF RowAccounts
  <2> QED BY <1>2, <1>4, <2>1, <2>2, <2>3, <2>6
<1> QED BY <1>3, <1>4

(* Only one entry of the ledger is new. *)
OneEntry(costs, after, c, p) ==
  /\ after \in Costs
  /\ \A b \in Chats, q \in Providers : b # c \/ q # p => after[b][q] = costs[b][q]

(* A chat enters a window that it was not in, at its price. *)
LEMMA Entered ==
  ASSUME NEW costs \in Costs, NEW after, NEW c \in Chats, NEW p \in Providers,
         OneEntry(costs, after, c, p), NEW k \in Periods,
         NEW old, RowAccounts(old, costs, p, k), costs[c][p][k] # old.reset,
         NEW row, row.reset = old.reset, after[c][p][k] = old.reset,
         row.requests = old.requests + 1, row.tokens = old.tokens + after[c][p].tokens
  PROVE  RowAccounts(row, after, p, k)
<1> DEFINE S == Within(costs, p, k, old.reset)
           f == [b \in S |-> costs[b][p].tokens]
           h == [b \in S \union {c} |-> after[b][p].tokens]
<1>1. S \in SUBSET Chats /\ c \notin S /\ IsFiniteSet(S)
  BY ChatsFinite DEF Within
<1>2. Within(after, p, k, row.reset) = S \union {c}
  BY DEF OneEntry, Within
<1>3. Cardinality(S \union {c}) = Cardinality(S) + 1
  BY <1>1, FS_AddElement
<1>4. \A b \in S : f[b] \in Nat /\ h[b] = f[b]
  BY <1>1, CostFields DEF OneEntry
<1>5. h[c] = after[c][p].tokens /\ h[c] \in Nat
  BY CostFields DEF OneEntry
<1>6. Spent(costs, p, S) = Total(f, S) /\ Spent(after, p, S \union {c}) = Total(h, S \union {c})
  BY DEF Spent
<1> HIDE DEF f, h
<1>7. Total(h, S \union {c}) = h[c] + Total(f, S) /\ Total(f, S) \in Nat
  BY <1>1, <1>4, <1>5, TotalJoin
<1>8. old.tokens = Total(f, S) /\ old.requests = Cardinality(S)
  BY <1>6 DEF RowAccounts
<1>9. row.tokens = Spent(after, p, S \union {c})
  BY <1>5, <1>6, <1>7, <1>8
<1> QED BY <1>2, <1>3, <1>8, <1>9 DEF RowAccounts

(* A chat of the window is charged another price. *)
LEMMA Repriced ==
  ASSUME NEW costs \in Costs, NEW after, NEW c \in Chats, NEW p \in Providers,
         OneEntry(costs, after, c, p), NEW k \in Periods, after[c][p][k] = costs[c][p][k],
         NEW old, RowAccounts(old, costs, p, k), costs[c][p][k] = old.reset
  PROVE  \E rest \in Nat :
           /\ old.tokens = costs[c][p].tokens + rest
           /\ \A row : row.reset = old.reset /\ row.requests = old.requests
                       /\ row.tokens = after[c][p].tokens + rest
                         => RowAccounts(row, after, p, k)
<1> DEFINE S == Within(costs, p, k, old.reset)
           f == [b \in S |-> costs[b][p].tokens]
           h == [b \in S |-> after[b][p].tokens]
<1>1. S \in SUBSET Chats /\ c \in S /\ IsFiniteSet(S)
  BY ChatsFinite DEF Within
<1>2. Within(after, p, k, old.reset) = S
  BY DEF OneEntry, Within
<1>3. \A b \in S \ {c} : h[b] = f[b]
  BY <1>1 DEF OneEntry
<1>4. \A b \in S : f[b] \in Nat /\ h[b] \in Nat
  BY <1>1, CostFields DEF OneEntry
<1>5. f[c] = costs[c][p].tokens /\ h[c] = after[c][p].tokens
  BY <1>1
<1>6. Spent(costs, p, S) = Total(f, S) /\ Spent(after, p, S) = Total(h, S)
  BY DEF Spent
<1> HIDE DEF f, h
<1>7. PICK rest \in Nat : Total(f, S) = f[c] + rest /\ Total(h, S) = h[c] + rest
  BY <1>1, <1>3, <1>4, TotalUpdate
<1>8. old.tokens = costs[c][p].tokens + rest /\ old.requests = Cardinality(S)
  BY <1>5, <1>6, <1>7 DEF RowAccounts
<1>9. ASSUME NEW row, row.reset = old.reset, row.requests = old.requests,
             row.tokens = after[c][p].tokens + rest
      PROVE  RowAccounts(row, after, p, k)
  BY <1>2, <1>5, <1>6, <1>7, <1>8, <1>9 DEF RowAccounts
<1> QED BY <1>8, <1>9

(* A row that the chat is not in. *)
LEMMA Elsewhere ==
  ASSUME NEW costs \in Costs, NEW after, NEW c \in Chats, NEW p \in Providers,
         OneEntry(costs, after, c, p), NEW q \in Providers, NEW k \in Periods,
         NEW row, RowAccounts(row, costs, q, k),
         q # p \/ (costs[c][p][k] # row.reset /\ after[c][p][k] # row.reset)
  PROVE  RowAccounts(row, after, q, k)
<1> DEFINE S == Within(costs, q, k, row.reset)
<1>1. S = Within(after, q, k, row.reset)
  BY DEF OneEntry, Within
<1>2. \A b \in S : after[b][q] = costs[b][q]
  BY DEF OneEntry, Within
<1>3. Spent(after, q, S) = Spent(costs, q, S)
  BY <1>2 DEF Spent
<1> QED BY <1>1, <1>3 DEF RowAccounts

(* A window that the chat is not in. *)
LEMMA Outside ==
  ASSUME NEW costs \in Costs, NEW after, NEW c \in Chats, NEW p \in Providers,
         OneEntry(costs, after, c, p), NEW k \in Periods,
         NEW row, RowAccounts(row, costs, p, k),
         costs[c][p][k] # row.reset, after[c][p][k] # row.reset
  PROVE  RowAccounts(row, after, p, k)
BY Elsewhere

-----------------------------------------------------------------------------
(* reserve() and settle(). *)
(* What reserve() leaves of the ledger. *)
Entry(u, p, n) ==
  [minute |-> Read(u, p, "minute", now).reset,
   day |-> Read(u, p, "day", now).reset, tokens |-> n]

(* The row after a reservation.                                              *)
LEMMA RowCharged ==
  ASSUME NEW r \in [reset : Nat, requests : Nat, tokens : Nat], NEW n \in Nat,
         NEW d, d = [r EXCEPT !.requests = @ + 1, !.tokens = @ + n]
  PROVE  /\ d \in [reset : Nat, requests : Nat, tokens : Nat]
         /\ d.reset = r.reset /\ d.requests = r.requests + 1 /\ d.tokens = r.tokens + n
<1>1. d = [reset |-> r.reset, requests |-> r.requests + 1, tokens |-> r.tokens + n]
  OBVIOUS
<1> QED BY ONLY <1>1, r \in [reset : Nat, requests : Nat, tokens : Nat], n \in Nat

(* reserve() keeps the accounts.                                             *)
LEMMA ChargedAccounts ==
  ASSUME NEW u, NEW costs, Accounts(u, costs), now \in Nat,
         NEW c \in Chats, NEW p \in Providers, NEW n \in Nat, costs[c][p] = Free,
         NEW new, new = Charged(u, p, n),
         NEW after, after = [costs EXCEPT ![c][p] = Entry(u, p, n)]
  PROVE  Accounts(new, after) /\ OneEntry(costs, after, c, p)
<1>0. u \in Rows /\ costs \in Costs
  BY DEF Accounts
<1> DEFINE row(k) == Read(u, p, k, now)
           e == Entry(u, p, n)
           charged(k) == [row(k) EXCEPT !.requests = @ + 1, !.tokens = @ + n]
<1>1. \A k \in Periods :
        /\ row(k) \in [reset : Nat, requests : Nat, tokens : Nat]
        /\ row(k).reset > now /\ row(k).reset >= u[p][k].reset
        /\ RowAccounts(row(k), costs, p, k)
  BY ReadAccounts
<1>2. /\ e \in [minute : Nat, day : Nat, tokens : Nat] /\ e.tokens = n
      /\ \A k \in Periods : e[k] = row(k).reset
  <2>1. "minute" \in Periods /\ "day" \in Periods
    BY DEF Periods
  <2>2. row("minute").reset \in Nat /\ row("day").reset \in Nat
    BY <1>1, <2>1
  <2>3. e["minute"] = row("minute").reset /\ e["day"] = row("day").reset /\ e.tokens = n
    BY DEF Entry
  <2>4. e \in [minute : Nat, day : Nat, tokens : Nat]
    BY <2>2 DEF Entry
  <2> HIDE DEF e, row
  <2> QED BY <2>3, <2>4 DEF Periods
<1>3. \A k \in Periods :
        /\ charged(k) \in [reset : Nat, requests : Nat, tokens : Nat]
        /\ charged(k).reset = row(k).reset
        /\ charged(k).requests = row(k).requests + 1
        /\ charged(k).tokens = row(k).tokens + n
  <2> SUFFICES ASSUME NEW k \in Periods
               PROVE  /\ charged(k) \in [reset : Nat, requests : Nat, tokens : Nat]
                      /\ charged(k).reset = row(k).reset
                      /\ charged(k).requests = row(k).requests + 1
                      /\ charged(k).tokens = row(k).tokens + n
    OBVIOUS
  <2>1. row(k) \in [reset : Nat, requests : Nat, tokens : Nat]
    BY <1>1
  <2> HIDE DEF row
  <2>2. charged(k) = [row(k) EXCEPT !.requests = @ + 1, !.tokens = @ + n]
    OBVIOUS
  <2> HIDE DEF charged
  <2> QED BY <2>1, <2>2, RowCharged
<1>4. new = [u EXCEPT ![p] = [k \in Periods |-> charged(k)]]
  BY DEF Charged
<1>5. after = [costs EXCEPT ![c][p] = e]
  OBVIOUS
<1> HIDE DEF row, e, charged
<1>6. /\ new \in Rows /\ \A k \in Periods : new[p][k] = charged(k)
      /\ \A q \in Providers \ {p} : new[q] = u[q]
  BY <1>0, <1>3, <1>4 DEF Rows
<1>7. after[c][p] = e /\ OneEntry(costs, after, c, p)
  BY <1>0, <1>2, <1>5 DEF Costs, OneEntry
<1>8. after \in Costs
  BY <1>7 DEF OneEntry
<1>9. ASSUME NEW q \in Providers, NEW k \in Periods
      PROVE  /\ \A b \in Chats : after[b][q][k] <= new[q][k].reset
             /\ new[q][k].reset # 0 => RowAccounts(new[q][k], after, q, k)
  <2>0. /\ \A b \in Chats : costs[b][q][k] <= u[q][k].reset /\ costs[b][q][k] \in Nat
        /\ u[q][k].reset # 0 => RowAccounts(u[q][k], costs, q, k)
        /\ u[q][k].reset \in Nat
    BY <1>0, CostFields, RowFields DEF Accounts
  <2>1. CASE q # p
    <3>1. new[q][k] = u[q][k] /\ \A b \in Chats : after[b][q] = costs[b][q]
      BY <1>6, <1>7, <2>1 DEF OneEntry
    <3>2. RowAccounts(u[q][k], costs, q, k) => RowAccounts(u[q][k], after, q, k)
      BY <1>0, <1>7, <2>1, Elsewhere
    <3> QED BY <2>0, <3>1, <3>2
  <2>2. CASE q = p
    <3>1. /\ row(k).reset \in Nat /\ row(k).reset > now /\ row(k).reset >= u[p][k].reset
          /\ RowAccounts(row(k), costs, p, k)
      BY <1>1
    <3>2. /\ new[p][k].reset = row(k).reset
          /\ new[p][k].requests = row(k).requests + 1
          /\ new[p][k].tokens = row(k).tokens + after[c][p].tokens
      BY <1>2, <1>3, <1>6, <1>7
    <3>3. after[c][p][k] = row(k).reset
      BY <1>2, <1>7
    <3>4. costs[c][p][k] # row(k).reset
      <4>1. costs[c][p][k] = 0
        BY DEF Free, Periods
      <4> QED BY <3>1, <4>1
    <3>5. RowAccounts(new[p][k], after, p, k)
      BY <1>0, <1>7, <3>1, <3>2, <3>3, <3>4, Entered
    <3>6. ASSUME NEW b \in Chats PROVE after[b][p][k] <= new[p][k].reset
      <4>1. CASE b = c
        BY <3>1, <3>2, <3>3, <4>1
      <4>2. CASE b # c
        <5>1. after[b][p][k] = costs[b][p][k]
          BY <1>7, <4>2 DEF OneEntry
        <5> QED BY <2>0, <2>2, <3>1, <3>2, <5>1
      <4> QED BY <4>1, <4>2
    <3> QED BY <2>2, <3>5, <3>6
  <2> QED BY <2>1, <2>2
<1> QED BY <1>6, <1>7, <1>8, <1>9 DEF Accounts

(* Math.max(0, ...) changes no natural.                                      *)
LEMMA MaxZero ==
  ASSUME NEW x \in Int
  PROVE  /\ Max({0, x}) \in Nat
         /\ x >= 0 => Max({0, x}) = x
<1> DEFINE m == Max({0, x})
<1>1. \E y \in {0, x} : \A z \in {0, x} : y >= z
  <2>1. CASE x >= 0
    BY <2>1
  <2>2. CASE x < 0
    BY <2>2
  <2> QED BY <2>1, <2>2
<1>2. m \in {0, x} /\ \A z \in {0, x} : m >= z
  BY <1>1, Zenon DEF Max
<1> HIDE DEF m
<1>3. m = 0 \/ m = x
  BY <1>2
<1>4. m >= 0 /\ m >= x
  BY <1>2
<1>5. m \in Nat /\ (x >= 0 => m = x)
  BY <1>3, <1>4
<1> QED BY <1>5 DEF m

(* settle() keeps the accounts.                                              *)
LEMMA SettledAccounts ==
  ASSUME Accounts(usage, ledger), NEW c \in Chats, NEW p \in Providers, p = chats[c].at,
         NEW n \in Nat, NEW new, new = Settled(c, n),
         NEW after, after = [ledger EXCEPT ![c][p].tokens = n]
  PROVE  Accounts(new, after) /\ OneEntry(ledger, after, c, p)
<1>0. usage \in Rows /\ ledger \in Costs
  BY DEF Accounts
<1> DEFINE l == ledger[c][p]
           e == [l EXCEPT !.tokens = n]
           row(k) == usage[p][k]
           due(k) == row(k).tokens + n - l.tokens
           settled(k) == [row(k) EXCEPT !.tokens = Max({0, row(k).tokens + n - l.tokens})]
           kept(k) == IF row(k).reset = l[k] THEN settled(k) ELSE row(k)
<1>1. /\ l \in [minute : Nat, day : Nat, tokens : Nat] /\ l.tokens \in Nat
      /\ \A k \in Periods : l[k] \in Nat
  BY <1>0, CostFields
<1>2. \A k \in Periods : /\ row(k) \in [reset : Nat, requests : Nat, tokens : Nat]
                         /\ row(k).reset \in Nat /\ row(k).tokens \in Nat
  BY <1>0, RowFields
<1>3. new = [usage EXCEPT ![p] = [k \in Periods |-> kept(k)]]
  BY DEF Settled
<1>4. after = [ledger EXCEPT ![c][p] = e]
  BY <1>0 DEF Costs
<1>5. /\ e \in [minute : Nat, day : Nat, tokens : Nat] /\ e.tokens = n
      /\ \A k \in Periods : e[k] = l[k]
  <2> HIDE DEF l
  <2>1. /\ e \in [minute : Nat, day : Nat, tokens : Nat] /\ e.tokens = n
        /\ e["minute"] = l["minute"] /\ e["day"] = l["day"]
    BY <1>1
  <2> QED BY <2>1 DEF Periods
<1> HIDE DEF e, l, row
<1>6. \A k \in Periods : Max({0, due(k)}) \in Nat /\ (due(k) >= 0 => Max({0, due(k)}) = due(k))
  <2>1. \A k \in Periods : due(k) \in Int
    BY <1>1, <1>2
  <2> QED BY <2>1, MaxZero
<1>7. \A k \in Periods :
        /\ settled(k) \in [reset : Nat, requests : Nat, tokens : Nat]
        /\ settled(k).reset = row(k).reset /\ settled(k).requests = row(k).requests
        /\ settled(k).tokens = Max({0, due(k)})
  BY <1>2, <1>6
<1> HIDE DEF settled
<1>8. \A k \in Periods :
        /\ kept(k) \in [reset : Nat, requests : Nat, tokens : Nat]
        /\ kept(k).reset = row(k).reset
        /\ row(k).reset = l[k] => kept(k) = settled(k)
        /\ row(k).reset # l[k] => kept(k) = row(k)
  BY <1>2, <1>7
<1> HIDE DEF kept
<1>9. /\ new \in Rows /\ \A k \in Periods : new[p][k] = kept(k)
      /\ \A q \in Providers \ {p} : new[q] = usage[q]
  BY <1>0, <1>3, <1>8 DEF Rows
<1>10. after[c][p] = e /\ OneEntry(ledger, after, c, p)
  BY <1>0, <1>4, <1>5 DEF Costs, OneEntry
<1>11. ASSUME NEW q \in Providers, NEW k \in Periods
       PROVE  /\ \A b \in Chats : after[b][q][k] <= new[q][k].reset
              /\ new[q][k].reset # 0 => RowAccounts(new[q][k], after, q, k)
  <2>0. /\ \A b \in Chats : ledger[b][q][k] <= usage[q][k].reset
        /\ usage[q][k].reset # 0 => RowAccounts(usage[q][k], ledger, q, k)
    BY DEF Accounts
  <2>1. \A b \in Chats : after[b][q][k] = ledger[b][q][k]
    BY <1>5, <1>10 DEF OneEntry, l
  <2>2. new[q][k].reset = usage[q][k].reset
    BY <1>8, <1>9 DEF row
  <2>3. CASE q # p
    <3>1. new[q][k] = usage[q][k]
      BY <1>9, <2>3
    <3>2. RowAccounts(usage[q][k], ledger, q, k) => RowAccounts(usage[q][k], after, q, k)
      BY <1>0, <1>10, <2>3, Elsewhere
    <3> QED BY <2>0, <2>1, <2>2, <3>1, <3>2
  <2>4. CASE q = p /\ row(k).reset # l[k]
    <3>1. new[q][k] = usage[q][k]
      BY <1>8, <1>9, <2>4 DEF row
    <3>2. RowAccounts(usage[q][k], ledger, q, k) => RowAccounts(usage[q][k], after, q, k)
      <4>1. ledger[c][p][k] # usage[p][k].reset /\ after[c][p][k] # usage[p][k].reset
        BY <2>1, <2>4 DEF row, l
      <4>2. ASSUME NEW r, r = usage[p][k], RowAccounts(r, ledger, p, k)
            PROVE  RowAccounts(r, after, p, k)
        <5>1. ledger[c][p][k] # r.reset /\ after[c][p][k] # r.reset
          BY <4>1, <4>2
        <5> QED BY ONLY c \in Chats, p \in Providers, k \in Periods, <1>0, <1>10, <4>2, <5>1, Outside
      <4> QED BY <2>4, <4>2
    <3> QED BY <2>0, <2>1, <2>2, <3>1, <3>2
  <2>5. CASE q = p /\ row(k).reset = l[k]
    <3>1. ASSUME row(k).reset # 0 PROVE RowAccounts(new[p][k], after, p, k)
      <4>1. RowAccounts(row(k), ledger, p, k) /\ ledger[c][p][k] = row(k).reset
        BY <2>0, <2>5, <3>1 DEF row, l
      <4> HIDE DEF row
      <4>2. after[c][p][k] = ledger[c][p][k]
        BY <2>1, <2>5
      <4>3. PICK rest \in Nat :
              /\ row(k).tokens = ledger[c][p].tokens + rest
              /\ \A r : r.reset = row(k).reset /\ r.requests = row(k).requests
                        /\ r.tokens = after[c][p].tokens + rest
                          => RowAccounts(r, after, p, k)
        BY ONLY c \in Chats, p \in Providers, k \in Periods, <1>0, <1>10, <4>1, <4>2, Repriced
      <4>4. after[c][p].tokens = n
        BY <1>5, <1>10
      <4>5. due(k) = n + rest
        BY <1>1, <4>3 DEF l
      <4>6. Max({0, due(k)}) = n + rest
        BY <1>6, <4>5
      <4>7. /\ new[p][k].reset = row(k).reset /\ new[p][k].requests = row(k).requests
            /\ new[p][k].tokens = n + rest
        BY <1>7, <1>8, <1>9, <2>5, <4>6
      <4> QED BY <4>3, <4>4, <4>7
    <3> QED BY <2>0, <2>1, <2>2, <2>5, <3>1 DEF row
  <2> QED BY <2>3, <2>4, <2>5
<1>12. after \in Costs
  BY <1>10 DEF OneEntry
<1> QED BY <1>9, <1>10, <1>11, <1>12 DEF Accounts

-----------------------------------------------------------------------------
(* The steps of a handler. *)
(* The ledger that a handler goes on with: only its own entries differ, and  *)
(* those of providers not tried yet are free.                                *)
Going(c, costs) ==
  /\ \A b \in Chats \ {c} : costs[b] = ledger[b]
  /\ chats[c].state # "over" =>
       \A p \in Providers : p > chats[c].at => costs[c][p] = Free

(* A set of naturals has its minimum.                                        *)
LEMMA MinIsIn ==
  ASSUME NEW T \in SUBSET Nat, T # {} PROVE Min(T) \in T
<1>1. \E x \in T : \A y \in T : x =< y
  BY Least
<1> QED BY <1>1, Zenon DEF Min

(* A chat that is over, or has not moved. *)
LEMMA PlacesOver ==
  ASSUME IInv, Places, NEW c \in Chats, NEW r, chats' = [chats EXCEPT ![c] = Gone(c, r)],
         \A b \in Chats \ {c} : ledger'[b] = ledger[b]
  PROVE  Places'
<1>1. DOMAIN chats = Chats /\ DOMAIN chats[c] = Fields
  BY DEF IInv, Shape
<1>2. chats'[c] = Gone(c, r) /\ \A b \in Chats \ {c} : chats'[b] = chats[b]
  BY <1>1
<1>3. chats'[c].state = "over" /\ chats'[c].size = chats[c].size /\ chats'[c].at = 0
  BY <1>1, <1>2 DEF Gone, Fields
<1> QED BY <1>2, <1>3 DEF Places, Waiting

(* An attempt reserves with a provider that the chat has not tried.          *)
LEMMA AttemptAccounts ==
  ASSUME IInv, Places, now \in Nat, NEW c \in Chats, NEW u, NEW costs, NEW cool,
         Accounts(u, costs), Going(c, costs), chats[c].state # "over",
         Attempt(c, u, costs, cool)
  PROVE  Accounts(usage', ledger') /\ Places'
<1>1. DOMAIN chats = Chats /\ DOMAIN chats[c] = Fields
  BY DEF IInv, Shape
<1>2. chats[c].size \in Nat /\ chats[c].at \in Nat
  BY DEF Places
<1> DEFINE n == chats[c].size
           p == Min(Untried(c, u, cool))
<1>3. p \in Providers /\ p > chats[c].at
  <2>1. Untried(c, u, cool) \in SUBSET Nat /\ Untried(c, u, cool) # {}
    BY RouterAssumption DEF Untried, Open, Providers, Attempt
  <2>2. p \in Untried(c, u, cool)
    BY <2>1, MinIsIn
  <2> HIDE DEF p
  <2> QED BY <2>2 DEF Untried, Open
<1>4. /\ usage' = Charged(u, p, n)
      /\ ledger' = [costs EXCEPT ![c][p] = Entry(u, p, n)]
      /\ chats' = [chats EXCEPT ![c].state = "fetching", ![c].at = p]
  BY DEF Attempt, Entry
<1> HIDE DEF p
<1>5. costs[c][p] = Free
  BY <1>3 DEF Going
<1>6. Accounts(usage', ledger') /\ OneEntry(costs, ledger', c, p)
  BY <1>2, <1>3, <1>4, <1>5, ChargedAccounts
<1>7. /\ chats'[c].size = n /\ chats'[c].at = p
      /\ \A b \in Chats \ {c} : chats'[b] = chats[b]
  BY <1>1, <1>4 DEF Fields
<1>8. ASSUME NEW b \in Chats, b # c
      PROVE  \A q \in Providers : ledger'[b][q] = ledger[b][q]
  BY <1>6, <1>8 DEF OneEntry, Going
<1>9. ASSUME NEW q \in Providers, q > p PROVE ledger'[c][q] = Free
  <2>1. q # p /\ q > chats[c].at
    BY <1>2, <1>3, <1>9 DEF Providers
  <2>2. ledger'[c][q] = costs[c][q]
    BY <1>6, <2>1 DEF OneEntry
  <2> QED BY <2>1, <2>2 DEF Going
<1>10. p \in Nat
  BY <1>3, RouterAssumption DEF Providers
<1> QED BY <1>2, <1>3, <1>6, <1>7, <1>8, <1>9, <1>10 DEF Places

(* The catch block keeps the accounts.                                       *)
LEMMA FailedAccounts ==
  ASSUME AInv, IInv, NEW c \in Chats, NEW u, NEW costs, NEW cool, NEW retryable,
         Accounts(u, costs), Going(c, costs), chats[c].state \in Waiting,
         Failed(c, u, costs, cool, retryable)
  PROVE  Accounts(usage', ledger') /\ Places'
<1>1. ASSUME NEW r, Over(c, r), usage' = u, ledger' = costs
      PROVE  Accounts(usage', ledger') /\ Places'
  <2>1. Places'
    BY <1>1, PlacesOver DEF AInv, Going, Over
  <2> QED BY <1>1, <2>1
<1>2. CASE Attempt(c, u, costs, cool)
  BY <1>2, AttemptAccounts DEF AInv, Waiting
<1> QED BY <1>1, <1>2 DEF Failed

(* The ledger itself is one to go on with.                                   *)
LEMMA GoingNow ==
  ASSUME AInv, NEW c \in Chats PROVE Going(c, ledger)
BY DEF AInv, Places, Going

(* ... and so is the ledger after a settlement.                              *)
LEMMA SettledGoing ==
  ASSUME AInv, NEW c \in Chats, chats[c].state \in Waiting, NEW n \in Usages,
         NEW after, after = [ledger EXCEPT ![c][chats[c].at].tokens = n]
  PROVE  Accounts(Settled(c, n), after) /\ Going(c, after)
<1>1. chats[c].at \in Providers /\ n \in Nat /\ Accounts(usage, ledger)
  BY RouterAssumption DEF AInv, Places
<1>2. PICK p \in Providers : p = chats[c].at
  BY <1>1
<1>3. Accounts(Settled(c, n), after) /\ OneEntry(ledger, after, c, p)
  BY <1>1, <1>2, SettledAccounts
<1>4. ledger \in Costs
  BY <1>1 DEF Accounts
<1>5. \A b \in Chats \ {c} : after[b] = ledger[b]
  BY <1>4 DEF Costs
<1>6. ASSUME chats[c].state # "over", NEW q \in Providers, q > chats[c].at
      PROVE  after[c][q] = Free
  <2>1. q # p
    BY <1>2, <1>6 DEF Providers
  <2> QED BY <1>3, <1>6, <2>1 DEF OneEntry, AInv, Places
<1> QED BY <1>3, <1>5, <1>6 DEF Going

(* Empty rows account for no chats.                                          *)
LEMMA AccountsInit == Init => Accounts(usage, ledger) /\ Places /\ now \in Nat
<1> SUFFICES ASSUME Init PROVE Accounts(usage, ledger) /\ Places /\ now \in Nat
  OBVIOUS
<1>1. /\ \A c \in Chats : /\ chats[c].state = "idle" /\ chats[c].at = 0
                          /\ chats[c].size \in Nat
      /\ \A p \in Providers, k \in Periods : usage[p][k].reset = 0
      /\ \A c \in Chats, p \in Providers : ledger[c][p] = Free
  BY RouterAssumption DEF Init
<1>2. usage \in Rows
  BY DEF Init, Rows
<1>3. Free \in [minute : Nat, day : Nat, tokens : Nat]
  BY DEF Free
<1>4. ledger \in Costs
  BY <1>3 DEF Init, Costs
<1>5. \A k \in Periods : Free[k] = 0
  BY DEF Free, Periods
<1>6. Accounts(usage, ledger)
  BY <1>1, <1>2, <1>4, <1>5 DEF Accounts
<1> QED BY <1>1, <1>6 DEF Places, Waiting, Init

(* Steps that leave the windows and the ledger alone. *)
LEMMA PlacesKept ==
  ASSUME AInv, IInv, NEW c \in Chats, DOMAIN chats' = Chats, Others(c),
         chats'[c].size = chats[c].size, UNCHANGED <<usage, ledger>>,
         \/ chats'[c].state = "over" /\ chats'[c].at = 0
         \/ /\ chats[c].state \in Waiting /\ chats'[c].state \in Waiting
            /\ chats'[c].at = chats[c].at
  PROVE  Accounts(usage', ledger') /\ Places'
<1>1. Accounts(usage', ledger')
  BY DEF AInv
<1>2. Places'
  BY DEF AInv, Places, Others, Waiting
<1> QED BY <1>1, <1>2

(* Admission keeps the accounts.                                             *)
LEMMA StartAccounts ==
  ASSUME AInv, IInv, NEW c \in Chats, Turn(c) \/ Admit(c)
  PROVE  Accounts(usage', ledger') /\ Places'
<1>1. ASSUME NEW r, chats' = [chats EXCEPT ![c] = Gone(c, r)], UNCHANGED <<usage, ledger>>
      PROVE  Accounts(usage', ledger') /\ Places'
  <2>1. Places'
    BY <1>1, PlacesOver DEF AInv
  <2> QED BY <1>1, <2>1 DEF AInv
<1>2. CASE Admit(c) /\ Attempt(c, usage, ledger, until)
  <2>1. chats[c].state # "over"
    BY <1>2 DEF Admit
  <2> QED BY <1>2, <2>1, GoingNow, AttemptAccounts DEF AInv
<1> QED BY <1>1, <1>2 DEF Turn, Admit

(* A handler that goes on waiting keeps them.                                *)
LEMMA WaitingAccounts ==
  ASSUME AInv, IInv, NEW c \in Chats, Opened(c) \/ Delta(c) \/ Abort(c)
  PROVE  Accounts(usage', ledger') /\ Places'
<1>1. DOMAIN chats = Chats /\ DOMAIN chats[c] = Fields /\ chats[c].state \in Waiting
  BY DEF IInv, Shape, Opened, Delta, Abort, Waiting
<1>2. UNCHANGED <<usage, ledger>>
  BY DEF Opened, Delta, Abort
<1>3. /\ DOMAIN chats' = Chats /\ Others(c)
      /\ chats'[c].size = chats[c].size /\ chats'[c].at = chats[c].at
      /\ chats'[c].state \in Waiting
  <2>1. CASE Opened(c)
    BY <1>1, <2>1 DEF Opened, Others, Waiting, Fields
  <2>2. CASE Delta(c)
    BY <1>1, <2>2 DEF Delta, Others, Waiting, Fields
  <2>3. CASE Abort(c)
    BY <1>1, <2>3 DEF Abort, Others, Waiting, Fields
  <2> QED BY <2>1, <2>2, <2>3
<1> QED BY <1>1, <1>2, <1>3, PlacesKept

(* A completed stream, settled or not, keeps them.                           *)
LEMMA CompletedAccounts ==
  ASSUME AInv, IInv, NEW c \in Chats, Completed(c)
  PROVE  Accounts(usage', ledger') /\ Places'
<1>1. PICK r : Over(c, r)
  BY DEF Completed
<1>2. chats[c].state \in Waiting
  BY DEF Completed, Waiting
<1>3. Accounts(usage', ledger') /\ \A b \in Chats \ {c} : ledger'[b] = ledger[b]
  <2>1. CASE UNCHANGED <<usage, ledger>>
    BY <2>1 DEF AInv
  <2>2. ASSUME NEW n \in Usages, usage' = Settled(c, n),
               ledger' = [ledger EXCEPT ![c][chats[c].at].tokens = n]
        PROVE  Accounts(usage', ledger') /\ \A b \in Chats \ {c} : ledger'[b] = ledger[b]
    <3> DEFINE after == [ledger EXCEPT ![c][chats[c].at].tokens = n]
    <3>1. Accounts(Settled(c, n), after) /\ Going(c, after)
      BY <1>2, SettledGoing
    <3>2. ledger' = after
      BY <2>2
    <3> HIDE DEF after
    <3> QED BY <2>2, <3>1, <3>2 DEF Going
  <2> QED BY <2>1, <2>2 DEF Completed
<1> QED BY <1>1, <1>3, PlacesOver DEF Over, AInv

(* A failed attempt keeps them, settled (an empty stream) or not.            *)
LEMMA BrokenAccounts ==
  ASSUME AInv, IInv, NEW c \in Chats, Rejected(c) \/ Interrupted(c) \/ Empty(c)
  PROVE  Accounts(usage', ledger') /\ Places'
<1>1. chats[c].state \in Waiting
  BY DEF Rejected, Interrupted, Empty, Waiting
<1>2. Accounts(usage, ledger) /\ Going(c, ledger)
  BY GoingNow DEF AInv
<1>3. CASE Rejected(c) \/ Interrupted(c)
  <2>1. PICK cool, retryable : Failed(c, usage, ledger, cool, retryable)
    BY <1>3 DEF Rejected, Interrupted, Broken
  <2> QED BY <1>1, <1>2, <2>1, FailedAccounts
<1>4. CASE Empty(c)
  <2>0. PICK n \in Usages :
          \E cool, retryable :
            Failed(c, Settled(c, n), [ledger EXCEPT ![c][chats[c].at].tokens = n], cool, retryable)
    BY <1>4 DEF Empty, Broken
  <2>1. PICK cool, retryable :
          Failed(c, Settled(c, n), [ledger EXCEPT ![c][chats[c].at].tokens = n], cool, retryable)
    BY <2>0
  <2> DEFINE after == [ledger EXCEPT ![c][chats[c].at].tokens = n]
             u == Settled(c, n)
  <2>2. Accounts(u, after) /\ Going(c, after)
    BY <1>1, SettledGoing
  <2>3. Failed(c, u, after, cool, retryable)
    BY <2>1
  <2> HIDE DEF after, u
  <2> QED BY <1>1, <2>2, <2>3, FailedAccounts
<1> QED BY <1>3, <1>4

(* Every step keeps the accounts.                                            *)
LEMMA AInvStep == IInv /\ AInv /\ [Next]_vars => AInv'
<1> SUFFICES ASSUME IInv, AInv, [Next]_vars PROVE AInv'
  OBVIOUS
<1>1. Shape'
  BY IInvStep DEF IInv
<1>2. now' \in Nat
  <2>1. CASE Tick \/ UNCHANGED vars
    BY <2>1 DEF AInv, Tick, vars
  <2>2. ASSUME NEW c \in Chats, Turn(c) \/ Admit(c) \/ Opened(c) \/ Delta(c) \/ Abort(c)
        PROVE  UNCHANGED now
    BY <2>2 DEF Turn, Admit, Opened, Delta, Abort
  <2>3. ASSUME NEW c \in Chats, Rejected(c) \/ Interrupted(c) \/ Completed(c) \/ Empty(c)
        PROVE  UNCHANGED now
    BY <2>3 DEF Rejected, Interrupted, Completed, Empty, Broken
  <2> QED BY <2>1, <2>2, <2>3 DEF AInv, Next
<1>3. Accounts(usage', ledger') /\ Places'
  <2>1. CASE Tick \/ UNCHANGED vars
    BY <2>1 DEF AInv, Places, Tick, vars
  <2>2. ASSUME NEW c \in Chats, Turn(c) \/ Admit(c)
        PROVE  Accounts(usage', ledger') /\ Places'
    BY <2>2, StartAccounts
  <2>3. ASSUME NEW c \in Chats, Rejected(c) \/ Interrupted(c) \/ Empty(c)
        PROVE  Accounts(usage', ledger') /\ Places'
    BY <2>3, BrokenAccounts
  <2>4. ASSUME NEW c \in Chats, Opened(c) \/ Delta(c) \/ Abort(c)
        PROVE  Accounts(usage', ledger') /\ Places'
    BY <2>4, WaitingAccounts
  <2>5. ASSUME NEW c \in Chats, Completed(c)
        PROVE  Accounts(usage', ledger') /\ Places'
    BY <2>5, CompletedAccounts
  <2> QED BY <2>1, <2>2, <2>3, <2>4, <2>5 DEF Next
<1> QED BY <1>1, <1>2, <1>3 DEF AInv

(* The accounts always hold.                                                 *)
LEMMA LedgerInvariance == Spec => []AInv
<1>1. Init => AInv
  BY IInvInit, AccountsInit DEF IInv, AInv
<1>2. IInv /\ AInv /\ [Next]_vars => AInv'
  BY AInvStep
<1> QED BY <1>1, <1>2, RouterInvariance, PTL DEF Spec

(* A usage row says what the chats of its window cost: whatever is reserved, *)
(* refused, settled late or never, in one window or across several, its      *)
(* requests are counted and its tokens are the sum of the chats' costs.      *)
THEOREM Windows == Spec => []WindowsAccount
<1>1. AInv => WindowsAccount
  <2> SUFFICES ASSUME AInv, NEW p \in Providers, NEW k \in Periods, usage[p][k].reset # 0
               PROVE  /\ usage[p][k].requests = Cardinality(InWindow(p, k, usage[p][k].reset))
                      /\ usage[p][k].tokens = Cost(p, InWindow(p, k, usage[p][k].reset))
    BY Zenon DEF WindowsAccount
  <2>1. RowAccounts(usage[p][k], ledger, p, k)
    BY DEF AInv, Accounts
  <2> DEFINE C == InWindow(p, k, usage[p][k].reset)
  <2>2. C \in SUBSET Chats /\ C = Within(ledger, p, k, usage[p][k].reset)
    BY DEF InWindow, Within
  <2>3. Cost(p, C) = Spent(ledger, p, C)
    BY <2>2, CostIsTotal DEF Spent
  <2> QED BY <2>1, <2>2, <2>3 DEF RowAccounts
<1> QED BY <1>1, LedgerInvariance, PTL
-----------------------------------------------------------------------------
(* What a refusal tells the visitor.  A window that is too full for the      *)
(* request now is too full until it ends and takes it then, unless the       *)
(* request is too large for any: the time named is the first chance.         *)
(* A nonempty, bounded set of naturals has its maximum. *)
LEMMA MaxIsIn ==
  ASSUME NEW T \in SUBSET Nat, T # {}, NEW b \in Nat, \A y \in T : y <= b
  PROVE  Max(T) \in T /\ \A y \in T : y <= Max(T)
<1> DEFINE D == {b - y : y \in T}
<1>1. D \in SUBSET Nat /\ D # {}
  <2>1. \A y \in T : b - y \in Nat
    <3> SUFFICES ASSUME NEW y \in T PROVE b - y \in Nat
      OBVIOUS
    <3>1. y \in Nat /\ y <= b
      OBVIOUS
    <3> QED BY <3>1
  <2> QED BY <2>1
<1>2. PICK d \in D : \A e \in D : d <= e
  BY <1>1, Least
<1>3. PICK x \in T : d = b - x
  BY <1>2
<1>4. ASSUME NEW y \in T PROVE x >= y
  <2>1. d <= b - y
    BY <1>2
  <2> QED BY <1>3, <2>1
<1>5. \E z \in T : \A y \in T : z >= y
  BY <1>4
<1>6. Max(T) \in T /\ \A y \in T : Max(T) >= y
  BY <1>5, Zenon DEF Max
<1> QED BY <1>6

(* What read() finds in a row at a time. *)
LEMMA ReadFields ==
  ASSUME NEW u \in Rows, NEW p \in Providers, NEW k \in Periods, NEW t \in Nat
  PROVE  /\ u[p][k].reset > t => Read(u, p, k, t) = u[p][k]
         /\ ~ (u[p][k].reset > t) =>
              /\ Read(u, p, k, t).reset = WindowEnd(k, t)
              /\ Read(u, p, k, t).requests = 0 /\ Read(u, p, k, t).tokens = 0
         /\ Read(u, p, k, t).reset \in Nat /\ Read(u, p, k, t).reset > t
<1>1. u[p][k].reset \in Nat
  BY RowFields
<1>2. CASE u[p][k].reset > t
  <2>1. Read(u, p, k, t) = u[p][k]
    BY <1>2 DEF Read
  <2> QED BY <1>1, <1>2, <2>1
<1>3. CASE ~ (u[p][k].reset > t)
  <2>1. Read(u, p, k, t) = [reset |-> WindowEnd(k, t), requests |-> 0, tokens |-> 0]
    BY <1>3 DEF Read
  <2> QED BY <1>3, <2>1, WindowEndLater
<1> QED BY <1>2, <1>3

(* An empty window takes every request that is not too large for any. *)
LEMMA RoomInEmpty ==
  ASSUME NEW u \in Rows, NEW p \in Providers, NEW k \in Periods, NEW t \in Nat, NEW n \in Nat,
         ~ Large(n), ~ (u[p][k].reset > t)
  PROVE  Room(u, p, k, n, t)
<1>1. Read(u, p, k, t).requests = 0 /\ Read(u, p, k, t).tokens = 0
  BY ReadFields
<1>2. 1 <= Requests(k) /\ n <= Allowance(k)
  BY RouterAssumption DEF Large, Requests, Allowance
<1>3. Room(u, p, k, n, t) <=> (0 + 1 <= Requests(k) /\ 0 + n <= Allowance(k))
  BY <1>1 DEF Room
<1> QED BY <1>2, <1>3

(* Room is not lost by waiting, and comes with the end of the window. *)
LEMMA RoomLater ==
  ASSUME NEW u \in Rows, now \in Nat, NEW p \in Providers, NEW k \in Periods, NEW n \in Nat,
         ~ Large(n), NEW t \in Nat, t > now,
         Room(u, p, k, n, now) \/ Read(u, p, k, now).reset <= t
  PROVE  Room(u, p, k, n, t)
<1>0. u[p][k].reset \in Nat
  BY RowFields
<1>1. CASE ~ (u[p][k].reset > t)
  BY <1>1, RoomInEmpty
<1>2. CASE u[p][k].reset > t
  <2>1. u[p][k].reset > now
    BY <1>0, <1>2
  <2>2. Read(u, p, k, now) = u[p][k] /\ Read(u, p, k, t) = u[p][k]
    BY <1>2, <2>1, ReadFields
  <2>3. Room(u, p, k, n, now)
    BY <1>0, <1>2, <2>2
  <2> QED BY <2>2, <2>3 DEF Room
<1> QED BY <1>1, <1>2

(* ... and with nothing else. *)
LEMMA NoRoomBefore ==
  ASSUME NEW u \in Rows, now \in Nat, NEW p \in Providers, NEW k \in Periods, NEW n \in Nat,
         ~ Large(n), NEW t \in Nat, t >= now, t < Read(u, p, k, now).reset,
         ~ Room(u, p, k, n, now)
  PROVE  ~ Room(u, p, k, n, t)
<1>0. u[p][k].reset \in Nat
  BY RowFields
<1>1. u[p][k].reset > now
  BY RoomInEmpty
<1>2. Read(u, p, k, now) = u[p][k]
  BY <1>1, ReadFields
<1>3. u[p][k].reset > t
  BY <1>2
<1>4. Read(u, p, k, t) = u[p][k]
  BY <1>3, ReadFields
<1> QED BY <1>2, <1>4 DEF Room

(* The times at which what blocks a provider is over. *)
Blocks(u, cool, n, p) ==
  {0} \union {t \in {cool[p]} : t > now}
      \union {Read(u, p, k, now).reset : k \in {j \in Periods : ~ Room(u, p, j, n, now)}}

LEMMA RetryAtFacts ==
  ASSUME NEW u \in Rows, NEW cool \in [Providers -> Nat], now \in Nat, NEW n,
         NEW p \in Providers, NEW r, r = RetryAt(u, cool, n, p)
  PROVE  /\ r \in Nat
         /\ \/ r = 0
            \/ r = cool[p] /\ cool[p] > now
            \/ \E k \in Periods : ~ Room(u, p, k, n, now) /\ r = Read(u, p, k, now).reset
         /\ cool[p] > now => cool[p] <= r
         /\ \A k \in Periods : ~ Room(u, p, k, n, now) => Read(u, p, k, now).reset <= r
<1> DEFINE T == Blocks(u, cool, n, p)
           m == Read(u, p, "minute", now).reset
           d == Read(u, p, "day", now).reset
<1>1. m \in Nat /\ d \in Nat /\ cool[p] \in Nat
  BY ReadFields DEF Periods
<1>2. \A k \in Periods : Read(u, p, k, now).reset = m \/ Read(u, p, k, now).reset = d
  BY DEF Periods
<1>3. r = Max(T)
  BY DEF RetryAt, Blocks
<1> HIDE DEF m, d
<1>4. \A y \in T : y \in {0, cool[p], m, d}
  BY <1>2 DEF Blocks
<1>5. 0 \in T
  BY DEF Blocks
<1>6. T \in SUBSET Nat /\ T # {} /\ m + d + cool[p] \in Nat /\ \A y \in T : y <= m + d + cool[p]
  <2>1. {0, cool[p], m, d} \subseteq Nat /\ \A y \in {0, cool[p], m, d} : y <= m + d + cool[p]
    BY <1>1
  <2>2. T # {} /\ m + d + cool[p] \in Nat
    BY <1>1, <1>5
  <2> HIDE DEF T
  <2> QED BY <1>4, <2>1, <2>2
<1>7. r \in T /\ \A y \in T : y <= r
  <2> HIDE DEF T
  <2> QED BY <1>3, <1>6, MaxIsIn
<1>8. r \in Nat
  BY <1>6, <1>7
<1>9. \/ r = 0
      \/ r = cool[p] /\ cool[p] > now
      \/ \E k \in Periods : ~ Room(u, p, k, n, now) /\ r = Read(u, p, k, now).reset
  BY <1>7 DEF Blocks
<1>10. cool[p] > now => cool[p] \in T
  BY DEF Blocks
<1>11. \A k \in Periods : ~ Room(u, p, k, n, now) => Read(u, p, k, now).reset \in T
  BY DEF Blocks
<1> QED BY <1>7, <1>8, <1>9, <1>10, <1>11

(* The Retry-After of a refusal: then there is a chance, and before it there *)
(* is none unless there is one now.                                          *)
LEMMA RefusedFacts ==
  ASSUME NEW u \in Rows, NEW cool \in [Providers -> Nat], now \in Nat, NEW n \in Nat,
         NEW r, r = Refused(u, cool, n), r # 0
  PROVE  /\ r \in Nat /\ Open(u, cool, n, r) # {}
         /\ Open(u, cool, n, now) = {} => \A t \in now..(r - 1) : Open(u, cool, n, t) = {}
<1> DEFINE at(p) == RetryAt(u, cool, n, p)
           waits == {at(p) : p \in Providers} \ {0}
<1>1. ~ Large(n) /\ waits # {} /\ r = Min(waits)
  BY DEF Refused
<1>2. \A p \in Providers : at(p) \in Nat
  BY RetryAtFacts
<1> HIDE DEF at
<1>3. waits \in SUBSET Nat
  BY <1>2
<1>4. r \in waits /\ \A w \in waits : r <= w
  <2>1. \E z \in waits : \A y \in waits : z =< y
    BY <1>1, <1>3, Least
  <2> QED BY <1>1, <2>1, Zenon DEF Min
<1>5. r \in Nat
  BY <1>3, <1>4
<1>6. PICK p \in Providers : r = at(p)
  BY <1>4
<1>7. /\ r > now /\ cool[p] <= r
      /\ \A k \in Periods : ~ Room(u, p, k, n, now) => Read(u, p, k, now).reset <= r
  <2>1. /\ \/ r = cool[p] /\ cool[p] > now
           \/ \E k \in Periods : ~ Room(u, p, k, n, now) /\ r = Read(u, p, k, now).reset
        /\ cool[p] > now => cool[p] <= r
        /\ \A k \in Periods : ~ Room(u, p, k, n, now) => Read(u, p, k, now).reset <= r
    BY <1>6, RetryAtFacts DEF at
  <2>2. \A k \in Periods : Read(u, p, k, now).reset > now /\ Read(u, p, k, now).reset \in Nat
    BY ReadFields
  <2>3. r > now
    BY <2>1, <2>2
  <2>4. cool[p] \in Nat
    OBVIOUS
  <2>5. cool[p] <= r
    BY <1>5, <2>1, <2>3, <2>4
  <2> QED BY <2>1, <2>3, <2>5
<1>8. \A k \in Periods : Room(u, p, k, n, r)
  BY <1>1, <1>5, <1>7, RoomLater
<1>9. p \in Open(u, cool, n, r)
  BY <1>7, <1>8 DEF Open
<1>10. ASSUME Open(u, cool, n, now) = {}, NEW t \in now..(r - 1), NEW q \in Open(u, cool, n, t)
       PROVE  FALSE
  <2>1. q \in Providers /\ cool[q] <= t /\ \A k \in Periods : Room(u, q, k, n, t)
    BY <1>10 DEF Open
  <2>2. t \in Nat /\ t >= now /\ t < r
    BY <1>5, <1>10
  <2>3. cool[q] > now \/ \E k \in Periods : ~ Room(u, q, k, n, now)
    <3>1. q \notin Open(u, cool, n, now)
      BY <1>10
    <3>2. cool[q] \in Nat
      BY <2>1
    <3> QED BY <2>1, <3>1, <3>2 DEF Open
  <2>4. /\ at(q) \in Nat
        /\ \/ at(q) = 0
           \/ at(q) = cool[q] /\ cool[q] > now
           \/ \E k \in Periods : ~ Room(u, q, k, n, now) /\ at(q) = Read(u, q, k, now).reset
        /\ cool[q] > now => cool[q] <= at(q)
        /\ \A k \in Periods : ~ Room(u, q, k, n, now) => Read(u, q, k, now).reset <= at(q)
    BY <2>1, RetryAtFacts DEF at
  <2>5. at(q) > now
    <3>1. \A k \in Periods : Read(u, q, k, now).reset > now /\ Read(u, q, k, now).reset \in Nat
      BY <2>1, ReadFields
    <3>2. cool[q] \in Nat
      BY <2>1
    <3>3. CASE cool[q] > now
      BY <2>4, <3>2, <3>3
    <3>4. ASSUME NEW k \in Periods, ~ Room(u, q, k, n, now) PROVE at(q) > now
      <4>1. Read(u, q, k, now).reset <= at(q)
        BY <2>4, <3>4
      <4> QED BY <2>4, <3>1, <4>1
    <3> QED BY <2>3, <3>3, <3>4
  <2>6. at(q) \in waits
    BY <2>1, <2>4, <2>5
  <2>7. t < at(q)
    BY <1>4, <1>5, <2>2, <2>4, <2>6
  <2>8. CASE at(q) = cool[q]
    BY <2>1, <2>2, <2>4, <2>7, <2>8
  <2>9. ASSUME NEW k \in Periods, ~ Room(u, q, k, n, now), at(q) = Read(u, q, k, now).reset
        PROVE  FALSE
    <3>1. ~ Room(u, q, k, n, t)
      BY <1>1, <2>1, <2>2, <2>7, <2>9, NoRoomBefore
    <3> QED BY <2>1, <3>1
  <2> QED BY <2>4, <2>5, <2>8, <2>9
<1> QED BY <1>5, <1>9, <1>10

(* Cooldowns are times, and an idle chat has tried nobody. *)
RestInv ==
  /\ until \in [Providers -> Nat]
  /\ \A c \in Chats : chats[c].state = "idle" => chats[c].at = 0

(* What a refusal tells a chat is what Refused() makes of the tables. *)
Told(c) ==
  /\ chats'[c].retry = Refused(usage', until', chats[c].size)
  /\ chats[c].state = "idle" => Open(usage', until', chats[c].size, now) = {}

OnlyTold(c) ==
  /\ Others(c) /\ chats'[c].state # "idle"
  /\ chats'[c].retry = chats[c].retry \/ chats'[c].retry = 0 \/ Told(c)

(* The finally block writes what it was given.                               *)
LEMMA GoneTells ==
  ASSUME IInv, NEW c \in Chats, NEW r, chats' = [chats EXCEPT ![c] = Gone(c, r)]
  PROVE  Others(c) /\ chats'[c].retry = r /\ chats'[c].state = "over"
<1>1. DOMAIN chats = Chats /\ DOMAIN chats[c] = Fields
  BY DEF IInv, Shape
<1>2. chats'[c] = Gone(c, r) /\ Others(c)
  BY <1>1 DEF Others
<1> QED BY <1>1, <1>2 DEF Gone, Fields

(* An attempt tells nothing.                                                 *)
LEMMA AttemptTells ==
  ASSUME IInv, NEW c \in Chats, NEW u, NEW costs, NEW cool, Attempt(c, u, costs, cool)
  PROVE  OnlyTold(c)
<1>1. DOMAIN chats = Chats /\ DOMAIN chats[c] = Fields
  BY DEF IInv, Shape
<1>2. PICK p : chats' = [chats EXCEPT ![c].state = "fetching", ![c].at = p]
  BY DEF Attempt
<1>3. Others(c) /\ chats'[c].retry = chats[c].retry /\ chats'[c].state = "fetching"
  BY <1>1, <1>2 DEF Others, Fields
<1> QED BY <1>3 DEF OnlyTold

(* The catch block tells Refused() or nothing.                               *)
LEMMA FailedTells ==
  ASSUME IInv, NEW c \in Chats, NEW u, NEW costs, NEW retryable,
         chats[c].state \in Waiting, Failed(c, u, costs, until', retryable)
  PROVE  OnlyTold(c)
<1>1. ASSUME NEW r, Over(c, r), usage' = u, r = 0 \/ r = Refused(u, until', chats[c].size)
      PROVE  OnlyTold(c)
  <2>1. Others(c) /\ chats'[c].retry = r /\ chats'[c].state = "over"
    BY <1>1, GoneTells DEF Over
  <2> QED BY <1>1, <2>1 DEF OnlyTold, Told, Waiting
<1>2. CASE Attempt(c, u, costs, until')
  BY <1>2, AttemptTells
<1> QED BY <1>1, <1>2 DEF Failed

(* A cooldown is a time.                                                     *)
LEMMA CooledTime ==
  ASSUME RestInv, now \in Nat, NEW p \in Providers, NEW s \in Cools \union {Pause}
  PROVE  Cooled(p, s) \in [Providers -> Nat]
<1>1. now + s \in Nat
  BY RouterAssumption
<1> QED BY <1>1 DEF Cooled, RestInv

(* Admission, granted or refused.                                            *)
LEMMA StartTells ==
  ASSUME IInv, RestInv, NEW c \in Chats, Turn(c) \/ Admit(c)
  PROVE  OnlyTold(c) /\ until' \in [Providers -> Nat]
<1>1. until' \in [Providers -> Nat]
  BY DEF RestInv, Turn, Admit
<1>2. CASE chats' = [chats EXCEPT ![c] = Gone(c, 0)]
  <2>1. Others(c) /\ chats'[c].retry = 0 /\ chats'[c].state = "over"
    BY <1>2, GoneTells
  <2> QED BY <1>1, <2>1 DEF OnlyTold
<1>3. CASE Attempt(c, usage, ledger, until)
  BY <1>1, <1>3, AttemptTells
<1>4. CASE /\ chats[c].state = "idle" /\ Untried(c, usage, until) = {}
           /\ chats' = [chats EXCEPT ![c] = Gone(c, Refused(usage, until, chats[c].size))]
           /\ UNCHANGED <<usage, until>>
  <2>1. /\ Others(c) /\ chats'[c].retry = Refused(usage, until, chats[c].size)
        /\ chats'[c].state = "over"
    BY <1>4, GoneTells
  <2>2. chats[c].at = 0
    BY <1>4 DEF RestInv
  <2>3. Open(usage, until, chats[c].size, now) = {}
    <3>1. \A p \in Providers : p > 0
      BY RouterAssumption DEF Providers
    <3> QED BY <1>4, <2>2, <3>1 DEF Untried, Open
  <2>4. /\ Refused(usage', until', chats[c].size) = Refused(usage, until, chats[c].size)
        /\ Open(usage', until', chats[c].size, now) = Open(usage, until, chats[c].size, now)
    BY <1>4
  <2> QED BY <1>1, <2>1, <2>3, <2>4 DEF OnlyTold, Told
<1> QED BY <1>1, <1>2, <1>3, <1>4 DEF Turn, Admit

(* A handler that goes on waiting.                                           *)
LEMMA WaitingTells ==
  ASSUME IInv, RestInv, NEW c \in Chats, Opened(c) \/ Delta(c) \/ Abort(c)
  PROVE  OnlyTold(c) /\ until' \in [Providers -> Nat]
<1>1. DOMAIN chats = Chats /\ DOMAIN chats[c] = Fields /\ chats[c].state \in Waiting
  BY DEF IInv, Shape, Opened, Delta, Abort, Waiting
<1>2. until' \in [Providers -> Nat]
  BY DEF RestInv, Opened, Delta, Abort
<1>3. Others(c) /\ chats'[c].retry = chats[c].retry /\ chats'[c].state \in Waiting
  <2>1. CASE Opened(c)
    BY <1>1, <2>1 DEF Opened, Others, Waiting, Fields
  <2>2. CASE Delta(c)
    BY <1>1, <2>2 DEF Delta, Others, Waiting, Fields
  <2>3. CASE Abort(c)
    BY <1>1, <2>3 DEF Abort, Others, Waiting, Fields
  <2> QED BY <2>1, <2>2, <2>3
<1> QED BY <1>2, <1>3 DEF OnlyTold, Waiting

(* What comes from the provider.                                             *)
LEMMA ProviderTells ==
  ASSUME IInv, AInv, RestInv, NEW c \in Chats,
         Rejected(c) \/ Interrupted(c) \/ Completed(c) \/ Empty(c)
  PROVE  OnlyTold(c) /\ until' \in [Providers -> Nat]
<1>1. chats[c].state \in Waiting /\ chats[c].at \in Providers /\ now \in Nat
  BY DEF Rejected, Interrupted, Completed, Empty, Waiting, AInv, Places
<1>2. CASE Rejected(c)
  <2>0. PICK s \in Cools : /\ until' = Cooled(chats[c].at, s)
                           /\ \E retryable : Failed(c, usage, ledger, until', retryable)
    BY <1>2 DEF Rejected
  <2>1. PICK retryable : Failed(c, usage, ledger, until', retryable)
    BY <2>0
  <2> QED BY <1>1, <2>0, <2>1, FailedTells, CooledTime
<1>3. ASSUME NEW u, NEW costs, NEW retryable, Broken(c, u, costs, retryable)
      PROVE  OnlyTold(c) /\ until' \in [Providers -> Nat]
  <2>1. until' = until \/ until' = Cooled(chats[c].at, Pause)
    BY <1>3 DEF Broken
  <2>2. until' \in [Providers -> Nat]
    BY <1>1, <2>1, CooledTime DEF RestInv
  <2> QED BY <1>1, <1>3, <2>2, FailedTells DEF Broken
<1>4. CASE Completed(c)
  <2>1. chats' = [chats EXCEPT ![c] = Gone(c, 0)] /\ until' = until
    BY <1>4 DEF Completed, Over
  <2>2. Others(c) /\ chats'[c].retry = 0 /\ chats'[c].state = "over"
    BY <2>1, GoneTells
  <2> QED BY <2>1, <2>2 DEF OnlyTold, RestInv
<1> QED BY <1>2, <1>3, <1>4 DEF Interrupted, Empty

(* What RetryIsAChance says of a step. *)
Chance ==
  \A c \in Chats :
    (chats[c].retry = 0 /\ chats'[c].retry # 0) =>
      /\ Open(usage', until', chats[c].size, chats'[c].retry) # {}
      /\ chats[c].state = "idle" =>
           \A t \in now..(chats'[c].retry - 1) : Open(usage', until', chats[c].size, t) = {}

(* So what a step tells is a chance.                                         *)
LEMMA ToldIsAChance ==
  ASSUME AInv, AInv', until' \in [Providers -> Nat], NEW b \in Chats, OnlyTold(b)
  PROVE  Chance
<1> SUFFICES ASSUME NEW c \in Chats, chats[c].retry = 0, chats'[c].retry # 0
             PROVE  /\ Open(usage', until', chats[c].size, chats'[c].retry) # {}
                    /\ chats[c].state = "idle" =>
                         \A t \in now..(chats'[c].retry - 1) :
                           Open(usage', until', chats[c].size, t) = {}
  BY DEF Chance
<1>1. c = b /\ Told(c)
  BY DEF OnlyTold, Others
<1>2. usage' \in Rows /\ now \in Nat /\ chats[c].size \in Nat
  BY DEF AInv, Accounts, Places
<1> DEFINE r == chats'[c].retry
<1>3. r = Refused(usage', until', chats[c].size) /\ r # 0
  BY <1>1 DEF Told
<1> HIDE DEF r
<1>4. /\ Open(usage', until', chats[c].size, r) # {}
      /\ Open(usage', until', chats[c].size, now) = {} =>
           \A t \in now..(r - 1) : Open(usage', until', chats[c].size, t) = {}
  BY <1>2, <1>3, RefusedFacts
<1> QED BY <1>1, <1>4 DEF Told, r

(* Every step tells one chat at most, and the truth.                         *)
LEMMA ChanceStep ==
  ASSUME IInv, AInv, AInv', RestInv, [Next]_vars
  PROVE  RestInv' /\ Chance
<1>1. CASE Tick \/ UNCHANGED vars
  BY <1>1 DEF Tick, vars, RestInv, Chance
<1>2. ASSUME NEW c \in Chats, OnlyTold(c), until' \in [Providers -> Nat]
      PROVE  RestInv' /\ Chance
  <2>1. Chance
    BY <1>2, ToldIsAChance
  <2>2. RestInv'
    BY <1>2 DEF RestInv, OnlyTold, Others
  <2> QED BY <2>1, <2>2
<1>3. ASSUME NEW c \in Chats,
             \/ Turn(c) \/ Admit(c) \/ Rejected(c) \/ Interrupted(c) \/ Opened(c)
             \/ Delta(c) \/ Completed(c) \/ Empty(c) \/ Abort(c)
      PROVE  RestInv' /\ Chance
  <2>1. OnlyTold(c) /\ until' \in [Providers -> Nat]
    BY <1>3, StartTells, WaitingTells, ProviderTells
  <2> QED BY <1>2, <2>1
<1> QED BY <1>1, <1>3 DEF Next

(* A visitor who is refused is told a time at which some provider will take  *)
(* the request, and after a refusal on admission none will before it.        *)
THEOREM RetryAfterIsAChance == Spec => RetryIsAChance
<1>1. Init => RestInv
  <2> SUFFICES ASSUME Init PROVE RestInv
    OBVIOUS
  <2>1. until \in [Providers -> Nat]
    BY DEF Init
  <2>2. \A c \in Chats : chats[c].at = 0
    BY DEF Init
  <2> QED BY <2>1, <2>2 DEF RestInv
<1>2. IInv /\ AInv /\ AInv' /\ RestInv /\ [Next]_vars => RestInv' /\ Chance
  BY ChanceStep
<1>3. RetryIsAChance <=> [][Chance]_vars
  BY DEF RetryIsAChance, Chance
<1> QED BY <1>1, <1>2, <1>3, RouterInvariance, LedgerInvariance, PTL DEF Spec
=============================================================================
