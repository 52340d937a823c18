------------------------------ MODULE AiRouter -------------------------------
(* The AI chat route: admission of chats, failover between providers, and the *)
(* provider budgets and cooldowns that all chats share                        *)
(* (server/ai.mjs, server/ai-stream.mjs, server/ai-budget.mjs).               *)
(*                                                                            *)
(* A handler runs without interruption from one await to the next.  It awaits *)
(* only the provider: the response of fetch() and the events of its stream.   *)
(* Between two awaits it may record a cooldown, settle a reservation, choose  *)
(* the next provider and reserve its budget, and all of that is one action.   *)
EXTENDS Integers, FiniteSets, FiniteSetsExt

CONSTANTS
  Chats,      \* POST /api/ai/chat and /api/ai/title requests
  Titles,     \* ... the titles among them
  Clients,    \* IP addresses
  Last,       \* providers are 1..Last, in the order of the configuration
  Rpm, Rpd, Tpm, Tpd,  \* provider.limits, the same for every provider
  Sizes,      \* reserveTokens(): what a request may reserve
  Usages,     \* total_tokens a provider may report
  Cools,      \* seconds of Retry-After or of the cooldown in its place
  Explicit,   \* whether a rejection carries a Retry-After: a set of BOOLEANs
  Pause,      \* the 30 seconds after a connection or stream error
  Minute, Day,\* 60000 and 86400000 in ticks of the model
  MaxTotal,   \* 8 replies at once
  Capacity,   \* requestLimits.aiCapacity
  MaxTime     \* bound of the clock

ASSUME RouterAssumption ==
  /\ IsFiniteSet(Chats) /\ Last \in Nat \ {0}
  /\ MaxTotal \in Nat /\ Capacity \in Nat
  /\ {Rpm, Rpd, Tpm, Tpd} \subseteq Nat \ {0}   \* ai-config.mjs: from 1
  /\ Sizes \subseteq Nat
  /\ Usages \subseteq Nat /\ Cools \union {Pause} \subseteq Nat \ {0}
  /\ Explicit \subseteq BOOLEAN /\ Titles \subseteq Chats
  /\ Minute \in Nat \ {0} /\ Day \in Nat \ {0} /\ MaxTime \in Nat

VARIABLES
  now,     \* Date.now()
  usage,   \* ai_usage: the row of a provider and period, absent if reset = 0
  until,   \* ai_cooldowns
  active,  \* the replies in progress of a client
  total,   \* ... and of all clients
  chats,   \* the handlers
  ledger,  \* history: what each chat has cost each provider, in which windows
  demand   \* history: the end of the rest a provider last asked for itself

vars == <<now, usage, until, active, total, chats, ledger, demand>>

Providers == 1..Last
Periods   == {"minute", "day"}
Times     == 0..(MaxTime + Minute + Day)
Tokens    == 0..(Cardinality(Chats) * Max(Sizes \union Usages))
Row       == [reset : Times, requests : 0..Cardinality(Chats), tokens : Tokens]
Waiting   == {"fetching", "reading"}

Free == [minute |-> 0, day |-> 0, tokens |-> 0]   \* no reservation

TypeOK ==
  /\ now \in 0..MaxTime
  /\ usage \in [Providers -> [Periods -> Row]]
  /\ until \in [Providers -> 0..(MaxTime + Max(Cools \union {Pause}))]
  /\ active \in [Clients -> Nat] /\ total \in Nat
  /\ chats \in [Chats -> [state : {"idle", "over"} \union Waiting,
                          client : Clients, size : Sizes,
                          at : 0..Last, streaming : BOOLEAN,
                          aborted : BOOLEAN, wrote : SUBSET Providers,
                          retry : Times]]
  /\ ledger \in [Chats -> [Providers -> [minute : Times, day : Times,
                                         tokens : Tokens]]]
  /\ demand \in [Providers -> 0..(MaxTime + Max(Cools \union {Pause}))]

Init ==
  /\ now = 0
  /\ usage = [p \in Providers |-> [k \in Periods |->
                [reset |-> 0, requests |-> 0, tokens |-> 0]]]
  /\ until = [p \in Providers |-> 0]
  /\ active = [i \in Clients |-> 0] /\ total = 0
  /\ chats \in [Chats -> [state : {"idle"}, client : Clients, size : Sizes,
                          at : {0}, streaming : {FALSE},
                          aborted : {FALSE}, wrote : {{}}, retry : {0}]]
  /\ ledger = [c \in Chats |-> [p \in Providers |-> Free]]
  /\ demand = [p \in Providers |-> 0]

-----------------------------------------------------------------------------
(* read(): the row while its window lasts, an empty window after it. *)
WindowEnd(k, t) == IF k = "day" THEN ((t \div Day) + 1) * Day ELSE t + Minute

Read(u, p, k, t) ==
  IF u[p][k].reset > t THEN u[p][k]
  ELSE [reset |-> WindowEnd(k, t), requests |-> 0, tokens |-> 0]

Requests(k)  == IF k = "minute" THEN Rpm ELSE Rpd
Allowance(k) == IF k = "minute" THEN Tpm ELSE Tpd

Room(u, p, k, n, t) ==
  /\ Read(u, p, k, t).requests + 1 <= Requests(k)
  /\ Read(u, p, k, t).tokens + n <= Allowance(k)

(* The providers reserve() accepts: not cooling, with room in both windows. *)
Open(u, cool, n, t) ==
  {p \in Providers : cool[p] <= t /\ \A k \in Periods : Room(u, p, k, n, t)}

Charged(u, p, n) ==
  [u EXCEPT ![p] = [k \in Periods |->
     [Read(u, p, k, now) EXCEPT !.requests = @ + 1, !.tokens = @ + n]]]

MutRetryAt(u, cool, n, p) ==       \* a cooldown hides the windows
  IF cool[p] > now THEN cool[p]
  ELSE Max({0} \union {Read(u, p, k, now).reset :
                        k \in {j \in Periods : ~ Room(u, p, j, n, now)}})

(* blocked(): the latest of the times at which what blocks p is over, 0 when *)
(* nothing does; and the Retry-After a visitor is told, 0 for none.          *)
RetryAt(u, cool, n, p) ==
  Max({0} \union {t \in {cool[p]} : t > now}
          \union {Read(u, p, k, now).reset :
                    k \in {j \in Periods : ~ Room(u, p, j, n, now)}})

Large(n) == n > Tpm \/ n > Tpd

Refused(u, cool, n) ==
  LET waits == {RetryAt(u, cool, n, p) : p \in Providers} \ {0}
  IN IF Large(n) \/ waits = {} THEN 0 ELSE Min(waits)

-----------------------------------------------------------------------------
(* The finally block of the handler; its variables are gone. *)
Gone(c, retry) ==
  [chats[c] EXCEPT !.state = "over", !.retry = retry, !.at = 0, !.wrote = {},
                   !.streaming = FALSE, !.aborted = FALSE]

MutOver(c, retry) ==               \* one of the two counters is forgotten
  /\ chats' = [chats EXCEPT ![c] = Gone(c, retry)]
  /\ active' = [active EXCEPT ![chats[c].client] = @ - 1]
  /\ UNCHANGED total

Over(c, retry) ==
  /\ chats' = [chats EXCEPT ![c] = Gone(c, retry)]
  /\ active' = [active EXCEPT ![chats[c].client] = @ - 1]
  /\ total' = total - 1

(* The loop over the providers after the last one tried, until one takes the *)
(* request; u, costs and cool are what the handler has made of the tables.   *)
Untried(c, u, cool) ==
  {p \in Open(u, cool, chats[c].size, now) : p > chats[c].at}

Attempt(c, u, costs, cool) ==
  LET n == chats[c].size
      p == Min(Untried(c, u, cool))
  IN /\ Untried(c, u, cool) # {}
     /\ usage' = Charged(u, p, n)
     /\ ledger' = [costs EXCEPT ![c][p] =
          [minute |-> Read(u, p, "minute", now).reset,
           day |-> Read(u, p, "day", now).reset, tokens |-> n]]
     /\ chats' = [chats EXCEPT ![c].state = "fetching", ![c].at = p]

(* A chat that finds the server full, or its rate limits used up (external), *)
(* is refused before it counts; the others count until they are over.        *)
Turn(c) ==
  /\ chats[c].state = "idle"
  /\ chats' = [chats EXCEPT ![c] = Gone(c, 0)]
  /\ UNCHANGED <<now, usage, until, active, total, ledger, demand>>

Admit(c) ==
  LET i == chats[c].client
      n == chats[c].size
  IN /\ chats[c].state = "idle"
     /\ active[i] < Capacity /\ total < MaxTotal
     /\ \/ /\ Attempt(c, usage, ledger, until)
           /\ active' = [active EXCEPT ![i] = @ + 1] /\ total' = total + 1
        \/ /\ Untried(c, usage, until) = {}
           /\ chats' = [chats EXCEPT ![c] = Gone(c, Refused(usage, until, n))]
           /\ UNCHANGED <<usage, ledger, active, total>>
     /\ UNCHANGED <<now, until, demand>>

MutFailed(c, u, costs, cool, retryable) ==   \* fails over while streaming
  LET ends(retry) == Over(c, retry) /\ usage' = u /\ ledger' = costs
      final == chats[c].aborted \/ ~ retryable
  IN \/ final /\ ends(0)
     \/ ~ final /\ Untried(c, u, cool) = {} /\ ends(Refused(u, cool, chats[c].size))
     \/ ~ final /\ Attempt(c, u, costs, cool) /\ UNCHANGED <<active, total>>

(* The catch block, after an attempt has failed and left the cooldowns cool: *)
(* a partial answer ends the chat, and so does its abort.                    *)
Failed(c, u, costs, cool, retryable) ==
  LET ends(retry) == Over(c, retry) /\ usage' = u /\ ledger' = costs
      final == chats[c].streaming \/ chats[c].aborted \/ ~ retryable
  IN \/ final /\ ends(0)
     \/ ~ final /\ Untried(c, u, cool) = {} /\ ends(Refused(u, cool, chats[c].size))
     \/ ~ final /\ Attempt(c, u, costs, cool) /\ UNCHANGED <<active, total>>

(* cool(): the row is overwritten. *)
Cooled(p, s) == [until EXCEPT ![p] = now + s]

(* A response that is not ok, with its Retry-After or without one. *)
Rejected(c) ==
  /\ chats[c].state = "fetching"
  /\ \E s \in Cools, explicit \in Explicit, retryable \in BOOLEAN :
       LET p == chats[c].at
       IN /\ until' = Cooled(p, s)
          /\ demand' = IF explicit
                       THEN [demand EXCEPT ![p] = now + s]
                       ELSE demand
          /\ Failed(c, usage, ledger, until', retryable)
  /\ UNCHANGED <<now>>

(* The connection or the stream fails, also by its deadline or an abort, or   *)
(* the stream completes without a word: a cooldown only for a chat that can   *)
(* still fail over, and only if none runs.                                    *)
Broken(c, u, costs, retryable) ==
  LET p == chats[c].at
      cools == ~ chats[c].streaming /\ ~ chats[c].aborted /\ until[p] <= now
  IN /\ until' = IF cools THEN Cooled(p, Pause) ELSE until
     /\ Failed(c, u, costs, until', retryable)
     /\ UNCHANGED <<now, demand>>

Interrupted(c) ==
  /\ chats[c].state \in Waiting
  /\ \E retryable \in BOOLEAN : Broken(c, usage, ledger, retryable)

Opened(c) ==
  /\ chats[c].state = "fetching"
  /\ chats' = [chats EXCEPT ![c].state = "reading"]
  /\ UNCHANGED <<now, usage, until, active, total, ledger, demand>>

(* A delta reaches the visitor, or is collected for a title. *)
Delta(c) ==
  /\ chats[c].state = "reading"
  /\ chats' = [chats EXCEPT ![c].streaming = c \notin Titles,
                            ![c].wrote = @ \union {chats[c].at}]
  /\ UNCHANGED <<now, usage, until, active, total, ledger, demand>>

MutSettled(c, n) ==                \* whatever window is current
  LET p == chats[c].at
  IN [usage EXCEPT ![p] = [k \in Periods |->
        [usage[p][k] EXCEPT !.tokens = Max({0, @ + n - ledger[c][p].tokens})]]]

(* settle(): the reservation becomes what was used, in the windows it was    *)
(* made in and in no other.                                                  *)
Settled(c, n) ==
  LET p == chats[c].at
      l == ledger[c][p]
  IN [usage EXCEPT ![p] = [k \in Periods |->
        IF usage[p][k].reset = l[k]
        THEN [usage[p][k] EXCEPT !.tokens = Max({0, @ + n - l.tokens})]
        ELSE usage[p][k]]]

(* The stream is complete; its usage was reported or not. *)
Completed(c) ==
  /\ chats[c].state = "reading" /\ chats[c].at \in chats[c].wrote
  /\ \/ UNCHANGED <<usage, ledger>>
     \/ \E n \in Usages :
          /\ usage' = Settled(c, n)
          /\ ledger' = [ledger EXCEPT ![c][chats[c].at].tokens = n]
  /\ Over(c, 0)                          \* done, or the text is no title
  /\ UNCHANGED <<now, until, demand>>

Empty(c) ==
  /\ chats[c].state = "reading" /\ chats[c].at \notin chats[c].wrote
  /\ \E n \in Usages :
       Broken(c, Settled(c, n), [ledger EXCEPT ![c][chats[c].at].tokens = n],
              TRUE)

(* The visitor leaves, or the minute of the whole chat is over. *)
Abort(c) ==
  /\ chats[c].state \in Waiting /\ ~ chats[c].aborted
  /\ chats' = [chats EXCEPT ![c].aborted = TRUE]
  /\ UNCHANGED <<now, usage, until, active, total, ledger, demand>>

Tick ==
  /\ now < MaxTime /\ now' = now + 1
  /\ UNCHANGED <<usage, until, active, total, chats, ledger, demand>>

Next ==
  \/ Tick
  \/ \E c \in Chats :
       \/ Turn(c) \/ Admit(c) \/ Rejected(c) \/ Interrupted(c) \/ Opened(c)
       \/ Delta(c) \/ Completed(c) \/ Empty(c) \/ Abort(c)

Spec == Init /\ [][Next]_vars

-----------------------------------------------------------------------------
(* "Never append a different model to a partial answer" (ai.mjs): whatever   *)
(* fails and fails over, the text a visitor sees comes from one provider.    *)
OneModelPerAnswer ==
  \A c \in Chats \ Titles : Cardinality(chats[c].wrote) <= 1

(* The shared counters are exact after every early return, error and abort:  *)
(* no reply leaks its slot and none returns it twice.                        *)
SlotsExact ==
  /\ total = Cardinality({c \in Chats : chats[c].state \in Waiting})
  /\ \A i \in Clients :
       active[i] = Cardinality({c \in Chats : chats[c].state \in Waiting
                                             /\ chats[c].client = i})

(* A usage row says what the chats of its window cost: reservations of late  *)
(* or failed replies included, settled ones at their reported usage, and     *)
(* nothing of the windows before it.                                         *)
InWindow(p, k, t) == {c \in Chats : ledger[c][p][k] = t}
Cost(p, C) == MapThenSumSet(LAMBDA c : ledger[c][p].tokens, C)

WindowsAccount ==
  \A p \in Providers, k \in Periods :
    LET row == usage[p][k]
    IN row.reset # 0 =>
         /\ row.requests = Cardinality(InWindow(p, k, row.reset))
         /\ row.tokens = Cost(p, InWindow(p, k, row.reset))

(* What a refusal tells the visitor agrees with what reserve() will do: at   *)
(* the named time some provider takes the request, and after a refusal on    *)
(* admission none does before it.                                            *)
RetryIsAChance ==
  [][\A c \in Chats :
       (chats[c].retry = 0 /\ chats'[c].retry # 0) =>
         LET open(t) == Open(usage', until', chats[c].size, t)
         IN /\ open(chats'[c].retry) # {}
            /\ chats[c].state = "idle" =>
                 \A t \in now..(chats'[c].retry - 1) : open(t) = {}]_vars

(* "Retry-After is respected" (docs/AI.md:36): no request goes to a provider *)
(* before the time it last asked for is over.                                *)
RetryAfterRespected ==
  [][\A c \in Chats, p \in Providers :
       (ledger[c][p] = Free /\ ledger'[c][p] # Free) => demand[p] <= now]_vars
=============================================================================
