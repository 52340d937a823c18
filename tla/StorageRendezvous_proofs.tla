---------------------- MODULE StorageRendezvous_proofs ----------------------
(***************************************************************************)
(* A document is answered truthfully and once, for any number of           *)
(* documents, requests, sockets and sequences.                             *)
(*                                                                         *)
(* The invariant has three parts.  Of the requests: one that took its      *)
(* sequence has it for itself, because the last sequence of the document   *)
(* has passed it.  Of pending: it holds the waiting requests and nothing   *)
(* else, and only while somebody can answer them.  Of the results on their *)
(* way: they say what the worker said.                                     *)
(*                                                                         *)
(* At the end, the bound on early receipts: it drops the oldest only.      *)
(***************************************************************************)
EXTENDS StorageRendezvous, FiniteSetTheorems, WellFoundedInduction, TLAPS

CallRecord == [state : {"idle", "checking", "waiting", "answered"},
               doc : Docs \union {None}, seq : 0..MaxSeq,
               answer : Answers \union {None}]

(* A request that passed the check of its sequence, and could be told of it. *)
Taken(c) == calls[c].state = "waiting" \/ calls[c].answer \in Values

CallsInv ==
  /\ \A c \in Calls : calls[c].state # "idle" => calls[c].doc \in Docs /\ calls[c].seq \in Seqs
  /\ \A c \in Calls : calls[c].state # "answered" => calls[c].answer = None
  /\ \A c \in Calls : calls[c].answer \in Values =>
                        sent[calls[c].doc][calls[c].seq] = calls[c].answer
  /\ \A c \in Calls : Taken(c) => calls[c].seq <= last[calls[c].doc]
  /\ \A b, c \in Calls : /\ Taken(b) /\ Taken(c)
                         /\ calls[b].doc = calls[c].doc /\ calls[b].seq = calls[c].seq
                         => b = c

OnlyWaiters ==
  \A d \in Docs, q \in Seqs : pending[d][q] # None =>
    /\ pending[d][q] \in Calls
    /\ calls[pending[d][q]].state = "waiting"
    /\ calls[pending[d][q]].doc = d /\ calls[pending[d][q]].seq = q

RevokedIsEmpty == ~ Live => Bound = {}

PendingInv == WaitersHeld /\ OnlyWaiters /\ RevokedIsEmpty

ResultsInv ==
  /\ \A d \in Docs : \A r \in receipts[d] : sent[d][r.seq] = r.value
  /\ \A m \in handling : sent[m.doc][m.seq] = m.value

IInv == TypeOK /\ CallsInv /\ PendingInv /\ ResultsInv

-----------------------------------------------------------------------------
(* What a request may become in a step. *)
Stays(c)   == calls'[c] = calls[c]
Same(c)    == calls'[c].doc = calls[c].doc /\ calls'[c].seq = calls[c].seq
Posted(c)  == /\ calls[c].state = "idle" /\ calls'[c].state # "waiting"
              /\ calls'[c].doc \in Docs /\ calls'[c].seq \in Seqs
              /\ calls'[c].answer \notin Values
              /\ calls'[c].state # "answered" => calls'[c].answer = None
Refusal(c) == /\ calls[c].state \in {"checking", "waiting"} /\ Same(c)
              /\ calls'[c].state = "answered" /\ calls'[c].answer \notin Values
Settles(c) == /\ calls[c].state = "waiting" /\ Same(c)
              /\ calls'[c].state = "answered"
              /\ calls'[c].answer = sent'[calls[c].doc][calls[c].seq]
Takes(c)   == /\ calls[c].state = "checking" /\ Same(c)
              /\ calls[c].seq > last[calls[c].doc]
              /\ last'[calls[c].doc] = calls[c].seq
              /\ \/ calls'[c].state = "waiting" /\ calls'[c].answer = None
                 \/ /\ calls'[c].state = "answered"
                    /\ calls'[c].answer = sent'[calls[c].doc][calls[c].seq]

LEMMA Basics ==
  ASSUME IInv
  PROVE  /\ None \notin Values /\ None \notin Calls /\ Seqs \subseteq Nat
         /\ \A a \in {"revoked", "sequence", "disconnected", "full", "timeout", "aborted"} :
              a \notin Values
         /\ \A d \in Docs : last[d] \in Nat
         /\ \A c \in Calls : calls[c] \in CallRecord
         /\ \A c \in Calls : calls[c].state # "idle" =>
                               calls[c].doc \in Docs /\ calls[c].seq \in Seqs
         /\ \A c \in Calls : Taken(c) => calls[c].state # "idle"
<1>1. \A c \in Calls : calls[c] \in CallRecord
  BY DEF IInv, TypeOK, CallRecord
<1>2. /\ None \notin Values /\ None \notin Calls /\ Seqs \subseteq Nat
      /\ \A a \in {"revoked", "sequence", "disconnected", "full", "timeout", "aborted"} :
           a \notin Values
  BY RendezvousAssumption DEF Seqs
<1>3. \A d \in Docs : last[d] \in Nat
  BY RendezvousAssumption DEF IInv, TypeOK
<1>4. \A c \in Calls : calls[c].state # "idle" => calls[c].doc \in Docs /\ calls[c].seq \in Seqs
  BY DEF IInv, CallsInv
<1>5. \A c \in Calls : Taken(c) => calls[c].state # "idle"
  BY <1>2 DEF IInv, CallsInv, Taken
<1> QED BY <1>1, <1>2, <1>3, <1>4, <1>5

LEMMA CallStep ==
  ASSUME IInv, NEW t,
         \/ \A c \in Calls : Stays(c) \/ Posted(c) \/ Refusal(c) \/ Settles(c)
         \/ t \in Calls /\ Takes(t) /\ \A c \in Calls : c # t => Stays(c),
         \A d \in Docs, q \in Seqs : sent[d][q] # None => sent'[d][q] = sent[d][q],
         \A d \in Docs : last'[d] \in Nat /\ last[d] <= last'[d]
  PROVE  CallsInv'
<1>1. /\ None \notin Values /\ Seqs \subseteq Nat
      /\ \A d \in Docs : last[d] \in Nat
      /\ \A c \in Calls : calls[c].state # "idle" =>
                            calls[c].doc \in Docs /\ calls[c].seq \in Seqs
      /\ \A c \in Calls : Taken(c) => calls[c].state # "idle"
  BY Basics
<1>2. \A c \in Calls : \/ Stays(c) \/ Posted(c) \/ Refusal(c) \/ Settles(c)
                       \/ c = t /\ Takes(c)
  OBVIOUS
<1>3. \A c \in Calls : /\ calls'[c].state # "idle" => calls'[c].doc \in Docs /\ calls'[c].seq \in Seqs
                       /\ calls'[c].state # "answered" => calls'[c].answer = None
  BY <1>2 DEF Stays, Same, Posted, Refusal, Settles, Takes, IInv, CallsInv
<1>4. ASSUME NEW c \in Calls, calls'[c].answer \in Values
      PROVE  sent'[calls'[c].doc][calls'[c].seq] = calls'[c].answer
  <2>1. CASE Stays(c)
    <3>1. /\ calls[c].answer \in Values /\ calls[c].doc \in Docs /\ calls[c].seq \in Seqs
          /\ calls[c].answer # None
      BY <1>1, <1>4, <2>1 DEF Stays, Taken
    <3>2. sent[calls[c].doc][calls[c].seq] = calls[c].answer
      BY <3>1 DEF IInv, CallsInv
    <3> QED BY <2>1, <3>1, <3>2 DEF Stays
  <2>2. CASE Posted(c) \/ Refusal(c)
    BY <1>4, <2>2 DEF Posted, Refusal
  <2>3. CASE Settles(c) \/ Takes(c)
    BY <1>1, <1>4, <2>3 DEF Settles, Takes, Same
  <2> QED BY <1>2, <2>1, <2>2, <2>3
<1>5. ASSUME NEW c \in Calls, Taken(c)'
      PROVE  /\ calls[c].doc \in Docs /\ calls[c].seq \in Seqs /\ Same(c)
             /\ Taken(c) \/ (c = t /\ Takes(c))
  <2>1. CASE Stays(c)
    BY <1>1, <1>5, <2>1 DEF Stays, Same, Taken
  <2>2. CASE Posted(c) \/ Refusal(c)
    BY <1>5, <2>2 DEF Posted, Refusal, Taken
  <2>3. CASE Settles(c)
    BY <1>1, <2>3 DEF Settles, Taken
  <2>4. CASE c = t /\ Takes(c)
    BY <1>1, <2>4 DEF Takes
  <2> QED BY <1>2, <2>1, <2>2, <2>3, <2>4
<1>6. ASSUME NEW c \in Calls, Taken(c)' PROVE calls'[c].seq <= last'[calls'[c].doc]
  <2>1. /\ calls[c].doc \in Docs /\ calls[c].seq \in Nat /\ Same(c)
        /\ last[calls[c].doc] \in Nat /\ last'[calls[c].doc] \in Nat
        /\ last[calls[c].doc] <= last'[calls[c].doc]
    BY <1>1, <1>5, <1>6
  <2>2. CASE Taken(c)
    <3>1. calls[c].seq <= last[calls[c].doc]
      BY <2>2 DEF IInv, CallsInv
    <3>2. calls[c].seq <= last'[calls[c].doc]
      BY <2>1, <3>1
    <3> QED BY <2>1, <3>2 DEF Same
  <2>3. CASE Takes(c)
    <3>1. calls[c].seq <= last'[calls[c].doc]
      BY <2>1, <2>3 DEF Takes
    <3> QED BY <2>1, <3>1 DEF Same
  <2> QED BY <1>5, <1>6, <2>2, <2>3
<1>7. ASSUME NEW x \in Calls, NEW y \in Calls, Takes(x), Taken(y), Taken(y)', Taken(x)',
             calls'[x].doc = calls'[y].doc, calls'[x].seq = calls'[y].seq
      PROVE  FALSE
  <2>1. /\ calls[x].doc \in Docs /\ calls[x].seq \in Nat /\ last[calls[x].doc] \in Nat
        /\ calls[y].doc = calls[x].doc /\ calls[y].seq = calls[x].seq
    BY <1>1, <1>5, <1>7 DEF Same
  <2>2. calls[y].seq <= last[calls[y].doc] /\ calls[x].seq > last[calls[x].doc]
    BY <1>7 DEF Takes, IInv, CallsInv
  <2> QED BY <2>1, <2>2
<1>8. ASSUME NEW b \in Calls, NEW c \in Calls, Taken(b)', Taken(c)',
             calls'[b].doc = calls'[c].doc, calls'[b].seq = calls'[c].seq
      PROVE  b = c
  <2>1. CASE Taken(b) /\ Taken(c)
    <3>1. calls[b].doc = calls[c].doc /\ calls[b].seq = calls[c].seq
      BY <1>5, <1>8 DEF Same
    <3> QED BY <2>1, <3>1 DEF IInv, CallsInv
  <2> QED BY <1>5, <1>7, <1>8, <2>1
<1> QED BY <1>3, <1>4, <1>6, <1>8 DEF CallsInv

-----------------------------------------------------------------------------
(* Whatever dismisses the requests that wait for documents D. *)
LEMMA Dismissal ==
  ASSUME IInv, NEW D \in SUBSET Bound, NEW C \in SUBSET Calls, NEW a,
         a \in {"revoked", "disconnected"},
         \A c \in C : calls[c].state = "checking",
         calls' = Answered(Waiters(D) \union C, a),
         pending' = Emptied(D), receipts' = Cleared(D),
         last' = last, sent' = sent, handling' \subseteq handling,
         doc' \in [Docs -> {"none", "bound", "revoked"}],
         \A d \in Docs \ D : doc'[d] = doc[d],
         D = Bound \/ (owner' = owner /\ socket' = socket)
  PROVE  /\ CallsInv' /\ WaitersHeld' /\ OnlyWaiters' /\ ResultsInv'
         /\ pending' \in [Docs -> [Seqs -> Calls \union {None}]]
         /\ receipts' \in [Docs -> SUBSET Receipt]
         /\ calls' \in [Calls -> CallRecord]
<1>1. /\ a \notin Values /\ a \in Answers /\ None \notin Calls /\ Bound \subseteq Docs
      /\ \A c \in Calls : calls[c] \in CallRecord
  BY Basics DEF Answers, Bound
<1>2. ASSUME NEW c \in Waiters(D)
      PROVE  c \in Calls /\ calls[c].state = "waiting" /\ calls[c].doc \in D
  <2>1. PICK d \in D, q \in Seqs : c = pending[d][q] /\ c # None
    BY DEF Waiters
  <2> QED BY <1>1, <2>1 DEF IInv, PendingInv, OnlyWaiters
<1>3. \A c \in Calls : calls'[c] = IF c \in Waiters(D) \union C
                                   THEN [calls[c] EXCEPT !.state = "answered", !.answer = a]
                                   ELSE calls[c]
  BY DEF Answered
<1>4. calls' \in [Calls -> CallRecord]
  <2>1. ASSUME NEW c \in Calls PROVE calls'[c] \in CallRecord
    <3>1. calls[c] \in CallRecord
      BY <1>1
    <3>2. CASE c \in Waiters(D) \union C
      <4>1. calls'[c] = [calls[c] EXCEPT !.state = "answered", !.answer = a]
        BY <1>3, <3>2
      <4> QED BY <1>1, <3>1, <4>1 DEF CallRecord
    <3> QED BY <1>3, <3>1, <3>2
  <2> QED BY <2>1 DEF Answered
<1>5. \A c \in Calls : Stays(c) \/ Refusal(c)
  <2> SUFFICES ASSUME NEW c \in Calls PROVE Stays(c) \/ Refusal(c)
    OBVIOUS
  <2>1. CASE c \in Waiters(D) \union C
    <3>1. calls[c].state \in {"checking", "waiting"}
      BY <1>2, <2>1
    <3>2. /\ calls'[c].state = "answered" /\ calls'[c].answer = a
          /\ calls'[c].doc = calls[c].doc /\ calls'[c].seq = calls[c].seq
      <4>1. calls'[c] = [calls[c] EXCEPT !.state = "answered", !.answer = a]
        BY <1>3, <2>1
      <4>2. calls[c] \in CallRecord
        BY <1>1
      <4> QED BY <4>1, <4>2 DEF CallRecord
    <3> QED BY <1>1, <3>1, <3>2 DEF Refusal, Same
  <2> QED BY <1>3, <2>1 DEF Stays
<1>6. CallsInv'
  <2>1. \A d \in Docs : last'[d] \in Nat /\ last[d] <= last'[d]
    BY Basics
  <2> QED BY <1>5, <2>1, CallStep
<1>7. ASSUME NEW c \in Calls, calls'[c].state = "waiting"
      PROVE  /\ calls'[c] = calls[c] /\ calls[c].doc \in Docs \ D /\ calls[c].seq \in Seqs
             /\ pending[calls[c].doc][calls[c].seq] = c
             /\ Live /\ calls[c].doc \in Bound /\ socket # 0
  <2>1. c \notin Waiters(D) \union C /\ calls'[c] = calls[c]
    <3>1. Stays(c)
      BY <1>5, <1>7 DEF Refusal
    <3>2. c \in Waiters(D) \union C => calls'[c].state = "answered"
      <4>1. calls[c] \in CallRecord
        BY <1>1
      <4> QED BY <1>3, <4>1 DEF CallRecord
    <3> QED BY <1>7, <3>1, <3>2 DEF Stays
  <2>2. /\ calls[c].doc \in Docs /\ calls[c].seq \in Seqs
        /\ pending[calls[c].doc][calls[c].seq] = c
        /\ Live /\ calls[c].doc \in Bound /\ socket # 0
    BY <1>7, <2>1 DEF IInv, CallsInv, PendingInv, WaitersHeld
  <2>3. calls[c].doc \notin D
    BY <1>1, <2>1, <2>2 DEF Waiters
  <2> QED BY <2>1, <2>2, <2>3
<1>8. \A d \in Docs : pending'[d] = IF d \in D THEN [q \in Seqs |-> None] ELSE pending[d]
  BY DEF Emptied
<1>9. WaitersHeld'
  <2> SUFFICES ASSUME NEW c \in Calls, calls'[c].state = "waiting"
               PROVE  /\ pending'[calls'[c].doc][calls'[c].seq] = c
                      /\ Live' /\ calls'[c].doc \in Bound' /\ socket' # 0
    BY DEF WaitersHeld
  <2>1. /\ calls'[c] = calls[c] /\ calls[c].doc \in Docs \ D /\ calls[c].seq \in Seqs
        /\ pending[calls[c].doc][calls[c].seq] = c
        /\ Live /\ calls[c].doc \in Bound /\ socket # 0
    BY <1>7
  <2>2. owner' = owner /\ socket' = socket
    BY <2>1
  <2>3. doc'[calls[c].doc] = "bound"
    BY <2>1 DEF Bound
  <2>4. calls'[c].doc \in Bound'
    BY <2>1, <2>3 DEF Bound
  <2>5. pending'[calls'[c].doc][calls'[c].seq] = c
    BY <1>8, <2>1
  <2> QED BY <2>1, <2>2, <2>4, <2>5 DEF Live
<1>10. OnlyWaiters'
  <2> SUFFICES ASSUME NEW d \in Docs, NEW q \in Seqs, pending'[d][q] # None
               PROVE  /\ pending'[d][q] \in Calls
                      /\ calls'[pending'[d][q]].state = "waiting"
                      /\ calls'[pending'[d][q]].doc = d /\ calls'[pending'[d][q]].seq = q
    BY DEF OnlyWaiters
  <2>1. d \notin D /\ pending'[d][q] = pending[d][q]
    BY <1>8
  <2>2. /\ pending[d][q] \in Calls /\ calls[pending[d][q]].state = "waiting"
        /\ calls[pending[d][q]].doc = d /\ calls[pending[d][q]].seq = q
    BY <2>1 DEF IInv, PendingInv, OnlyWaiters
  <2>3. pending[d][q] \notin Waiters(D) \union C
    BY <1>2, <2>1, <2>2
  <2> QED BY <1>3, <2>1, <2>2, <2>3
<1>11. ResultsInv'
  BY DEF Cleared, IInv, ResultsInv
<1>12. /\ pending' \in [Docs -> [Seqs -> Calls \union {None}]]
       /\ receipts' \in [Docs -> SUBSET Receipt]
  BY DEF Emptied, Cleared, IInv, TypeOK
<1> QED BY <1>4, <1>6, <1>9, <1>10, <1>11, <1>12
-----------------------------------------------------------------------------
(* A step that leaves the requests alone, and withdraws nobody who could answer. *)
LEMMA Apart ==
  ASSUME IInv, calls' = calls, pending' = pending, last' = last, owner' = owner,
         \A d \in Docs, q \in Seqs : sent[d][q] # None => sent'[d][q] = sent[d][q],
         \A d \in Bound : doc'[d] = "bound", socket # 0 => socket' # 0
  PROVE  CallsInv' /\ WaitersHeld' /\ OnlyWaiters'
<1>1. CallsInv'
  <2>1. \A c \in Calls : Stays(c)
    BY DEF Stays
  <2>2. \A d \in Docs : last'[d] \in Nat /\ last[d] <= last'[d]
    BY Basics
  <2> QED BY <2>1, <2>2, CallStep
<1>2. \A c \in Calls : calls[c].state = "waiting" =>
        /\ pending[calls[c].doc][calls[c].seq] = c
        /\ Live /\ calls[c].doc \in Bound /\ socket # 0
  BY DEF IInv, PendingInv, WaitersHeld
<1>3. Bound \subseteq Bound' /\ (Live => Live')
  BY DEF Bound, Live
<1>4. WaitersHeld'
  BY <1>2, <1>3 DEF WaitersHeld
<1>5. OnlyWaiters'
  BY DEF IInv, PendingInv, OnlyWaiters
<1> QED BY <1>1, <1>4, <1>5

(* A request that neither waited nor waits now changes nothing of pending. *)
LEMMA Aside ==
  ASSUME IInv, NEW c \in Calls, calls[c].state # "waiting", calls'[c].state # "waiting",
         \A b \in Calls \ {c} : calls'[b] = calls[b],
         owner' = owner, doc' = doc, socket' = socket, pending' = pending
  PROVE  WaitersHeld' /\ OnlyWaiters' /\ RevokedIsEmpty'
<1>1. \A b \in Calls : calls'[b].state = "waiting" => b # c /\ calls'[b] = calls[b]
  OBVIOUS
<1>2. Bound' = Bound /\ (Live' <=> Live)
  BY DEF Bound, Live
<1>3. WaitersHeld'
  <2>1. \A b \in Calls : calls[b].state = "waiting" =>
          /\ pending[calls[b].doc][calls[b].seq] = b
          /\ Live /\ calls[b].doc \in Bound /\ socket # 0
    BY DEF IInv, PendingInv, WaitersHeld
  <2> QED BY <1>1, <1>2, <2>1 DEF WaitersHeld
<1>4. OnlyWaiters'
  <2>1. \A d \in Docs, q \in Seqs : pending[d][q] # None =>
          /\ pending[d][q] \in Calls /\ pending[d][q] # c
          /\ calls[pending[d][q]].state = "waiting"
          /\ calls[pending[d][q]].doc = d /\ calls[pending[d][q]].seq = q
    BY DEF IInv, PendingInv, OnlyWaiters
  <2> QED BY <2>1 DEF OnlyWaiters
<1> QED BY <1>2, <1>3, <1>4 DEF IInv, PendingInv, RevokedIsEmpty

(* finish() answers the one who waits, and nobody else. *)
LEMMA Finishing ==
  ASSUME IInv, NEW d \in Docs, NEW q \in Seqs, NEW a \in Answers, Finish(d, q, a),
         a \notin Values \/ a = sent[d][q],
         UNCHANGED <<owner, socket, doc, last, receipts, sent>>, handling' \subseteq handling
  PROVE  /\ CallsInv' /\ PendingInv' /\ ResultsInv'
         /\ pending' \in [Docs -> [Seqs -> Calls \union {None}]]
         /\ calls' \in [Calls -> CallRecord]
<1> DEFINE c == pending[d][q]
<1>1. /\ c # None /\ c \in Calls /\ calls[c].state = "waiting"
      /\ calls[c].doc = d /\ calls[c].seq = q
      /\ pending' = [pending EXCEPT ![d][q] = None]
      /\ calls' = Answered({c}, a)
  BY DEF Finish, IInv, PendingInv, OnlyWaiters
<1> HIDE DEF c
<1>2. \A b \in Calls : calls[b] \in CallRecord
  BY Basics
<1>3. /\ \A b \in Calls \ {c} : calls'[b] = calls[b]
      /\ calls'[c] = [calls[c] EXCEPT !.state = "answered", !.answer = a]
  BY <1>1 DEF Answered
<1>4. /\ calls'[c] \in CallRecord /\ Same(c)
      /\ calls'[c].state = "answered" /\ calls'[c].answer = a
  <2>1. calls[c] \in CallRecord
    BY <1>1, <1>2
  <2> QED BY <1>3, <2>1 DEF CallRecord, Same
<1>5. calls' \in [Calls -> CallRecord]
  <2>1. \A b \in Calls : calls'[b] \in CallRecord
    BY <1>2, <1>3, <1>4
  <2> QED BY <1>1, <2>1 DEF Answered
<1>6. pending \in [Docs -> [Seqs -> Calls \union {None}]]
  BY DEF IInv, TypeOK
<1>7. /\ pending' \in [Docs -> [Seqs -> Calls \union {None}]]
      /\ pending'[d][q] = None
      /\ \A e \in Docs, n \in Seqs : e # d \/ n # q => pending'[e][n] = pending[e][n]
  BY <1>1, <1>6
<1>8. CallsInv'
  <2>1. \A b \in Calls : Stays(b) \/ Refusal(b) \/ Settles(b)
    BY <1>1, <1>3, <1>4 DEF Stays, Refusal, Settles
  <2>2. \A e \in Docs : last'[e] \in Nat /\ last[e] <= last'[e]
    BY Basics
  <2> QED BY <2>1, <2>2, CallStep
<1>9. WaitersHeld'
  <2> SUFFICES ASSUME NEW b \in Calls, calls'[b].state = "waiting"
               PROVE  /\ pending'[calls'[b].doc][calls'[b].seq] = b
                      /\ Live' /\ calls'[b].doc \in Bound' /\ socket' # 0
    BY DEF WaitersHeld
  <2>1. b # c /\ calls'[b] = calls[b]
    BY <1>3, <1>4
  <2>2. /\ pending[calls[b].doc][calls[b].seq] = b /\ calls[b].doc \in Docs
        /\ calls[b].seq \in Seqs /\ Live /\ calls[b].doc \in Bound /\ socket # 0
    BY <2>1 DEF IInv, PendingInv, WaitersHeld, CallsInv
  <2>3. calls[b].doc # d \/ calls[b].seq # q
    BY <2>1, <2>2 DEF c
  <2> QED BY <1>7, <2>1, <2>2, <2>3 DEF Live, Bound
<1>10. OnlyWaiters'
  <2> SUFFICES ASSUME NEW e \in Docs, NEW n \in Seqs, pending'[e][n] # None
               PROVE  /\ pending'[e][n] \in Calls
                      /\ calls'[pending'[e][n]].state = "waiting"
                      /\ calls'[pending'[e][n]].doc = e /\ calls'[pending'[e][n]].seq = n
    BY DEF OnlyWaiters
  <2>1. (e # d \/ n # q) /\ pending'[e][n] = pending[e][n]
    BY <1>7
  <2>2. /\ pending[e][n] \in Calls /\ calls[pending[e][n]].state = "waiting"
        /\ calls[pending[e][n]].doc = e /\ calls[pending[e][n]].seq = n
    BY <2>1 DEF IInv, PendingInv, OnlyWaiters
  <2>3. pending[e][n] # c
    BY <1>1, <2>1, <2>2
  <2> QED BY <1>3, <2>1, <2>2, <2>3
<1>11. RevokedIsEmpty' /\ ResultsInv'
  BY DEF IInv, PendingInv, RevokedIsEmpty, ResultsInv, Live, Bound
<1> QED BY <1>5, <1>7, <1>8, <1>9, <1>10, <1>11 DEF PendingInv

-----------------------------------------------------------------------------
LEMMA OwnerRevoked ==
  ASSUME IInv, NEW C \in SUBSET Calls, \A c \in C : calls[c].state = "checking",
         RevokeOwner(C), handling' \subseteq handling
  PROVE  IInv'
<1>1. /\ calls' = Answered(Waiters(Bound) \union C, "revoked")
      /\ pending' = Emptied(Bound) /\ receipts' = Cleared(Bound)
      /\ doc' = [d \in Docs |-> IF d \in Bound THEN "revoked" ELSE doc[d]]
      /\ owner' = "revoked" /\ timer' = FALSE /\ conn' = Shut(socket)
      /\ socket' = socket /\ last' = last /\ sent' = sent
  BY DEF RevokeOwner, RevokeDocuments
<1>2. /\ doc' \in [Docs -> {"none", "bound", "revoked"}]
      /\ \A d \in Docs \ Bound : doc'[d] = doc[d]
  BY <1>1 DEF IInv, TypeOK
<1>3. /\ CallsInv' /\ WaitersHeld' /\ OnlyWaiters' /\ ResultsInv'
      /\ pending' \in [Docs -> [Seqs -> Calls \union {None}]]
      /\ receipts' \in [Docs -> SUBSET Receipt]
      /\ calls' \in [Calls -> CallRecord]
  BY <1>1, <1>2, Dismissal
<1>4. RevokedIsEmpty'
  BY <1>1 DEF RevokedIsEmpty, Bound
<1>5. conn' \in [Sockets -> {"unused", "upgrading", "open", "closing", "closed"}]
  BY <1>1 DEF Shut, IInv, TypeOK
<1>6. TypeOK'
  BY <1>1, <1>2, <1>3, <1>5 DEF IInv, TypeOK, CallRecord
<1> QED BY <1>3, <1>4, <1>6 DEF IInv, PendingInv

LEMMA DocumentSteps ==
  ASSUME IInv, NEW d \in Docs, Bind(d) \/ Unbind(d) \/ ReceiptAges(d)
  PROVE  IInv'
<1>1. CASE Bind(d)
  <2>1. /\ calls' = calls /\ pending' = pending /\ last' = last /\ owner' = owner
        /\ sent' = sent /\ socket' = socket /\ receipts' = receipts /\ handling' = handling
        /\ timer' = timer /\ conn' = conn /\ Live
        /\ doc' = [doc EXCEPT ![d] = "bound"]
    BY <1>1 DEF Bind
  <2>2. TypeOK'
    BY <2>1 DEF IInv, TypeOK
  <2>3. \A e \in Bound : doc'[e] = "bound"
    BY <2>1 DEF IInv, TypeOK, Bound
  <2>4. CallsInv' /\ WaitersHeld' /\ OnlyWaiters'
    BY <2>1, <2>3, Apart
  <2>5. RevokedIsEmpty' /\ ResultsInv'
    BY <2>1 DEF RevokedIsEmpty, Live, ResultsInv, IInv
  <2> QED BY <2>2, <2>4, <2>5 DEF IInv, PendingInv
<1>2. CASE Unbind(d)
  <2>1. /\ calls' = Answered(Waiters({d}) \union {}, "revoked")
        /\ pending' = Emptied({d}) /\ receipts' = Cleared({d})
        /\ doc' = [e \in Docs |-> IF e \in {d} THEN "revoked" ELSE doc[e]]
        /\ {d} \in SUBSET Bound /\ Live
        /\ UNCHANGED <<owner, timer, socket, conn, last, handling, sent>>
    BY <1>2 DEF Unbind, RevokeDocuments
  <2>2. /\ doc' \in [Docs -> {"none", "bound", "revoked"}]
        /\ \A e \in Docs \ {d} : doc'[e] = doc[e]
    BY <2>1 DEF IInv, TypeOK
  <2>3. /\ CallsInv' /\ WaitersHeld' /\ OnlyWaiters' /\ ResultsInv'
        /\ pending' \in [Docs -> [Seqs -> Calls \union {None}]]
        /\ receipts' \in [Docs -> SUBSET Receipt]
        /\ calls' \in [Calls -> CallRecord]
    <3>1. /\ {} \in SUBSET Calls /\ \A c \in {} : calls[c].state = "checking"
          /\ last' = last /\ sent' = sent /\ handling' \subseteq handling
          /\ owner' = owner /\ socket' = socket
      BY <2>1
    <3> QED BY <2>1, <2>2, <3>1, Dismissal
  <2>4. RevokedIsEmpty' /\ TypeOK'
    BY <2>1, <2>2, <2>3 DEF RevokedIsEmpty, Live, IInv, TypeOK, CallRecord
  <2> QED BY <2>3, <2>4 DEF IInv, PendingInv
<1>3. CASE ReceiptAges(d)
  <2>1. PICK r \in receipts[d] :
          receipts' = [receipts EXCEPT ![d] = (@ \ {r}) \union {[r EXCEPT !.stale = TRUE]}]
    BY <1>3 DEF ReceiptAges
  <2>2. UNCHANGED <<owner, timer, socket, conn, doc, last, pending, calls, handling, sent>>
    BY <1>3 DEF ReceiptAges
  <2>3. receipts \in [Docs -> SUBSET Receipt] /\ r \in Receipt
    BY DEF IInv, TypeOK
  <2>4. /\ [r EXCEPT !.stale = TRUE] \in Receipt
        /\ [r EXCEPT !.stale = TRUE].seq = r.seq /\ [r EXCEPT !.stale = TRUE].value = r.value
    BY <2>3 DEF Receipt
  <2>5. receipts' \in [Docs -> SUBSET Receipt]
    BY <2>1, <2>3, <2>4
  <2>6. TypeOK'
    BY <2>2, <2>5 DEF IInv, TypeOK
  <2>7. CallsInv' /\ WaitersHeld' /\ OnlyWaiters'
    BY <2>2, Apart DEF Bound
  <2>8. ASSUME NEW e \in Docs, NEW x \in receipts'[e] PROVE sent[e][x.seq] = x.value
    <3>1. PICK y \in receipts[e] : x.seq = y.seq /\ x.value = y.value
      <4>1. CASE e = d
        BY <2>1, <2>3, <2>4, <4>1
      <4>2. CASE e # d
        BY <2>1, <2>3, <4>2
      <4> QED BY <4>1, <4>2
    <3> QED BY <3>1 DEF IInv, ResultsInv
  <2>9. RevokedIsEmpty' /\ ResultsInv'
    BY <2>2, <2>8 DEF RevokedIsEmpty, Live, Bound, ResultsInv, IInv, PendingInv
  <2> QED BY <2>6, <2>7, <2>9 DEF IInv, PendingInv
<1> QED BY <1>1, <1>2, <1>3

LEMMA OwnerSteps ==
  ASSUME IInv, OwnerEnds \/ GraceExpires \/ Sweep
  PROVE  IInv'
<1>1. CASE RevokeOwner({}) /\ handling' = handling
  BY <1>1, OwnerRevoked
<1>2. CASE /\ timer' = FALSE
           /\ UNCHANGED <<owner, socket, conn, doc, last, pending, receipts, calls,
                          handling, sent>>
  <2>1. CallsInv' /\ WaitersHeld' /\ OnlyWaiters'
    BY <1>2, Apart DEF Bound
  <2> QED BY <1>2, <2>1 DEF IInv, TypeOK, PendingInv, RevokedIsEmpty, Live, Bound, ResultsInv
<1>3. CASE Sweep
  <2>1. /\ receipts' = [d \in Docs |-> {r \in receipts[d] : ~ r.stale}]
        /\ UNCHANGED <<owner, timer, socket, conn, doc, last, pending, calls, handling, sent>>
    BY <1>3 DEF Sweep
  <2>2. CallsInv' /\ WaitersHeld' /\ OnlyWaiters'
    BY <2>1, Apart DEF Bound
  <2>3. TypeOK'
    BY <2>1 DEF IInv, TypeOK
  <2>4. RevokedIsEmpty' /\ ResultsInv'
    BY <2>1 DEF IInv, PendingInv, RevokedIsEmpty, Live, Bound, ResultsInv
  <2> QED BY <2>2, <2>3, <2>4 DEF IInv, PendingInv
<1> QED BY <1>1, <1>2, <1>3 DEF OwnerEnds, GraceExpires

-----------------------------------------------------------------------------
LEMMA SocketSteps ==
  ASSUME IInv, NEW s \in Sockets, Upgrade(s) \/ Attach(s) \/ Closing(s) \/ Closed(s)
  PROVE  IInv'
<1> DEFINE Conns == [Sockets -> {"unused", "upgrading", "open", "closing", "closed"}]
<1>1. conn \in Conns /\ s # 0 /\ Shut(socket) \in Conns
  BY DEF IInv, TypeOK, Shut, Sockets
<1>2. ASSUME calls' = calls, pending' = pending, last' = last, owner' = owner, doc' = doc,
             sent' = sent, receipts' = receipts, handling' = handling,
             socket' \in {socket, s}, timer' \in BOOLEAN, conn' \in Conns
      PROVE  IInv'
  <2>1. CallsInv' /\ WaitersHeld' /\ OnlyWaiters'
    BY <1>1, <1>2, Apart DEF Bound
  <2>2. TypeOK'
    BY <1>2 DEF IInv, TypeOK, Sockets
  <2>3. RevokedIsEmpty' /\ ResultsInv'
    BY <1>2 DEF IInv, PendingInv, RevokedIsEmpty, Live, Bound, ResultsInv
  <2> QED BY <2>1, <2>2, <2>3 DEF IInv, PendingInv
<1>3. CASE Upgrade(s) \/ Closing(s)
  <2>1. timer' = timer /\ socket' = socket /\ conn' \in Conns
    BY <1>1, <1>3 DEF Upgrade, Closing
  <2>2. timer \in BOOLEAN
    BY DEF IInv, TypeOK
  <2> QED BY <1>2, <1>3, <2>1, <2>2 DEF Upgrade, Closing
<1>4. CASE Attach(s)
  <2>1. CASE RevokeOwner({}) /\ handling' = handling
    BY <2>1, OwnerRevoked
  <2>2. CASE /\ timer' = FALSE /\ socket' = s /\ conn' = [Shut(socket) EXCEPT ![s] = "open"]
             /\ UNCHANGED <<owner, doc, last, pending, receipts, calls, handling, sent>>
    <3>1. conn' \in Conns
      BY <1>1, <2>2
    <3> QED BY <1>2, <2>2, <3>1
  <2>3. CASE /\ conn' = [conn EXCEPT ![s] = "closed"]
             /\ UNCHANGED <<owner, timer, socket, doc, last, pending, receipts, calls,
                            handling, sent>>
    <3>1. conn' \in Conns /\ timer \in BOOLEAN
      BY <1>1, <2>3 DEF IInv, TypeOK
    <3> QED BY <1>2, <2>3, <3>1
  <2> QED BY <1>4, <2>1, <2>2, <2>3 DEF Attach
<1>5. CASE Closed(s) /\ socket # s
  <2>1. conn' \in Conns /\ timer \in BOOLEAN
    BY <1>1, <1>5 DEF Closed, IInv, TypeOK
  <2> QED BY <1>2, <1>5, <2>1 DEF Closed
<1>6. CASE Closed(s) /\ socket = s
  <2>1. /\ conn' = [conn EXCEPT ![s] = "closed"] /\ socket' = 0 /\ timer' = TRUE
        /\ calls' = Answered(Waiters(Bound) \union {}, "disconnected")
        /\ pending' = Emptied(Bound) /\ receipts' = Cleared(Bound)
        /\ owner' = owner /\ doc' = doc /\ last' = last /\ handling' = handling
        /\ sent' = sent
    BY <1>6 DEF Closed
  <2>2. /\ {} \in SUBSET Calls /\ \A c \in {} : calls[c].state = "checking"
        /\ handling' \subseteq handling /\ Bound \in SUBSET Bound
        /\ doc' \in [Docs -> {"none", "bound", "revoked"}]
        /\ \A d \in Docs \ Bound : doc'[d] = doc[d]
    BY <2>1 DEF IInv, TypeOK
  <2>3. /\ CallsInv' /\ WaitersHeld' /\ OnlyWaiters' /\ ResultsInv'
        /\ pending' \in [Docs -> [Seqs -> Calls \union {None}]]
        /\ receipts' \in [Docs -> SUBSET Receipt]
        /\ calls' \in [Calls -> CallRecord]
    BY <2>1, <2>2, Dismissal
  <2>4. RevokedIsEmpty'
    BY <2>1 DEF IInv, PendingInv, RevokedIsEmpty, Live, Bound
  <2>5. TypeOK'
    <3>1. conn' \in Conns /\ 0 \in 0..MaxSocket
      BY <1>1, <2>1, RendezvousAssumption
    <3> QED BY <2>1, <2>3, <3>1 DEF IInv, TypeOK, CallRecord
  <2> QED BY <2>3, <2>4, <2>5 DEF IInv, PendingInv
<1> QED BY <1>3, <1>4, <1>5, <1>6

LEMMA ReportStep ==
  ASSUME IInv, NEW s \in Sockets, NEW d \in Docs, NEW q \in Seqs, NEW v \in Values,
         Report(s, d, q, v)
  PROVE  IInv'
<1>1. /\ sent[d][q] \in {None, v} /\ sent' = [sent EXCEPT ![d][q] = v]
      /\ UNCHANGED <<owner, timer, socket, conn, doc, last, pending, receipts, calls>>
      /\ handling' \subseteq handling \union {[socket |-> s, doc |-> d, seq |-> q, value |-> v]}
  BY DEF Report
<1>2. /\ sent \in [Docs -> [Seqs -> Values \union {None}]] /\ handling \subseteq Result
      /\ receipts \in [Docs -> SUBSET Receipt]
  BY DEF IInv, TypeOK
<1>3. /\ sent' \in [Docs -> [Seqs -> Values \union {None}]] /\ sent'[d][q] = v
      /\ \A e \in Docs, n \in Seqs : e # d \/ n # q => sent'[e][n] = sent[e][n]
  BY <1>1, <1>2
<1>4. \A e \in Docs, n \in Seqs : sent[e][n] # None => sent'[e][n] = sent[e][n]
  BY <1>1, <1>3
<1>5. CallsInv' /\ WaitersHeld' /\ OnlyWaiters'
  BY <1>1, <1>4, Apart DEF Bound
<1>6. [socket |-> s, doc |-> d, seq |-> q, value |-> v] \in Result
  BY DEF Result
<1>7. TypeOK'
  BY <1>1, <1>2, <1>3, <1>6 DEF IInv, TypeOK
<1>8. None \notin Values
  BY Basics
<1>9. \A e \in Docs : \A r \in receipts'[e] : sent'[e][r.seq] = r.value
  <2> SUFFICES ASSUME NEW e \in Docs, NEW r \in receipts[e] PROVE sent'[e][r.seq] = r.value
    BY <1>1
  <2>1. r.seq \in Seqs /\ r.value \in Values /\ sent[e][r.seq] = r.value
    BY <1>2 DEF Receipt, IInv, ResultsInv
  <2> QED BY <1>4, <1>8, <2>1
<1>10. \A m \in handling' : sent'[m.doc][m.seq] = m.value
  <2> SUFFICES ASSUME NEW m \in handling' PROVE sent'[m.doc][m.seq] = m.value
    OBVIOUS
  <2>1. CASE m \in handling
    <3>1. m.doc \in Docs /\ m.seq \in Seqs /\ m.value \in Values /\ sent[m.doc][m.seq] = m.value
      BY <1>2, <2>1 DEF Result, IInv, ResultsInv
    <3> QED BY <1>4, <1>8, <3>1
  <2>2. CASE m = [socket |-> s, doc |-> d, seq |-> q, value |-> v]
    BY <1>3, <2>2
  <2> QED BY <1>1, <2>1, <2>2
<1>11. RevokedIsEmpty'
  BY <1>1 DEF IInv, PendingInv, RevokedIsEmpty, Live, Bound
<1> QED BY <1>5, <1>7, <1>9, <1>10, <1>11 DEF IInv, PendingInv, ResultsInv

LEMMA HandleStep ==
  ASSUME IInv, NEW m \in handling, Handle(m)
  PROVE  IInv'
<1>1. handling' \subseteq handling
  BY DEF Handle
<1>2. /\ m.doc \in Docs /\ m.seq \in Seqs /\ m.value \in Values /\ m \in Result
      /\ sent[m.doc][m.seq] = m.value
  BY DEF IInv, TypeOK, Result, ResultsInv
<1>3. handling' \subseteq Result
  BY <1>1 DEF IInv, TypeOK
<1>4. CASE RevokeOwner({})
  BY <1>1, <1>4, OwnerRevoked
<1>5. CASE Ignore(m)
  <2>1. UNCHANGED <<owner, timer, socket, conn, doc, last, pending, receipts, calls, sent>>
    BY <1>5 DEF Ignore
  <2>2. CallsInv' /\ WaitersHeld' /\ OnlyWaiters'
    BY <2>1, Apart DEF Bound
  <2> QED BY <1>1, <1>3, <2>1, <2>2
          DEF IInv, TypeOK, PendingInv, RevokedIsEmpty, Live, Bound, ResultsInv
<1>6. CASE Deliver(m)
  <2>1. UNCHANGED <<owner, timer, socket, conn, doc, last, sent>>
    BY <1>6 DEF Deliver
  <2>2. CASE Finish(m.doc, m.seq, m.value) /\ receipts' = receipts
    <3>1. /\ CallsInv' /\ PendingInv' /\ ResultsInv'
          /\ pending' \in [Docs -> [Seqs -> Calls \union {None}]]
          /\ calls' \in [Calls -> CallRecord]
      <4>1. m.value \in Answers
        BY <1>2 DEF Answers
      <4> QED BY <1>1, <1>2, <2>1, <2>2, <4>1, Finishing
    <3>2. TypeOK'
      BY <1>3, <2>1, <2>2, <3>1 DEF IInv, TypeOK, CallRecord
    <3> QED BY <3>1, <3>2 DEF IInv
  <2>3. CASE /\ receipts' = [receipts EXCEPT ![m.doc] =
                  Kept({r \in @ : r.seq # m.seq} \union
                       {[seq |-> m.seq, value |-> m.value, stale |-> FALSE]})]
             /\ UNCHANGED <<pending, calls>>
    <3>1. receipts \in [Docs -> SUBSET Receipt]
      BY DEF IInv, TypeOK
    <3> DEFINE new == [seq |-> m.seq, value |-> m.value, stale |-> FALSE]
    <3>2. new \in Receipt /\ new.seq = m.seq /\ new.value = m.value
      BY <1>2 DEF Receipt
    <3>3. \A R : Kept(R) \subseteq R
      BY DEF Kept
    <3>4. /\ \A d \in Docs \ {m.doc} : receipts'[d] = receipts[d]
          /\ receipts'[m.doc] \subseteq receipts[m.doc] \union {new}
          /\ receipts' \in [Docs -> SUBSET Receipt]
      <4> HIDE DEF new
      <4>1. receipts' = [receipts EXCEPT ![m.doc] =
                           Kept({r \in receipts[m.doc] : r.seq # m.seq} \union {new})]
        BY <2>3 DEF new
      <4>2. Kept({r \in receipts[m.doc] : r.seq # m.seq} \union {new})
              \subseteq receipts[m.doc] \union {new}
        BY <3>3
      <4> QED BY <1>2, <3>1, <3>2, <4>1, <4>2
    <3>5. CallsInv' /\ WaitersHeld' /\ OnlyWaiters'
      BY <2>1, <2>3, Apart DEF Bound
    <3>6. TypeOK'
      BY <1>3, <2>1, <2>3, <3>4 DEF IInv, TypeOK
    <3>7. ASSUME NEW d \in Docs, NEW r \in receipts'[d] PROVE sent[d][r.seq] = r.value
      <4>1. CASE r \in receipts[d]
        BY <4>1 DEF IInv, ResultsInv
      <4>2. CASE d = m.doc /\ r = new
        BY <1>2, <3>2, <4>2
      <4> QED BY <3>4, <4>1, <4>2
    <3>8. RevokedIsEmpty' /\ ResultsInv'
      BY <1>1, <2>1, <3>7 DEF IInv, PendingInv, RevokedIsEmpty, Live, Bound, ResultsInv
    <3> QED BY <3>5, <3>6, <3>8 DEF IInv, PendingInv
  <2> QED BY <1>6, <2>2, <2>3 DEF Deliver
<1> QED BY <1>4, <1>5, <1>6 DEF Handle

-----------------------------------------------------------------------------
(* Handlers of POST commit.  Each touches one request. *)
LEMMA PostStep ==
  ASSUME IInv, NEW c \in Calls, NEW d \in Docs, NEW q \in Seqs, Post(c, d, q)
  PROVE  IInv'
<1> DEFINE asked == [state |-> "checking", doc |-> d, seq |-> q, answer |-> None]
           gone  == [state |-> "answered", doc |-> d, seq |-> q, answer |-> "revoked"]
<1>1. /\ calls[c].state = "idle"
      /\ calls' = [calls EXCEPT ![c] = IF d \in Bound THEN asked ELSE gone]
      /\ UNCHANGED <<owner, timer, socket, conn, doc, last, pending, receipts, handling, sent>>
  BY DEF Post
<1>2. /\ asked \in CallRecord /\ asked.state = "checking" /\ asked.answer = None
      /\ asked.doc = d /\ asked.seq = q
      /\ gone \in CallRecord /\ gone.state = "answered" /\ gone.answer = "revoked"
      /\ gone.doc = d /\ gone.seq = q
  BY RendezvousAssumption DEF CallRecord, Answers, Seqs
<1> HIDE DEF asked, gone
<1>3. calls \in [Calls -> CallRecord]
  BY DEF IInv, TypeOK, CallRecord
<1>4. /\ calls' \in [Calls -> CallRecord] /\ calls'[c] \in {asked, gone}
      /\ \A b \in Calls \ {c} : calls'[b] = calls[b]
  BY <1>1, <1>2, <1>3
<1>5. CallsInv'
  <2>1. None \notin Values /\ "revoked" \notin Values
    BY Basics
  <2>2. Posted(c)
    BY <1>1, <1>2, <1>4, <2>1 DEF Posted
  <2>3. \A b \in Calls : Stays(b) \/ Posted(b)
    BY <1>4, <2>2 DEF Stays
  <2>4. \A e \in Docs : last'[e] \in Nat /\ last[e] <= last'[e]
    BY <1>1, Basics
  <2> QED BY <1>1, <2>3, <2>4, CallStep
<1>6. WaitersHeld' /\ OnlyWaiters' /\ RevokedIsEmpty'
  BY <1>1, <1>2, <1>4, Aside
<1>7. TypeOK' /\ ResultsInv'
  BY <1>1, <1>4 DEF IInv, TypeOK, CallRecord, ResultsInv
<1> QED BY <1>5, <1>6, <1>7 DEF IInv, PendingInv

(* A request that was being checked is answered at once. *)
LEMMA AnsweredAtOnce ==
  ASSUME IInv, NEW c \in Calls, NEW a \in Answers, calls[c].state = "checking",
         calls' = Answered({c}, a),
         last' = last \/ (last' = [last EXCEPT ![calls[c].doc] = calls[c].seq]
                          /\ last[calls[c].doc] < calls[c].seq),
         a \notin Values \/ (last' # last /\ a = sent[calls[c].doc][calls[c].seq]),
         \A d \in Docs : receipts'[d] \subseteq receipts[d],
         receipts' \in [Docs -> SUBSET Receipt],
         UNCHANGED <<owner, timer, socket, conn, doc, pending, handling, sent>>
  PROVE  IInv'
<1>1. /\ \A b \in Calls : calls[b] \in CallRecord
      /\ calls[c].doc \in Docs /\ calls[c].seq \in Seqs /\ Seqs \subseteq Nat
      /\ last \in [Docs -> 0..MaxSeq]
  BY Basics DEF IInv, TypeOK
<1>2. /\ \A b \in Calls \ {c} : calls'[b] = calls[b]
      /\ calls'[c] = [calls[c] EXCEPT !.state = "answered", !.answer = a]
  BY DEF Answered
<1>3. /\ calls'[c] \in CallRecord /\ Same(c)
      /\ calls'[c].state = "answered" /\ calls'[c].answer = a
  <2>1. calls[c] \in CallRecord
    BY <1>1
  <2> QED BY <1>2, <2>1 DEF CallRecord, Same
<1>4. calls' \in [Calls -> CallRecord]
  <2>1. \A b \in Calls : calls'[b] \in CallRecord
    BY <1>1, <1>2, <1>3
  <2> QED BY <2>1 DEF Answered
<1>5. /\ last' \in [Docs -> 0..MaxSeq]
      /\ \A d \in Docs : last'[d] \in Nat /\ last[d] <= last'[d]
  <2>1. calls[c].seq \in 0..MaxSeq
    BY <1>1 DEF Seqs
  <2>2. last' \in [Docs -> 0..MaxSeq]
    BY <1>1, <2>1
  <2>3. ASSUME NEW d \in Docs PROVE last'[d] \in Nat /\ last[d] <= last'[d]
    <3>1. last[d] \in Nat /\ last'[d] \in Nat
      BY RendezvousAssumption, <1>1, <2>2
    <3>3. calls[c].seq \in Nat
      BY <1>1
    <3>2. last'[d] = last[d] \/ (last'[d] = calls[c].seq /\ last[d] < calls[c].seq)
      BY <1>1
    <3> QED BY <3>1, <3>2, <3>3
  <2> QED BY <2>2, <2>3
<1>6. CallsInv'
  <2>1. \A b \in Calls \ {c} : Stays(b)
    BY <1>2 DEF Stays
  <2>2. CASE a \notin Values
    <3>1. Refusal(c)
      BY <1>3, <2>2 DEF Refusal
    <3> QED BY <1>5, <2>1, <3>1, CallStep
  <2>3. CASE last' # last /\ a = sent[calls[c].doc][calls[c].seq]
    <3>1. last'[calls[c].doc] = calls[c].seq /\ calls[c].seq > last[calls[c].doc]
      BY <1>1, <2>3
    <3>2. Takes(c)
      BY <1>3, <2>3, <3>1 DEF Takes
    <3> QED BY <1>5, <2>1, <3>2, CallStep
  <2> QED BY <2>2, <2>3
<1>7. WaitersHeld' /\ OnlyWaiters' /\ RevokedIsEmpty'
  BY <1>2, <1>3, Aside
<1>8. TypeOK' /\ ResultsInv'
  BY <1>4, <1>5 DEF IInv, TypeOK, CallRecord, ResultsInv
<1> QED BY <1>6, <1>7, <1>8 DEF IInv, PendingInv

LEMMA RefuseStep ==
  ASSUME IInv, NEW c \in Calls, Refuse(c)
  PROVE  IInv'
<1>1. calls[c].state = "checking"
  BY DEF Refuse
<1>2. CASE RevokeOwner({c}) /\ handling' = handling
  BY <1>1, <1>2, OwnerRevoked
<1>3. CASE /\ calls' = Answered({c}, "revoked")
           /\ UNCHANGED <<owner, timer, socket, conn, doc, last, pending, receipts,
                          handling, sent>>
  <2>1. "revoked" \notin Values /\ "revoked" \in Answers
    BY Basics DEF Answers
  <2>2. receipts' \in [Docs -> SUBSET Receipt]
    BY <1>3 DEF IInv, TypeOK
  <2> QED BY <1>1, <1>3, <2>1, <2>2, AnsweredAtOnce
<1> QED BY <1>2, <1>3 DEF Refuse

LEMMA WaitingStep ==
  ASSUME IInv, NEW c \in Calls, NEW d \in Bound, NEW q \in Seqs,
         calls[c].state = "checking", calls[c].doc = d, calls[c].seq = q,
         Live, socket # 0, last[d] < q, last' = [last EXCEPT ![d] = q],
         calls' = [calls EXCEPT ![c].state = "waiting"],
         pending' = [pending EXCEPT ![d][q] = c],
         \A e \in Docs : receipts'[e] \subseteq receipts[e],
         receipts' \in [Docs -> SUBSET Receipt],
         UNCHANGED <<owner, timer, socket, conn, doc, handling, sent>>
  PROVE  IInv'
<1>1. /\ calls \in [Calls -> CallRecord] /\ d \in Docs /\ Seqs \subseteq Nat
      /\ last \in [Docs -> 0..MaxSeq]
      /\ pending \in [Docs -> [Seqs -> Calls \union {None}]]
      /\ q \in 0..MaxSeq /\ q \in Nat /\ last[d] \in Nat /\ c # None
      /\ calls[c].answer = None
  BY Basics DEF IInv, TypeOK, CallRecord, Bound, Seqs, CallsInv
<1>2. /\ \A b \in Calls \ {c} : calls'[b] = calls[b]
      /\ calls'[c] \in CallRecord /\ calls'[c].state = "waiting" /\ calls'[c].answer = None
      /\ Same(c) /\ calls' \in [Calls -> CallRecord]
  <2>1. calls'[c] = [calls[c] EXCEPT !.state = "waiting"] /\ calls[c] \in CallRecord
    BY <1>1
  <2>2. /\ calls'[c] \in CallRecord /\ calls'[c].state = "waiting"
        /\ calls'[c].answer = None /\ Same(c)
    BY <1>1, <2>1 DEF CallRecord, Same
  <2> QED BY <1>1, <2>2
<1>3. /\ last' \in [Docs -> 0..MaxSeq] /\ last'[d] = q
      /\ \A e \in Docs : last'[e] \in Nat /\ last[e] <= last'[e]
  <2>1. last' \in [Docs -> 0..MaxSeq] /\ last'[d] = q
    BY <1>1
  <2>2. ASSUME NEW e \in Docs PROVE last'[e] \in Nat /\ last[e] <= last'[e]
    <3>1. last[e] \in Nat /\ last'[e] \in Nat
      BY RendezvousAssumption, <1>1, <2>1
    <3>2. e # d => last'[e] = last[e]
      BY <1>1
    <3> QED BY <1>1, <2>1, <3>1, <3>2
  <2> QED BY <2>1, <2>2
<1>4. CallsInv'
  <2>1. Takes(c)
    BY <1>1, <1>2, <1>3 DEF Takes
  <2>2. \A b \in Calls : b # c => Stays(b)
    BY <1>2 DEF Stays
  <2> QED BY <1>3, <2>1, <2>2, CallStep
<1>5. /\ pending' \in [Docs -> [Seqs -> Calls \union {None}]] /\ pending'[d][q] = c
      /\ \A e \in Docs, n \in Seqs : e # d \/ n # q => pending'[e][n] = pending[e][n]
  BY <1>1
<1>6. calls'[c].doc = d /\ calls'[c].seq = q
  BY <1>2 DEF Same
<1>7. WaitersHeld'
  <2> SUFFICES ASSUME NEW b \in Calls, calls'[b].state = "waiting"
               PROVE  /\ pending'[calls'[b].doc][calls'[b].seq] = b
                      /\ Live' /\ calls'[b].doc \in Bound' /\ socket' # 0
    BY DEF WaitersHeld
  <2>1. CASE b = c
    BY <1>5, <1>6, <2>1 DEF Live, Bound
  <2>2. CASE b # c
    <3>1. calls'[b] = calls[b] /\ calls[b].state = "waiting"
      BY <1>2, <2>2
    <3>2. /\ pending[calls[b].doc][calls[b].seq] = b /\ calls[b].doc \in Docs
          /\ calls[b].seq \in Seqs /\ calls[b].doc \in Bound
      BY <3>1 DEF IInv, PendingInv, WaitersHeld, CallsInv
    <3>3. calls[b].doc # d \/ calls[b].seq # q
      BY <1>2, <1>4, <1>6, <2>2, <3>1 DEF CallsInv, Taken
    <3> QED BY <1>5, <3>1, <3>2, <3>3 DEF Live, Bound
  <2> QED BY <2>1, <2>2
<1>8. OnlyWaiters'
  <2> SUFFICES ASSUME NEW e \in Docs, NEW n \in Seqs, pending'[e][n] # None
               PROVE  /\ pending'[e][n] \in Calls
                      /\ calls'[pending'[e][n]].state = "waiting"
                      /\ calls'[pending'[e][n]].doc = e /\ calls'[pending'[e][n]].seq = n
    BY DEF OnlyWaiters
  <2>1. CASE e = d /\ n = q
    BY <1>2, <1>5, <1>6, <2>1
  <2>2. CASE e # d \/ n # q
    <3>1. /\ pending'[e][n] = pending[e][n] /\ pending[e][n] \in Calls
          /\ calls[pending[e][n]].state = "waiting"
          /\ calls[pending[e][n]].doc = e /\ calls[pending[e][n]].seq = n
      BY <1>5, <2>2 DEF IInv, PendingInv, OnlyWaiters
    <3> QED BY <1>2, <3>1
  <2> QED BY <2>1, <2>2
<1>9. TypeOK' /\ ResultsInv' /\ RevokedIsEmpty'
  BY <1>2, <1>3, <1>5
     DEF IInv, TypeOK, CallRecord, ResultsInv, PendingInv, RevokedIsEmpty, Live, Bound
<1> QED BY <1>4, <1>7, <1>8, <1>9 DEF IInv, PendingInv

LEMMA CommitStep ==
  ASSUME IInv, NEW c \in Calls, Commit(c)
  PROVE  IInv'
<1> DEFINE d == calls[c].doc
           q == calls[c].seq
           early == {r \in receipts[d] : r.seq = q}
<1>1. /\ calls[c].state = "checking" /\ Live /\ d \in Bound /\ d \in Docs /\ q \in Seqs
      /\ UNCHANGED <<owner, timer, socket, conn, doc, handling, sent>>
  BY DEF Commit, Bound, IInv, CallsInv
<1>2. receipts \in [Docs -> SUBSET Receipt] /\ last[d] \in Nat /\ q \in Nat
  BY <1>1, Basics DEF IInv, TypeOK
<1>3. CASE calls' = Answered({c}, "sequence") /\ UNCHANGED <<last, pending, receipts>>
  <2>1. "sequence" \notin Values /\ "sequence" \in Answers
    BY Basics DEF Answers
  <2> QED BY <1>1, <1>2, <1>3, <2>1, AnsweredAtOnce
<1>4. InSequence(d, q) => last[d] < q
  BY <1>2 DEF InSequence
<1>5. CASE /\ InSequence(d, q) /\ calls' = Answered({c}, "disconnected")
           /\ last' = [last EXCEPT ![d] = q] /\ UNCHANGED <<pending, receipts>>
  <2>1. "disconnected" \notin Values /\ "disconnected" \in Answers
    BY Basics DEF Answers
  <2> QED BY <1>1, <1>2, <1>4, <1>5, <2>1, AnsweredAtOnce
<1>6. ASSUME InSequence(d, q), receipts' = [receipts EXCEPT ![d] = @ \ early]
      PROVE  /\ receipts' \in [Docs -> SUBSET Receipt]
             /\ \A e \in Docs : receipts'[e] \subseteq receipts[e]
  BY <1>1, <1>2, <1>6
<1>7. ASSUME InSequence(d, q), last' = [last EXCEPT ![d] = q],
             receipts' = [receipts EXCEPT ![d] = @ \ early], pending' = pending,
             NEW r \in early, calls' = Answered({c}, r.value)
      PROVE  IInv'
  <2>1. r \in receipts[d] /\ r.seq = q /\ r.value \in Values
    BY <1>1, <1>2 DEF Receipt
  <2>2. r.value = sent[d][q] /\ r.value \in Answers
    BY <1>1, <2>1 DEF IInv, ResultsInv, Answers
  <2>3. last' # last
    <3>1. last \in [Docs -> 0..MaxSeq]
      BY DEF IInv, TypeOK
    <3>2. last'[d] = q
      BY <1>1, <1>7, <3>1
    <3> QED BY <1>2, <1>4, <1>7, <3>2
  <2> QED BY <1>1, <1>4, <1>6, <1>7, <2>2, <2>3, AnsweredAtOnce
<1>8. CASE /\ InSequence(d, q) /\ last' = [last EXCEPT ![d] = q]
           /\ receipts' = [receipts EXCEPT ![d] = @ \ early] /\ pending' = pending
           /\ calls' = Answered({c}, "full")
  <2>1. "full" \notin Values /\ "full" \in Answers
    BY Basics DEF Answers
  <2> QED BY <1>1, <1>4, <1>6, <1>8, <2>1, AnsweredAtOnce
<1>9. CASE /\ InSequence(d, q) /\ Open /\ last' = [last EXCEPT ![d] = q]
           /\ receipts' = [receipts EXCEPT ![d] = @ \ early]
           /\ calls' = [calls EXCEPT ![c].state = "waiting"]
           /\ pending' = [pending EXCEPT ![d][q] = c]
  <2>1. socket # 0
    BY <1>9 DEF Open
  <2> QED BY <1>1, <1>4, <1>6, <1>9, <2>1, WaitingStep
<1> QED BY <1>3, <1>5, <1>7, <1>8, <1>9 DEF Commit

LEMMA ExpireStep ==
  ASSUME IInv, NEW c \in Calls, NEW a \in {"timeout", "aborted"}, Expire(c, a)
  PROVE  IInv'
<1>1. /\ calls[c].doc \in Docs /\ calls[c].seq \in Seqs
      /\ Finish(calls[c].doc, calls[c].seq, a)
      /\ UNCHANGED <<owner, timer, socket, conn, doc, last, receipts, handling, sent>>
  BY DEF Expire, IInv, CallsInv
<1>2. a \in Answers /\ a \notin Values
  BY Basics DEF Answers
<1>3. /\ CallsInv' /\ PendingInv' /\ ResultsInv'
      /\ pending' \in [Docs -> [Seqs -> Calls \union {None}]]
      /\ calls' \in [Calls -> CallRecord]
  BY <1>1, <1>2, Finishing
<1>4. TypeOK'
  BY <1>1, <1>3 DEF IInv, TypeOK, CallRecord
<1> QED BY <1>3, <1>4 DEF IInv

-----------------------------------------------------------------------------
LEMMA IInvInit == Init => IInv
<1> SUFFICES ASSUME Init PROVE IInv
  OBVIOUS
<1>1. Idle \in CallRecord /\ Idle.state = "idle" /\ Idle.answer = None
  BY RendezvousAssumption DEF Idle, CallRecord
<1>2. None \notin Values
  BY RendezvousAssumption
<1>3. TypeOK
  BY <1>1, RendezvousAssumption DEF Init, TypeOK, CallRecord
<1>4. CallsInv
  BY <1>1, <1>2 DEF Init, CallsInv, Taken
<1>5. PendingInv /\ ResultsInv
  BY <1>1 DEF Init, PendingInv, WaitersHeld, OnlyWaiters, RevokedIsEmpty, Live, ResultsInv
<1> QED BY <1>3, <1>4, <1>5 DEF IInv

LEMMA IInvStep == IInv /\ [Next]_vars => IInv'
<1> SUFFICES ASSUME IInv, [Next]_vars PROVE IInv'
  OBVIOUS
<1>1. CASE \E d \in Docs : Bind(d) \/ Unbind(d) \/ ReceiptAges(d)
  BY <1>1, DocumentSteps
<1>2. CASE OwnerEnds \/ GraceExpires \/ Sweep
  BY <1>2, OwnerSteps
<1>3. CASE \E c \in Calls, d \in Docs, q \in Seqs : Post(c, d, q)
  BY <1>3, PostStep
<1>4. CASE \E c \in Calls : Refuse(c) \/ Commit(c) \/ Timeout(c) \/ ClientCloses(c)
  BY <1>4, RefuseStep, CommitStep, ExpireStep DEF Timeout, ClientCloses
<1>5. CASE \E s \in Sockets : Upgrade(s) \/ Attach(s) \/ Closing(s) \/ Closed(s)
  BY <1>5, SocketSteps
<1>6. CASE \E s \in Sockets, d \in Docs, q \in Seqs, v \in Values : Report(s, d, q, v)
  BY <1>6, ReportStep
<1>7. CASE \E m \in handling : Handle(m)
  BY <1>7, HandleStep
<1>8. CASE UNCHANGED vars
  <2>1. CallsInv' /\ WaitersHeld' /\ OnlyWaiters'
    BY <1>8, Apart DEF vars, Bound
  <2> QED BY <1>8, <2>1
          DEF vars, IInv, TypeOK, PendingInv, RevokedIsEmpty, Live, Bound, ResultsInv
<1> QED BY <1>1, <1>2, <1>3, <1>4, <1>5, <1>6, <1>7, <1>8 DEF Next

(* The invariant holds in every reachable state. *)
THEOREM RendezvousInvariance == Spec => []IInv
BY IInvInit, IInvStep, PTL DEF Spec

(* No commit is left behind by revocation, disconnection or replacement: one *)
(* that waits is held by its document and can still be answered.             *)
THEOREM NobodyLeftBehind == Spec => []WaitersHeld
<1>1. IInv => WaitersHeld
  BY DEF IInv, PendingInv
<1> QED BY <1>1, RendezvousInvariance, PTL

(* Saved and failed are said only of a sequence the worker reported so. *)
THEOREM Truthful == Spec => []AnswersAreTheWorkers
<1>1. IInv => AnswersAreTheWorkers
  BY DEF IInv, CallsInv, AnswersAreTheWorkers
<1> QED BY <1>1, RendezvousInvariance, PTL

(* No report answers two requests. *)
THEOREM AnsweredOnce == Spec => []OneAcknowledgement
<1>1. IInv => OneAcknowledgement
  BY DEF IInv, CallsInv, Taken, OneAcknowledgement
<1> QED BY <1>1, RendezvousInvariance, PTL

-----------------------------------------------------------------------------
(* The owner's grace timer and the early receipts. *)
GInv == GraceWithoutWorker /\ ReceiptsAhead

LEMMA GInvRevokes ==
  ASSUME IInv, GInv, NEW C, RevokeOwner(C)
  PROVE  GInv'
<1>1. /\ owner' = "revoked" /\ receipts' = Cleared(Bound)
  BY DEF RevokeOwner, RevokeDocuments
<1>2. \A d \in Docs : receipts'[d] = {}
  BY <1>1 DEF Cleared, GInv, ReceiptsAhead
<1> QED BY <1>1, <1>2 DEF GInv, GraceWithoutWorker, ReceiptsAhead, Live

LEMMA GInvStep ==
  ASSUME IInv, GInv, [Next]_vars
  PROVE  GInv'
<1> DEFINE Held == /\ Bound \subseteq Bound' /\ (socket # 0 => socket' # 0)
                   /\ \A d \in Docs, q \in Seqs : pending[d][q] = None => pending'[d][q] = None
                   /\ \A d \in Docs : \A r \in receipts'[d] : \E x \in receipts[d] : x.seq = r.seq
<1>0. /\ receipts \in [Docs -> SUBSET Receipt] /\ socket \in 0..MaxSocket
      /\ pending \in [Docs -> [Seqs -> Calls \union {None}]]
      /\ \A d \in Docs : \A r \in receipts[d] : r.seq \in Seqs
  BY DEF IInv, TypeOK, Receipt
<1>1. Held => ReceiptsAhead'
  BY <1>0 DEF GInv, ReceiptsAhead
<1>2. ASSUME receipts' = receipts, pending' = pending, doc' = doc, socket' = socket
      PROVE  Held
  BY <1>2 DEF Bound
<1>3. ASSUME UNCHANGED <<owner, timer, socket>>
      PROVE  GraceWithoutWorker'
  BY <1>3 DEF GInv, GraceWithoutWorker, Live
<1>4. ASSUME NEW d \in Docs, Bind(d) \/ Unbind(d) \/ ReceiptAges(d)
      PROVE  GInv'
  <2>1. GraceWithoutWorker'
    BY <1>3, <1>4 DEF Bind, Unbind, ReceiptAges
  <2>2. CASE Bind(d)
    <3>1. Held
      BY <2>2 DEF Bind, Bound, IInv, TypeOK
    <3> QED BY <1>1, <2>1, <3>1 DEF GInv
  <2>3. CASE Unbind(d)
    <3>1. /\ receipts' = Cleared({d}) /\ pending' = Emptied({d}) /\ socket' = socket
          /\ \A e \in Docs \ {d} : doc'[e] = doc[e]
      BY <2>3 DEF Unbind, RevokeDocuments
    <3>2. ReceiptsAhead'
      BY <1>0, <3>1 DEF Cleared, Emptied, GInv, ReceiptsAhead, Bound
    <3> QED BY <2>1, <3>2 DEF GInv
  <2>4. CASE ReceiptAges(d)
    <3>1. PICK r \in receipts[d] :
            receipts' = [receipts EXCEPT ![d] = (@ \ {r}) \union {[r EXCEPT !.stale = TRUE]}]
      BY <2>4 DEF ReceiptAges
    <3>2. [r EXCEPT !.stale = TRUE].seq = r.seq
      BY <1>0 DEF Receipt
    <3>3. ASSUME NEW e \in Docs, NEW y \in receipts'[e] PROVE \E x \in receipts[e] : x.seq = y.seq
      <4>1. CASE e = d
        BY <1>0, <3>1, <3>2, <4>1
      <4>2. CASE e # d
        BY <1>0, <3>1, <4>2
      <4> QED BY <4>1, <4>2
    <3>4. Held
      BY <2>4, <3>3 DEF ReceiptAges, Bound
    <3> QED BY <1>1, <2>1, <3>4 DEF GInv
  <2> QED BY <1>4, <2>2, <2>3, <2>4
<1>5. CASE OwnerEnds \/ GraceExpires \/ Sweep
  <2>1. CASE RevokeOwner({})
    BY <2>1, GInvRevokes
  <2>2. CASE /\ ~ Live /\ UNCHANGED <<owner, socket, doc, pending, receipts>>
    BY <1>1, <1>2, <2>2 DEF GInv, GraceWithoutWorker, Live
  <2>3. CASE Sweep
    <3>1. Held /\ GraceWithoutWorker'
      BY <1>3, <2>3 DEF Sweep, Bound
    <3> QED BY <1>1, <3>1 DEF GInv
  <2> QED BY <1>5, <2>1, <2>2, <2>3 DEF OwnerEnds, GraceExpires
<1>6. ASSUME NEW c \in Calls, NEW d \in Docs, NEW q \in Seqs, Post(c, d, q)
      PROVE  GInv'
  BY <1>1, <1>2, <1>3, <1>6 DEF Post, GInv
<1>7. ASSUME NEW c \in Calls, Refuse(c)
      PROVE  GInv'
  <2>1. CASE RevokeOwner({c})
    BY <2>1, GInvRevokes
  <2>2. CASE UNCHANGED <<owner, timer, socket, doc, pending, receipts>>
    BY <1>1, <1>2, <1>3, <2>2 DEF GInv
  <2> QED BY <1>7, <2>1, <2>2 DEF Refuse
<1>8. ASSUME NEW c \in Calls, Commit(c)
      PROVE  GInv'
  <2> DEFINE d == calls[c].doc
             q == calls[c].seq
             early == {r \in receipts[d] : r.seq = q}
  <2>1. /\ UNCHANGED <<owner, timer, socket, doc>> /\ GraceWithoutWorker'
        /\ d \in Docs /\ q \in Seqs
    BY <1>3, <1>8 DEF Commit, IInv, CallsInv
  <2>2. CASE UNCHANGED <<pending, receipts>>
    BY <1>1, <1>2, <2>1, <2>2 DEF GInv
  <2>3. CASE pending' = pending /\ receipts' = [receipts EXCEPT ![d] = @ \ early]
    <3>1. Held
      BY <1>0, <2>1, <2>3 DEF Bound
    <3> QED BY <1>1, <2>1, <3>1 DEF GInv
  <2>4. CASE /\ pending' = [pending EXCEPT ![d][q] = c]
             /\ receipts' = [receipts EXCEPT ![d] = @ \ early]
    <3>1. ASSUME NEW e \in Docs, NEW r \in receipts'[e]
          PROVE  e \in Bound' /\ socket' # 0 /\ pending'[e][r.seq] = None
      <4>1. r \in receipts[e] /\ (e # d \/ r.seq # q)
        BY <1>0, <2>1, <2>4
      <4>2. e \in Bound /\ socket # 0 /\ pending[e][r.seq] = None /\ r.seq \in Seqs
        BY <1>0, <4>1 DEF GInv, ReceiptsAhead
      <4>3. pending'[e][r.seq] = pending[e][r.seq]
        BY <1>0, <2>1, <2>4, <4>1, <4>2
      <4> QED BY <2>1, <4>2, <4>3 DEF Bound
    <3> QED BY <2>1, <3>1 DEF GInv, ReceiptsAhead
  <2> QED BY <1>8, <2>2, <2>3, <2>4 DEF Commit
<1>9. ASSUME NEW d \in Docs, NEW q \in Seqs, pending' = [pending EXCEPT ![d][q] = None],
             UNCHANGED <<owner, timer, socket, doc, receipts>>
      PROVE  GInv'
  <2>1. Held
    BY <1>0, <1>9 DEF Bound
  <2> QED BY <1>1, <1>3, <1>9, <2>1 DEF GInv
<1>10. ASSUME NEW c \in Calls, Timeout(c) \/ ClientCloses(c)
       PROVE  GInv'
  BY <1>9, <1>10 DEF Timeout, ClientCloses, Expire, Finish, IInv, CallsInv
<1>11. ASSUME NEW s \in Sockets, Upgrade(s) \/ Attach(s) \/ Closing(s) \/ Closed(s)
       PROVE  GInv'
  <2>1. CASE RevokeOwner({})
    BY <2>1, GInvRevokes
  <2>2. CASE UNCHANGED <<owner, timer, socket, doc, pending, receipts>>
    BY <1>1, <1>2, <1>3, <2>2 DEF GInv
  <2>3. CASE /\ timer' = FALSE /\ socket' = s /\ UNCHANGED <<owner, doc, pending, receipts>>
    <3>1. s # 0
      BY DEF Sockets
    <3>2. Held /\ GraceWithoutWorker'
      BY <2>3, <3>1 DEF Bound, GraceWithoutWorker
    <3> QED BY <1>1, <3>2 DEF GInv
  <2>4. CASE /\ socket' = 0 /\ timer' = TRUE /\ receipts' = Cleared(Bound)
    <3>1. \A d \in Docs : receipts'[d] = {}
      BY <2>4 DEF Cleared, GInv, ReceiptsAhead
    <3> QED BY <2>4, <3>1 DEF GInv, ReceiptsAhead, GraceWithoutWorker
  <2> QED BY <1>11, <2>1, <2>2, <2>3, <2>4 DEF Upgrade, Attach, Closing, Closed
<1>12. ASSUME NEW s \in Sockets, NEW d \in Docs, NEW q \in Seqs, NEW v \in Values,
              Report(s, d, q, v)
       PROVE  GInv'
  BY <1>1, <1>2, <1>3, <1>12 DEF Report, GInv
<1>13. ASSUME NEW m \in handling, Handle(m)
       PROVE  GInv'
  <2>0. m.doc \in Docs /\ m.seq \in Seqs
    BY DEF IInv, TypeOK, Result
  <2>1. CASE RevokeOwner({})
    BY <2>1, GInvRevokes
  <2>2. CASE Ignore(m)
    BY <1>1, <1>2, <1>3, <2>2 DEF Ignore, GInv
  <2>3. CASE Deliver(m) /\ Finish(m.doc, m.seq, m.value) /\ receipts' = receipts
    BY <1>9, <2>0, <2>3 DEF Deliver, Finish
  <2>4. CASE /\ m.doc \in Bound /\ Current(m) /\ pending[m.doc][m.seq] = None
             /\ receipts' = [receipts EXCEPT ![m.doc] =
                  Kept({r \in @ : r.seq # m.seq} \union
                       {[seq |-> m.seq, value |-> m.value, stale |-> FALSE]})]
             /\ UNCHANGED <<owner, timer, socket, doc, pending>>
    <3> DEFINE new == [seq |-> m.seq, value |-> m.value, stale |-> FALSE]
    <3>1. \A R : Kept(R) \subseteq R
      BY DEF Kept
    <3>2. new.seq = m.seq /\ socket # 0
      BY <2>4 DEF Current, IInv, TypeOK, Result, Sockets
    <3> HIDE DEF new
    <3>3. receipts' = [receipts EXCEPT ![m.doc] =
                         Kept({r \in receipts[m.doc] : r.seq # m.seq} \union {new})]
      BY <2>4 DEF new
    <3>4. /\ \A e \in Docs \ {m.doc} : receipts'[e] = receipts[e]
          /\ receipts'[m.doc] \subseteq receipts[m.doc] \union {new}
      <4>1. Kept({r \in receipts[m.doc] : r.seq # m.seq} \union {new})
              \subseteq receipts[m.doc] \union {new}
        BY <3>1
      <4> QED BY <1>0, <2>0, <3>3, <4>1
    <3>5. ASSUME NEW e \in Docs, NEW r \in receipts'[e]
          PROVE  e \in Bound /\ socket # 0 /\ pending[e][r.seq] = None
      <4>1. CASE r \in receipts[e]
        BY <4>1 DEF GInv, ReceiptsAhead
      <4>2. CASE e = m.doc /\ r = new
        BY <2>4, <3>2, <4>2
      <4> QED BY <3>4, <4>1, <4>2
    <3>6. ReceiptsAhead'
      BY <2>4, <3>5 DEF ReceiptsAhead, Bound
    <3> QED BY <1>3, <2>4, <3>6 DEF GInv
  <2> QED BY <1>13, <2>1, <2>2, <2>3, <2>4 DEF Handle, Deliver
<1>14. CASE UNCHANGED vars
  BY <1>1, <1>2, <1>3, <1>14 DEF vars, GInv
<1> QED BY <1>4, <1>5, <1>6, <1>7, <1>8, <1>10, <1>11, <1>12, <1>13, <1>14 DEF Next

LEMMA GInvHolds == Spec => []GInv
<1>1. Init => GInv
  BY DEF Init, GInv, GraceWithoutWorker, ReceiptsAhead, Live
<1> QED BY <1>1, GInvStep, RendezvousInvariance, PTL DEF Spec

(* An owner without a worker is on its way out, and only such an owner. *)
THEOREM GraceGuards == Spec => []GraceWithoutWorker
<1>1. GInv => GraceWithoutWorker
  BY DEF GInv
<1> QED BY <1>1, GInvHolds, PTL

(* A result is kept only ahead of its commit, for a document whose worker is *)
(* connected.                                                                *)
THEOREM ReceiptsWaitAhead == Spec => []ReceiptsAhead
<1>1. GInv => ReceiptsAhead
  BY DEF GInv
<1> QED BY <1>1, GInvHolds, PTL
-----------------------------------------------------------------------------
(* The bound on early receipts. *)
(* A document holds one receipt of a sequence at most. *)
RInv ==
  \A d \in Docs :
    /\ IsFiniteSet(receipts[d])
    /\ \A r, x \in receipts[d] : r.seq = x.seq => r = x

(* What may become of the receipts of a document in a step. *)
NewestKept ==
  \A d \in Docs : \A r \in receipts[d] :
    /\ doc'[d] = "bound" /\ socket' # 0
    /\ ~ r.stale /\ r.seq > last'[d]
    /\ ~ \E x \in receipts'[d] : x.seq = r.seq
    => Cardinality({x \in receipts'[d] : x.seq > r.seq}) >= MaxReceipts

(* A nonempty set of sequences has a least one. *)
LEMMA FirstSeq ==
  ASSUME NEW T \in SUBSET Seqs, T # {}
  PROVE  Min(T) \in T /\ \A y \in T : Min(T) <= y
<1> DEFINE Below == {p \in Nat \X Nat : p[1] < p[2]}
<1>1. IsWellFoundedOn(Below, Nat)
  BY NatLessThanWellFounded, Zenon DEF OpToRel
<1>2. T \in SUBSET Nat
  BY RendezvousAssumption DEF Seqs
<1>3. PICK x \in T : \A y \in T : ~(<<y, x>> \in Below)
  BY <1>1, <1>2, WFMin
<1>4. ASSUME NEW y \in T PROVE x <= y
  <2>1. x \in Nat /\ y \in Nat
    BY <1>2
  <2>2. y < x => <<y, x>> \in Below
    BY <2>1
  <2> QED BY <1>3, <2>1, <2>2
<1>5. \E z \in T : \A y \in T : z =< y
  BY <1>4
<1> QED BY <1>5, Zenon DEF Min

(* The fields of a receipt.                                                  *)
LEMMA ReceiptFields ==
  ASSUME TypeOK, NEW d \in Docs, NEW r \in receipts[d]
  PROVE  r \in Receipt /\ r.seq \in Seqs /\ r.seq \in Nat /\ r.stale \in BOOLEAN
<1>1. r \in Receipt
  BY DEF TypeOK
<1> QED BY <1>1, RendezvousAssumption DEF Receipt, Seqs

(* A step that only drops receipts, none of them for the bound. *)
LEMMA Dropped ==
  ASSUME RInv, \A d \in Docs : receipts'[d] \subseteq receipts[d],
         \A d \in Docs : \A r \in receipts[d] :
           \/ r \in receipts'[d]
           \/ doc'[d] # "bound" \/ socket' = 0 \/ r.stale \/ ~ (r.seq > last'[d])
  PROVE  RInv' /\ NewestKept
<1>1. RInv'
  <2> SUFFICES ASSUME NEW d \in Docs
               PROVE  /\ IsFiniteSet(receipts'[d])
                      /\ \A r, x \in receipts'[d] : r.seq = x.seq => r = x
    BY DEF RInv
  <2>1. IsFiniteSet(receipts'[d])
    BY FS_Subset DEF RInv
  <2> QED BY <2>1 DEF RInv
<1>2. NewestKept
  BY DEF NewestKept
<1> QED BY <1>1, <1>2

(* A receipt that turns stale keeps its sequence. *)
LEMMA AgesKeeps ==
  ASSUME TypeOK, RInv, NEW d \in Docs, ReceiptAges(d)
  PROVE  RInv' /\ NewestKept
<1>1. PICK r \in receipts[d] :
        receipts' = [receipts EXCEPT ![d] = (@ \ {r}) \union {[r EXCEPT !.stale = TRUE]}]
  BY DEF ReceiptAges
<1> DEFINE aged == [r EXCEPT !.stale = TRUE]
<1>2. aged.seq = r.seq
  BY ReceiptFields DEF Receipt
<1> HIDE DEF aged
<1>3. /\ receipts'[d] = (receipts[d] \ {r}) \union {aged}
      /\ \A e \in Docs \ {d} : receipts'[e] = receipts[e]
  BY <1>1 DEF TypeOK, aged
<1>4. IsFiniteSet(receipts'[d])
  <2>1. IsFiniteSet(receipts[d] \ {r})
    BY FS_Subset DEF RInv
  <2> QED BY <1>3, <2>1, FS_AddElement
<1>5. \A z, x \in receipts'[d] : z.seq = x.seq => z = x
  BY <1>2, <1>3 DEF RInv
<1>6. RInv'
  BY <1>3, <1>4, <1>5 DEF RInv
<1>7. \A e \in Docs : \A z \in receipts[e] : \E x \in receipts'[e] : x.seq = z.seq
  BY <1>2, <1>3
<1> QED BY <1>6, <1>7 DEF NewestKept

(* The bound drops the oldest receipt only. *)
LEMMA KeptFacts ==
  ASSUME NEW R \in SUBSET Receipt, IsFiniteSet(R), \A r, x \in R : r.seq = x.seq => r = x
  PROVE  /\ Kept(R) \subseteq R
         /\ \A r \in R : r \notin Kept(R) =>
              Cardinality({x \in Kept(R) : x.seq > r.seq}) >= MaxReceipts
<1>0. \A r \in R : r.seq \in Seqs /\ r.seq \in Nat
  BY RendezvousAssumption DEF Receipt, Seqs
<1>1. CASE Cardinality(R) <= MaxReceipts
  BY <1>1 DEF Kept
<1>2. CASE ~ (Cardinality(R) <= MaxReceipts)
  <2> DEFINE T == {x.seq : x \in R}
             first == Min(T)
  <2>1. Kept(R) = {r \in R : r.seq # first}
    BY <1>2 DEF Kept
  <2>2. Cardinality(R) \in Nat /\ R # {}
    BY <1>2, FS_CardinalityType, FS_EmptySet, RendezvousAssumption
  <2>3. T \in SUBSET Seqs /\ T # {}
    BY <1>0, <2>2
  <2>4. first \in T /\ \A y \in T : first <= y
    BY <2>3, FirstSeq
  <2> HIDE DEF first
  <2>5. PICK old \in R : old.seq = first
    BY <2>4
  <2>6. Kept(R) = R \ {old}
    BY <2>1, <2>5
  <2>7. Cardinality(R \ {old}) = Cardinality(R) - 1
    BY FS_RemoveElement
  <2>8. Cardinality(R \ {old}) >= MaxReceipts
    BY <1>2, <2>2, <2>7, RendezvousAssumption
  <2>9. \A x \in Kept(R) : x.seq > old.seq
    <3> SUFFICES ASSUME NEW x \in Kept(R) PROVE x.seq > old.seq
      OBVIOUS
    <3>1. x \in R /\ x.seq # first /\ first <= x.seq
      BY <2>1, <2>4
    <3> QED BY <1>0, <2>5, <3>1
  <2>10. {x \in Kept(R) : x.seq > old.seq} = R \ {old}
    BY <2>6, <2>9
  <2>11. \A r \in R : r \notin Kept(R) => r = old
    BY <2>6
  <2> QED BY <2>6, <2>8, <2>10, <2>11
<1> QED BY <1>1, <1>2

(* A result that comes before its marker. *)
LEMMA DeliverKeeps ==
  ASSUME TypeOK, TypeOK', RInv, NEW m \in handling, Deliver(m)
  PROVE  RInv' /\ NewestKept
<1>1. CASE UNCHANGED receipts
  BY <1>1, Dropped
<1>2. CASE receipts' = [receipts EXCEPT ![m.doc] =
             Kept({r \in @ : r.seq # m.seq} \union
                  {[seq |-> m.seq, value |-> m.value, stale |-> FALSE]})]
  <2> DEFINE d == m.doc
             new == [seq |-> m.seq, value |-> m.value, stale |-> FALSE]
             S == {r \in receipts[d] : r.seq # m.seq}
             R == S \union {new}
  <2>1. d \in Docs /\ m.seq \in Seqs /\ m.value \in Values
    BY DEF TypeOK, Result
  <2>2. new \in Receipt /\ new.seq = m.seq
    BY <2>1 DEF Receipt
  <2>3. /\ receipts'[d] = Kept(R)
        /\ \A e \in Docs \ {d} : receipts'[e] = receipts[e]
    BY <1>2, <2>1 DEF TypeOK
  <2> HIDE DEF d, new
  <2>4. R \in SUBSET Receipt
    BY <2>1, <2>2 DEF TypeOK
  <2>5. IsFiniteSet(R)
    <3>1. IsFiniteSet(S)
      BY <2>1, FS_Subset DEF RInv
    <3> QED BY <3>1, FS_AddElement
  <2>6. \A r, x \in R : r.seq = x.seq => r = x
    BY <2>1, <2>2 DEF RInv
  <2>7. \A r \in receipts[d] : \E x \in R : x.seq = r.seq
    BY <2>2
  <2> HIDE DEF S, R
  <2>8. /\ Kept(R) \subseteq R
        /\ \A r \in R : r \notin Kept(R) =>
             Cardinality({x \in Kept(R) : x.seq > r.seq}) >= MaxReceipts
    BY <2>4, <2>5, <2>6, KeptFacts
  <2>9. RInv'
    <3>1. IsFiniteSet(Kept(R))
      BY <2>5, <2>8, FS_Subset
    <3> QED BY <2>1, <2>3, <2>6, <2>8, <3>1 DEF RInv
  <2>10. ASSUME NEW r \in receipts[d], ~ \E x \in receipts'[d] : x.seq = r.seq
         PROVE  Cardinality({x \in receipts'[d] : x.seq > r.seq}) >= MaxReceipts
    <3>1. PICK z \in R : z.seq = r.seq
      BY <2>7
    <3>2. z \notin Kept(R)
      BY <2>3, <2>10, <3>1
    <3> QED BY <2>3, <2>8, <3>1, <3>2
  <2>11. NewestKept
    BY <2>3, <2>10 DEF NewestKept
  <2> QED BY <2>9, <2>11
<1> QED BY <1>1, <1>2 DEF Deliver

(* Revocation takes the receipts of the revoked documents only. *)
LEMMA RevokeDrops ==
  ASSUME TypeOK, RInv, NEW D \in SUBSET Docs, NEW C, RevokeDocuments(D, C)
  PROVE  RInv' /\ NewestKept
<1>1. \A d \in D : doc'[d] = "revoked" /\ receipts'[d] = {}
  BY DEF RevokeDocuments, Cleared
<1>2. \A d \in Docs \ D : receipts'[d] = receipts[d]
  BY DEF RevokeDocuments, Cleared
<1> QED BY <1>1, <1>2, Dropped

(* The owner takes all of its documents with it.                             *)
LEMMA OwnerDrops ==
  ASSUME TypeOK, RInv, NEW C, RevokeOwner(C)
  PROVE  RInv' /\ NewestKept
<1>1. Bound \in SUBSET Docs
  BY DEF Bound
<1> QED BY <1>1, RevokeDrops DEF RevokeOwner

(* A step that leaves the receipts alone.                                    *)
LEMMA UnchangedKeeps ==
  ASSUME RInv, UNCHANGED receipts
  PROVE  RInv' /\ NewestKept
BY Dropped

(* Every step keeps receipts apart, and drops only what it may.              *)
LEMMA RStep ==
  ASSUME TypeOK, TypeOK', RInv, [Next]_vars
  PROVE  RInv' /\ NewestKept
<1>1. CASE UNCHANGED vars
  BY <1>1, UnchangedKeeps DEF vars
<1>2. ASSUME NEW d \in Docs, Bind(d)
      PROVE  RInv' /\ NewestKept
  BY <1>2, UnchangedKeeps DEF Bind
<1>3. ASSUME NEW d \in Docs, Unbind(d)
      PROVE  RInv' /\ NewestKept
  BY <1>3, RevokeDrops DEF Unbind
<1>4. ASSUME NEW d \in Docs, ReceiptAges(d)
      PROVE  RInv' /\ NewestKept
  BY <1>4, AgesKeeps
<1>5. CASE OwnerEnds \/ GraceExpires
  BY <1>5, OwnerDrops, UnchangedKeeps DEF OwnerEnds, GraceExpires
<1>6. CASE Sweep
  <2>1. \A d \in Docs : receipts'[d] = {r \in receipts[d] : ~ r.stale}
    BY <1>6 DEF Sweep
  <2> QED BY <2>1, Dropped
<1>7. ASSUME NEW c \in Calls, NEW d \in Docs, NEW q \in Seqs, Post(c, d, q)
      PROVE  RInv' /\ NewestKept
  BY <1>7, UnchangedKeeps DEF Post
<1>8. ASSUME NEW c \in Calls, Refuse(c)
      PROVE  RInv' /\ NewestKept
  BY <1>8, OwnerDrops, UnchangedKeeps DEF Refuse
<1>9. ASSUME NEW c \in Calls, Commit(c)
      PROVE  RInv' /\ NewestKept
  <2>1. CASE UNCHANGED receipts
    BY <2>1, UnchangedKeeps
  <2> DEFINE d == calls[c].doc
             q == calls[c].seq
             early == {r \in receipts[d] : r.seq = q}
  <2>2. CASE /\ last' = [last EXCEPT ![d] = q]
             /\ receipts' = [receipts EXCEPT ![d] = @ \ early]
    <3>1. d \in Docs
      BY <1>9 DEF Commit, Bound
    <3>2. /\ receipts'[d] = receipts[d] \ early /\ last'[d] = q
          /\ \A e \in Docs \ {d} : receipts'[e] = receipts[e]
      BY <2>2, <3>1 DEF TypeOK
    <3>3. \A r \in receipts[d] : r \notin receipts'[d] => r.seq = last'[d] /\ r.seq \in Nat
      BY <3>1, <3>2, ReceiptFields
    <3> HIDE DEF d, q, early
    <3>4. \A r \in receipts[d] : r \notin receipts'[d] => ~ (r.seq > last'[d])
      BY <3>3
    <3> QED BY <3>2, <3>4, Dropped
  <2> QED BY <1>9, <2>1, <2>2 DEF Commit
<1>10. ASSUME NEW c \in Calls, Timeout(c) \/ ClientCloses(c)
       PROVE  RInv' /\ NewestKept
  BY <1>10, UnchangedKeeps DEF Timeout, ClientCloses, Expire
<1>11. ASSUME NEW s \in Sockets, Upgrade(s) \/ Closing(s) \/ Attach(s)
       PROVE  RInv' /\ NewestKept
  BY <1>11, OwnerDrops, UnchangedKeeps DEF Upgrade, Closing, Attach
<1>12. ASSUME NEW s \in Sockets, Closed(s)
       PROVE  RInv' /\ NewestKept
  <2>1. CASE UNCHANGED receipts
    BY <2>1, UnchangedKeeps
  <2>2. CASE socket' = 0 /\ receipts' = Cleared(Bound)
    <3>1. \A d \in Docs : receipts'[d] \subseteq receipts[d]
      BY <2>2 DEF Cleared
    <3> QED BY <2>2, <3>1, Dropped
  <2> QED BY <1>12, <2>1, <2>2 DEF Closed
<1>13. ASSUME NEW s \in Sockets, NEW d \in Docs, NEW q \in Seqs, NEW v \in Values,
              Report(s, d, q, v)
       PROVE  RInv' /\ NewestKept
  BY <1>13, UnchangedKeeps DEF Report
<1>14. ASSUME NEW m \in handling, Handle(m)
       PROVE  RInv' /\ NewestKept
  <2>1. CASE Deliver(m)
    BY <2>1, DeliverKeeps
  <2>2. CASE Ignore(m)
    BY <2>2, UnchangedKeeps DEF Ignore
  <2>3. CASE RevokeOwner({})
    BY <2>3, OwnerDrops
  <2> QED BY <1>14, <2>1, <2>2, <2>3 DEF Handle
<1> QED BY <1>1, <1>2, <1>3, <1>4, <1>5, <1>6, <1>7, <1>8, <1>9, <1>10, <1>11, <1>12,
           <1>13, <1>14 DEF Next

(* The bound on receipts costs only results that MaxReceipts later ones      *)
(* have overtaken, whatever the bound and however reports, markers, sweeps,  *)
(* revocations and reconnections interleave.                                 *)
THEOREM NewestReceipts == Spec => NewestReceiptsKept
<1>1. Init => RInv
  BY FS_EmptySet DEF Init, RInv
<1>2. TypeOK /\ TypeOK' /\ RInv /\ [Next]_vars => RInv' /\ NewestKept
  BY RStep
<1>3. IInv => TypeOK
  BY DEF IInv
<1>4. NewestReceiptsKept <=> [][NewestKept]_vars
  BY DEF NewestReceiptsKept, NewestKept
<1> QED BY <1>1, <1>2, <1>3, <1>4, RendezvousInvariance, PTL DEF Spec
=============================================================================
