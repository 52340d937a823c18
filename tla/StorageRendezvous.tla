-------------------------- MODULE StorageRendezvous --------------------------
(* The marker-only storage rendezvous of one frontend owner                   *)
(* (server/sandbox-storage-rendezvous.mjs).                                   *)
(*                                                                            *)
(* A document posts the number of a storage commit and blocks on the answer;  *)
(* a trusted worker, connected by the owner's WebSocket, reports what became  *)
(* of that commit.  The server joins the two: a commit that comes first waits *)
(* in pending, a result that comes first is kept as an early receipt.         *)
(*                                                                            *)
(* Every handler awaits valid(owner), which asks the coordinator, and what it *)
(* found before the await may be gone after it.  The verdict is external: any *)
(* BOOLEAN.  Time is a choice: a receipt may turn stale, a timer may fire.    *)
EXTENDS Naturals, FiniteSets, FiniteSetsExt

CONSTANTS
  Docs,         \* document capabilities, each with its own documentId
  Calls,        \* POST /browse/storage/commit requests
  MaxSocket,    \* owner sockets ever opened, numbered from 1
  MaxSeq,       \* storage sequences of a document (bound of the model)
  MaxPending,   \* 8 in the code
  MaxReceipts,  \* 64 in the code
  MaxDocuments, \* maxDocuments
  LocalReceipts,\* x-atlas-local-receipts: markers may skip sequences
  Values,       \* what a worker's result can say: "committed", "failed"
  None

ASSUME RendezvousAssumption ==
  /\ MaxSocket \in Nat /\ MaxSeq \in Nat
  /\ MaxPending \in Nat \ {0} /\ MaxReceipts \in Nat \ {0}
  /\ MaxDocuments \in Nat \ {0}
  /\ LocalReceipts \in BOOLEAN
  /\ Values \subseteq {"committed", "failed"}
  /\ None \notin Calls \union Values

VARIABLES
  owner,     \* "live" or "revoked": membership of the owners map
  timer,     \* the owner's expiryTimer is armed
  socket,    \* owner.socket, 0 for null
  conn,      \* the state of every WebSocket
  doc,       \* the documents map
  last,      \* doc.last
  pending,   \* doc.pending: the call that waits for a sequence
  receipts,  \* doc.receipts: results that came before their marker
  calls,     \* the commit requests
  handling,  \* results whose handler awaits valid(owner)
  sent       \* what the worker reported of each commit (external)

vars == <<owner, timer, socket, conn, doc, last, pending, receipts, calls,
          handling, sent>>

Sockets == 1..MaxSocket
Seqs    == 1..MaxSeq
Answers == Values \union {"revoked", "sequence", "disconnected", "full",
                          "timeout", "aborted"}
Receipt == [seq : Seqs, value : Values, stale : BOOLEAN]
Result  == [socket : Sockets, doc : Docs, seq : Seqs, value : Values]

Idle == [state |-> "idle", doc |-> None, seq |-> 0, answer |-> None]

TypeOK ==
  /\ owner \in {"live", "revoked"} /\ timer \in BOOLEAN
  /\ socket \in 0..MaxSocket
  /\ conn \in [Sockets -> {"unused", "upgrading", "open", "closing", "closed"}]
  /\ doc \in [Docs -> {"none", "bound", "revoked"}]
  /\ last \in [Docs -> 0..MaxSeq]
  /\ pending \in [Docs -> [Seqs -> Calls \union {None}]]
  /\ receipts \in [Docs -> SUBSET Receipt]
  /\ calls \in [Calls -> [state : {"idle", "checking", "waiting", "answered"},
                          doc : Docs \union {None}, seq : 0..MaxSeq,
                          answer : Answers \union {None}]]
  /\ handling \subseteq Result
  /\ sent \in [Docs -> [Seqs -> Values \union {None}]]

(* POST owners: registered, without documents, the grace timer running. *)
Init ==
  /\ owner = "live" /\ timer = TRUE /\ socket = 0
  /\ conn = [s \in Sockets |-> "unused"]
  /\ doc = [d \in Docs |-> "none"]
  /\ last = [d \in Docs |-> 0]
  /\ pending = [d \in Docs |-> [q \in Seqs |-> None]]
  /\ receipts = [d \in Docs |-> {}]
  /\ calls = [c \in Calls |-> Idle]
  /\ handling = {}
  /\ sent = [d \in Docs |-> [q \in Seqs |-> None]]

-----------------------------------------------------------------------------
Live    == owner = "live"
Bound   == {d \in Docs : doc[d] = "bound"}
Open    == socket # 0 /\ conn[socket] = "open"     \* readyState === OPEN
Waiters(D) == {pending[d][q] : d \in D, q \in Seqs} \ {None}
Backlog(d) == Cardinality({q \in Seqs : pending[d][q] # None})

Answered(C, a) ==
  [c \in Calls |-> IF c \in C
                   THEN [calls[c] EXCEPT !.state = "answered", !.answer = a]
                   ELSE calls[c]]
Emptied(D) == [d \in Docs |-> IF d \in D THEN [q \in Seqs |-> None]
                                         ELSE pending[d]]
Cleared(D) == [d \in Docs |-> IF d \in D THEN {} ELSE receipts[d]]

(* finish(doc, number, value): whoever waits for this sequence is answered. *)
Finish(d, q, a) ==
  /\ pending[d][q] # None
  /\ calls' = Answered({pending[d][q]}, a)
  /\ pending' = [pending EXCEPT ![d][q] = None]

(* revokeDocument of every document of D; the calls of C are refused by the *)
(* handler that revokes.                                                    *)
RevokeDocuments(D, C) ==
  /\ doc' = [d \in Docs |-> IF d \in D THEN "revoked" ELSE doc[d]]
  /\ calls' = Answered(Waiters(D) \union C, "revoked")
  /\ pending' = Emptied(D)
  /\ receipts' = Cleared(D)

Shut(s) == IF s # 0 /\ conn[s] = "open" THEN [conn EXCEPT ![s] = "closing"]
                                        ELSE conn

(* revokeOwner: terminal, every document with it, and its socket is closed. *)
RevokeOwner(C) ==
  /\ Live
  /\ owner' = "revoked" /\ timer' = FALSE
  /\ RevokeDocuments(Bound, C)
  /\ conn' = Shut(socket)
  /\ UNCHANGED <<socket, last, sent>>

-----------------------------------------------------------------------------
(* POST and DELETE documents, DELETE owners, the idle sweep.  They read no   *)
(* state before the await that they use after it, so each is one step.       *)
Bind(d) ==
  /\ Live /\ doc[d] = "none" /\ Cardinality(Bound) < MaxDocuments
  /\ doc' = [doc EXCEPT ![d] = "bound"]
  /\ UNCHANGED <<owner, timer, socket, conn, last, pending, receipts, calls,
                 handling, sent>>

Unbind(d) ==
  /\ Live /\ d \in Bound
  /\ RevokeDocuments({d}, {})
  /\ UNCHANGED <<owner, timer, socket, conn, last, handling, sent>>

OwnerEnds == RevokeOwner({}) /\ UNCHANGED handling

GraceExpires ==
  /\ timer
  /\ IF Live THEN RevokeOwner({}) /\ UNCHANGED handling
     ELSE /\ timer' = FALSE
          /\ UNCHANGED <<owner, socket, conn, doc, last, pending, receipts,
                         calls, handling, sent>>

(* A receipt outlives receiptTTL; the sweep drops those of every document.   *)
ReceiptAges(d) ==
  /\ \E r \in receipts[d] :
       /\ ~ r.stale
       /\ receipts' = [receipts EXCEPT
                         ![d] = (@ \ {r}) \union {[r EXCEPT !.stale = TRUE]}]
  /\ UNCHANGED <<owner, timer, socket, conn, doc, last, pending, calls,
                 handling, sent>>

Sweep ==
  /\ receipts' = [d \in Docs |-> {r \in receipts[d] : ~ r.stale}]
  /\ receipts' # receipts
  /\ UNCHANGED <<owner, timer, socket, conn, doc, last, pending, calls,
                 handling, sent>>

-----------------------------------------------------------------------------
(* POST commit: looked up first, checked again when valid(owner) returns.    *)
Post(c, d, q) ==
  /\ calls[c].state = "idle" /\ doc[d] # "none"
  /\ calls' = [calls EXCEPT ![c] =
       IF d \in Bound
       THEN [state |-> "checking", doc |-> d, seq |-> q, answer |-> None]
       ELSE [state |-> "answered", doc |-> d, seq |-> q,
             answer |-> "revoked"]]
  /\ UNCHANGED <<owner, timer, socket, conn, doc, last, pending, receipts,
                 handling, sent>>

MutRefuse(c) ==                           \* gone meanwhile: no answer at all
  /\ calls[c].state = "checking"
  /\ RevokeOwner({c}) /\ UNCHANGED handling

Refuse(c) ==
  /\ calls[c].state = "checking"
  /\ \/ RevokeOwner({c}) /\ UNCHANGED handling              \* not authorized
     \/ /\ ~ (Live /\ calls[c].doc \in Bound)
        /\ calls' = Answered({c}, "revoked")
        /\ UNCHANGED <<owner, timer, socket, conn, doc, last, pending,
                       receipts, handling, sent>>

MutInSequence(d, q) == q >= last[d]       \* a marker posted again is accepted

InSequence(d, q) == IF LocalReceipts THEN q > last[d] ELSE q = last[d] + 1

(* The rest of the handler runs without an await up to the promise: the      *)
(* sequence is consumed before anything else can fail.                       *)
Commit(c) ==
  LET d == calls[c].doc
      q == calls[c].seq
      early == {r \in receipts[d] : r.seq = q}
      fresh == {r \in early : ~ r.stale}
  IN /\ calls[c].state = "checking" /\ Live /\ d \in Bound
     /\ \/ /\ ~ InSequence(d, q)
           /\ calls' = Answered({c}, "sequence")
           /\ UNCHANGED <<last, pending, receipts>>
        \/ /\ InSequence(d, q) /\ ~ Open
           /\ calls' = Answered({c}, "disconnected")
           /\ last' = [last EXCEPT ![d] = q]
           /\ UNCHANGED <<pending, receipts>>
        \/ /\ InSequence(d, q) /\ Open
           /\ last' = [last EXCEPT ![d] = q]
           /\ receipts' = [receipts EXCEPT ![d] = @ \ early]
           /\ \/ /\ \E r \in fresh : calls' = Answered({c}, r.value)
                 /\ UNCHANGED pending
              \/ /\ fresh = {} /\ Backlog(d) >= MaxPending
                 /\ calls' = Answered({c}, "full")
                 /\ UNCHANGED pending
              \/ /\ fresh = {} /\ Backlog(d) < MaxPending
                 /\ calls' = [calls EXCEPT ![c].state = "waiting"]
                 /\ pending' = [pending EXCEPT ![d][q] = c]
     /\ UNCHANGED <<owner, timer, socket, conn, doc, handling, sent>>

(* The timer of the promise, and the client that closes the connection.      *)
Expire(c, a) ==
  /\ calls[c].state = "waiting"
  /\ Finish(calls[c].doc, calls[c].seq, a)
  /\ UNCHANGED <<owner, timer, socket, conn, doc, last, receipts, handling,
                 sent>>

MutTimeout(c) == Expire(c, "committed")   \* the timer resolves optimistically

Timeout(c)      == Expire(c, "timeout")
ClientCloses(c) == Expire(c, "aborted")

-----------------------------------------------------------------------------
(* The upgrade of the owner's socket, which replaces the one before it.      *)
Upgrade(s) ==
  /\ conn[s] = "unused" /\ Live
  /\ conn' = [conn EXCEPT ![s] = "upgrading"]
  /\ UNCHANGED <<owner, timer, socket, doc, last, pending, receipts, calls,
                 handling, sent>>

Attach(s) ==
  /\ conn[s] = "upgrading"
  /\ \/ /\ Live
        /\ timer' = FALSE /\ socket' = s
        /\ conn' = [Shut(socket) EXCEPT ![s] = "open"]
        /\ UNCHANGED <<owner, doc, last, pending, receipts, calls, handling,
                       sent>>
     \/ RevokeOwner({}) /\ UNCHANGED handling               \* not authorized
     \/ /\ ~ Live
        /\ conn' = [conn EXCEPT ![s] = "closed"]
        /\ UNCHANGED <<owner, timer, socket, doc, last, pending, receipts,
                       calls, handling, sent>>

(* An error, an invalid receipt or the peer starts the closing handshake.    *)
Closing(s) ==
  /\ conn[s] = "open"
  /\ conn' = [conn EXCEPT ![s] = "closing"]
  /\ UNCHANGED <<owner, timer, socket, doc, last, pending, receipts, calls,
                 handling, sent>>

MutClosed(s) ==                           \* the waiting commits are forgotten
  /\ conn[s] \in {"open", "closing"}
  /\ conn' = [conn EXCEPT ![s] = "closed"]
  /\ IF socket = s
     THEN /\ socket' = 0 /\ timer' = TRUE
          /\ receipts' = Cleared(Bound)
          /\ UNCHANGED <<calls, pending>>
     ELSE UNCHANGED <<socket, timer, calls, pending, receipts>>
  /\ UNCHANGED <<owner, doc, last, handling, sent>>

(* ws.on("close"): only the current socket disconnects the owner.            *)
Closed(s) ==
  /\ conn[s] \in {"open", "closing"}
  /\ conn' = [conn EXCEPT ![s] = "closed"]
  /\ IF socket = s
     THEN /\ socket' = 0 /\ timer' = TRUE
          /\ calls' = Answered(Waiters(Bound), "disconnected")
          /\ pending' = Emptied(Bound)
          /\ receipts' = Cleared(Bound)
     ELSE UNCHANGED <<socket, timer, calls, pending, receipts>>
  /\ UNCHANGED <<owner, doc, last, handling, sent>>

-----------------------------------------------------------------------------
(* The worker reports what became of a commit, perhaps more than once, over a *)
(* socket it has open; a result of a socket that is not the owner's is        *)
(* ignored on arrival.                                                        *)
Report(s, d, q, v) ==
  /\ conn[s] \in {"open", "closing"} /\ doc[d] # "none"
  /\ sent[d][q] \in {None, v}
  /\ sent' = [sent EXCEPT ![d][q] = v]
  /\ handling' = IF socket # s THEN handling
                 ELSE handling \union {[socket |-> s, doc |-> d, seq |-> q,
                                        value |-> v]}
  /\ UNCHANGED <<owner, timer, socket, conn, doc, last, pending, receipts,
                 calls>>

MutKept(R) == IF Cardinality(R) <= MaxReceipts THEN R    \* drops the newest
              ELSE {r \in R : r.seq # Max({x.seq : x \in R})}

Kept(R) == IF Cardinality(R) <= MaxReceipts THEN R
           ELSE {r \in R : r.seq # Min({x.seq : x \in R})}

(* What the handler still requires when valid(owner) has answered. *)
Current(m) == Live /\ socket = m.socket /\ conn[m.socket] = "open"

Deliver(m) ==
  /\ Current(m) /\ m.doc \in Bound
  /\ \/ Finish(m.doc, m.seq, m.value) /\ UNCHANGED receipts
     \/ /\ pending[m.doc][m.seq] = None /\ m.seq > last[m.doc]
        /\ receipts' = [receipts EXCEPT ![m.doc] =
             Kept({r \in @ : r.seq # m.seq} \union
                  {[seq |-> m.seq, value |-> m.value, stale |-> FALSE]})]
        /\ UNCHANGED <<pending, calls>>
  /\ UNCHANGED <<owner, timer, socket, conn, doc, last, sent>>

Ignore(m) ==
  /\ \/ ~ Current(m)
     \/ m.doc \notin Bound
     \/ pending[m.doc][m.seq] = None /\ m.seq <= last[m.doc]
  /\ UNCHANGED <<owner, timer, socket, conn, doc, last, pending, receipts,
                 calls, sent>>

Handle(m) ==
  /\ handling' = handling \ {m}
  /\ Deliver(m) \/ Ignore(m) \/ RevokeOwner({})

-----------------------------------------------------------------------------
Next ==
  \/ \E d \in Docs : Bind(d) \/ Unbind(d) \/ ReceiptAges(d)
  \/ OwnerEnds \/ GraceExpires \/ Sweep
  \/ \E c \in Calls, d \in Docs, q \in Seqs : Post(c, d, q)
  \/ \E c \in Calls : Refuse(c) \/ Commit(c) \/ Timeout(c) \/ ClientCloses(c)
  \/ \E s \in Sockets : Upgrade(s) \/ Attach(s) \/ Closing(s) \/ Closed(s)
  \/ \E s \in Sockets, d \in Docs, q \in Seqs, v \in Values : Report(s, d, q, v)
  \/ \E m \in handling : Handle(m)

Spec == Init /\ [][Next]_vars

(* The timer of a waiting commit fires and the coordinator answers.          *)
Fairness ==
  \A c \in Calls : WF_vars(Timeout(c)) /\ WF_vars(Refuse(c) \/ Commit(c))

FairSpec == Spec /\ Fairness

-----------------------------------------------------------------------------
(* A commit that waits is the one its document holds for that sequence, and  *)
(* somebody can still answer it: its owner and document are registered and a *)
(* worker is attached.  Revocation, disconnection and replacement, in any    *)
(* order with the awaits of the handlers, leave no commit behind.            *)
WaitersHeld ==
  \A c \in Calls : calls[c].state = "waiting" =>
    /\ pending[calls[c].doc][calls[c].seq] = c
    /\ Live /\ calls[c].doc \in Bound /\ socket # 0

(* A document is told that a commit was saved, or failed, only if the worker *)
(* reported just that of this very sequence.                                 *)
AnswersAreTheWorkers ==
  \A c \in Calls : calls[c].answer \in Values =>
    sent[calls[c].doc][calls[c].seq] = calls[c].answer

(* A report answers at most one commit request: a marker that is posted      *)
(* again never collects the result of the first.                             *)
OneAcknowledgement ==
  \A b, c \in Calls :
    /\ calls[b].answer \in Values /\ calls[c].answer \in Values
    /\ calls[b].doc = calls[c].doc /\ calls[b].seq = calls[c].seq
    => b = c

(* A registered owner without a worker is always on its way out, and one     *)
(* with a worker is never cut off by the grace timer of an earlier loss.     *)
GraceWithoutWorker == Live => (timer <=> socket = 0)

(* An early receipt belongs to a connected document and to no waiting        *)
(* commit: the commit that takes a sequence has consumed its receipt.        *)
ReceiptsAhead ==
  \A d \in Docs : \A r \in receipts[d] :
    d \in Bound /\ socket # 0 /\ pending[d][r.seq] = None

(* The bound on receipts drops the oldest: a fresh result that is still      *)
(* ahead of its marker is lost only to revocation, to disconnection, or to   *)
(* MaxReceipts results of later sequences.                                   *)
NewestReceiptsKept ==
  [][\A d \in Docs : \A r \in receipts[d] :
       /\ doc'[d] = "bound" /\ socket' # 0
       /\ ~ r.stale /\ r.seq > last'[d]
       /\ ~ \E x \in receipts'[d] : x.seq = r.seq
       => Cardinality({x \in receipts'[d] : x.seq > r.seq}) >= MaxReceipts]_vars

(* Every commit request is answered. *)
EveryCommitAnswered ==
  \A c \in Calls : calls[c].state \in {"checking", "waiting"}
                     ~> calls[c].state = "answered"
=============================================================================
