-------------------------- MODULE BroadcastTicket --------------------------
(***************************************************************************)
(* The middleware that makes sure mond has a ticket, and before it its     *)
(* parent, so that the handlers can ask mond about the ticket              *)
(* (internal/webapi/middleware.go, broadcastTicket).                       *)
(*                                                                         *)
(* A request asks RpcConnect for a connection, once, and keeps to it: when *)
(* that breaks, the calls that are left fail.  Meanwhile mond gets         *)
(* transactions from the network, mines them, and drops them from its      *)
(* mempool, and other requests send theirs.                                *)
(***************************************************************************)
EXTENDS RpcConnect, FiniteSets

CONSTANTS
    Txs,             \* transactions
    Inputs,          \* the transactions each one spends outputs of
    Tickets,         \* the transactions that are tickets
    Parents,         \* the transactions that requests name as a parent
    MaxBroadcasts,   \* slots of broadcastSem, 16
    MaxAttempts      \* attempts of a request with a slot, 7

ASSUME BroadcastAssumption ==
    /\ Inputs \in [Txs -> SUBSET Txs]
    /\ Tickets \subseteq Txs /\ Parents \subseteq Txs
    /\ IsFiniteSet(Threads)
    /\ MaxBroadcasts \in Nat /\ MaxAttempts \in Nat \ {0}

VARIABLES
    req,    \* the request of each goroutine
    slots,  \* how many are taken in broadcastSem
    mond    \* where mond has each transaction

bvars == <<vars, req, slots, mond>>

\* The goroutines of requests.
Web == Threads \ Background

NoRequest == [pc |-> "none", ticket |-> None, parent |-> None, left |-> 0]

\* The request is at step pc, with its connection.
Doing(t, pc) == At(t, "use") /\ req[t].pc = pc

Proceed(t, pc) == req' = [req EXCEPT ![t].pc = pc, ![t].left = 0] /\ UNCHANGED th

\* mond has the ticket: the handlers run, with the connection.
Pass(t) ==
    /\ req' = [req EXCEPT ![t] = [NoRequest EXCEPT !.pc = "passed"]]
    /\ UNCHANGED th

\* An error response: no other handler runs.
Refuse(t) == req' = [req EXCEPT ![t] = NoRequest] /\ Finish(t)

-----------------------------------------------------------------------------
(* mond, as it is used here                                                *)

Known(tx) == mond[tx] # "unknown"

\* GetRawTransaction finds what is in the mempool or in a block.
GetRawTransaction(t, tx, result) ==
    /\ \/ th[t].conn \in open /\ result = IF Known(tx) THEN "found" ELSE "ErrNoTxInfo"
       \/ th[t].conn \in open /\ result = "error" /\ faults < MaxFaults
       \/ th[t].conn \notin open /\ result = "error"
    /\ faults' = IF result = "error" /\ th[t].conn \in open THEN faults + 1 ELSE faults
    /\ UNCHANGED mond

\* mond does not know all of the inputs, or the transaction is in a block and
\* all of it is spent.
Orphan(tx) ==
    IF Known(tx) THEN mond[tx] = "mined" ELSE \E input \in Inputs[tx] : ~ Known(input)

\* SendRawTransaction does not take a duplicate for an error.  To find out
\* whether an orphan is one, it asks for a transaction by hex in place of hash,
\* which is always an error.
SendRawTransaction(t, tx, result) ==
    /\ \/ /\ th[t].conn \in open
          /\ \/ Known(tx) /\ result = "nil" /\ UNCHANGED mond
             \/ Orphan(tx) /\ result = "orphan" /\ UNCHANGED mond
             \/ /\ ~ Known(tx) /\ ~ Orphan(tx)
                /\ result = "nil" /\ mond' = [mond EXCEPT ![tx] = "mempool"]
             \/ result = "error" /\ faults < MaxFaults /\ UNCHANGED mond
       \/ th[t].conn \notin open /\ result = "error" /\ UNCHANGED mond
    /\ faults' = IF result = "error" /\ th[t].conn \in open THEN faults + 1 ELSE faults

\* mond has the inputs of what it has, in blocks for what is in a block.
Consistent(m) ==
    \A tx \in Txs : \A input \in Inputs[tx] :
        /\ m[tx] # "unknown" => m[input] # "unknown"
        /\ m[tx] = "mined" => m[input] = "mined"

\* The network: a transaction arrives, is mined, or is dropped.
Network(tx) ==
    /\ \/ ~ Known(tx) /\ mond' = [mond EXCEPT ![tx] = "mempool"]
       \/ mond[tx] = "mempool" /\ mond' = [mond EXCEPT ![tx] = "mined"]
       \/ mond[tx] = "mempool" /\ mond' = [mond EXCEPT ![tx] = "unknown"]
    /\ Consistent(mond')
    /\ UNCHANGED <<vars, req, slots>>

-----------------------------------------------------------------------------
(* The middleware                                                          *)

\* The request is parsed: any ticket, and what the client says is its parent.
Receive(t) ==
    /\ Doing(t, "none")
    /\ \E ticket \in Tickets, parent \in Parents :
        req' = [req EXCEPT ![t] = [pc |-> "getParent", ticket |-> ticket,
                                   parent |-> parent, left |-> 0]]
    /\ UNCHANGED <<vars, slots, mond>>

\* Faulty variant: any transaction is taken for the parent.
AnyParent(r) == TRUE

IsParent(r) == r.parent \in Inputs[r.ticket]

GetParent(t) ==
    /\ Doing(t, "getParent")
    /\ \E result \in {"found", "ErrNoTxInfo", "error"} :
        /\ GetRawTransaction(t, req[t].parent, result)
        /\ \/ result = "found" /\ Proceed(t, "getTicket")
           \/ result = "ErrNoTxInfo" /\ IsParent(req[t]) /\ Proceed(t, "sendParent")
           \/ result = "ErrNoTxInfo" /\ ~ IsParent(req[t]) /\ Refuse(t)
           \/ result = "error" /\ Refuse(t)
    /\ UNCHANGED <<client, open, subscribed, notifyErrors, slots>>

\* Faulty variant: one waits for a slot that is not there.
SlotOrOneMore == slots <= MaxBroadcasts

SlotFree == slots < MaxBroadcasts

\* An orphan may find its inputs on the network in a while, if there is a slot
\* to wait.
SendParent(t) ==
    /\ Doing(t, "sendParent")
    /\ \E result \in {"nil", "orphan", "error"} :
        /\ SendRawTransaction(t, req[t].parent, result)
        /\ \/ result = "nil" /\ Proceed(t, "getTicket") /\ UNCHANGED slots
           \/ /\ result = "orphan" /\ SlotFree
              /\ slots' = slots + 1
              /\ req' = [req EXCEPT ![t].pc = "retry", ![t].left = MaxAttempts]
              /\ UNCHANGED th
           \/ result = "orphan" /\ ~ SlotFree /\ Refuse(t) /\ UNCHANGED slots
           \/ result = "error" /\ Refuse(t) /\ UNCHANGED slots
    /\ UNCHANGED <<client, open, subscribed, notifyErrors>>

\* Faulty variant: the slot is given back when the parent was sent.
ReleaseSlotIf(success) == slots' = IF success THEN slots - 1 ELSE slots

\* defer
ReleaseSlot(success) == slots' = slots - 1

\* Faulty variant: one goes on for as long as the transaction is not taken.
SameAttempt(left) == left

NextAttempt(left) == left - 1

\* Another attempt, a second later.
Retry(t) ==
    /\ Doing(t, "retry")
    /\ \E result \in {"nil", "orphan", "error"} :
        /\ SendRawTransaction(t, req[t].parent, result)
        /\ \/ result = "nil" /\ Proceed(t, "getTicket") /\ ReleaseSlot(TRUE)
           \/ /\ result # "nil" /\ req[t].left > 1
              /\ req' = [req EXCEPT ![t].left = NextAttempt(@)]
              /\ UNCHANGED <<th, slots>>
           \/ result # "nil" /\ req[t].left <= 1 /\ Refuse(t) /\ ReleaseSlot(FALSE)
    /\ UNCHANGED <<client, open, subscribed, notifyErrors>>

GetTicket(t) ==
    /\ Doing(t, "getTicket")
    /\ \E result \in {"found", "ErrNoTxInfo", "error"} :
        /\ GetRawTransaction(t, req[t].ticket, result)
        /\ \/ result = "found" /\ Pass(t)
           \/ result = "ErrNoTxInfo" /\ Proceed(t, "sendTicket")
           \/ result = "error" /\ Refuse(t)
    /\ UNCHANGED <<client, open, subscribed, notifyErrors, slots>>

\* Faulty variant: an orphan is thought to be known.
SentOrOrphan(result) == result \in {"nil", "orphan"}

IsSent(result) == result = "nil"

SendTicket(t) ==
    /\ Doing(t, "sendTicket")
    /\ \E result \in {"nil", "orphan", "error"} :
        /\ SendRawTransaction(t, req[t].ticket, result)
        /\ IF IsSent(result) THEN Pass(t) ELSE Refuse(t)
    /\ UNCHANGED <<client, open, subscribed, notifyErrors, slots>>

BroadcastTicket(t) ==
    \/ GetParent(t) \/ SendParent(t) \/ Retry(t) \/ GetTicket(t) \/ SendTicket(t)

-----------------------------------------------------------------------------
\* A background goroutine has no request; it panics when the connection has become
\* nil, and with it all requests end.
ProcessDies(t) ==
    t \in Background /\ client = None /\ (At(t, "closeAsk") \/ At(t, "closeNow"))

\* The steps of RpcConnect.  A request that was received is answered before it
\* lets go of the connection; requests without a ticket do so at once.
Connect(t) ==
    /\ At(t, "use") => req[t].pc \in {"none", "passed"}
    /\ Client(t)
    /\ IF ProcessDies(t)
       THEN req' = [u \in Threads |-> NoRequest] /\ slots' = 0
       ELSE req' = [req EXCEPT ![t] = NoRequest] /\ UNCHANGED slots
    /\ UNCHANGED mond

BreakConnection(c) == Break(c) /\ UNCHANGED <<req, slots, mond>>

BroadcastInit ==
    /\ Init
    /\ req = [t \in Threads |-> NoRequest]
    /\ slots = 0
    /\ mond \in [Txs -> {"unknown", "mempool", "mined"}] /\ Consistent(mond)

BroadcastNext ==
    \/ \E t \in Threads : Connect(t)
    \/ \E c \in Conns : BreakConnection(c)
    \/ \E t \in Web : Receive(t) \/ BroadcastTicket(t)
    \/ \E tx \in Txs : Network(tx)

BroadcastSpec == BroadcastInit /\ [][BroadcastNext]_bvars

\* As in RpcConnect; calls of a request return too.
BroadcastFairness ==
    /\ \A t \in Threads : WF_bvars(~ At(t, "idle") /\ Connect(t))
    /\ \A t \in Web : WF_bvars(BroadcastTicket(t))
    /\ \A t \in Background : SF_bvars(At(t, "idle") /\ Connect(t))

FairBroadcastSpec == BroadcastSpec /\ BroadcastFairness

-----------------------------------------------------------------------------
BroadcastTypeOK ==
    /\ ConnectTypeOK
    /\ req \in [Threads -> [pc : {"none", "getParent", "sendParent", "retry", "getTicket",
                                  "sendTicket", "passed"},
                            ticket : Tickets \union {None}, parent : Parents \union {None},
                            left : 0 .. MaxAttempts]]
    /\ slots \in 0 .. MaxBroadcasts
    /\ mond \in [Txs -> {"unknown", "mempool", "mined"}]

Waiting == {t \in Threads : req[t].pc = "retry"}

\* The semaphore counts the requests that wait, whatever becomes of their calls
\* and connections: no slot is lost and none is given back twice.
SlotsCounted == slots = Cardinality(Waiting)

\* "broadcastTicket will ensure that the local mond instance is aware of the
\* provided ticket." (middleware.go:202): when a request gets to its handler mond
\* has the ticket.
PassedKnown ==
    [][\A t \in Web : req'[t].pc = "passed" /\ req[t].pc # "passed"
                        => mond'[req[t].ticket] # "unknown"]_bvars

\* No request makes vspm broadcast a transaction other than a ticket and one
\* whose output a ticket spends; what comes from the network is not unknown to
\* it.
OnlyTicketsAndParents ==
    [][\A tx \in Txs : (\E t \in Web : req'[t] # req[t]) /\ mond'[tx] # mond[tx]
                        => tx \in Tickets \union UNION {Inputs[k] : k \in Tickets}]_bvars

\* A request that waits gives its slot back, with the connection gone or not.
SlotReleased == \A t \in Web : (t \in Waiting) ~> (t \notin Waiting)
=============================================================================
