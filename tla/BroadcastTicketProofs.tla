----------------------- MODULE BroadcastTicketProofs -----------------------
(***************************************************************************)
(* Proofs of the safety properties of RpcConnect, then of BroadcastTicket, *)
(* for any number of goroutines, connections, transactions, slots,         *)
(* attempts and faults.                                                    *)
(*                                                                         *)
(* OneOpenConnection is not inductive: a dial adds an open connection, and *)
(* only because one goroutine dials at a time, with the client field nil   *)
(* from StartDial on, is there none to be left behind.  DialInv says so.   *)
(***************************************************************************)
EXTENDS BroadcastTicket, FiniteSetTheorems, TLAPS

-----------------------------------------------------------------------------
(* The connection                                                          *)

\* The goroutine in dial has the mutex, and has found no connection or has
\* dropped the dead one.
DialInv ==
    \A t \in Threads : At(t, "dial") =>
        /\ client = None
        /\ \A u \in Threads : At(u, "dial") => u = t

ConnectInv == ConnectTypeOK /\ OneOpenConnection /\ DialInv

\* What a goroutine may be doing.
LEMMA IdleTyped == Idle \in [pc : ThreadState, conn : Conns \union {None}]
BY DEF Idle, ThreadState

\* The invariant holds at first.
LEMMA ConnectInit == Init => ConnectInv
<1> SUFFICES ASSUME Init PROVE ConnectInv
  OBVIOUS
<1>1. ConnectTypeOK
  BY IdleTyped DEF Init, ConnectTypeOK
<1>2. OneOpenConnection /\ DialInv
  BY DEF Init, OneOpenConnection, DialInv, At, Idle
<1> QED
  BY <1>1, <1>2 DEF ConnectInv

-----------------------------------------------------------------------------
\* A step that leaves the client field alone, opens no connection, and in which
\* nobody starts to dial.
LEMMA NothingDialled ==
    ASSUME ConnectInv, ConnectTypeOK', UNCHANGED client, open' \subseteq open,
           \A t \in Threads : At(t, "dial")' => At(t, "dial")
    PROVE  ConnectInv'
BY DEF ConnectInv, OneOpenConnection, DialInv

\* Every step keeps the invariant.
LEMMA ConnectNext == ConnectInv /\ [Next]_vars => ConnectInv'
<1> SUFFICES ASSUME ConnectInv, [Next]_vars PROVE ConnectInv'
  OBVIOUS
<1> USE DEF At
<1>0. ConnectTypeOK
  BY DEF ConnectInv
<1>1. ASSUME NEW t \in Threads, NEW pc \in ThreadState, pc # "dial", Go(t, pc),
             UNCHANGED client, open' \subseteq open, subscribed' \subseteq Conns,
             faults' \in Nat, notifyErrors' \in Nat
      PROVE  ConnectInv'
  <2>1. ConnectTypeOK'
    BY <1>0, <1>1 DEF ConnectTypeOK, Go
  <2>2. \A u \in Threads : At(u, "dial")' => At(u, "dial")
    BY <1>0, <1>1 DEF ConnectTypeOK, Go
  <2> QED
    BY <1>1, <2>1, <2>2, NothingDialled
<1>2. ASSUME NEW t \in Threads, Finish(t), UNCHANGED client, open' \subseteq open,
             subscribed' \subseteq Conns, faults' \in Nat, notifyErrors' \in Nat
      PROVE  ConnectInv'
  <2>1. ConnectTypeOK'
    BY <1>0, <1>2, IdleTyped DEF ConnectTypeOK, Finish
  <2>2. \A u \in Threads : At(u, "dial")' => At(u, "dial")
    BY <1>0, <1>2 DEF ConnectTypeOK, Finish, Idle
  <2> QED
    BY <1>2, <2>1, <2>2, NothingDialled
<1>3. faults \in Nat /\ notifyErrors \in Nat /\ subscribed \subseteq Conns
      /\ open \subseteq Conns /\ (Fault => faults' \in Nat)
  BY <1>0 DEF ConnectTypeOK, Fault
<1>4. ASSUME NEW t \in Threads, Reuse(t) PROVE ConnectInv'
  <2>1. /\ UNCHANGED <<client, open, subscribed, faults, notifyErrors>>
        /\ th' = [th EXCEPT ![t] = [pc |-> "use", conn |-> client]]
    BY <1>4 DEF Reuse
  <2>2. ConnectTypeOK'
    BY <1>0, <2>1 DEF ConnectTypeOK, ThreadState
  <2>3. \A u \in Threads : At(u, "dial")' => At(u, "dial")
    BY <1>0, <2>1 DEF ConnectTypeOK
  <2> QED
    BY <2>1, <2>2, <2>3, NothingDialled
<1>5. ASSUME NEW t \in Threads, StartDial(t) PROVE ConnectInv'
  <2>1. /\ \A u \in Threads : th[u].pc # "dial"
        /\ client \notin open /\ client' = None
        /\ th' = [th EXCEPT ![t].pc = "dial"]
        /\ UNCHANGED <<open, subscribed, faults, notifyErrors>>
    BY <1>5 DEF StartDial, MutexFree, Alive, Go
  <2>2. ConnectTypeOK'
    BY <1>0, <2>1 DEF ConnectTypeOK, ThreadState
  <2>3. open = {}
    BY <2>1 DEF ConnectInv, OneOpenConnection
  <2>4. \A u \in Threads : th'[u].pc = "dial" => u = t
    BY <1>0, <2>1 DEF ConnectTypeOK
  <2> QED
    BY <2>1, <2>2, <2>3, <2>4 DEF ConnectInv, OneOpenConnection, DialInv
<1>6. ASSUME NEW t \in Threads, DialSucceeds(t) PROVE ConnectInv'
  <2>1. PICK c \in Conns \ open :
            /\ client' = c /\ open' = open \union {c} /\ subscribed' = subscribed \ {c}
            /\ th' = [th EXCEPT ![t] = [pc |-> "check", conn |-> c]]
    BY <1>6 DEF DialSucceeds
  <2>2. th[t].pc = "dial" /\ UNCHANGED <<faults, notifyErrors>>
    BY <1>6 DEF DialSucceeds
  <2>3. ConnectTypeOK'
    BY <1>0, <2>1, <2>2 DEF ConnectTypeOK, ThreadState
  <2>4. open = {}
    BY <1>3, <2>2, ConnectAssumption DEF ConnectInv, OneOpenConnection, DialInv
  <2>5. \A u \in Threads : th'[u].pc # "dial"
    BY <1>0, <2>1, <2>2 DEF ConnectInv, DialInv, ConnectTypeOK
  <2> QED
    BY <2>1, <2>3, <2>4, <2>5 DEF ConnectInv, OneOpenConnection, DialInv
<1>7. ASSUME NEW t \in Threads, DialFails(t) PROVE ConnectInv'
  <2>1. UNCHANGED client
    BY <1>7 DEF DialFails, ConnectInv, DialInv
  <2> QED
    BY <1>2, <1>3, <1>7, <2>1 DEF DialFails
<1>8. ASSUME NEW t \in Threads, CheckMond(t) PROVE ConnectInv'
  BY <1>1, <1>3, <1>8 DEF CheckMond, ThreadState
<1>9. ASSUME NEW t \in Threads, NotifyBlocks(t) PROVE ConnectInv'
  <2>1. CASE th[t].conn \in open /\ Go(t, "use")
             /\ subscribed' = subscribed \union {th[t].conn}
             /\ UNCHANGED <<client, open, faults, notifyErrors>>
    BY <1>1, <1>3, <2>1 DEF ThreadState
  <2>2. CASE Finish(t) /\ UNCHANGED <<client, open, subscribed, faults>>
             /\ (notifyErrors' = notifyErrors \/ notifyErrors' = notifyErrors + 1)
    BY <1>2, <1>3, <2>2
  <2> QED
    BY <1>9, <2>1, <2>2 DEF NotifyBlocks
<1>10. ASSUME NEW t \in Threads, Release(t) PROVE ConnectInv'
  BY <1>2, <1>3, <1>10 DEF Release
<1>11. ASSUME NEW t \in Threads, Panic(t),
              UNCHANGED <<subscribed, faults, notifyErrors>>
       PROVE  ConnectInv'
  <2>1. CASE t \in Background
    <3>1. th' = [u \in Threads |-> Idle] /\ open' = {} /\ UNCHANGED client
      BY <1>11, <2>1 DEF Panic
    <3>2. ConnectTypeOK'
      BY <1>0, <1>11, <3>1, IdleTyped DEF ConnectTypeOK
    <3>3. \A u \in Threads : At(u, "dial")' => At(u, "dial")
      BY <3>1 DEF Idle
    <3> QED
      BY <3>1, <3>2, <3>3, NothingDialled
  <2>2. CASE t \notin Background
    BY <1>2, <1>3, <1>11, <2>2 DEF Panic
  <2> QED
    BY <2>1, <2>2
<1>12. ASSUME NEW t \in Threads, CloseIfAny(t) PROVE ConnectInv'
  BY <1>1, <1>2, <1>3, <1>12 DEF CloseIfAny, ThreadState
<1>13. ASSUME NEW t \in Threads, CloseUnlessDone(t) PROVE ConnectInv'
  BY <1>1, <1>2, <1>3, <1>11, <1>13 DEF CloseUnlessDone, ThreadState
<1>14. ASSUME NEW t \in Threads, CloseNow(t) PROVE ConnectInv'
  BY <1>2, <1>3, <1>11, <1>14 DEF CloseNow
<1>15. ASSUME NEW c \in Conns, Break(c) PROVE ConnectInv'
  <2>1. ConnectTypeOK'
    BY <1>0, <1>3, <1>15 DEF ConnectTypeOK, Break
  <2> QED
    BY <1>15, <2>1, NothingDialled DEF Break
<1>16. CASE UNCHANGED vars
  BY <1>0, <1>16, NothingDialled DEF vars, ConnectTypeOK
<1> QED
  BY <1>4, <1>5, <1>6, <1>7, <1>8, <1>9, <1>10, <1>12, <1>13, <1>14, <1>15, <1>16
     DEF Next, Client, Dial, SetUp, Close

\* At most one connection to mond is open, the one in the client field: no
\* interleaving of dial, which has the mutex, and Close, which has not, leaks one.
THEOREM OneOpenCorrect == Spec => []OneOpenConnection
<1>1. ConnectInv => OneOpenConnection
  BY DEF ConnectInv
<1> QED
  BY <1>1, ConnectInit, ConnectNext, PTL DEF Spec

-----------------------------------------------------------------------------
(* The requests that broadcast a ticket                                    *)

RequestState == {"none", "getParent", "sendParent", "retry", "getTicket", "sendTicket", "passed"}

Requests == [pc : RequestState, ticket : Tickets \union {None}, parent : Parents \union {None},
             left : 0 .. MaxAttempts]

MondState == [Txs -> {"unknown", "mempool", "mined"}]

\* A request has its goroutine at work with a connection; it has a ticket; and
\* what it sends as the parent is one.
RequestOK(t) ==
    /\ req[t].pc # "none" => At(t, "use")
    /\ req[t].pc \notin {"none", "passed"} => req[t].ticket \in Tickets /\ req[t].parent \in Parents
    /\ req[t].pc \in {"sendParent", "retry"} => req[t].parent \in Inputs[req[t].ticket]

BroadcastInv ==
    /\ ConnectInv
    /\ req \in [Threads -> Requests]
    /\ mond \in MondState
    /\ \A t \in Threads : RequestOK(t)
    /\ slots \in 0 .. MaxBroadcasts
    /\ SlotsCounted

-----------------------------------------------------------------------------
(* What the steps of a request leave of the rest                           *)

\* Asking mond for a transaction changes nothing there.
LEMMA RawCall ==
    ASSUME faults \in Nat, NEW t, NEW tx, NEW result, GetRawTransaction(t, tx, result)
    PROVE  faults' \in Nat /\ mond' = mond /\ (result = "found" => Known(tx))
BY DEF GetRawTransaction

\* Sending a transaction changes at most what mond knows of it.
LEMMA SendCall ==
    ASSUME faults \in Nat, mond \in MondState, NEW t, NEW tx \in Txs, NEW result,
           SendRawTransaction(t, tx, result)
    PROVE  /\ faults' \in Nat /\ mond' \in MondState
           /\ \A x \in Txs : mond'[x] # mond[x] => x = tx
           /\ result = "nil" => mond'[tx] # "unknown"
BY DEF SendRawTransaction, MondState, Known

\* Tickets and their parents are transactions.
LEMMA InputsAreTxs == ASSUME NEW k \in Tickets PROVE k \in Txs /\ Inputs[k] \subseteq Txs
BY BroadcastAssumption

\* The record of a goroutine without a request, and of a passed one.
LEMMA NoRequestTyped == NoRequest \in Requests /\ [NoRequest EXCEPT !.pc = "passed"] \in Requests
BY BroadcastAssumption DEF NoRequest, Requests, RequestState

\* What th may become in a step of the request of t.
LEMMA HandlerConnect ==
    ASSUME ConnectInv, NEW t \in Threads, UNCHANGED <<client, open, subscribed, notifyErrors>>,
           faults' \in Nat, UNCHANGED th \/ Finish(t)
    PROVE  ConnectInv'
<1>1. ConnectTypeOK'
  BY IdleTyped DEF ConnectInv, ConnectTypeOK, Finish
<1>2. \A u \in Threads : At(u, "dial")' => At(u, "dial")
  BY DEF ConnectInv, ConnectTypeOK, Finish, Idle, At
<1> QED
  BY <1>1, <1>2, NothingDialled

\* The forms of a step of a request: it proceeds to another call, begins to
\* wait, goes on waiting, passes, or is refused; slots are changed at the two ends of waiting.
Moves(t) ==
    \/ \E pc \in {"getTicket", "sendParent", "sendTicket"} :
        /\ Proceed(t, pc)
        /\ pc = "sendParent" => req[t].parent \in Inputs[req[t].ticket]
        /\ IF req[t].pc = "retry" THEN slots' = slots - 1 ELSE UNCHANGED slots
    \/ /\ req[t].pc = "sendParent" /\ slots < MaxBroadcasts /\ slots' = slots + 1
       /\ req' = [req EXCEPT ![t].pc = "retry", ![t].left = MaxAttempts] /\ UNCHANGED th
    \/ /\ req[t].pc = "retry" /\ req[t].left > 1
       /\ req' = [req EXCEPT ![t].left = @ - 1] /\ UNCHANGED <<th, slots>>
    \/ Pass(t) /\ UNCHANGED slots /\ req[t].pc \in {"getTicket", "sendTicket"}
    \/ Refuse(t) /\ IF req[t].pc = "retry" THEN slots' = slots - 1 ELSE UNCHANGED slots

\* All that a step of a request may do, and what it sends.
LEMMA HandlerStep ==
    ASSUME BroadcastInv, NEW t \in Web, BroadcastTicket(t)
    PROVE  /\ t \in Threads /\ At(t, "use") /\ req[t].pc \notin {"none", "passed"}
           /\ UNCHANGED <<client, open, subscribed, notifyErrors>>
           /\ faults' \in Nat /\ mond' \in MondState
           /\ Moves(t)
           /\ \A x \in Txs : mond'[x] # mond[x] =>
                x \in Tickets \union UNION {Inputs[k] : k \in Tickets}
           /\ Pass(t) => mond'[req[t].ticket] # "unknown"
<1>0. t \in Threads /\ faults \in Nat /\ mond \in MondState /\ req[t] \in Requests
  BY DEF BroadcastInv, ConnectInv, ConnectTypeOK, Web
<1>1. CASE GetParent(t)
  <2>1. PICK result \in {"found", "ErrNoTxInfo", "error"} :
            /\ GetRawTransaction(t, req[t].parent, result)
            /\ \/ result = "found" /\ Proceed(t, "getTicket")
               \/ result = "ErrNoTxInfo" /\ IsParent(req[t]) /\ Proceed(t, "sendParent")
               \/ result = "ErrNoTxInfo" /\ ~ IsParent(req[t]) /\ Refuse(t)
               \/ result = "error" /\ Refuse(t)
    BY <1>1 DEF GetParent
  <2>2. faults' \in Nat /\ mond' = mond
    BY <1>0, <2>1, RawCall
  <2>3. Doing(t, "getParent") /\ UNCHANGED <<client, open, subscribed, notifyErrors, slots>>
    BY <1>1 DEF GetParent
  <2>4. ~ Pass(t)
    BY <1>0, <2>1 DEF Pass, Proceed, Refuse, NoRequest, BroadcastInv
  <2>5. Moves(t)
    BY <2>1, <2>3 DEF Moves, IsParent, Doing
  <2> QED
    BY <1>0, <2>2, <2>3, <2>4, <2>5 DEF Doing
<1>2. CASE SendParent(t)
  <2>1. PICK result \in {"nil", "orphan", "error"} :
            /\ SendRawTransaction(t, req[t].parent, result)
            /\ \/ result = "nil" /\ Proceed(t, "getTicket") /\ UNCHANGED slots
               \/ /\ result = "orphan" /\ SlotFree
                  /\ slots' = slots + 1
                  /\ req' = [req EXCEPT ![t].pc = "retry", ![t].left = MaxAttempts]
                  /\ UNCHANGED th
               \/ Refuse(t) /\ UNCHANGED slots
    BY <1>2 DEF SendParent
  <2>2. Doing(t, "sendParent") /\ UNCHANGED <<client, open, subscribed, notifyErrors>>
    BY <1>2 DEF SendParent
  <2>3. req[t].ticket \in Tickets /\ req[t].parent \in Inputs[req[t].ticket]
    BY <1>0, <2>2 DEF BroadcastInv, RequestOK, Doing
  <2>4. req[t].parent \in Txs
    BY <2>3, InputsAreTxs
  <2>5. faults' \in Nat /\ mond' \in MondState /\ \A x \in Txs : mond'[x] # mond[x] => x = req[t].parent
    BY <1>0, <2>1, <2>4, SendCall
  <2>6. Moves(t)
    BY <2>1, <2>2 DEF Moves, SlotFree, Doing
  <2>7. ~ Pass(t)
    BY <1>0, <2>1 DEF Pass, Proceed, Refuse, NoRequest, BroadcastInv
  <2> QED
    BY <1>0, <2>2, <2>3, <2>5, <2>6, <2>7 DEF Doing
<1>3. CASE Retry(t)
  <2>1. PICK result \in {"nil", "orphan", "error"} :
            /\ SendRawTransaction(t, req[t].parent, result)
            /\ \/ Proceed(t, "getTicket") /\ slots' = slots - 1
               \/ /\ req[t].left > 1
                  /\ req' = [req EXCEPT ![t].left = @ - 1]
                  /\ UNCHANGED <<th, slots>>
               \/ Refuse(t) /\ slots' = slots - 1
    BY <1>3 DEF Retry, ReleaseSlot, NextAttempt
  <2>2. Doing(t, "retry") /\ UNCHANGED <<client, open, subscribed, notifyErrors>>
    BY <1>3 DEF Retry
  <2>3. req[t].ticket \in Tickets /\ req[t].parent \in Inputs[req[t].ticket]
    BY <1>0, <2>2 DEF BroadcastInv, RequestOK, Doing
  <2>4. req[t].parent \in Txs
    BY <2>3, InputsAreTxs
  <2>5. faults' \in Nat /\ mond' \in MondState /\ \A x \in Txs : mond'[x] # mond[x] => x = req[t].parent
    BY <1>0, <2>1, <2>4, SendCall
  <2>6. Moves(t)
    BY <2>1, <2>2 DEF Moves, Doing
  <2>7. ~ Pass(t)
    BY <1>0, <2>1, <2>2 DEF Pass, Proceed, Refuse, NoRequest, BroadcastInv, Doing
  <2> QED
    BY <1>0, <2>2, <2>3, <2>5, <2>6, <2>7 DEF Doing
<1>4. CASE GetTicket(t)
  <2>1. PICK result \in {"found", "ErrNoTxInfo", "error"} :
            /\ GetRawTransaction(t, req[t].ticket, result)
            /\ \/ result = "found" /\ Pass(t)
               \/ result = "ErrNoTxInfo" /\ Proceed(t, "sendTicket")
               \/ result = "error" /\ Refuse(t)
    BY <1>4 DEF GetTicket
  <2>2. faults' \in Nat /\ mond' = mond /\ (result = "found" => Known(req[t].ticket))
    BY <1>0, <2>1, RawCall
  <2>3. Doing(t, "getTicket") /\ UNCHANGED <<client, open, subscribed, notifyErrors, slots>>
    BY <1>4 DEF GetTicket
  <2>4. Moves(t)
    BY <2>1, <2>3 DEF Moves, Doing
  <2>5. Pass(t) => result = "found"
    BY <1>0, <2>1 DEF Pass, Proceed, Refuse, NoRequest, BroadcastInv
  <2> QED
    BY <1>0, <2>2, <2>3, <2>4, <2>5 DEF Doing, Known
<1>5. CASE SendTicket(t)
  <2>1. PICK result \in {"nil", "orphan", "error"} :
            /\ SendRawTransaction(t, req[t].ticket, result)
            /\ IF result = "nil" THEN Pass(t) ELSE Refuse(t)
    BY <1>5 DEF SendTicket, IsSent
  <2>2. Doing(t, "sendTicket") /\ UNCHANGED <<client, open, subscribed, notifyErrors, slots>>
    BY <1>5 DEF SendTicket
  <2>3. req[t].ticket \in Tickets
    BY <1>0, <2>2 DEF BroadcastInv, RequestOK, Doing
  <2>4. /\ faults' \in Nat /\ mond' \in MondState
        /\ \A x \in Txs : mond'[x] # mond[x] => x = req[t].ticket
        /\ result = "nil" => mond'[req[t].ticket] # "unknown"
    BY <1>0, <2>1, <2>3, InputsAreTxs, SendCall
  <2>5. Pass(t) => result = "nil"
    BY <1>0, <2>1 DEF Pass, Refuse, NoRequest, BroadcastInv
  <2>6. Moves(t)
    BY <2>1, <2>2 DEF Moves, Doing
  <2> QED
    BY <1>0, <2>2, <2>3, <2>4, <2>5, <2>6 DEF Doing
<1> QED
  BY <1>1, <1>2, <1>3, <1>4, <1>5 DEF BroadcastTicket

-----------------------------------------------------------------------------
(* The slots and those who wait                                            *)

\* Finitely many requests wait for mond to know the inputs of a parent.
LEMMA WaitingFinite == IsFiniteSet(Waiting) /\ Cardinality(Waiting) \in Nat
<1>1. Waiting \subseteq Threads /\ IsFiniteSet(Threads)
  BY BroadcastAssumption DEF Waiting
<1> QED
  BY <1>1, FS_Subset, FS_CardinalityType

\* The number of those who wait changes as the request of one goroutine does.
LEMMA WaitingChanges ==
    ASSUME BroadcastInv, NEW t \in Threads, NEW r \in Requests, req' = [req EXCEPT ![t] = r]
    PROVE  /\ req[t].pc # "retry" /\ r.pc # "retry" => Cardinality(Waiting') = slots
           /\ req[t].pc = "retry" /\ r.pc = "retry" => Cardinality(Waiting') = slots
           /\ req[t].pc # "retry" /\ r.pc = "retry" => Cardinality(Waiting') = slots + 1
           /\ req[t].pc = "retry" /\ r.pc # "retry" => Cardinality(Waiting') = slots - 1 /\ slots > 0
<1>1. req \in [Threads -> Requests] /\ slots = Cardinality(Waiting)
  BY DEF BroadcastInv, SlotsCounted
<1>2. \A u \in Threads : req'[u] = IF u = t THEN r ELSE req[u]
  BY <1>1
<1>3. (req[t].pc = "retry" <=> r.pc = "retry") => Waiting' = Waiting
  BY <1>2 DEF Waiting
<1>4. CASE req[t].pc # "retry" /\ r.pc = "retry"
  <2>1. Waiting' = Waiting \union {t} /\ t \notin Waiting
    BY <1>2, <1>4 DEF Waiting
  <2> QED
    BY <1>1, <1>4, <2>1, WaitingFinite, FS_AddElement
<1>5. CASE req[t].pc = "retry" /\ r.pc # "retry"
  <2>1. Waiting' = Waiting \ {t} /\ t \in Waiting
    BY <1>2, <1>5 DEF Waiting
  <2>2. Cardinality(Waiting') = Cardinality(Waiting) - 1 /\ Cardinality(Waiting) # 0
    BY <2>1, WaitingFinite, FS_RemoveElement, FS_EmptySet
  <2> QED
    BY <1>1, <1>5, <2>2, WaitingFinite
<1> QED
  BY <1>1, <1>3, <1>4, <1>5

\* The invariant, after a step that changes one request to r.
LEMMA OneRequest ==
    ASSUME BroadcastInv, NEW t \in Threads, NEW r \in Requests, req' = [req EXCEPT ![t] = r],
           ConnectInv', mond' \in MondState, slots' \in 0 .. MaxBroadcasts,
           slots' = CASE req[t].pc # "retry" /\ r.pc = "retry" -> slots + 1
                      [] req[t].pc = "retry" /\ r.pc # "retry" -> slots - 1
                      [] OTHER -> slots,
           RequestOK(t)',
           \A u \in Threads \ {t} : At(u, "use") => At(u, "use")'
    PROVE  BroadcastInv'
<1>1. req' \in [Threads -> Requests]
  BY DEF BroadcastInv
<1>2. SlotsCounted'
  BY WaitingChanges DEF SlotsCounted
<1>3. ASSUME NEW u \in Threads PROVE RequestOK(u)'
  <2>1. CASE u # t
    <3>1. req'[u] = req[u] /\ RequestOK(u)
      BY <2>1 DEF BroadcastInv
    <3> QED
      BY <2>1, <3>1 DEF RequestOK
  <2> QED
    BY <2>1
<1> QED
  BY <1>1, <1>2, <1>3 DEF BroadcastInv

\* The slots in use are a number, at most the limit.
LEMMA SlotsBound == MaxBroadcasts \in Nat /\ (BroadcastInv => slots \in Nat /\ slots <= MaxBroadcasts)
BY BroadcastAssumption DEF BroadcastInv

-----------------------------------------------------------------------------
(* The steps                                                               *)

\* A step of a request keeps the invariant.
LEMMA HandlerNext ==
    ASSUME BroadcastInv, NEW t \in Web, BroadcastTicket(t)
    PROVE  BroadcastInv'
<1>0. /\ t \in Threads /\ At(t, "use") /\ req[t].pc \notin {"none", "passed"}
      /\ UNCHANGED <<client, open, subscribed, notifyErrors>>
      /\ faults' \in Nat /\ mond' \in MondState
      /\ Moves(t)
  BY HandlerStep
<1>1. req[t] \in Requests /\ ConnectInv /\ RequestOK(t)
  BY <1>0 DEF BroadcastInv
<1>2. th \in [Threads -> [pc : ThreadState, conn : Conns \union {None}]]
  BY <1>1 DEF ConnectInv, ConnectTypeOK
<1>3. UNCHANGED th \/ Finish(t)
  BY <1>0 DEF Moves, Proceed, Pass, Refuse
<1>4. ConnectInv'
  BY <1>0, <1>1, <1>3, HandlerConnect
<1>5. \A u \in Threads \ {t} : At(u, "use") => At(u, "use")'
  BY <1>0, <1>2, <1>3 DEF Finish, At
<1>6. slots \in Nat /\ slots <= MaxBroadcasts /\ MaxBroadcasts \in Nat /\ MaxAttempts \in Nat \ {0}
  BY SlotsBound, BroadcastAssumption
<1>7. req[t].pc = "retry" => slots > 0
  <2>1. req' = [req EXCEPT ![t] = NoRequest] => (req[t].pc = "retry" => slots > 0)
    BY <1>0, WaitingChanges, NoRequestTyped DEF NoRequest
  <2>2. req[t].pc = "retry" => t \in Waiting
    BY <1>0 DEF Waiting
  <2>3. slots = Cardinality(Waiting)
    BY DEF BroadcastInv, SlotsCounted
  <2> QED
    BY <1>6, <2>2, <2>3, WaitingFinite, FS_EmptySet
<1>8. ASSUME NEW pc \in {"getTicket", "sendParent", "sendTicket"}, Proceed(t, pc),
             pc = "sendParent" => req[t].parent \in Inputs[req[t].ticket],
             IF req[t].pc = "retry" THEN slots' = slots - 1 ELSE UNCHANGED slots
      PROVE  BroadcastInv'
  <2> DEFINE r == [req[t] EXCEPT !.pc = pc, !.left = 0]
  <2>1. r \in Requests /\ r.pc = pc /\ r.ticket = req[t].ticket /\ r.parent = req[t].parent
    <3>1. 0 \in 0 .. MaxAttempts
      BY <1>6
    <3>2. pc \in RequestState
      BY <1>8 DEF RequestState
    <3> QED
      BY <1>1, <3>1, <3>2 DEF Requests
  <2>2. req' = [req EXCEPT ![t] = r] /\ UNCHANGED th
    BY <1>8 DEF Proceed
  <2>3. req'[t] = r
    BY <1>0, <2>2 DEF BroadcastInv
  <2> HIDE DEF r
  <2>4. RequestOK(t)'
    BY <1>0, <1>1, <1>8, <2>1, <2>2, <2>3 DEF RequestOK, At
  <2>5. slots' \in 0 .. MaxBroadcasts
    BY <1>6, <1>7, <1>8
  <2> QED
    BY <1>0, <1>4, <1>5, <1>8, <2>1, <2>2, <2>4, <2>5, OneRequest
<1>9. ASSUME req[t].pc = "sendParent", slots < MaxBroadcasts, slots' = slots + 1,
             req' = [req EXCEPT ![t].pc = "retry", ![t].left = MaxAttempts], UNCHANGED th
      PROVE  BroadcastInv'
  <2> DEFINE r == [req[t] EXCEPT !.pc = "retry", !.left = MaxAttempts]
  <2>1. r \in Requests /\ r.pc = "retry" /\ r.ticket = req[t].ticket /\ r.parent = req[t].parent
    <3>1. MaxAttempts \in 0 .. MaxAttempts
      BY <1>6
    <3> QED
      BY <1>1, <3>1 DEF Requests, RequestState
  <2>2. req' = [req EXCEPT ![t] = r]
    BY <1>9
  <2>3. req'[t] = r
    BY <1>0, <2>2 DEF BroadcastInv
  <2> HIDE DEF r
  <2>4. RequestOK(t)'
    BY <1>0, <1>1, <1>9, <2>1, <2>3 DEF RequestOK, At
  <2>5. slots' \in 0 .. MaxBroadcasts
    BY <1>6, <1>9
  <2> QED
    BY <1>0, <1>4, <1>5, <1>9, <2>1, <2>2, <2>4, <2>5, OneRequest
<1>10. ASSUME req[t].pc = "retry", req[t].left > 1, req' = [req EXCEPT ![t].left = @ - 1],
              UNCHANGED <<th, slots>>
       PROVE  BroadcastInv'
  <2> DEFINE r == [req[t] EXCEPT !.left = @ - 1]
  <2>1. r \in Requests /\ r.pc = "retry" /\ r.ticket = req[t].ticket /\ r.parent = req[t].parent
    <3>1. req[t].left \in 0 .. MaxAttempts
      BY <1>1 DEF Requests
    <3>2. req[t].left - 1 \in 0 .. MaxAttempts
      BY <1>6, <1>10, <3>1
    <3> QED
      BY <1>1, <1>10, <3>2 DEF Requests, RequestState
  <2>2. req' = [req EXCEPT ![t] = r]
    BY <1>10
  <2>3. req'[t] = r
    BY <1>0, <2>2 DEF BroadcastInv
  <2> HIDE DEF r
  <2>4. RequestOK(t)'
    BY <1>0, <1>1, <1>10, <2>1, <2>3 DEF RequestOK, At
  <2>5. slots' \in 0 .. MaxBroadcasts
    BY <1>6, <1>10
  <2> QED
    BY <1>0, <1>4, <1>5, <1>10, <2>1, <2>2, <2>4, <2>5, OneRequest
<1>11. ASSUME Pass(t), UNCHANGED slots, req[t].pc \in {"getTicket", "sendTicket"}
       PROVE  BroadcastInv'
  <2> DEFINE r == [NoRequest EXCEPT !.pc = "passed"]
  <2>1. r \in Requests /\ r.pc = "passed"
    BY NoRequestTyped DEF NoRequest
  <2>2. req' = [req EXCEPT ![t] = r] /\ UNCHANGED th
    BY <1>11 DEF Pass
  <2>3. req'[t] = r
    BY <1>0, <2>2 DEF BroadcastInv
  <2> HIDE DEF r
  <2>4. RequestOK(t)'
    BY <1>0, <2>1, <2>2, <2>3 DEF RequestOK, At
  <2>5. slots' \in 0 .. MaxBroadcasts
    BY <1>6, <1>11
  <2> QED
    BY <1>0, <1>4, <1>5, <1>11, <2>1, <2>2, <2>4, <2>5, OneRequest
<1>12. ASSUME Refuse(t), IF req[t].pc = "retry" THEN slots' = slots - 1 ELSE UNCHANGED slots
       PROVE  BroadcastInv'
  <2>1. NoRequest \in Requests /\ NoRequest.pc = "none"
    BY NoRequestTyped DEF NoRequest
  <2>2. req' = [req EXCEPT ![t] = NoRequest]
    BY <1>12 DEF Refuse
  <2>3. req'[t] = NoRequest
    BY <1>0, <2>2 DEF BroadcastInv
  <2>4. RequestOK(t)'
    BY <2>1, <2>3 DEF RequestOK
  <2>5. slots' \in 0 .. MaxBroadcasts
    BY <1>6, <1>7, <1>12
  <2> QED
    BY <1>0, <1>4, <1>5, <1>12, <2>1, <2>2, <2>4, <2>5, OneRequest
<1> QED
  BY <1>0, <1>8, <1>9, <1>10, <1>11, <1>12 DEF Moves

\* A new request keeps the invariant: it has nothing but its connection yet.
LEMMA ReceiveNext ==
    ASSUME BroadcastInv, NEW t \in Web, Receive(t)
    PROVE  BroadcastInv'
<1>1. PICK ticket \in Tickets, parent \in Parents :
          req' = [req EXCEPT ![t] = [pc |-> "getParent", ticket |-> ticket,
                                     parent |-> parent, left |-> 0]]
  BY DEF Receive
<1>2. Doing(t, "none") /\ UNCHANGED <<vars, slots, mond>> /\ t \in Threads
  BY DEF Receive, Web
<1> DEFINE r == [pc |-> "getParent", ticket |-> ticket, parent |-> parent, left |-> 0]
<1>3. r \in Requests /\ r.pc = "getParent" /\ r.ticket \in Tickets /\ r.parent \in Parents
  BY BroadcastAssumption DEF Requests, RequestState
<1>4. req'[t] = r
  BY <1>1, <1>2 DEF BroadcastInv
<1> HIDE DEF r
<1>5. ConnectInv'
  BY <1>2, ConnectNext DEF BroadcastInv
<1>6. th' = th
  BY <1>2 DEF vars
<1>7. RequestOK(t)'
  BY <1>2, <1>3, <1>4, <1>6 DEF RequestOK, Doing, At
<1>8. mond' \in MondState /\ slots' \in 0 .. MaxBroadcasts
  BY <1>2 DEF BroadcastInv
<1>9. req' = [req EXCEPT ![t] = r]
  BY <1>1 DEF r
<1>10. \A u \in Threads \ {t} : At(u, "use") => At(u, "use")'
  BY <1>6 DEF At
<1> QED
  BY <1>2, <1>3, <1>5, <1>7, <1>8, <1>9, <1>10, OneRequest DEF Doing

\* A step of RpcConnect changes what one goroutine is doing, unless the
\* process ends.
LEMMA ClientOthers ==
    ASSUME ConnectTypeOK, NEW t \in Threads, Client(t)
    PROVE  IF ProcessDies(t) THEN th' = [u \in Threads |-> Idle]
           ELSE \A u \in Threads \ {t} : th'[u] = th[u]
<1>1. th \in [Threads -> [pc : ThreadState, conn : Conns \union {None}]]
  BY DEF ConnectTypeOK
<1>2. CASE Reuse(t) \/ Dial(t) \/ SetUp(t) \/ CloseIfAny(t)
  <2>1. \A u \in Threads \ {t} : th'[u] = th[u]
    BY <1>1, <1>2 DEF Reuse, Dial, StartDial, DialSucceeds, DialFails, SetUp, CheckMond,
                      NotifyBlocks, Release, CloseIfAny, Go, Finish
  <2>2. ~ (At(t, "closeAsk") \/ At(t, "closeNow"))
    BY <1>2 DEF Reuse, Dial, StartDial, DialSucceeds, DialFails, SetUp, CheckMond,
                NotifyBlocks, Release, CloseIfAny, At
  <2> QED
    BY <2>1, <2>2 DEF ProcessDies
<1>3. CASE CloseUnlessDone(t) \/ CloseNow(t)
  <2>1. CASE Panic(t)
    BY <1>1, <1>3, <2>1 DEF Panic, CloseUnlessDone, CloseNow, ProcessDies, Finish
  <2>2. CASE ~ Panic(t)
    <3>1. client # None /\ \A u \in Threads \ {t} : th'[u] = th[u]
      BY <1>1, <1>3, <2>2 DEF CloseUnlessDone, CloseNow, Go, Finish
    <3> QED
      BY <3>1 DEF ProcessDies
  <2> QED
    BY <2>1, <2>2
<1> QED
  BY <1>2, <1>3 DEF Client, Close

\* So does a step of Connect, which begins or ends the life of a request.
LEMMA ConnectStepNext ==
    ASSUME BroadcastInv, NEW t \in Threads, Connect(t)
    PROVE  BroadcastInv'
<1>0. /\ Client(t) /\ UNCHANGED mond
      /\ At(t, "use") => req[t].pc \in {"none", "passed"}
      /\ IF ProcessDies(t)
         THEN req' = [u \in Threads |-> NoRequest] /\ slots' = 0
         ELSE req' = [req EXCEPT ![t] = NoRequest] /\ UNCHANGED slots
  BY DEF Connect
<1>1. ConnectInv' /\ ConnectTypeOK
  BY <1>0, ConnectNext DEF BroadcastInv, ConnectInv, Next
<1>2. NoRequest \in Requests /\ NoRequest.pc = "none"
  BY NoRequestTyped DEF NoRequest
<1>3. mond' \in MondState
  BY <1>0 DEF BroadcastInv
<1>4. CASE ProcessDies(t)
  <2>1. \A u \in Threads : req'[u] = NoRequest
    BY <1>0, <1>4
  <2>2. req' \in [Threads -> Requests]
    BY <1>0, <1>2, <1>4
  <2>3. \A u \in Threads : RequestOK(u)'
    BY <1>2, <2>1 DEF RequestOK
  <2>4. Waiting' = {}
    BY <1>2, <2>1 DEF Waiting
  <2>5. slots' = 0 /\ slots' = Cardinality(Waiting') /\ slots' \in 0 .. MaxBroadcasts
    BY <1>0, <1>4, <2>4, FS_EmptySet, SlotsBound
  <2> QED
    BY <1>1, <1>3, <2>2, <2>3, <2>5 DEF BroadcastInv, SlotsCounted
<1>5. CASE ~ ProcessDies(t)
  <2>1. \A u \in Threads \ {t} : At(u, "use") => At(u, "use")'
    BY <1>0, <1>1, <1>5, ClientOthers DEF At
  <2>2. req[t].pc # "retry"
    BY <1>0 DEF BroadcastInv, RequestOK
  <2>3. req' = [req EXCEPT ![t] = NoRequest] /\ slots' = slots
    BY <1>0, <1>5
  <2>4. req'[t] = NoRequest
    BY <2>3 DEF BroadcastInv
  <2>5. RequestOK(t)'
    BY <1>2, <2>4 DEF RequestOK
  <2>6. slots' \in 0 .. MaxBroadcasts
    BY <2>3 DEF BroadcastInv
  <2> QED
    BY <1>1, <1>2, <1>3, <2>1, <2>2, <2>3, <2>5, <2>6, OneRequest
<1> QED
  BY <1>4, <1>5

\* The requests stay as they are.
LEMMA SameRequests ==
    ASSUME BroadcastInv, ConnectInv', UNCHANGED <<th, req, slots>>, mond' \in MondState
    PROVE  BroadcastInv'
BY DEF BroadcastInv, RequestOK, At, SlotsCounted, Waiting

\* There are no requests at first.
LEMMA BroadcastInitially == BroadcastInit => BroadcastInv
<1> SUFFICES ASSUME BroadcastInit PROVE BroadcastInv
  OBVIOUS
<1>1. ConnectInv
  BY ConnectInit DEF BroadcastInit
<1>2. req \in [Threads -> Requests] /\ \A t \in Threads : RequestOK(t) /\ req[t].pc = "none"
  BY NoRequestTyped DEF BroadcastInit, RequestOK, NoRequest
<1>3. Waiting = {}
  BY <1>2 DEF Waiting
<1>4. slots = Cardinality(Waiting) /\ slots \in 0 .. MaxBroadcasts
  BY <1>3, FS_EmptySet, SlotsBound DEF BroadcastInit
<1> QED
  BY <1>1, <1>2, <1>4 DEF BroadcastInit, BroadcastInv, SlotsCounted, MondState

\* Every step keeps the invariant.
LEMMA BroadcastInductive == BroadcastInv /\ [BroadcastNext]_bvars => BroadcastInv'
<1> SUFFICES ASSUME BroadcastInv, [BroadcastNext]_bvars PROVE BroadcastInv'
  OBVIOUS
<1>1. ASSUME NEW c \in Conns, BreakConnection(c) PROVE BroadcastInv'
  <2>1. ConnectInv' /\ th' = th
    BY <1>1, ConnectNext DEF BroadcastInv, BreakConnection, Next, Break
  <2> QED
    BY <1>1, <2>1, SameRequests DEF BreakConnection, BroadcastInv
<1>2. ASSUME NEW tx \in Txs, Network(tx) PROVE BroadcastInv'
  <2>1. ConnectInv' /\ th' = th
    BY <1>2, ConnectNext DEF BroadcastInv, Network, vars
  <2>2. mond' \in MondState
    BY <1>2 DEF BroadcastInv, Network, MondState
  <2> QED
    BY <1>2, <2>1, <2>2, SameRequests DEF Network
<1>3. CASE UNCHANGED bvars
  <2>1. ConnectInv' /\ th' = th
    BY <1>3, ConnectNext DEF BroadcastInv, bvars, vars
  <2> QED
    BY <1>3, <2>1, SameRequests DEF bvars, BroadcastInv
<1> QED
  BY <1>1, <1>2, <1>3, HandlerNext, ReceiveNext, ConnectStepNext DEF BroadcastNext, Web

\* The inductive invariant: a connection in use for every request, a ticket and
\* its parent in every request that sends it, and as many slots as there are
\* requests that wait.
THEOREM BroadcastCorrect == BroadcastSpec => []BroadcastInv
BY BroadcastInitially, BroadcastInductive, PTL DEF BroadcastSpec

-----------------------------------------------------------------------------
\* The state is well typed: never more slots taken than there are, never more
\* attempts left than a request has.
THEOREM BroadcastTypeCorrect == BroadcastSpec => []BroadcastTypeOK
<1>1. BroadcastInv => BroadcastTypeOK
  BY DEF BroadcastInv, BroadcastTypeOK, ConnectInv, Requests, RequestState, MondState
<1> QED
  BY <1>1, BroadcastCorrect, PTL

\* No slot of the semaphore is lost or given back twice.
THEOREM SlotsCorrect == BroadcastSpec => []SlotsCounted
<1>1. BroadcastInv => SlotsCounted
  BY DEF BroadcastInv
<1> QED
  BY <1>1, BroadcastCorrect, PTL

\* At most one connection is open, with the requests that keep to theirs.
THEOREM OneOpenBroadcast == BroadcastSpec => []OneOpenConnection
<1>1. BroadcastInv => OneOpenConnection
  BY DEF BroadcastInv, ConnectInv
<1> QED
  BY <1>1, BroadcastCorrect, PTL

\* A step that changes requests is of one goroutine.
LEMMA OtherRequests ==
    ASSUME BroadcastInv, NEW t \in Web, BroadcastTicket(t), NEW u \in Threads, u # t
    PROVE  req'[u] = req[u]
BY HandlerStep DEF Moves, Proceed, Pass, Refuse, BroadcastInv

\* A request gets to its handler only when mond has the ticket.
THEOREM PassedCorrect == BroadcastSpec => PassedKnown
<1>1. ASSUME BroadcastInv, BroadcastNext, NEW t \in Web, req'[t].pc = "passed",
             req[t].pc # "passed"
      PROVE  mond'[req[t].ticket] # "unknown"
  <2>0. t \in Threads /\ req \in [Threads -> Requests]
    BY <1>1 DEF Web, BroadcastInv
  <2>1. CASE BroadcastTicket(t)
    <3>1. Moves(t) /\ (Pass(t) => mond'[req[t].ticket] # "unknown")
      BY <1>1, <2>1, HandlerStep
    <3>2. Pass(t)
      <4>1. t \in DOMAIN req /\ req[t] \in Requests
        BY <2>0
      <4>2. ASSUME NEW pc \in {"getTicket", "sendParent", "sendTicket"}, Proceed(t, pc)
            PROVE  FALSE
        <5>1. req'[t].pc = pc
          BY <2>0, <4>1, <4>2 DEF Proceed, Requests
        <5> QED
          BY <1>1, <4>2, <5>1
      <4>3. CASE req' = [req EXCEPT ![t].pc = "retry", ![t].left = MaxAttempts]
        <5>1. req'[t].pc = "retry"
          BY <2>0, <4>1, <4>3 DEF Requests
        <5> QED
          BY <1>1, <5>1
      <4>4. CASE req' = [req EXCEPT ![t].left = @ - 1]
        <5>1. req'[t].pc = req[t].pc
          BY <2>0, <4>1, <4>4 DEF Requests
        <5> QED
          BY <1>1, <5>1
      <4>5. CASE Refuse(t)
        BY <1>1, <2>0, <4>5 DEF Refuse, NoRequest
      <4> QED
        BY <3>1, <4>2, <4>3, <4>4, <4>5 DEF Moves
    <3> QED
      BY <3>1, <3>2
  <2>2. ASSUME NEW u \in Web, u # t, BroadcastTicket(u) PROVE FALSE
    BY <1>1, <2>0, <2>2, OtherRequests
  <2>3. ASSUME NEW u \in Threads, Connect(u) PROVE FALSE
    BY <1>1, <2>0, <2>3 DEF Connect, NoRequest
  <2>4. ASSUME NEW u \in Web, Receive(u) PROVE FALSE
    BY <1>1, <2>0, <2>4 DEF Receive, Web
  <2>5. ASSUME UNCHANGED req PROVE FALSE
    BY <1>1, <2>5
  <2> QED
    BY <1>1, <2>1, <2>2, <2>3, <2>4, <2>5 DEF BroadcastNext, BreakConnection, Network
<1>2. BroadcastInv /\ [BroadcastNext]_bvars =>
        [\A t \in Web : req'[t].pc = "passed" /\ req[t].pc # "passed"
                            => mond'[req[t].ticket] # "unknown"]_bvars
  BY <1>1
<1> QED
  BY <1>2, BroadcastCorrect, PTL DEF BroadcastSpec, PassedKnown

\* Of transactions, a request makes mond have only tickets, and their parents.
THEOREM SentCorrect == BroadcastSpec => OnlyTicketsAndParents
<1>1. ASSUME BroadcastInv, BroadcastNext, NEW tx \in Txs, NEW t \in Web, req'[t] # req[t],
             mond'[tx] # mond[tx]
      PROVE  tx \in Tickets \union UNION {Inputs[k] : k \in Tickets}
  <2>1. ASSUME NEW u \in Web, BroadcastTicket(u)
        PROVE  tx \in Tickets \union UNION {Inputs[k] : k \in Tickets}
    BY <1>1, <2>1, HandlerStep
  <2>2. CASE UNCHANGED mond
    BY <1>1, <2>2
  <2>3. CASE UNCHANGED req
    BY <1>1, <2>3
  <2> QED
    BY <1>1, <2>1, <2>2, <2>3 DEF BroadcastNext, Connect, BreakConnection, Receive, Network
<1>2. BroadcastInv /\ [BroadcastNext]_bvars =>
        [\A tx \in Txs : (\E t \in Web : req'[t] # req[t]) /\ mond'[tx] # mond[tx]
            => tx \in Tickets \union UNION {Inputs[k] : k \in Tickets}]_bvars
  BY <1>1
<1> QED
  BY <1>2, BroadcastCorrect, PTL DEF BroadcastSpec, OnlyTicketsAndParents
=============================================================================
