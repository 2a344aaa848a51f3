-------------------------- MODULE VspmServiceProofs --------------------------
(***************************************************************************)
(* What clients can rely on: no address is given to two tickets, a stored  *)
(* alternate signing address is not replaced, fees and wallets are treated *)
(* as VotingService says, the newest vote change stays recorded, and no    *)
(* ticket that is confirmed, paid for or on a wallet is removed.           *)
(***************************************************************************)
EXTENDS VspmSafetyProofs, FiniteSetTheorems

\* The address of a ticket is new: NewFeeAddress derives it as FreshAddresses says.
AddressesUnique ==
    /\ \A t, u \in Tickets : t # u => issued[t] \intersect issued[u] = {}
    /\ \A t \in Tickets : \A a \in issued[t] : a <= lastAddr

RegistrationInv ==
    /\ TypeInv
    /\ AddressesUnique
    \* The address a request is about to store has been acknowledged.
    /\ \A q \in Slots : req[q].pc = "insertAlt" => req[q].alt \in altAcked[req[q].t]

-----------------------------------------------------------------------------
\* A request that mond has been asked for goes on with its copy, in which nothing
\* but the expiration of the fee is changed.
LEMMA CheckCanVoteStep ==
    ASSUME TypeInv, NEW q \in Slots, CheckCanVote(q)
    PROVE  /\ req[q].pc = "check" /\ UNCHANGED altAcked
           /\ \E n : /\ req' = [req EXCEPT ![q] = n]
                    /\ n.pc \in {"new", "newFinal", "renew", "pay"}
                    /\ n.t = req[q].t /\ n.ts = req[q].ts
                    /\ \/ n.rec = req[q].rec
                       \/ req[q].rec # Absent /\ n.rec.Confirmed = req[q].rec.Confirmed
<1>1. req[q] \in [pc : RequestState, kind : Kinds \union {"none"},
                  t : Tickets \union {Absent}, rec : Ticket \union {Absent}, ts : Nat,
                  alt : AltSignAddrs \union {Absent}, left : SUBSET Wallets]
  BY DEF TypeInv, TypeOK
<1>2. req[q].pc = "check" /\ UNCHANGED altAcked
  BY DEF CheckCanVote, At, history
<1>3. ASSUME NEW pc \in {"new", "newFinal", "pay"}, req' = [req EXCEPT ![q].pc = pc]
      PROVE  \E n : /\ req' = [req EXCEPT ![q] = n]
                    /\ n.pc \in {"new", "newFinal", "renew", "pay"}
                    /\ n.t = req[q].t /\ n.ts = req[q].ts /\ n.rec = req[q].rec
  <2> DEFINE n == [req[q] EXCEPT !.pc = pc]
  <2>1. req' = [req EXCEPT ![q] = n]
    BY <1>3
  <2>2. n.pc = pc /\ n.t = req[q].t /\ n.ts = req[q].ts /\ n.rec = req[q].rec
    BY <1>1
  <2> HIDE DEF n
  <2> QED
    BY <1>3, <2>1, <2>2
<1>4. CASE /\ req[q].rec # Absent
           /\ req' = [req EXCEPT ![q].pc = "renew", ![q].rec.FeeExpiration = clock]
  <2> DEFINE r == [req[q].rec EXCEPT !.FeeExpiration = clock]
  <2>1. r.Confirmed = req[q].rec.Confirmed
    BY <1>1, <1>4 DEF Ticket
  <2> HIDE DEF r
  <2> DEFINE n == [req[q] EXCEPT !.pc = "renew", !.rec = r]
  <2>2. req' = [req EXCEPT ![q] = n]
    BY <1>4 DEF r
  <2>3. n.pc = "renew" /\ n.t = req[q].t /\ n.ts = req[q].ts /\ n.rec = r
    BY <1>1
  <2> HIDE DEF n
  <2> QED
    BY <1>2, <1>4, <2>1, <2>2, <2>3
<1> QED
  <2>1. \/ \E pc \in {"new", "newFinal", "pay"} : req' = [req EXCEPT ![q].pc = pc]
        \/ /\ req[q].rec # Absent
           /\ req' = [req EXCEPT ![q].pc = "renew", ![q].rec.FeeExpiration = clock]
    BY DEF CheckCanVote, Go, FeeUnknown
  <2> QED
    BY <1>2, <1>3, <1>4, <2>1

\* Fee addresses are derived, and their index moves on, in NewFeeAddress only.
LEMMA OnlyNewFeeAddress ==
    [Next]_vars => (\E q \in Slots : NewFeeAddress(q)) \/ UNCHANGED <<issued, lastAddr>>
<1> SUFFICES ASSUME [Next]_vars
             PROVE  (\E q \in Slots : NewFeeAddress(q)) \/ UNCHANGED <<issued, lastAddr>>
  OBVIOUS
<1> USE DEF database, chain, volatile, bounds, history
<1>1. Update => UNCHANGED <<issued, lastAddr>>
  BY DEF Update, StartUpdate, LookUpTicket, RemoveTicket, RemoveAltSignAddr, ConfirmTicket,
     StartBroadcastFees, SendPendingFee, SaveFeeSent, StartAddToWallets, LookUpFee, SaveFeeLost,
     SaveFeeFinal, AddToWallet, TicketAdded, SetOutcomes, SaveOutcome, EndUpdate
<1>2. ConsistencyCheck => UNCHANGED <<issued, lastAddr>>
  BY DEF ConsistencyCheck, StartConsistencyCheck, AddMissingTickets, StartChoicesCheck,
     CheckChoices, EndConsistencyCheck
<1>3. ASSUME NEW q \in Slots, Serve(q)
      PROVE  NewFeeAddress(q) \/ UNCHANGED <<issued, lastAddr>>
  BY <1>3 DEF Serve, Receive, BroadcastTicket, Refuse, CheckCanVote, RenewFee, InsertTicket, PayFee,
     SendPaidFee,
     SavePaidFeeSent, SavePaidFeeRefused, CheckVoteChoices, SaveVoteChoices, UpdateWallet,
     RecordVoteChange, CheckAltSignAddr, StoreAltSignAddr
<1>4. Environment \/ Crash \/ UNCHANGED vars => UNCHANGED <<issued, lastAddr>>
  BY DEF Environment, MineTicket, SpendTicket, DropTicket, MineFee, DropFee, PublishFee,
     OtherBlock, Tick, Crash, vars
<1> QED
  BY <1>1, <1>2, <1>3, <1>4 DEF Next

\* The index of a new address is above that of every address derived before.
LEMMA AddressesStayUnique ==
    TypeInv /\ AddressesUnique /\ [Next]_vars => AddressesUnique'
<1> SUFFICES ASSUME TypeInv, AddressesUnique, [Next]_vars PROVE AddressesUnique'
  OBVIOUS
<1>1. CASE UNCHANGED <<issued, lastAddr>>
  BY <1>1 DEF AddressesUnique
<1>2. ASSUME NEW q \in Slots, NewFeeAddress(q) PROVE AddressesUnique'
  <2>1. req[q].t \in Tickets /\ lastAddr \in Nat /\ issued \in [Tickets -> SUBSET Nat]
    BY <1>2 DEF NewFeeAddress, TypeInv, TypeOK, RequestShape
  <2>2. lastAddr' = lastAddr + 1 /\ issued' = [issued EXCEPT ![req[q].t] = @ \union {lastAddr + 1}]
    BY <1>2 DEF NewFeeAddress, nextAddress
  <2>3. \A t \in Tickets : lastAddr + 1 \notin issued[t]
    BY <2>1 DEF AddressesUnique
  <2>4. \A t \in Tickets : issued'[t] \subseteq issued[t] \union {lastAddr + 1}
                           /\ (t # req[q].t => issued'[t] = issued[t])
    BY <2>1, <2>2
  <2>5. \A t, u \in Tickets : t # u => issued'[t] \intersect issued'[u] = {}
    BY <2>3, <2>4 DEF AddressesUnique
  <2>6. \A t \in Tickets : \A a \in issued'[t] : a <= lastAddr'
    BY <2>1, <2>2, <2>4 DEF AddressesUnique
  <2> QED
    BY <2>5, <2>6 DEF AddressesUnique
<1> QED
  BY <1>1, <1>2, OnlyNewFeeAddress

-----------------------------------------------------------------------------
(* Alternate signing addresses                                             *)

Acknowledged(q) == req[q].pc = "insertAlt" => req[q].alt \in altAcked[req[q].t]

\* A request is about to store an address only after CheckAltSignAddr.
LEMMA ServeAcknowledges ==
    ASSUME TypeInv, \A p \in Slots : Acknowledged(p), NEW q \in Slots, Serve(q)
    PROVE  \A p \in Slots : Acknowledged(p)'
<1> USE DEF database, chain, volatile, bounds, history, TypeInv, TypeOK
<1>1. CASE \E a \in AltSignAddrs : CheckAltSignAddr(q, a)
  <2>1. PICK a \in AltSignAddrs : CheckAltSignAddr(q, a)
    BY <1>1
  <2>2. req[q].t \in Tickets
    BY <2>1 DEF CheckAltSignAddr, Checking, At, RequestShape
  <2>3. altAcked' = [altAcked EXCEPT ![req[q].t] = @ \union {a}]
        /\ req' = [req EXCEPT ![q].pc = "insertAlt", ![q].alt = a]
    BY <2>1 DEF CheckAltSignAddr
  <2>4. \A t \in Tickets : altAcked[t] \subseteq altAcked'[t]
    BY <2>2, <2>3
  <2>5. \A p \in Slots : p # q => req'[p] = req[p]
    BY <2>3
  <2>6. \A p \in Slots : p # q /\ req[p].pc = "insertAlt" => req[p].t \in Tickets
    BY DEF RequestShape
  <2> QED
    BY <2>2, <2>3, <2>4, <2>5, <2>6 DEF Acknowledged
<1>2. ASSUME UNCHANGED altAcked, req'[q].pc # "insertAlt",
   \A p \in Slots \ {q} : req'[p] = req[p]
      PROVE  \A p \in Slots : Acknowledged(p)'
  BY <1>2 DEF Acknowledged
<1>3. CASE \E kind \in Kinds, t \in Tickets : Receive(q, kind, t)
  <2>1. PICK kind \in Kinds, t \in Tickets : Receive(q, kind, t)
    BY <1>3
  <2>2. UNCHANGED altAcked /\ \A p \in Slots \ {q} : req'[p] = req[p]
    BY <2>1 DEF Receive, Finish
  <2>3. req'[q].pc \in {"idle", "check"}
    <3> DEFINE r == [IdleRequest EXCEPT
                       !.pc = "check", !.kind = kind, !.t = t,
                       !.rec = IF kind = "setaltsignaddr" THEN Absent ELSE db[t]]
    <3>1. r.pc = "check" /\ IdleRequest.pc = "idle"
      BY DEF IdleRequest
    <3>2. req' = [req EXCEPT ![q] = r] \/ req' = [req EXCEPT ![q] = IdleRequest]
      BY <2>1 DEF Receive, Finish
    <3>3. DOMAIN req = Slots
      OBVIOUS
    <3> HIDE DEF r
    <3> QED
      BY ONLY <3>1, <3>2, <3>3, q \in Slots
  <2> QED
    BY <1>2, <2>2, <2>3
<1>4. CASE Refuse(q) \/ RenewFee(q) \/ InsertTicket(q)
  <2>1. UNCHANGED altAcked /\ Finish(q)
    BY <1>4 DEF Refuse, RenewFee, InsertTicket
  <2> QED
    BY <1>2, <2>1 DEF Finish, IdleRequest
<1>5. CASE NewFeeAddress(q)
  <2>0. PICK r : req' = [req EXCEPT ![q].pc = "insert", ![q].rec = r]
    BY <1>5 DEF NewFeeAddress
  <2>1. UNCHANGED altAcked
    BY <1>5 DEF NewFeeAddress
  <2>2. req'[q].pc = "insert" /\ \A p \in Slots \ {q} : req'[p] = req[p]
    BY <2>0
  <2> QED
    BY <1>2, <2>1, <2>2
<1>6. ASSUME NEW f \in FeeTxs, NEW ts \in Timestamps, PayFee(q, f, ts)
      PROVE  \A p \in Slots : Acknowledged(p)'
  <2>1. UNCHANGED altAcked
    BY <1>6 DEF PayFee
  <2>2. PICK paid : \/ req' = [req EXCEPT ![q] = IdleRequest]
                    \/ req' = [req EXCEPT ![q].pc = "send", ![q].rec = paid, ![q].ts = ts]
                    \/ req' = [req EXCEPT ![q].pc = "record", ![q].rec = paid, ![q].ts = ts]
    BY <1>6 DEF PayFee, Finish
  <2>3. req'[q].pc # "insertAlt" /\ \A p \in Slots \ {q} : req'[p] = req[p]
    BY <2>2 DEF IdleRequest
  <2> QED
    BY <1>2, <2>1, <2>3
<1>7. CASE SendPaidFee(q) \/ SavePaidFeeSent(q) \/ SavePaidFeeRefused(q)
  BY <1>2, <1>7 DEF SendPaidFee, SavePaidFeeSent, SavePaidFeeRefused, Go, Finish, IdleRequest,
     Acknowledge
<1>8. ASSUME NEW ts \in Timestamps, CheckVoteChoices(q, ts) PROVE \A p \in Slots : Acknowledged(p)'
  <2>1. PICK rec : /\ UNCHANGED altAcked
                   /\ req' = [req EXCEPT ![q].pc = "save", ![q].ts = ts, ![q].rec = rec]
    BY <1>8 DEF CheckVoteChoices
  <2>2. req'[q].pc = "save" /\ \A p \in Slots \ {q} : req'[p] = req[p]
    BY <2>1
  <2> QED
    BY <1>2, <2>1, <2>2
<1>9. CASE SaveVoteChoices(q)
  <2>1. UNCHANGED altAcked /\ req'[q].pc # "insertAlt" /\ \A p \in Slots \ {q} : req'[p] = req[p]
    BY <1>9 DEF SaveVoteChoices, Go, Finish, IdleRequest
  <2> QED
    BY <1>2, <2>1
<1>10. ASSUME NEW w \in Wallets, UpdateWallet(q, w) PROVE \A p \in Slots : Acknowledged(p)'
  <2>1. UNCHANGED altAcked /\ req'[q].pc \in {"record", "wallets"}
        /\ \A p \in Slots \ {q} : req'[p] = req[p]
    BY <1>10 DEF UpdateWallet, At
  <2> QED
    BY <1>2, <2>1
<1>11. CASE RecordVoteChange(q) \/ StoreAltSignAddr(q)
  <2>1. UNCHANGED altAcked /\ Finish(q)
    BY <1>11 DEF RecordVoteChange, StoreAltSignAddr
  <2> QED
    BY <1>2, <2>1 DEF Finish, IdleRequest
<1>12. CASE CheckCanVote(q)
  <2>0. PICK n : req' = [req EXCEPT ![q] = n] /\ n.pc \in {"new", "newFinal", "renew", "pay"}
    BY <1>12, CheckCanVoteStep
  <2>1. req'[q].pc # "insertAlt" /\ UNCHANGED altAcked /\ \A p \in Slots \ {q} : req'[p] = req[p]
    BY <1>12, <2>0, CheckCanVoteStep
  <2> QED
    BY <1>2, <2>1
<1> QED
  BY <1>1, <1>3, <1>4, <1>5, <1>6, <1>7, <1>8, <1>9, <1>10, <1>11, <1>12 DEF Serve

\* Every step keeps the address a request is about to store acknowledged.
LEMMA StaysAcknowledged ==
    ASSUME TypeInv, \A q \in Slots : Acknowledged(q), [Next]_vars
    PROVE  \A q \in Slots : Acknowledged(q)'
<1> USE DEF database, chain, volatile, bounds, history
<1>1. CASE UNCHANGED <<req, altAcked>>
  BY <1>1 DEF Acknowledged
<1>2. CASE Crash
  BY <1>2 DEF Crash, IdleRequest, Acknowledged
<1>3. Update => UNCHANGED <<req, altAcked>>
  BY DEF Update, StartUpdate, LookUpTicket, RemoveTicket, RemoveAltSignAddr, ConfirmTicket,
     StartBroadcastFees, SendPendingFee, SaveFeeSent, StartAddToWallets, LookUpFee, SaveFeeLost,
     SaveFeeFinal, AddToWallet, TicketAdded, SetOutcomes, SaveOutcome, EndUpdate
<1>4. ConsistencyCheck => UNCHANGED <<req, altAcked>>
  BY DEF ConsistencyCheck, StartConsistencyCheck, AddMissingTickets, StartChoicesCheck,
     CheckChoices, EndConsistencyCheck
<1>5. Environment \/ UNCHANGED vars => UNCHANGED <<req, altAcked>>
  BY DEF Environment, MineTicket, SpendTicket, DropTicket, MineFee, DropFee, PublishFee,
     OtherBlock, Tick, vars
<1> QED
  BY <1>1, <1>2, <1>3, <1>4, <1>5, ServeAcknowledges DEF Next

\* Stored addresses change in two steps: removal with the ticket, and storing.
LEMMA OnlyTwoStepsSetAlt ==
    [Next]_vars => RemoveAltSignAddr \/ (\E q \in Slots : StoreAltSignAddr(q)) \/ UNCHANGED alt
<1> SUFFICES ASSUME [Next]_vars
             PROVE  RemoveAltSignAddr \/ (\E q \in Slots : StoreAltSignAddr(q)) \/ UNCHANGED alt
  OBVIOUS
<1> USE DEF database, chain, volatile, bounds, history
<1>1. Update => RemoveAltSignAddr \/ UNCHANGED alt
  BY DEF Update, StartUpdate, LookUpTicket, RemoveTicket, ConfirmTicket,
     StartBroadcastFees, SendPendingFee, SaveFeeSent, StartAddToWallets, LookUpFee, SaveFeeLost,
     SaveFeeFinal, AddToWallet, TicketAdded, SetOutcomes, SaveOutcome, EndUpdate
<1>2. ConsistencyCheck => UNCHANGED alt
  BY DEF ConsistencyCheck, StartConsistencyCheck, AddMissingTickets, StartChoicesCheck,
     CheckChoices, EndConsistencyCheck
<1>3. ASSUME NEW q \in Slots, Serve(q) PROVE StoreAltSignAddr(q) \/ UNCHANGED alt
  BY <1>3 DEF Serve, Receive, BroadcastTicket, Refuse, CheckCanVote, RenewFee, NewFeeAddress,
     InsertTicket, PayFee, SendPaidFee,
     SavePaidFeeSent, SavePaidFeeRefused, CheckVoteChoices, SaveVoteChoices, UpdateWallet,
     RecordVoteChange, CheckAltSignAddr
<1>4. Environment \/ Crash \/ UNCHANGED vars => UNCHANGED alt
  BY DEF Environment, MineTicket, SpendTicket, DropTicket, MineFee, DropFee, PublishFee,
     OtherBlock, Tick, Crash, vars
<1> QED
  BY <1>1, <1>2, <1>3, <1>4 DEF Next

SetOnceStep ==
    \A t \in Tickets : alt'[t] # alt[t] =>
        alt'[t] = Absent \/ (alt[t] = Absent /\ alt'[t] \in altAcked[t])

\* Every step that changes a stored address removes it or sets it once.
LEMMA SetOnceNext == RegistrationInv /\ [Next]_vars => SetOnceStep
<1> SUFFICES ASSUME RegistrationInv, [Next]_vars PROVE SetOnceStep
  OBVIOUS
<1>1. alt \in [Tickets -> AltSignAddrs \union {Absent}]
  BY DEF RegistrationInv, TypeInv, TypeOK
<1>2. CASE RemoveAltSignAddr
  BY <1>1, <1>2 DEF RemoveAltSignAddr, DeleteAltSignAddr, SetOnceStep
<1>3. ASSUME NEW q \in Slots, StoreAltSignAddr(q) PROVE SetOnceStep
  <2>1. req[q].alt \in altAcked[req[q].t]
    BY <1>3 DEF StoreAltSignAddr, At, RegistrationInv
  <2> QED
    BY <1>1, <1>3, <2>1 DEF StoreAltSignAddr, InsertAltSignAddr, SetOnceStep
<1> QED
  BY <1>2, <1>3, OnlyTwoStepsSetAlt DEF SetOnceStep

-----------------------------------------------------------------------------
\* The invariant holds of the empty database.
LEMMA RegistrationInit == Init => RegistrationInv
<1> SUFFICES ASSUME Init PROVE RegistrationInv
  OBVIOUS
<1> QED
  BY TypeInit DEF Init, RegistrationInv, AddressesUnique, IdleRequest

\* The registration invariant is inductive.
LEMMA RegistrationNext == RegistrationInv /\ [Next]_vars => RegistrationInv'
BY TypeNext, AddressesStayUnique, StaysAcknowledged DEF RegistrationInv, Acknowledged

\* The registration invariant holds in every state.
LEMMA RegistrationCorrect == Spec => []RegistrationInv
BY RegistrationInit, RegistrationNext, PTL DEF Spec

\* A stored alternate signing address is never replaced by another, and only
\* an address acknowledged to a client is stored (setAltSignAddr,
\* InsertAltSignAddr), however many requests race for the ticket.
THEOREM AltSignAddrCorrect == Spec => AltSignAddrSetOnce
<1>1. RegistrationInv /\ [Next]_vars =>
        [\A t \in Tickets : alt'[t] # alt[t] =>
            \/ alt'[t] = Absent
            \/ alt[t] = Absent /\ alt'[t] \in altAcked[t]]_vars
  BY SetOnceNext DEF SetOnceStep
<1> QED
  BY <1>1, RegistrationCorrect, PTL DEF Spec, AltSignAddrSetOnce
-----------------------------------------------------------------------------
(* Vspm implements VotingService.                                          *)

\* A fee transaction is on the network only if it pays an address given out.
FeesPublished ==
    \A f \in FeeTxs : feeTx[f] # "unknown" => \E t \in Tickets : PaysTo[f] \in issued[t]

ServiceInv ==
    /\ SafeInv
    /\ AddressesUnique
    /\ FeesPublished

seen == <<ticketTx, feeTx, issued, acked, sent, wallets>>

\* The steps that are seen from outside, one for each action of VotingService.
TicketStep(t) ==
    /\ \E level : ticketTx' = [ticketTx EXCEPT ![t] = level]
    /\ UNCHANGED <<feeTx, issued, acked, sent, wallets>>

FeeStep(f) ==
    /\ \E level : /\ feeTx' = [feeTx EXCEPT ![f] = level]
                  /\ level \in {"mined", "final"} => feeTx[f] \in {"mempool", "mined"}
                  /\ feeTx[f] = "unknown" => \E t \in Tickets : PaysTo[f] \in issued[t]
    /\ UNCHANGED <<ticketTx, issued, acked, sent, wallets>>

AddressStep(t) ==
    /\ issued' = [issued EXCEPT ![t] = @ \union {lastAddr + 1}]
    /\ UNCHANGED <<ticketTx, feeTx, acked, sent, wallets>>

AcknowledgeStep(t, f) ==
    /\ PaysTo[f] \in issued[t]
    /\ acked' = [acked EXCEPT ![t] = @ \union {f}]
    /\ UNCHANGED <<ticketTx, feeTx, issued, sent, wallets>>

SendStep(f) == SendFee(f) /\ UNCHANGED <<ticketTx, issued, acked, wallets>>

WalletStep(w) ==
    /\ \E W : /\ wallets' = [wallets EXCEPT ![w] = W]
              /\ \A t \in Tickets : wallets[w][t] # Absent => W[t] # Absent
    /\ UNCHANGED <<ticketTx, feeTx, issued, acked, sent>>

SeenStep ==
    \/ \E t \in Tickets : TicketStep(t) \/ AddressStep(t)
                          \/ \E f \in FeeTxs : AcknowledgeStep(t, f)
    \/ \E f \in FeeTxs : FeeStep(f) \/ SendStep(f)
    \/ \E w \in Wallets : WalletStep(w)
    \/ UNCHANGED seen

\* What is seen of the environment is the chain.
LEMMA EnvironmentSeen == TypeInv /\ Environment => SeenStep
<1> SUFFICES ASSUME TypeInv, Environment PROVE SeenStep
  OBVIOUS
<1> USE DEF database, chain, volatile, bounds, history
<1>1. ASSUME NEW t \in Tickets, MineTicket(t) \/ SpendTicket(t) \/ DropTicket(t) PROVE SeenStep
  <2>1. TicketStep(t)
    BY <1>1 DEF MineTicket, SpendTicket, DropTicket, TicketStep
  <2> QED
    BY <2>1 DEF SeenStep
<1>2. ASSUME NEW f \in FeeTxs, MineFee(f) \/ DropFee(f) \/ PublishFee(f) PROVE SeenStep
  <2>1. FeeStep(f)
    BY <1>2 DEF MineFee, DropFee, PublishFee, FeeStep
  <2> QED
    BY <2>1 DEF SeenStep
<1>3. CASE OtherBlock \/ Tick
  BY <1>3 DEF OtherBlock, Tick, SeenStep, seen
<1> QED
  BY <1>1, <1>2, <1>3 DEF Environment

\* Setting choices takes no ticket from a wallet, whether the call fails or not.
LEMMA SetVoteChoiceKeeps ==
    ASSUME NEW W \in [Tickets -> WalletTicket \union {Absent}], NEW t \in Tickets,
           NEW r \in TicketOK, NEW ok, NEW u \in Tickets, W[u] # Absent
    PROVE  SetVoteChoice(W, t, r, ok)[u] # Absent
<1>1. [VoteChoices |-> r.VoteChoices] \in WalletTicket
  BY DEF TicketOK, Ticket, WalletTicket
<1>2. [VoteChoices |-> r.VoteChoices] # Absent
  BY <1>1, WalletAssumption
<1> QED
  BY <1>2 DEF SetVoteChoice

\* Nor does adding one.
LEMMA AddTicketKeeps ==
    ASSUME NEW W \in [Tickets -> WalletTicket \union {Absent}], NEW t \in Tickets,
           NEW u \in Tickets, W[u] # Absent
    PROVE  AddTicketForVoting(W, t)[u] # Absent
BY DEF AddTicketForVoting

\* What is seen of the goroutine of Run is a wallet that gets tickets or votes,
\* or a fee it sends.
LEMMA UpdaterSeen == SafeInv /\ (Update \/ ConsistencyCheck) => SeenStep
<1> SUFFICES ASSUME SafeInv, Update \/ ConsistencyCheck PROVE SeenStep
  OBVIOUS
<1> USE DEF database, chain, bounds, history, Step
<1> DEFINE WalletTickets == [Tickets -> WalletTicket \union {Absent}]
<1>0. wallets \in [Wallets -> WalletTickets]
  BY DEF SafeInv, TypeInv, TypeOK
<1>1. ASSUME NEW t \in Tickets, SendPendingFee(t) PROVE SeenStep
  <2>1. CASE UNCHANGED <<feeTx, sent>>
    BY <1>1, <2>1 DEF SendPendingFee, SeenStep, seen
  <2>2. CASE SendFee(upd.list[t].FeeTxHash)
    <3>1. upd.list[t].FeeTxHash \in FeeTxs
      BY <1>1 DEF SendPendingFee, SafeInv, TypeInv, UpdaterShape, Bucket, TicketOK, Pending
    <3>2. SendStep(upd.list[t].FeeTxHash)
      BY <1>1, <2>2 DEF SendPendingFee, SendStep
    <3> QED
      BY <3>1, <3>2 DEF SeenStep
  <2> QED
    BY <1>1, <2>1, <2>2 DEF SendPendingFee
<1>2. ASSUME NEW w \in Wallets, NEW W, wallets' = [wallets EXCEPT ![w] = W],
             \A u \in Tickets : wallets[w][u] # Absent => W[u] # Absent,
             UNCHANGED <<ticketTx, feeTx, issued, acked, sent>>
      PROVE  SeenStep
  BY <1>2 DEF WalletStep, SeenStep
<1>3. CASE UNCHANGED seen
  BY <1>3 DEF SeenStep
<1>4. ASSUME NEW w \in Wallets, AddToWallet(w) PROVE SeenStep
  <2> DEFINE added == AddTicketForVoting(wallets[w], upd.cur)
             W(ok) == SetVoteChoice(added, upd.cur, CurRecord, ok)
  <2>1. upd.cur \in Tickets /\ CurRecord \in TicketOK
    BY <1>4 DEF AddToWallet, SafeInv, TypeInv, UpdaterShape, Working, Bucket, CurRecord
  <2>2. added \in WalletTickets /\ \A u \in Tickets : wallets[w][u] # Absent => added[u] # Absent
    BY <1>0, <2>1, WalletChange, AddTicketKeeps
  <2> HIDE DEF added
  <2>3. \A ok : \A u \in Tickets : wallets[w][u] # Absent => W(ok)[u] # Absent
    BY <2>1, <2>2, SetVoteChoiceKeeps
  <2>4. UNCHANGED wallets \/ \E ok : wallets' = [wallets EXCEPT ![w] = W(ok)]
    BY <1>4 DEF AddToWallet, added
  <2> HIDE DEF W
  <2>5. UNCHANGED <<ticketTx, feeTx, issued, acked, sent>>
    BY <1>4 DEF AddToWallet
  <2> QED
    BY <1>2, <1>3, <2>3, <2>4, <2>5 DEF seen
<1>5. ASSUME NEW w \in Wallets, AddMissingTickets(w) PROVE SeenStep
  <2> DEFINE W(S) == [t \in Tickets |-> IF t \in S THEN AddTicketForVoting(wallets[w], t)[t]
                                                   ELSE wallets[w][t]]
  <2>1. PICK S \in SUBSET MissingTickets(w) : wallets' = [wallets EXCEPT ![w] = W(S)]
    BY <1>5 DEF AddMissingTickets
  <2>2. \A u \in Tickets : wallets[w][u] # Absent => W(S)[u] # Absent
    BY DEF MissingTickets
  <2> HIDE DEF W
  <2>3. UNCHANGED <<ticketTx, feeTx, issued, acked, sent>>
    BY <1>5 DEF AddMissingTickets
  <2> QED
    BY <1>2, <2>1, <2>2, <2>3
<1>6. ASSUME NEW w \in Wallets, CheckChoices(w) PROVE SeenStep
  <2> DEFINE W(S) == [t \in Tickets |->
                        IF t \in S THEN SetVoteChoice(wallets[w], t, upd.list[t], TRUE)[t]
                                   ELSE wallets[w][t]]
  <2>1. UNCHANGED wallets
        \/ \E S \in SUBSET WrongChoices(w) : wallets' = [wallets EXCEPT ![w] = W(S)]
    BY <1>6 DEF CheckChoices
  <2>2. ASSUME NEW S \in SUBSET WrongChoices(w), NEW u \in Tickets, wallets[w][u] # Absent
        PROVE  W(S)[u] # Absent
    <3>1. wallets[w] \in WalletTickets
      BY <1>0
    <3>2. u \in S => upd.list[u] \in TicketOK
      BY DEF WrongChoices, Pending, SafeInv, TypeInv, UpdaterShape, Bucket
    <3>3. u \in S => SetVoteChoice(wallets[w], u, upd.list[u], TRUE)[u] # Absent
      BY <2>2, <3>1, <3>2, SetVoteChoiceKeeps
    <3> QED
      BY <2>2, <3>3
  <2> HIDE DEF W
  <2>3. UNCHANGED <<ticketTx, feeTx, issued, acked, sent>>
    BY <1>6 DEF CheckChoices
  <2> QED
    BY <1>2, <1>3, <2>1, <2>2, <2>3 DEF seen
<1>7. Update => \/ \E t \in Tickets : SendPendingFee(t)
                \/ \E w \in Wallets : AddToWallet(w)
                \/ UNCHANGED seen
  BY DEF Update, StartUpdate, LookUpTicket, RemoveTicket, RemoveAltSignAddr, ConfirmTicket,
     StartBroadcastFees, SaveFeeSent, StartAddToWallets, LookUpFee, SaveFeeLost, SaveFeeFinal,
     TicketAdded, SetOutcomes, SaveOutcome, EndUpdate, seen
<1>8. ConsistencyCheck => \/ \E w \in Wallets : AddMissingTickets(w) \/ CheckChoices(w)
                          \/ UNCHANGED seen
  BY DEF ConsistencyCheck, StartConsistencyCheck, StartChoicesCheck, EndConsistencyCheck, seen
<1> QED
  BY <1>1, <1>3, <1>4, <1>5, <1>6, <1>7, <1>8

\* What is seen of a request: the ticket it sends to the network, the address
\* or the acknowledgement it answers with, the fee it sends, the wallet it tells.
LEMMA ServeSeen == ASSUME SafeInv, NEW q \in Slots, Serve(q) PROVE SeenStep
<1> USE DEF database, chain, bounds, history
<1>0. req[q].rec # Absent => /\ req[q].t \in Tickets /\ req[q].rec \in TicketOK
                             /\ Genuine(req[q].t, req[q].rec)
  BY DEF SafeInv, TypeInv, RequestShape, RecordsGenuine
<1>1. ASSUME NEW kind \in Kinds, NEW t \in Tickets, Receive(q, kind, t) PROVE SeenStep
  <2>1. TicketStep(t) \/ UNCHANGED seen
    BY <1>1 DEF Receive, BroadcastTicket, TicketStep, seen
  <2> QED
    BY <2>1 DEF SeenStep
<1>2. CASE NewFeeAddress(q)
  <2>1. req[q].t \in Tickets
    BY <1>2 DEF NewFeeAddress, SafeInv, TypeInv, RequestShape
  <2>2. AddressStep(req[q].t)
    BY <1>2 DEF NewFeeAddress, nextAddress, AddressStep
  <2> QED
    BY <2>1, <2>2 DEF SeenStep
<1>3. ASSUME NEW f \in FeeTxs, NEW ts \in Timestamps, PayFee(q, f, ts) PROVE SeenStep
  <2>1. req[q].t \in Tickets /\ PaysTo[f] \in issued[req[q].t]
    BY <1>0, <1>3 DEF PayFee, At, Genuine, SafeInv, TypeInv, RequestShape
  <2>2. UNCHANGED <<ticketTx, feeTx, issued, sent, wallets>>
    BY <1>3 DEF PayFee
  <2>3. UNCHANGED acked \/ Acknowledge(q, f)
    BY <1>3 DEF PayFee
  <2>4. UNCHANGED seen \/ AcknowledgeStep(req[q].t, f)
    BY <2>1, <2>2, <2>3 DEF Acknowledge, AcknowledgeStep, seen
  <2> QED
    BY <2>1, <2>4 DEF SeenStep
<1>4. CASE SavePaidFeeSent(q)
  <2> DEFINE f == req[q].rec.FeeTxHash
  <2>1. req[q].rec # Absent /\ req[q].rec.FeeTxStatus = "received"
    BY <1>4 DEF SavePaidFeeSent, At, SafeInv, TypeInv, RequestShape
  <2>2. f \in FeeTxs /\ f # NoTx
    BY <1>0, <2>1, DatabaseAssumption DEF TicketOK
  <2>3. req[q].t \in Tickets /\ PaysTo[f] \in issued[req[q].t]
    BY <1>0, <2>1, <2>2 DEF Genuine
  <2>4. UNCHANGED <<ticketTx, feeTx, issued, sent, wallets>>
    BY <1>4 DEF SavePaidFeeSent
  <2>5. UNCHANGED acked \/ Acknowledge(q, f)
    <3>1. [req[q].rec EXCEPT !.FeeTxStatus = "broadcast"].FeeTxHash = f
      BY <1>0, <2>1 DEF TicketOK, Ticket
    <3> QED
      BY <1>4, <3>1 DEF SavePaidFeeSent
  <2>6. UNCHANGED seen \/ AcknowledgeStep(req[q].t, f)
    BY <2>3, <2>4, <2>5 DEF Acknowledge, AcknowledgeStep, seen
  <2> QED
    BY <2>2, <2>3, <2>6 DEF SeenStep
<1>5. CASE SendPaidFee(q)
  <2>1. req[q].rec.FeeTxHash \in FeeTxs
    BY <1>5 DEF SendPaidFee, At, SafeInv, TypeInv, RequestShape, TicketOK
  <2>2. SendStep(req[q].rec.FeeTxHash) \/ UNCHANGED seen
    BY <1>5 DEF SendPaidFee, SendStep, seen
  <2> QED
    BY <2>1, <2>2 DEF SeenStep
<1>6. ASSUME NEW w \in Wallets, UpdateWallet(q, w) PROVE SeenStep
  <2>1. req[q].t \in Tickets /\ req[q].rec \in TicketOK
        /\ wallets[w] \in [Tickets -> WalletTicket \union {Absent}]
    BY <1>0, <1>6 DEF UpdateWallet, At, SafeInv, TypeInv, TypeOK, RequestShape
  <2> DEFINE W(ok) == SetVoteChoice(wallets[w], req[q].t, req[q].rec, ok)
  <2>2. PICK ok : wallets' = [wallets EXCEPT ![w] = W(ok)]
    BY <1>6 DEF UpdateWallet
  <2>3. \A u \in Tickets : wallets[w][u] # Absent => W(ok)[u] # Absent
    BY <2>1, SetVoteChoiceKeeps
  <2> HIDE DEF W
  <2>4. UNCHANGED <<ticketTx, feeTx, issued, acked, sent>>
    BY <1>6 DEF UpdateWallet
  <2> QED
    BY <2>2, <2>3, <2>4 DEF WalletStep, SeenStep
<1>7. \/ \E kind \in Kinds, t \in Tickets : Receive(q, kind, t)
      \/ NewFeeAddress(q) \/ SavePaidFeeSent(q) \/ SendPaidFee(q)
      \/ \E f \in FeeTxs, ts \in Timestamps : PayFee(q, f, ts)
      \/ \E w \in Wallets : UpdateWallet(q, w)
      \/ UNCHANGED seen
  BY DEF Serve, Refuse, CheckCanVote, RenewFee, InsertTicket, SavePaidFeeRefused, CheckVoteChoices,
     SaveVoteChoices, RecordVoteChange, CheckAltSignAddr, StoreAltSignAddr, seen
<1>8. CASE UNCHANGED seen
  BY <1>8 DEF SeenStep
<1> QED
  BY <1>1, <1>2, <1>3, <1>4, <1>5, <1>6, <1>7, <1>8

\* Every step is one that is seen, or is not seen at all; a crash is not.
LEMMA NextSeen == SafeInv /\ [Next]_vars => SeenStep
<1>1. Crash \/ UNCHANGED vars => UNCHANGED seen
  BY DEF Crash, vars, database, chain, volatile, bounds, history, seen
<1>2. SafeInv => TypeInv
  BY DEF SafeInv
<1> QED
  BY <1>1, <1>2, EnvironmentSeen, UpdaterSeen, ServeSeen DEF Next, SeenStep

\* No step publishes a fee that pays no address given out.
LEMMA FeesPublishedNext ==
    ServiceInv /\ SafeInv' /\ Grows /\ SeenStep => FeesPublished'
<1> SUFFICES ASSUME ServiceInv, SafeInv', Grows, SeenStep PROVE FeesPublished'
  OBVIOUS
<1>0. feeTx \in [FeeTxs -> FeeLevel] /\ \A t \in Tickets : issued[t] \subseteq issued'[t]
  BY DEF ServiceInv, SafeInv, TypeInv, TypeOK, Grows
<1>1. CASE UNCHANGED feeTx
  BY <1>0, <1>1 DEF ServiceInv, FeesPublished
<1>2. ASSUME NEW f \in FeeTxs, FeeStep(f) PROVE FeesPublished'
  BY <1>0, <1>2 DEF FeeStep, ServiceInv, FeesPublished
<1>3. ASSUME NEW f \in FeeTxs, SendStep(f) PROVE FeesPublished'
  <2>1. \A e \in FeeTxs : feeTx'[e] = feeTx[e] \/ e = f
    BY <1>0, <1>3 DEF SendStep, SendFee
  <2>2. f \in sent'
    BY <1>3 DEF SendStep, SendFee
  <2>3. \E t \in Tickets : PaysTo[f] \in issued'[t]
    BY <2>2 DEF SafeInv, FeeHeldBack
  <2> QED
    BY <1>0, <2>1, <2>3 DEF ServiceInv, FeesPublished
<1> QED
  BY <1>1, <1>2, <1>3 DEF SeenStep, TicketStep, AddressStep, AcknowledgeStep, WalletStep, seen

\* The strengthened invariant holds of the empty database.
LEMMA ServiceInit == Init => ServiceInv
<1>1. Init => FeesPublished
  BY DEF Init, FeesPublished
<1> QED
  BY <1>1, SafeInit, RegistrationInit DEF ServiceInv, RegistrationInv

\* It is inductive.
LEMMA ServiceNext == ServiceInv /\ [Next]_vars => ServiceInv'
<1> SUFFICES ASSUME ServiceInv, [Next]_vars PROVE ServiceInv'
  OBVIOUS
<1>1. SafeInv /\ TypeInv /\ AddressesUnique
  BY DEF ServiceInv, SafeInv
<1>2. SafeInv' /\ Grows /\ SeenStep /\ AddressesUnique'
  BY <1>1, SafeNext, NextGrows, NextSeen, AddressesStayUnique
<1> QED
  BY <1>2, FeesPublishedNext DEF ServiceInv

\* Initially nothing is promised.
LEMMA ServiceInitially == Init => Service!Init
<1> SUFFICES ASSUME Init PROVE Service!Init
  OBVIOUS
<1>1. FinalTickets = {} /\ PaidFees = {}
  BY DEF Init, FinalTickets, PaidFees, Final, TicketOutcome
<1>2. Held = [w \in Wallets |-> {}]
  BY DEF Init, Held
<1> QED
  BY <1>1, <1>2 DEF Init, Service!Init

\* What is seen of the tickets and the fees depends on their levels alone, what
\* is seen of the wallets on their tickets.
LEMMA SeenUnchanged ==
    /\ UNCHANGED ticketTx => UNCHANGED FinalTickets
    /\ UNCHANGED feeTx => UNCHANGED PaidFees
    /\ UNCHANGED wallets => UNCHANGED Held
BY DEF FinalTickets, PaidFees, Held

\* A purchase gets its confirmations, or nothing is seen.
LEMMA TicketRefined ==
    ASSUME ServiceInv, Grows, NEW t \in Tickets, TicketStep(t)
    PROVE  Service!Confirm(t) \/ UNCHANGED Service!vars
<1>1. UNCHANGED <<PaidFees, Held, issued, acked, sent>>
  BY SeenUnchanged DEF TicketStep
<1>2. \A u \in Tickets : u # t => ticketTx'[u] = ticketTx[u]
  BY DEF TicketStep, ServiceInv, SafeInv, TypeInv, TypeOK
<1>3. \A u \in Tickets : u \in FinalTickets => u \in FinalTickets'
  BY DEF FinalTickets, Grows
<1>4. \A u \in Tickets : u # t /\ u \in FinalTickets' => u \in FinalTickets
  BY <1>2 DEF FinalTickets
<1>5. FinalTickets \subseteq Tickets /\ FinalTickets' \subseteq Tickets
  BY DEF FinalTickets
<1>6. FinalTickets' = FinalTickets \/ FinalTickets' = FinalTickets \union {t}
  BY <1>3, <1>4, <1>5
<1> QED
  BY <1>1, <1>6 DEF Service!Confirm, Service!vars

\* A fee gets its confirmations, or nothing is seen.
LEMMA FeeRefined ==
    ASSUME ServiceInv, Grows, NEW f \in FeeTxs, FeeStep(f)
    PROVE  Service!Pay(f) \/ UNCHANGED Service!vars
<1>1. UNCHANGED <<FinalTickets, Held, issued, acked, sent>>
  BY SeenUnchanged DEF FeeStep
<1>2. \A e \in FeeTxs : e # f => feeTx'[e] = feeTx[e]
  BY DEF FeeStep, ServiceInv, SafeInv, TypeInv, TypeOK
<1>3. PaidFees \subseteq PaidFees'
  BY DEF PaidFees, Grows
<1>4. PaidFees' \subseteq PaidFees \union {f}
  BY <1>2 DEF PaidFees
<1>5. f \in PaidFees' /\ f \notin PaidFees => \E t \in Tickets : PaysTo[f] \in issued[t]
  BY DEF PaidFees, FeeStep, ServiceInv, FeesPublished, SafeInv, TypeInv, TypeOK
<1>6. PaidFees' = PaidFees \/ (f \notin PaidFees /\ f \in PaidFees'
                               /\ PaidFees' = PaidFees \union {f})
  BY <1>3, <1>4
<1> QED
  BY <1>1, <1>5, <1>6 DEF Service!Pay, Service!Pays, Service!vars

\* An address that is derived is one that no ticket has.
LEMMA AddressRefined ==
    ASSUME ServiceInv, NEW t \in Tickets, AddressStep(t)
    PROVE  Service!Issue(t)
<1>1. UNCHANGED <<FinalTickets, PaidFees, Held, acked, sent>>
  BY SeenUnchanged DEF AddressStep
<1>2. lastAddr \in Nat /\ issued \in [Tickets -> SUBSET Nat]
  BY DEF ServiceInv, SafeInv, TypeInv, TypeOK
<1>3. \A u \in Tickets : lastAddr + 1 \notin issued[u]
  BY <1>2 DEF ServiceInv, AddressesUnique
<1>4. lastAddr + 1 \in issued'[t] /\ issued' = [issued EXCEPT ![t] = @ \union {lastAddr + 1}]
  BY <1>2 DEF AddressStep
<1> QED
  BY <1>1, <1>3, <1>4 DEF Service!Issue

\* A fee that is sent pays an address of a ticket whose purchase is final.
LEMMA SendRefined ==
    ASSUME ServiceInv, SafeInv', NEW f \in FeeTxs, SendStep(f)
    PROVE  Service!Send(f)
<1>1. UNCHANGED <<FinalTickets, Held, issued, acked>>
  BY SeenUnchanged DEF SendStep
<1>2. UNCHANGED PaidFees
  BY DEF SendStep, SendFee, PaidFees, ServiceInv, SafeInv, TypeInv, TypeOK
<1>3. f \in sent' /\ sent' = sent \union {f}
  BY DEF SendStep, SendFee
<1>4. \E t \in Tickets : PaysTo[f] \in issued[t] /\ ticketTx[t] \in Final
  BY <1>3 DEF SendStep, SafeInv, FeeHeldBack
<1>5. \E t \in FinalTickets : PaysTo[f] \in issued[t]
  BY <1>4 DEF FinalTickets
<1> QED
  BY <1>1, <1>2, <1>3, <1>5 DEF Service!Send, Service!Pays

\* A wallet keeps what it holds, and gets tickets that are paid for.
LEMMA WalletRefined ==
    ASSUME ServiceInv, SafeInv', NEW w \in Wallets, WalletStep(w)
    PROVE  Service!Hold(w)
<1>1. UNCHANGED <<FinalTickets, PaidFees, issued, acked, sent>>
  BY SeenUnchanged DEF WalletStep
<1>2. \A v \in Wallets : v # w => wallets'[v] = wallets[v]
  BY DEF WalletStep, ServiceInv, SafeInv, TypeInv, TypeOK
<1>3. \A v \in Wallets : v # w => Held'[v] = Held[v]
  BY <1>2 DEF Held
<1>4. Held[w] \subseteq Held'[w]
  BY DEF Held, WalletStep, ServiceInv, SafeInv, TypeInv, TypeOK
<1>5. Held'[w] \subseteq {t \in Tickets : \E f \in PaidFees : PaysTo[f] \in issued[t]}
  BY DEF Held, PaidFees, WalletStep, SafeInv, PaidBeforeVoting
<1>6. Held \in [Wallets -> SUBSET Tickets] /\ Held' \in [Wallets -> SUBSET Tickets]
  BY DEF Held
<1>7. Held' = [Held EXCEPT ![w] = @ \union Held'[w]]
  BY <1>3, <1>4, <1>6
<1> QED
  BY <1>1, <1>5, <1>7 DEF Service!Hold, Service!Pays

\* Every step is a step of VotingService, or is not seen.
LEMMA StepRefined ==
    ASSUME ServiceInv, SafeInv', Grows, SeenStep
    PROVE  [Service!Next]_(Service!vars)
<1>1. CASE UNCHANGED seen
  BY <1>1, SeenUnchanged DEF seen, Service!vars
<1>2. ASSUME NEW t \in Tickets, NEW f \in FeeTxs, AcknowledgeStep(t, f)
      PROVE  Service!Acknowledge(t, f)
  BY <1>2, SeenUnchanged DEF AcknowledgeStep, Service!Acknowledge, Service!Pays
<1> QED
  BY <1>1, <1>2, TicketRefined, FeeRefined, AddressRefined, SendRefined, WalletRefined
     DEF SeenStep, Service!Next

\* Clients and the network see a VotingService, whatever stale copies
\* the update loop and the requests save, in whatever order, with crashes
\* in between (update.go, payfee.go, getfeeaddress.go, setvotechoices.go).
THEOREM ServiceCorrect == Spec => ImplementsService
<1>1. Init => ServiceInv /\ Service!Init
  BY ServiceInit, ServiceInitially
<1>2. ServiceInv /\ [Next]_vars => ServiceInv'
  BY ServiceNext
<1>3. ServiceInv /\ ServiceInv' /\ [Next]_vars => [Service!Next]_(Service!vars)
  <2> SUFFICES ASSUME ServiceInv, ServiceInv', [Next]_vars PROVE [Service!Next]_(Service!vars)
    OBVIOUS
  <2>1. SafeInv /\ TypeInv /\ SafeInv'
    BY DEF ServiceInv, SafeInv
  <2> QED
    BY <2>1, NextGrows, NextSeen, StepRefined
<1> QED
  BY <1>1, <1>2, <1>3, PTL DEF Spec, ImplementsService, Service!Spec

-----------------------------------------------------------------------------
(* The newest vote change.  A record is dropped when later ones fill the   *)
(* bucket, and a later one may be older: of a request that was received    *)
(* before.  VoteOrder bounds those still to come.                          *)

\* From the check of the timestamp to the record.
Flying(q) == req[q].pc \in {"send", "sent", "refused", "save", "wallets", "record"}

InFlight(t) == {q \in Slots : Flying(q) /\ req[q].t = t}

Older(t, ts) == {q \in InFlight(t) : req[q].ts < ts}

FewInFlight ==
    \A t \in Tickets : /\ IsFiniteSet(InFlight(t))
                       /\ Cardinality(InFlight(t)) <= MaxVoteChangeRecords

\* /payfee, which compares its timestamp with none, is not retried once a
\* request of the ticket is recorded.
FeeFirst ==
    \A q \in Slots, f \in FeeTxs, ts \in Timestamps :
        PayFee(q, f, ts) => changes[req[q].t] = << >>

\* Record i of t is the newest from there on.
NewestFrom(t, i) == \A j \in i + 1 .. Len(changes[t]) : changes[t][j] < changes[t][i]

\* Older requests in flight cannot fill the bucket after record i.
RoomAfter(t, i) ==
    \/ Older(t, changes[t][i]) = {}
    \/ Len(changes[t]) - i + Cardinality(Older(t, changes[t][i])) < MaxVoteChangeRecords

VoteOrder == \A t \in Tickets : \A i \in 1 .. Len(changes[t]) : NewestFrom(t, i) => RoomAfter(t, i)

\* Records a saved vote change drops.
Dropped(log) == IF Len(log) >= MaxVoteChangeRecords THEN 1 ELSE 0

\* SaveVoteChange appends one record, and drops the first at the limit.
LEMMA SaveVoteChangeRecords ==
    ASSUME NEW log \in Seq(Nat), NEW ts \in Nat, NEW new, new = SaveVoteChange(log, ts)
    PROVE  /\ new \in Seq(Nat)
           /\ Dropped(log) \in {0, 1} /\ Dropped(log) <= Len(log)
           /\ Len(new) = Len(log) - Dropped(log) + 1
           /\ new[Len(new)] = ts
           /\ \A i \in 1 .. Len(log) - Dropped(log) : new[i] = log[i + Dropped(log)]
<1>1. MaxVoteChangeRecords \in Nat \ {0}
  BY DatabaseAssumption
<1>2. CASE Len(log) >= MaxVoteChangeRecords
  <2>1. log # << >>
    BY <1>1, <1>2
  <2>2. Tail(log) \in Seq(Nat) /\ Len(Tail(log)) = Len(log) - 1
        /\ \A i \in 1 .. Len(log) - 1 : Tail(log)[i] = log[i + 1]
    BY <2>1
  <2>3. new = Append(Tail(log), ts) /\ Dropped(log) = 1
    BY <1>2 DEF SaveVoteChange, Dropped
  <2> QED
    BY <1>1, <1>2, <2>2, <2>3
<1>3. CASE ~ (Len(log) >= MaxVoteChangeRecords)
  <2>1. new = Append(log, ts) /\ Dropped(log) = 0
    BY <1>3 DEF SaveVoteChange, Dropped
  <2> QED
    BY <2>1
<1> QED
  BY <1>2, <1>3

\* Every request stays where it was, ends, or gets past the check of its
\* timestamp, which is above those of the records.
Orderly ==
    \A q \in Slots : Flying(q)' =>
        \/ Flying(q) /\ req'[q].t = req[q].t /\ req'[q].ts = req[q].ts
        \/ \A i \in 1 .. Len(changes[req'[q].t]) : changes[req'[q].t][i] < req'[q].ts

\* While no vote change is recorded, no more requests get older than a record.
LEMMA OrderlyStep ==
    ASSUME TypeInv, TypeInv', FewInFlight, VoteOrder, Orderly, UNCHANGED changes
    PROVE  VoteOrder'
<1> SUFFICES ASSUME NEW t \in Tickets, NEW i \in 1 .. Len(changes[t]), NewestFrom(t, i)
             PROVE  RoomAfter(t, i)'
  BY DEF VoteOrder, NewestFrom
<1> DEFINE ts == changes[t][i]
<1>1. changes[t] \in Seq(Nat) /\ ts \in Nat
  BY DEF TypeInv, TypeOK
<1>2. \A q \in Slots : req'[q].ts \in Nat
  BY DEF TypeInv, TypeOK
<1>3. ASSUME NEW q \in Older(t, ts)' PROVE q \in Older(t, ts)
  <2>1. q \in Slots /\ Flying(q)' /\ req'[q].t = t /\ req'[q].ts < ts
    BY <1>3 DEF Older, InFlight
  <2>2. ~ \A j \in 1 .. Len(changes[t]) : changes[t][j] < req'[q].ts
    BY <1>1, <1>2, <2>1
  <2>3. Flying(q) /\ req'[q].t = req[q].t /\ req'[q].ts = req[q].ts
    BY <2>1, <2>2 DEF Orderly
  <2> QED
    BY <2>1, <2>3 DEF Older, InFlight
<1>4. Older(t, ts)' \subseteq Older(t, ts) /\ Older(t, ts) \subseteq InFlight(t)
  BY <1>3 DEF Older
<1>5. IsFiniteSet(Older(t, ts))
  BY <1>4, FS_Subset DEF FewInFlight
<1>6. /\ IsFiniteSet(Older(t, ts)')
      /\ Cardinality(Older(t, ts)') <= Cardinality(Older(t, ts))
  BY <1>4, <1>5, FS_Subset
<1>7. Cardinality(Older(t, ts)') \in Nat /\ Cardinality(Older(t, ts)) \in Nat
  BY <1>5, <1>6, FS_CardinalityType
<1>8. RoomAfter(t, i)
  BY DEF VoteOrder
<1>9. CASE Older(t, ts) = {}
  BY <1>4, <1>9 DEF RoomAfter
<1>10. CASE Len(changes[t]) - i + Cardinality(Older(t, ts)) < MaxVoteChangeRecords
  <2>1. Len(changes[t]) - i + Cardinality(Older(t, ts)') < MaxVoteChangeRecords
    BY <1>1, <1>6, <1>7, <1>10, DatabaseAssumption
  <2> QED
    BY <2>1 DEF RoomAfter
<1> QED
  BY <1>8, <1>9, <1>10 DEF RoomAfter

\* Every step but RecordVoteChange is orderly and records nothing.
LEMMA OthersOrderly ==
    ASSUME TypeInv, [Next]_vars, FeeFirst, \A q \in Slots : ~ RecordVoteChange(q)
    PROVE  Orderly /\ UNCHANGED changes
<1> USE DEF database, chain, volatile, bounds, history
<1>0. req \in [Slots -> [pc : RequestState, kind : Kinds \union {"none"},
                         t : Tickets \union {Absent}, rec : Ticket \union {Absent}, ts : Nat,
                         alt : AltSignAddrs \union {Absent}, left : SUBSET Wallets]]
  BY DEF TypeInv, TypeOK
<1>1. CASE UNCHANGED <<req, changes>>
  BY <1>1 DEF Orderly, Flying
<1>2. CASE Crash
  BY <1>2 DEF Crash, IdleRequest, Orderly, Flying
<1>3. Environment \/ UNCHANGED vars => UNCHANGED <<req, changes>>
  BY DEF Environment, MineTicket, SpendTicket, DropTicket, MineFee, DropFee, PublishFee,
     OtherBlock, Tick, vars
<1>4. Update => UNCHANGED <<req, changes>>
  BY DEF Update, StartUpdate, LookUpTicket, RemoveTicket, RemoveAltSignAddr, ConfirmTicket,
     StartBroadcastFees, SendPendingFee, SaveFeeSent, StartAddToWallets, LookUpFee, SaveFeeLost,
     SaveFeeFinal, AddToWallet, TicketAdded, SetOutcomes, SaveOutcome, EndUpdate
<1>5. ConsistencyCheck => UNCHANGED <<req, changes>>
  BY DEF ConsistencyCheck, StartConsistencyCheck, AddMissingTickets, StartChoicesCheck,
     CheckChoices, EndConsistencyCheck
<1>6. ASSUME NEW q \in Slots, Serve(q) PROVE Orderly /\ UNCHANGED changes
  <2>0. UNCHANGED changes
    BY <1>6 DEF Serve, Receive, BroadcastTicket, Refuse, CheckCanVote, RenewFee, NewFeeAddress, InsertTicket,
       PayFee, SendPaidFee, SavePaidFeeSent, SavePaidFeeRefused, CheckVoteChoices,
       SaveVoteChoices, UpdateWallet, CheckAltSignAddr, StoreAltSignAddr
  <2>1. ASSUME NEW r, req' = [req EXCEPT ![q] = r],
               \/ r.pc \in {"idle", "check", "new", "newFinal", "renew", "pay", "insert", "insertAlt"}
               \/ Flying(q) /\ r.t = req[q].t /\ r.ts = req[q].ts
               \/ \A i \in 1 .. Len(changes[r.t]) : changes[r.t][i] < r.ts
        PROVE  Orderly
    <3>1. req'[q] = r /\ \A p \in Slots : p # q => req'[p] = req[p]
      BY <1>0, <2>1
    <3> QED
      BY <2>1, <3>1 DEF Orderly, Flying
  <2>2. ASSUME NEW kind \in Kinds, NEW t \in Tickets, Receive(q, kind, t) PROVE Orderly
    <3> DEFINE r == [IdleRequest EXCEPT
                  !.pc = "check", !.kind = kind, !.t = t,
                  !.rec = IF kind = "setaltsignaddr" THEN Absent ELSE db[t]]
    <3>1. \/ req' = [req EXCEPT ![q] = r] /\ r.pc = "check"
          \/ req' = [req EXCEPT ![q] = IdleRequest] /\ IdleRequest.pc = "idle"
      BY <2>2 DEF Receive, Finish, IdleRequest
    <3> HIDE DEF r
    <3> QED
      BY <2>1, <3>1
  <2>3. ASSUME Refuse(q) \/ RenewFee(q) \/ InsertTicket(q) \/ SavePaidFeeRefused(q)
               \/ StoreAltSignAddr(q)
        PROVE  Orderly
    <3>1. req' = [req EXCEPT ![q] = IdleRequest]
      BY <2>3 DEF Refuse, RenewFee, InsertTicket, SavePaidFeeRefused, StoreAltSignAddr, Finish
    <3>2. IdleRequest.pc \in {"idle", "check", "insert", "insertAlt"}
      BY DEF IdleRequest
    <3> QED
      BY <2>1, <3>1, <3>2
  <2>4. ASSUME NewFeeAddress(q) PROVE Orderly
    <3>1. PICK rec : req' = [req EXCEPT ![q].pc = "insert", ![q].rec = rec]
      BY <2>4 DEF NewFeeAddress
    <3> DEFINE r == [req[q] EXCEPT !.pc = "insert", !.rec = rec]
    <3>2. req' = [req EXCEPT ![q] = r] /\ r.pc = "insert"
      BY <1>0, <3>1
    <3> HIDE DEF r
    <3> QED
      BY <2>1, <3>2
  <2>5. ASSUME NEW f \in FeeTxs, NEW ts \in Timestamps, PayFee(q, f, ts) PROVE Orderly
    <3>1. CASE Finish(q)
      BY <2>1, <3>1 DEF Finish, IdleRequest
    <3>2. ASSUME NEW paid, NEW pc, req' = [req EXCEPT ![q].pc = pc, ![q].rec = paid, ![q].ts = ts]
          PROVE  Orderly
      <4> DEFINE r == [req[q] EXCEPT !.pc = pc, !.rec = paid, !.ts = ts]
      <4>1. req' = [req EXCEPT ![q] = r] /\ r.t = req[q].t
        BY <1>0, <3>2
      <4>2. changes[req[q].t] = << >>
        BY <2>5 DEF FeeFirst
      <4>3. \A i \in 1 .. Len(changes[r.t]) : changes[r.t][i] < r.ts
        BY <4>1, <4>2
      <4> HIDE DEF r
      <4> QED
        BY <2>1, <4>1, <4>3
    <3>3. Finish(q) \/ \E paid, pc : req' = [req EXCEPT ![q].pc = pc, ![q].rec = paid, ![q].ts = ts]
      BY <2>5 DEF PayFee
    <3> QED
      BY <3>1, <3>2, <3>3
  <2>6. ASSUME Flying(q), \A p \in Slots : p # q => req'[p] = req[p],
               req'[q].pc = "idle" \/ (req'[q].t = req[q].t /\ req'[q].ts = req[q].ts)
        PROVE  Orderly
    BY <2>6 DEF Orderly, Flying
  <2>7. ASSUME SendPaidFee(q) PROVE Orderly
    <3>1. Flying(q)
      BY <2>7 DEF SendPaidFee, At, Flying
    <3>2. /\ \A p \in Slots : p # q => req'[p] = req[p]
          /\ req'[q].t = req[q].t /\ req'[q].ts = req[q].ts
      BY <1>0, <2>7 DEF SendPaidFee, Go
    <3> QED
      BY <2>6, <3>1, <3>2
  <2>8. ASSUME SavePaidFeeSent(q) PROVE Orderly
    <3>1. Flying(q)
      BY <2>8 DEF SavePaidFeeSent, At, Flying
    <3>2. \A p \in Slots : p # q => req'[p] = req[p]
      BY <1>0, <2>8 DEF SavePaidFeeSent, Finish
    <3>3. req'[q].pc = "idle" \/ (req'[q].t = req[q].t /\ req'[q].ts = req[q].ts)
      BY <1>0, <2>8 DEF SavePaidFeeSent, Finish, IdleRequest
    <3> QED
      BY <2>6, <3>1, <3>2, <3>3
  <2>9. ASSUME SaveVoteChoices(q) PROVE Orderly
    <3>1. Flying(q)
      BY <2>9 DEF SaveVoteChoices, At, Flying
    <3>2. \A p \in Slots : p # q => req'[p] = req[p]
      BY <1>0, <2>9 DEF SaveVoteChoices, Go, Finish
    <3>3. req'[q].pc = "idle" \/ (req'[q].t = req[q].t /\ req'[q].ts = req[q].ts)
      BY <1>0, <2>9 DEF SaveVoteChoices, Go, Finish, IdleRequest
    <3> QED
      BY <2>6, <3>1, <3>2, <3>3
  <2>10. ASSUME NEW w \in Wallets, UpdateWallet(q, w) PROVE Orderly
    <3>1. Flying(q)
      BY <2>10 DEF UpdateWallet, At, Flying
    <3>2. /\ \A p \in Slots : p # q => req'[p] = req[p]
          /\ req'[q].t = req[q].t /\ req'[q].ts = req[q].ts
      BY <1>0, <2>10 DEF UpdateWallet
    <3> QED
      BY <2>6, <3>1, <3>2
  <2>11. ASSUME NEW ts \in Timestamps, CheckVoteChoices(q, ts) PROVE Orderly
    <3>1. PICK rec : req' = [req EXCEPT ![q].pc = "save", ![q].ts = ts, ![q].rec = rec]
      BY <2>11 DEF CheckVoteChoices
    <3>2. \A i \in 1 .. Len(changes[req[q].t]) : ts > changes[req[q].t][i]
      BY <2>11 DEF CheckVoteChoices
    <3> DEFINE r == [req[q] EXCEPT !.pc = "save", !.ts = ts, !.rec = rec]
    <3>3. req' = [req EXCEPT ![q] = r] /\ r.t = req[q].t /\ r.ts = ts
      BY <1>0, <3>1
    <3> HIDE DEF r
    <3>4. \A i \in 1 .. Len(changes[r.t]) : changes[r.t][i] < r.ts
      BY <3>2, <3>3
    <3> QED
      BY <2>1, <3>3, <3>4
  <2>12. ASSUME NEW a \in AltSignAddrs, CheckAltSignAddr(q, a) PROVE Orderly
    <3> DEFINE r == [req[q] EXCEPT !.pc = "insertAlt", !.alt = a]
    <3>1. req' = [req EXCEPT ![q] = r] /\ r.pc = "insertAlt"
      BY <1>0, <2>12 DEF CheckAltSignAddr
    <3> HIDE DEF r
    <3> QED
      BY <2>1, <3>1
  <2>13. ASSUME CheckCanVote(q) PROVE Orderly
    BY <2>1, <2>13, CheckCanVoteStep
  <2> QED
    BY <1>6, <2>0, <2>2, <2>3, <2>4, <2>5, <2>7, <2>8, <2>9, <2>10, <2>11, <2>12, <2>13 DEF Serve
<1> QED
  BY <1>1, <1>2, <1>3, <1>4, <1>5, <1>6 DEF Next, Crash

\* Recording a vote change takes its request out of flight, so the room it
\* takes after an earlier record was reserved for it.
LEMMA RecordOrder ==
    ASSUME TypeInv, FewInFlight, VoteOrder, NEW q \in Slots, RecordVoteChange(q)
    PROVE  VoteOrder'
<1>u. PICK u : u = req[q].t
  OBVIOUS
<1>ts. PICK ts : ts = req[q].ts
  OBVIOUS
<1>log. PICK log : log = changes[u]
  OBVIOUS
<1>new. PICK new : new = SaveVoteChange(log, ts)
  OBVIOUS
<1>d. PICK d : d = Dropped(log)
  OBVIOUS
<1>1. u \in Tickets /\ ts \in Nat /\ log \in Seq(Nat) /\ MaxVoteChangeRecords \in Nat \ {0}
  BY <1>u, <1>ts, <1>log, DatabaseAssumption
     DEF RecordVoteChange, At, TypeInv, TypeOK, RequestShape
<1>2. /\ changes'[u] = new
      /\ \A t \in Tickets : t # u => changes'[t] = changes[t]
  BY <1>u, <1>ts, <1>log, <1>new, <1>1 DEF RecordVoteChange, TypeInv, TypeOK
<1>3. /\ new \in Seq(Nat)
      /\ d \in {0, 1} /\ d <= Len(log)
      /\ Len(new) = Len(log) - d + 1
      /\ new[Len(new)] = ts
      /\ \A i \in 1 .. Len(log) - d : new[i] = log[i + d]
  BY <1>1, <1>new, <1>d, SaveVoteChangeRecords
<1>4. \A p \in Slots : p # q => req'[p] = req[p]
  BY DEF RecordVoteChange, Finish, TypeInv, TypeOK
<1>5. ~ Flying(q)' /\ Flying(q) /\ q \in InFlight(u)
  BY <1>u DEF RecordVoteChange, Finish, IdleRequest, Flying, At, InFlight, TypeInv, TypeOK
<1>6. ASSUME NEW t PROVE InFlight(t)' = InFlight(t) \ {q}
  BY <1>4, <1>5 DEF InFlight, Flying
<1>7. ASSUME NEW t, NEW x PROVE Older(t, x)' = Older(t, x) \ {q}
  <2>1. \A p \in InFlight(t)' : p # q /\ p \in Slots /\ req'[p].ts = req[p].ts
    BY <1>4, <1>6 DEF InFlight
  <2> QED
    BY <1>6, <2>1 DEF Older
<1>8. ASSUME NEW x
      PROVE  /\ IsFiniteSet(InFlight(u)) /\ Cardinality(InFlight(u)) \in Nat
             /\ Cardinality(InFlight(u)) <= MaxVoteChangeRecords
             /\ IsFiniteSet(Older(u, x)) /\ Cardinality(Older(u, x)) \in Nat
  <2>1. Older(u, x) \subseteq InFlight(u) /\ IsFiniteSet(InFlight(u))
    BY <1>1 DEF FewInFlight, Older
  <2>2. IsFiniteSet(Older(u, x))
    BY <2>1, FS_Subset
  <2> QED
    BY <1>1, <2>1, <2>2, FS_CardinalityType DEF FewInFlight
<1>9. ASSUME NEW t \in Tickets, t # u, NEW i \in 1 .. Len(changes'[t]), NewestFrom(t, i)'
      PROVE  RoomAfter(t, i)'
  <2>1. changes'[t] = changes[t] /\ NewestFrom(t, i) /\ i \in 1 .. Len(changes[t])
    BY <1>2, <1>9 DEF NewestFrom
  <2>2. RoomAfter(t, i)
    BY <2>1 DEF VoteOrder
  <2>3. PICK x : x = changes[t][i]
    OBVIOUS
  <2>4. q \notin Older(t, x)
    BY <1>u, <1>9 DEF Older, InFlight
  <2>5. Older(t, x)' = Older(t, x)
    BY <1>7, <2>4
  <2> QED
    BY <2>1, <2>2, <2>3, <2>5 DEF RoomAfter
<1>10. ASSUME NEW i \in 1 .. Len(changes'[u]), NewestFrom(u, i)' PROVE RoomAfter(u, i)'
  <2>m. PICK m : m = Len(log)
    OBVIOUS
  <2>0. /\ i \in Nat /\ m \in Nat /\ Len(new) \in Nat /\ i >= 1 /\ i <= Len(new)
        /\ Len(new) = m - d + 1 /\ d \in {0, 1} /\ d <= m
    BY <1>1, <1>2, <1>3, <1>10, <2>m
  <2>x. PICK x : x = new[i]
    OBVIOUS
  <2>c. PICK c : c = Cardinality(Older(u, x) \ {q})
    OBVIOUS
  <2>1. CASE i = Len(new)
    <3>1. Older(u, x) \ {q} \subseteq InFlight(u) \ {q}
      BY DEF Older
    <3>2. /\ IsFiniteSet(InFlight(u) \ {q})
          /\ Cardinality(InFlight(u) \ {q}) = Cardinality(InFlight(u)) - 1
      BY <1>5, <1>8, FS_RemoveElement
    <3>3. c <= Cardinality(InFlight(u) \ {q}) /\ IsFiniteSet(Older(u, x) \ {q})
      BY <2>c, <3>1, <3>2, FS_Subset
    <3>4. c \in Nat
      BY <2>c, <3>3, FS_CardinalityType
    <3>n. PICK n \in Nat : n = Cardinality(InFlight(u))
      BY <1>8
    <3>5. n <= MaxVoteChangeRecords /\ c <= n - 1
      BY <1>8, <3>2, <3>3, <3>n
    <3>l. c < MaxVoteChangeRecords
      BY <1>1, <3>4, <3>5
    <3>6. Len(new) - i + c < MaxVoteChangeRecords
      BY <1>1, <2>0, <2>1, <3>4, <3>l
    <3> QED
      BY <1>2, <1>7, <2>x, <2>c, <3>6 DEF RoomAfter
  <2>2. CASE i < Len(new)
    <3>k. PICK k : k = i + d
      OBVIOUS
    <3>1. k \in 1 .. m /\ i \in 1 .. m - d
      BY <2>0, <2>2, <3>k
    <3>2. x = log[k] /\ x \in Nat
      <4>1. log[k] \in Nat
        BY <1>1, <2>m, <3>1
      <4>2. new[i] = log[i + d]
        BY <1>3, <2>m, <3>1
      <4> QED
        BY <2>x, <3>k, <4>1, <4>2
    <3>3. ts < x
      <4>1. Len(new) \in i + 1 .. Len(new)
        BY <2>0, <2>2
      <4> QED
        BY <1>2, <1>3, <1>10, <2>x, <4>1 DEF NewestFrom
    <3>4. ASSUME NEW j \in k + 1 .. m PROVE log[j] < log[k]
      <4>1. /\ j - d \in i + 1 .. Len(new)
            /\ j - d \in 1 .. m - d
            /\ (j - d) + d = j
        BY <2>0, <3>k, <3>1
      <4>2. new[j - d] = log[j]
        BY <1>3, <2>m, <4>1
      <4>3. new[j - d] < new[i]
        BY <1>2, <1>10, <4>1 DEF NewestFrom
      <4> QED
        BY <2>x, <3>2, <4>2, <4>3
    <3>5. NewestFrom(u, k)
      BY <1>log, <2>m, <3>4 DEF NewestFrom
    <3>6. RoomAfter(u, k)
      BY <1>1, <1>log, <2>m, <3>1, <3>5 DEF VoteOrder
    <3>7. q \in Older(u, x)
      BY <1>5, <1>ts, <3>3 DEF Older
    <3>n. PICK n \in Nat : n = Cardinality(Older(u, x))
      BY <1>8
    <3>8. m - k + n < MaxVoteChangeRecords
      BY <1>log, <2>m, <3>2, <3>6, <3>7, <3>n DEF RoomAfter
    <3>9. c = n - 1
      BY <1>8, <2>c, <3>7, <3>n, FS_RemoveElement
    <3>10. Len(new) - i + c < MaxVoteChangeRecords
      BY <1>1, <2>0, <3>k, <3>8, <3>9
    <3> QED
      BY <1>2, <1>7, <2>x, <2>c, <3>10 DEF RoomAfter
  <2> QED
    BY <2>0, <2>1, <2>2
<1> QED
  BY <1>9, <1>10 DEF VoteOrder

\* Only a record that a newer or an equal one follows is dropped.
LEMMA RecordKeepsNewest ==
    ASSUME TypeInv, FewInFlight, VoteOrder, NEW q \in Slots, RecordVoteChange(q),
           NEW t \in Tickets, NEW i \in 1 .. Len(changes[t])
    PROVE  \E j \in 1 .. Len(changes'[t]) : changes'[t][j] >= changes[t][i]
<1>ts. PICK ts : ts = req[q].ts
  OBVIOUS
<1>log. PICK log : log = changes[t]
  OBVIOUS
<1>new. PICK new : new = SaveVoteChange(log, ts)
  OBVIOUS
<1>1. req[q].t \in Tickets /\ ts \in Nat /\ log \in Seq(Nat) /\ MaxVoteChangeRecords \in Nat \ {0}
  BY <1>ts, <1>log, DatabaseAssumption DEF RecordVoteChange, At, TypeInv, TypeOK, RequestShape
<1>2. i \in 1 .. Len(log) /\ log[i] \in Nat /\ Len(log) \in Nat
  BY <1>log, <1>1
<1>3. CASE t # req[q].t
  <2>1. changes'[t] = log
    BY <1>log, <1>1, <1>3 DEF RecordVoteChange, TypeInv, TypeOK
  <2> QED
    BY <1>log, <1>2, <2>1
<1>4. CASE t = req[q].t
  <2>1. changes'[t] = new
    BY <1>ts, <1>log, <1>new, <1>1, <1>4 DEF RecordVoteChange, TypeInv, TypeOK
  <2>d. PICK d : d = Dropped(log)
    OBVIOUS
  <2>2. /\ new \in Seq(Nat)
        /\ d \in {0, 1} /\ d <= Len(log)
        /\ Len(new) = Len(log) - d + 1
        /\ new[Len(new)] = ts
        /\ \A j \in 1 .. Len(log) - d : new[j] = log[j + d]
    BY <1>1, <1>new, <2>d, SaveVoteChangeRecords
  <2>3. ASSUME NEW j \in 1 + d .. Len(log), log[j] >= log[i]
        PROVE  \E k \in 1 .. Len(new) : new[k] >= log[i]
    <3>1. /\ j - d \in 1 .. Len(log) - d
          /\ j - d \in 1 .. Len(new)
          /\ (j - d) + d = j
      BY <1>2, <2>2
    <3>2. new[j - d] = log[j]
      BY <2>2, <3>1
    <3> QED
      BY <2>3, <3>1, <3>2
  <2>4. CASE i >= 1 + d
    <3>1. i \in 1 + d .. Len(log) /\ log[i] >= log[i]
      BY <1>2, <2>2, <2>4
    <3> QED
      BY <1>log, <2>1, <2>3, <3>1
  <2>5. CASE ts >= log[i]
    <3>1. Len(new) \in 1 .. Len(new)
      BY <1>2, <2>2
    <3> QED
      BY <1>log, <2>1, <2>2, <2>5, <3>1
  <2>6. CASE d = 1 /\ i = 1 /\ ts < log[i] /\ NewestFrom(t, i)
    <3>o. PICK O : O = Older(t, log[i])
      OBVIOUS
    <3>1. q \in O
      BY <1>ts, <1>4, <2>6, <3>o DEF Older, InFlight, Flying, RecordVoteChange, At
    <3>2. RoomAfter(t, i)
      BY <2>6 DEF VoteOrder
    <3>3. Len(log) - 1 + Cardinality(O) < MaxVoteChangeRecords
      BY <1>log, <2>6, <3>o, <3>1, <3>2 DEF RoomAfter
    <3>4. O \subseteq InFlight(t) /\ IsFiniteSet(InFlight(t))
      BY <3>o DEF FewInFlight, Older
    <3>5. IsFiniteSet(O)
      BY <3>4, FS_Subset
    <3>6. Cardinality(O) \in Nat /\ Cardinality(O) # 0
      BY <3>1, <3>5, FS_CardinalityType, FS_EmptySet
    <3>7. Len(log) >= MaxVoteChangeRecords
      BY <2>d, <2>6 DEF Dropped
    <3> QED
      BY <1>1, <1>2, <3>3, <3>6, <3>7
  <2>7. CASE d = 1 /\ i = 1 /\ ~ NewestFrom(t, i)
    <3>1. PICK j \in 2 .. Len(log) : ~ (log[j] < log[i])
      BY <1>log, <2>7 DEF NewestFrom
    <3>2. log[j] >= log[i]
      BY <1>1, <1>2, <3>1
    <3> QED
      BY <1>log, <2>1, <2>3, <2>7, <3>1, <3>2
  <2>8. ts >= log[i] \/ ts < log[i]
    BY <1>1, <1>2
  <2>9. i >= 1 + d \/ (d = 1 /\ i = 1)
    BY <1>2, <2>2
  <2> QED
    BY <2>4, <2>5, <2>6, <2>7, <2>8, <2>9
<1> QED
  BY <1>3, <1>4

NewestKept ==
    \A t \in Tickets : \A i \in 1 .. Len(changes[t]) :
        \E j \in 1 .. Len(changes'[t]) : changes'[t][j] >= changes[t][i]

\* Both facts for every step.
LEMMA VoteOrderNext ==
    ASSUME TypeInv, FewInFlight, VoteOrder, FeeFirst, [Next]_vars
    PROVE  VoteOrder' /\ NewestKept
<1>1. CASE \E q \in Slots : RecordVoteChange(q)
  BY <1>1, RecordOrder, RecordKeepsNewest DEF NewestKept
<1>2. CASE \A q \in Slots : ~ RecordVoteChange(q)
  <2>1. TypeInv' /\ Orderly /\ UNCHANGED changes
    BY <1>2, TypeNext, OthersOrderly
  <2>2. VoteOrder'
    BY <2>1, OrderlyStep
  <2>3. \A t \in Tickets : \A i \in 1 .. Len(changes[t]) : changes[t][i] >= changes[t][i]
    BY DEF TypeInv, TypeOK
  <2> QED
    BY <2>1, <2>2, <2>3 DEF NewestKept
<1> QED
  BY <1>1, <1>2

\* The newest vote change of a ticket is never lost (SaveVoteChange,
\* setvotechoices.go:48-64), as long as no more requests of the ticket are in
\* flight at once than records are kept and /payfee, which compares its
\* timestamp with none, is not retried once a request is recorded.
THEOREM NewestChangeCorrect ==
    Spec /\ []FewInFlight /\ [][FeeFirst]_vars => NewestChangeKept
<1>1. Init => TypeInv /\ VoteOrder
  BY TypeInit DEF Init, VoteOrder
<1>2. TypeInv /\ [Next]_vars => TypeInv'
  BY TypeNext
<1>3. TypeInv /\ UNCHANGED vars => FeeFirst
  <2> SUFFICES ASSUME TypeInv, UNCHANGED vars,
                      NEW q \in Slots, NEW f \in FeeTxs, NEW ts \in Timestamps, PayFee(q, f, ts)
               PROVE  FALSE
    BY DEF FeeFirst
  <2>1. req[q].pc = "pay" /\ req' = req
    BY DEF PayFee, At, vars, volatile
  <2>2. req'[q].pc \in {"idle", "send", "record"}
    BY DEF PayFee, Finish, IdleRequest, TypeInv, TypeOK
  <2> QED
    BY <2>1, <2>2
<1>4. TypeInv /\ VoteOrder /\ FewInFlight /\ [Next]_vars /\ [FeeFirst]_vars => VoteOrder' /\ NewestKept
  BY <1>3, VoteOrderNext
<1>5. NewestKept <=> \A t \in Tickets : \A i \in 1 .. Len(changes[t]) :
            \E j \in 1 .. Len(changes'[t]) : changes'[t][j] >= changes[t][i]
  BY DEF NewestKept
<1> QED
  BY <1>1, <1>2, <1>4, <1>5, PTL DEF Spec, NewestChangeKept
-----------------------------------------------------------------------------
(* What is removed, and what the wallets hold.                             *)

RecordsStay == \A t \in Tickets : Exists(db, t) => db'[t] # Absent

\* A save with UpdateTicket removes nothing.
LEMMA UpdateStays ==
    ASSUME db \in Bucket, NEW t \in Tickets, NEW r \in Ticket, db' = UpdateTicket(db, t, r)
    PROVE  RecordsStay
BY AbsentFacts DEF UpdateTicket, RecordsStay, Exists, Bucket

\* The goroutine of Run removes records in RemoveTicket only.
LEMMA UpdaterRemoves == SafeInv /\ (Update \/ ConsistencyCheck) => RemoveTicket \/ RecordsStay
<1> SUFFICES ASSUME SafeInv, Update \/ ConsistencyCheck PROVE RemoveTicket \/ RecordsStay
  OBVIOUS
<1> USE DEF database, chain, bounds, history, Step
<1>1. db \in Bucket /\ upd.list \in Bucket
  BY DEF SafeInv, TypeInv, UpdaterShape
<1>2. UNCHANGED db => RecordsStay
  BY DEF RecordsStay, Exists
<1>3. upd.pc \in Working => upd.cur \in Tickets /\ CurRecord \in Ticket
  BY <1>1 DEF SafeInv, TypeInv, UpdaterShape, CurRecord, Bucket, TicketOK
<1>4. CASE ConfirmTicket \/ SaveFeeSent \/ SaveFeeLost \/ SaveFeeFinal
  <2>1. upd.cur \in Tickets /\ CurRecord \in Ticket
    BY <1>3, <1>4 DEF ConfirmTicket, SaveFeeSent, SaveFeeLost, SaveFeeFinal, Working
  <2>2. PICK r : db' = UpdateTicket(db, upd.cur, r) /\
              \/ r = [CurRecord EXCEPT !.Confirmed = TRUE]
              \/ r = [CurRecord EXCEPT !.FeeTxStatus = "broadcast"]
              \/ r = [CurRecord EXCEPT !.FeeTxStatus = "error"]
              \/ r = [CurRecord EXCEPT !.FeeTxHex = FALSE, !.FeeTxStatus = "confirmed"]
    BY <1>4 DEF ConfirmTicket, SaveFeeSent, SaveFeeLost, SaveFeeFinal
  <2>3. r \in Ticket
    BY <2>1, <2>2 DEF Ticket, FeeStatus
  <2> QED
    BY <1>1, <2>1, <2>2, <2>3, UpdateStays
<1>5. ASSUME NEW w \in Wallets, AddToWallet(w) PROVE RecordsStay
  <2>1. upd.cur \in Tickets /\ CurRecord \in Ticket
    BY <1>3, <1>5 DEF AddToWallet, Working
  <2> DEFINE r == [CurRecord EXCEPT !.VoteChoices = 0]
  <2>2. r \in Ticket
    BY <2>1 DEF Ticket
  <2>3. UNCHANGED db \/ db' = UpdateTicket(db, upd.cur, r)
    BY <1>5 DEF AddToWallet
  <2> HIDE DEF r
  <2> QED
    BY <1>1, <1>2, <2>1, <2>2, <2>3, UpdateStays
<1>6. ASSUME NEW t \in Tickets, SaveOutcome(t) PROVE RecordsStay
  <2>1. PICK o \in OutcomeOf(t) : db' = UpdateTicket(db, t, [upd.list[t] EXCEPT !.Outcome = o])
    BY <1>6 DEF SaveOutcome
  <2>2. o \in TicketOutcome /\ upd.list[t] \in Ticket
    BY <1>1, <1>6 DEF SaveOutcome, OutcomeOf, TicketOutcome, Pending, Bucket, TicketOK
  <2>3. [upd.list[t] EXCEPT !.Outcome = o] \in Ticket
    BY <2>2 DEF Ticket
  <2> QED
    BY <1>1, <2>1, <2>3, UpdateStays
<1>7. ASSUME NEW w \in Wallets, CheckChoices(w) PROVE RecordsStay
  <2> DEFINE removed(t) == [upd.list[t] EXCEPT !.VoteChoices = 0]
  <2>1. \/ UNCHANGED db
        \/ db' = [t \in Tickets |-> IF t \in WrongChoices(w)
                                    THEN UpdateTicket(db, t, removed(t))[t] ELSE db[t]]
    BY <1>7 DEF CheckChoices
  <2>2. \A t \in WrongChoices(w) : t \in Tickets /\ upd.list[t] \in Ticket
    BY <1>1 DEF WrongChoices, Pending, Bucket, TicketOK
  <2>3. \A t \in WrongChoices(w) : removed(t) \in Ticket
    BY <2>2 DEF Ticket
  <2>4. \A t \in WrongChoices(w) : removed(t) # Absent
    BY <2>3, AbsentFacts
  <2> HIDE DEF removed
  <2>5. \A t \in WrongChoices(w) : Exists(db, t) => UpdateTicket(db, t, removed(t))[t] # Absent
    BY <1>1, <2>2, <2>4 DEF UpdateTicket, Exists, Bucket
  <2> QED
    BY <2>1, <2>5 DEF RecordsStay, Exists
<1>8. Update => \/ RemoveTicket \/ ConfirmTicket \/ SaveFeeSent \/ SaveFeeLost \/ SaveFeeFinal
                \/ \E w \in Wallets : AddToWallet(w)
                \/ \E t \in Tickets : SaveOutcome(t)
                \/ UNCHANGED db
  BY DEF Update, StartUpdate, LookUpTicket, RemoveAltSignAddr, StartBroadcastFees,
     SendPendingFee, StartAddToWallets, LookUpFee, TicketAdded, SetOutcomes, EndUpdate
<1>9. ConsistencyCheck => (\E w \in Wallets : CheckChoices(w)) \/ UNCHANGED db
  BY DEF ConsistencyCheck, StartConsistencyCheck, AddMissingTickets, StartChoicesCheck,
     EndConsistencyCheck
<1> QED
  BY <1>2, <1>4, <1>5, <1>6, <1>7, <1>8, <1>9

\* What a request saves over a record is its copy, with the Confirmed it has.
Saves(q) ==
    \A t \in Tickets :
        \/ db'[t] = db[t]
        \/ ~ Exists(db, t)
        \/ /\ t = req[q].t /\ req[q].rec # Absent /\ req[q].pc # "insert"
           /\ db'[t] \in Ticket /\ db'[t].Confirmed = req[q].rec.Confirmed

\* No request saves more.
LEMMA ServeSaves == ASSUME SafeInv, NEW q \in Slots, Serve(q) PROVE Saves(q)
<1> USE DEF database, chain, bounds, history, At, Checking
<1>1. db \in Bucket /\ (req[q].rec # Absent => req[q].t \in Tickets /\ req[q].rec \in Ticket)
  BY DEF SafeInv, TypeInv, RequestShape, TicketOK
<1>2. CASE UNCHANGED db
  BY <1>2 DEF Saves
<1>3. ASSUME NEW r \in Ticket, req[q].rec # Absent, req[q].pc # "insert",
             db' = UpdateTicket(db, req[q].t, r), r.Confirmed = req[q].rec.Confirmed
      PROVE  Saves(q)
  BY <1>1, <1>3 DEF UpdateTicket, Saves, Bucket
<1>4. CASE RenewFee(q)
  <2>1. req[q].rec # Absent
    BY <1>4 DEF RenewFee, SafeInv, TypeInv, RequestShape
  <2> QED
    BY <1>1, <1>3, <1>4, <2>1 DEF RenewFee
<1>5. CASE InsertTicket(q)
  BY <1>1, <1>5 DEF InsertTicket, InsertNewTicket, Saves
<1>6. ASSUME NEW f \in FeeTxs, NEW ts \in Timestamps, PayFee(q, f, ts) PROVE Saves(q)
  <2>1. PICK c \in {req[q].rec.VoteChoices, 0, ts} :
            db' = UpdateTicket(db, req[q].t, Paid(req[q].rec, f, c))
    BY <1>6 DEF PayFee
  <2>2. /\ req[q].rec # Absent /\ req[q].pc = "pay"
        /\ req[q].rec \in Ticket /\ req[q].rec.VoteChoices \in Nat /\ ts \in Nat
    BY <1>1, <1>6, StateAssumption DEF PayFee, Ticket, SafeInv, TypeInv, RequestShape
  <2>3. c \in Nat
    BY <2>1, <2>2
  <2>4. /\ Paid(req[q].rec, f, c) \in Ticket
        /\ Paid(req[q].rec, f, c).Confirmed = req[q].rec.Confirmed
    BY <2>2, <2>3 DEF Paid, Ticket, FeeStatus
  <2> QED
    BY <1>3, <2>1, <2>2, <2>4
<1>7. CASE SavePaidFeeSent(q) \/ SavePaidFeeRefused(q)
  <2>1. req[q].rec # Absent /\ req[q].pc # "insert"
    BY <1>7 DEF SavePaidFeeSent, SavePaidFeeRefused, SafeInv, TypeInv, RequestShape
  <2>2. PICK s \in FeeStatus :
            db' = UpdateTicket(db, req[q].t, [req[q].rec EXCEPT !.FeeTxStatus = s])
    BY <1>7 DEF SavePaidFeeSent, SavePaidFeeRefused, FeeStatus
  <2> DEFINE r == [req[q].rec EXCEPT !.FeeTxStatus = s]
  <2>3. r \in Ticket /\ r.Confirmed = req[q].rec.Confirmed
    BY <1>1, <2>1 DEF Ticket
  <2> QED
    BY <1>3, <2>1, <2>2, <2>3
<1>8. CASE SaveVoteChoices(q)
  <2>1. req[q].rec # Absent /\ req[q].pc # "insert"
    BY <1>8 DEF SaveVoteChoices, SafeInv, TypeInv, RequestShape
  <2> QED
    BY <1>1, <1>3, <1>8, <2>1 DEF SaveVoteChoices
<1> QED
  BY <1>2, <1>4, <1>5, <1>6, <1>7, <1>8 DEF Serve, Receive, BroadcastTicket, Refuse, CheckCanVote,
     NewFeeAddress, SendPaidFee, CheckVoteChoices, UpdateWallet, RecordVoteChange,
     CheckAltSignAddr, StoreAltSignAddr

\* A request goes on without a copy, with a record to insert, with one it has just
\* read, or with its copy, whose Confirmed it never changes.
Copies(q) ==
    LET n == req'[q]
    IN  /\ \A p \in Slots \ {q} : req'[p] = req[p]
        /\ \/ n.rec = Absent \/ n.pc = "insert" \/ n.rec = db[n.t]
           \/ /\ n.t = req[q].t /\ req[q].rec # Absent /\ req[q].pc # "insert"
              /\ n.rec.Confirmed = req[q].rec.Confirmed

\* Every step of a request goes on in one of these ways.
LEMMA ServeCopies == ASSUME SafeInv, NEW q \in Slots, Serve(q) PROVE Copies(q)
<1> USE DEF At, Go, Checking
<1>1. /\ req[q] \in [pc : RequestState, kind : Kinds \union {"none"},
                     t : Tickets \union {Absent},
                     rec : Ticket \union {Absent}, ts : Nat,
                     alt : AltSignAddrs \union {Absent},
                     left : SUBSET Wallets]
      /\ DOMAIN req = Slots
  BY DEF SafeInv, TypeInv, TypeOK
<1>2. ASSUME NEW n, req' = [req EXCEPT ![q] = n],
             \/ n.rec = Absent \/ n.pc = "insert" \/ n.rec = db[n.t]
             \/ /\ n.t = req[q].t /\ req[q].rec # Absent /\ req[q].pc # "insert"
                /\ n.rec.Confirmed = req[q].rec.Confirmed
      PROVE  Copies(q)
  <2>1. req'[q] = n /\ \A p \in Slots \ {q} : req'[p] = req[p]
    BY <1>1, <1>2
  <2> QED
    BY <1>2, <2>1 DEF Copies
<1>3. CASE Finish(q)
  BY <1>2, <1>3 DEF Finish, IdleRequest
<1>4. ASSUME NEW kind \in Kinds, NEW t \in Tickets, Receive(q, kind, t) PROVE Copies(q)
  <2> DEFINE n == [IdleRequest EXCEPT
                     !.pc = "check", !.kind = kind, !.t = t,
                     !.rec = IF kind = "setaltsignaddr" THEN Absent ELSE db[t]]
  <2>1. n.rec = Absent \/ n.rec = db[n.t]
    BY DEF IdleRequest
  <2>2. req' = [req EXCEPT ![q] = n] \/ Finish(q)
    BY <1>4 DEF Receive
  <2> HIDE DEF n
  <2> QED
    BY <1>2, <1>3, <2>1, <2>2
<1>5. CASE NewFeeAddress(q)
  <2>1. PICK r : req' = [req EXCEPT ![q].pc = "insert", ![q].rec = r]
    BY <1>5 DEF NewFeeAddress
  <2> DEFINE n == [req[q] EXCEPT !.pc = "insert", !.rec = r]
  <2>2. n.pc = "insert" /\ req' = [req EXCEPT ![q] = n]
    BY <1>1, <2>1
  <2> HIDE DEF n
  <2> QED
    BY <1>2, <2>2
<1>6. ASSUME NEW pc, NEW r, NEW ts, req[q].rec # Absent, req[q].pc # "insert",
             req' = [req EXCEPT ![q].pc = pc, ![q].rec = r, ![q].ts = ts],
             r.Confirmed = req[q].rec.Confirmed
      PROVE  Copies(q)
  <2> DEFINE n == [req[q] EXCEPT !.pc = pc, !.rec = r, !.ts = ts]
  <2>1. n.t = req[q].t /\ n.rec = r /\ req' = [req EXCEPT ![q] = n]
    BY <1>1, <1>6
  <2> HIDE DEF n
  <2> QED
    BY <1>2, <1>6, <2>1
<1>7. ASSUME NEW f \in FeeTxs, NEW ts \in Timestamps, PayFee(q, f, ts) PROVE Copies(q)
  <2>1. req[q].rec # Absent /\ req[q].rec \in Ticket /\ req[q].pc # "insert"
    BY <1>1, <1>7 DEF PayFee, SafeInv, TypeInv, RequestShape
  <2>2. \A c : Paid(req[q].rec, f, c).Confirmed = req[q].rec.Confirmed
    BY <2>1 DEF Paid, Ticket
  <2>3. \/ Finish(q)
        \/ \E c, pc : req' = [req EXCEPT ![q].pc = pc, ![q].rec = Paid(req[q].rec, f, c),
                                         ![q].ts = ts]
    BY <1>7 DEF PayFee
  <2>4. ASSUME NEW c, NEW pc, req' = [req EXCEPT ![q].pc = pc, ![q].rec = Paid(req[q].rec, f, c),
                                                 ![q].ts = ts]
        PROVE  Copies(q)
    <3> DEFINE r == Paid(req[q].rec, f, c)
    <3>1. r.Confirmed = req[q].rec.Confirmed
      BY <2>2
    <3>2. req' = [req EXCEPT ![q].pc = pc, ![q].rec = r, ![q].ts = ts]
      BY <2>4
    <3> HIDE DEF r
    <3> QED
      BY <1>6, <2>1, <3>1, <3>2
  <2> QED
    BY <1>3, <2>3, <2>4
<1>8. ASSUME NEW ts \in Timestamps, CheckVoteChoices(q, ts) PROVE Copies(q)
  <2>1. req[q].rec # Absent /\ req[q].rec \in Ticket /\ req[q].pc # "insert"
    BY <1>1, <1>8 DEF CheckVoteChoices
  <2>2. \A c : [req[q].rec EXCEPT !.VoteChoices = c].Confirmed = req[q].rec.Confirmed
    BY <2>1 DEF Ticket
  <2>3. PICK c : req' = [req EXCEPT ![q].pc = "save", ![q].ts = ts,
                                    ![q].rec = [req[q].rec EXCEPT !.VoteChoices = c]]
    BY <1>8 DEF CheckVoteChoices
  <2>4. req' = [req EXCEPT ![q].pc = "save", ![q].rec = [req[q].rec EXCEPT !.VoteChoices = c],
                           ![q].ts = ts]
    BY <1>1, <2>3
  <2> QED
    BY <1>6, <2>1, <2>2, <2>4
<1>9. CASE SavePaidFeeSent(q)
  <2> DEFINE r == [req[q].rec EXCEPT !.FeeTxStatus = "broadcast"]
             n == [req[q] EXCEPT !.pc = "record", !.rec = r]
  <2>1. req[q].rec # Absent /\ req[q].rec \in Ticket /\ req[q].pc # "insert"
    BY <1>1, <1>9 DEF SavePaidFeeSent, SafeInv, TypeInv, RequestShape
  <2>2. r.Confirmed = req[q].rec.Confirmed
    BY <2>1 DEF Ticket
  <2>3. Finish(q) \/ req' = [req EXCEPT ![q].pc = "record", ![q].rec = r]
    BY <1>9 DEF SavePaidFeeSent
  <2> HIDE DEF r
  <2>4. n.t = req[q].t /\ n.rec = r /\ (Finish(q) \/ req' = [req EXCEPT ![q] = n])
    BY <1>1, <2>3
  <2> HIDE DEF n
  <2> QED
    BY <1>2, <1>3, <2>1, <2>2, <2>4
<1>10. ASSUME NEW n, req' = [req EXCEPT ![q] = n], n.t = req[q].t, n.rec = req[q].rec,
              req[q].pc # "insert"
       PROVE  Copies(q)
  BY <1>2, <1>10
<1>11. CASE SendPaidFee(q)
  <2>1. PICK pc : req' = [req EXCEPT ![q].pc = pc]
    BY <1>11 DEF SendPaidFee
  <2> DEFINE n == [req[q] EXCEPT !.pc = pc]
  <2>2. n.t = req[q].t /\ n.rec = req[q].rec /\ req' = [req EXCEPT ![q] = n]
    BY <1>1, <2>1
  <2> HIDE DEF n
  <2> QED
    BY <1>10, <1>11, <2>2 DEF SendPaidFee
<1>12. ASSUME NEW w \in Wallets, UpdateWallet(q, w) PROVE Copies(q)
  <2> DEFINE n == [req[q] EXCEPT !.left = @ \ {w},
                                 !.pc = IF req[q].left = {w} THEN "record" ELSE @]
  <2>1. n.t = req[q].t /\ n.rec = req[q].rec /\ req' = [req EXCEPT ![q] = n]
    BY <1>1, <1>12 DEF UpdateWallet
  <2> HIDE DEF n
  <2> QED
    BY <1>10, <1>12, <2>1 DEF UpdateWallet
<1>13. CASE SaveVoteChoices(q)
  <2> DEFINE recorded == [req[q] EXCEPT !.pc = "record"]
             told(C) == [req[q] EXCEPT !.pc = "wallets", !.left = C]
  <2>1. \/ Finish(q) \/ req' = [req EXCEPT ![q] = recorded]
        \/ \E C : req' = [req EXCEPT ![q] = told(C)]
    BY <1>1, <1>13 DEF SaveVoteChoices
  <2>2. /\ recorded.t = req[q].t /\ recorded.rec = req[q].rec
        /\ \A C : told(C).t = req[q].t /\ told(C).rec = req[q].rec
    BY <1>1
  <2> HIDE DEF recorded, told
  <2> QED
    BY <1>3, <1>10, <1>13, <2>1, <2>2 DEF SaveVoteChoices
<1>14. ASSUME NEW a \in AltSignAddrs, CheckAltSignAddr(q, a) PROVE Copies(q)
  <2> DEFINE n == [req[q] EXCEPT !.pc = "insertAlt", !.alt = a]
  <2>1. n.t = req[q].t /\ n.rec = req[q].rec /\ req' = [req EXCEPT ![q] = n]
    BY <1>1, <1>14 DEF CheckAltSignAddr
  <2> HIDE DEF n
  <2> QED
    BY <1>10, <1>14, <2>1 DEF CheckAltSignAddr
<1>15. Refuse(q) \/ RenewFee(q) \/ InsertTicket(q) \/ SavePaidFeeRefused(q)
       \/ RecordVoteChange(q) \/ StoreAltSignAddr(q) => Finish(q)
  BY DEF Refuse, RenewFee, InsertTicket, SavePaidFeeRefused, RecordVoteChange, StoreAltSignAddr
<1>16. CASE CheckCanVote(q)
  <2>1. TypeInv
    BY DEF SafeInv
  <2> QED
    BY <1>2, <1>16, <2>1, CheckCanVoteStep
<1> QED
  BY <1>3, <1>4, <1>5, <1>7, <1>8, <1>9, <1>11, <1>12, <1>13, <1>14, <1>15, <1>16 DEF Serve

\* Nothing says that the purchase of t was ever confirmed, but records that come
\* too late, and no fee for t is on its way.
Doomed(t) ==
    /\ ~ db[t].Confirmed
    /\ \A q \in Slots : req[q].rec # Absent /\ req[q].t = t /\ req[q].rec.Confirmed =>
            req[q].pc = "insert"
    /\ \A f \in sent : PaysTo[f] \notin issued[t]

FeeSent(t) == \E f \in sent : PaysTo[f] \in issued[t]

KeepInv ==
    /\ ServiceInv
    \* Only its own removal takes a ticket of the list from the database.
    /\ \A t \in Pending : Exists(db, t) \/ (upd.pc = "deleteAlt" /\ t = upd.cur)
    /\ upd.pc = "delete" => Doomed(upd.cur)
    /\ \A w \in Wallets, t \in Tickets : wallets[w][t] # Absent => Exists(db, t) /\ FeeSent(t)

\* So it is of a ticket that mond does not know: no copy is confirmed, and fees
\* have been sent only of tickets it knows.
LEMMA UnknownIsDoomed ==
    ASSUME ServiceInv, NEW t \in Tickets, Exists(db, t), ticketTx[t] = "unknown"
    PROVE  Doomed(t)
<1>1. ticketTx[t] \notin Final
  BY DEF Final, TicketOutcome
<1>2. SafeInv /\ AddressesUnique
  BY DEF ServiceInv
<1>3. \A f \in sent : PaysTo[f] \notin issued[t]
  BY <1>1, <1>2 DEF SafeInv, FeeHeldBack, AddressesUnique
<1> QED
  BY <1>1, <1>2, <1>3 DEF Doomed, SafeInv, RecordsGenuine, Genuine

\* And stays so while requests go on: what they save is not confirmed, what they
\* are about to insert is not stored, and what they send is for other tickets.
LEMMA ServeDoomed ==
    ASSUME ServiceInv, NEW t \in Tickets, Exists(db, t), Doomed(t), NEW q \in Slots, Serve(q)
    PROVE  Doomed(t)'
<1>1. SafeInv /\ TypeInv /\ AddressesUnique
  BY DEF ServiceInv, SafeInv
<1>2. Saves(q) /\ Copies(q)
  BY <1>1, ServeSaves, ServeCopies
<1>3. ~ db'[t].Confirmed
  BY <1>2 DEF Saves, Doomed
<1>4. \A p \in Slots : req'[p].rec # Absent /\ req'[p].t = t /\ req'[p].rec.Confirmed =>
            req'[p].pc = "insert"
  BY <1>2 DEF Copies, Doomed
<1>5. \A f \in sent' : PaysTo[f] \notin issued'[t]
  <2>1. CASE SendPaidFee(q)
    <3>1. /\ req[q].t \in Tickets /\ req[q].rec \in TicketOK /\ Genuine(req[q].t, req[q].rec)
          /\ req[q].rec # Absent /\ req[q].pc = "send"
          /\ req[q].rec.FeeTxStatus = "received" /\ req[q].rec.Confirmed
      BY <1>1, <2>1 DEF SendPaidFee, At, SafeInv, TypeInv, RequestShape, RequestKnows,
         RecordsGenuine
    <3>2. req[q].t # t
      BY <3>1 DEF Doomed
    <3>3. PaysTo[req[q].rec.FeeTxHash] \in issued[req[q].t]
      BY <1>1, <3>1, MaySend
    <3>4. PaysTo[req[q].rec.FeeTxHash] \notin issued[t]
      BY <1>1, <3>1, <3>2, <3>3 DEF AddressesUnique
    <3>5. UNCHANGED issued /\ sent' \subseteq sent \union {req[q].rec.FeeTxHash}
      BY <2>1 DEF SendPaidFee, SendFee, history
    <3> QED
      BY <3>4, <3>5 DEF Doomed
  <2>2. CASE NewFeeAddress(q)
    <3>1. req[q].t \in Tickets /\ lastAddr \in Nat /\ issued \in [Tickets -> SUBSET Nat]
      BY <1>1, <2>2 DEF NewFeeAddress, TypeInv, TypeOK, RequestShape
    <3>2. UNCHANGED sent /\ issued' = [issued EXCEPT ![req[q].t] = @ \union {lastAddr + 1}]
      BY <2>2 DEF NewFeeAddress, nextAddress
    <3>3. issued'[t] \subseteq issued[t] \union {lastAddr + 1}
      BY <3>1, <3>2
    <3>4. ASSUME NEW f \in sent PROVE PaysTo[f] # lastAddr + 1
      <4>1. PICK u \in Tickets : PaysTo[f] \in issued[u]
        BY <1>1 DEF SafeInv, FeeHeldBack
      <4>2. PaysTo[f] \in Nat /\ PaysTo[f] <= lastAddr
        BY <1>1, <3>1, <4>1 DEF AddressesUnique
      <4> QED
        BY <3>1, <4>2
    <3> QED
      BY <3>2, <3>3, <3>4 DEF Doomed
  <2>3. SendPaidFee(q) \/ NewFeeAddress(q) \/ UNCHANGED <<sent, issued>>
    BY DEF Serve, Receive, BroadcastTicket, Refuse, CheckCanVote, RenewFee, InsertTicket, PayFee,
       SavePaidFeeSent, SavePaidFeeRefused, CheckVoteChoices, SaveVoteChoices, UpdateWallet,
       RecordVoteChange, CheckAltSignAddr, StoreAltSignAddr, history
  <2> QED
    BY <2>1, <2>2, <2>3 DEF Doomed
<1> QED
  BY <1>3, <1>4, <1>5 DEF Doomed

\* A step outside the removal of a ticket takes tickets only from the database, and
\* starts a removal only of a ticket that mond does not know.
Takes ==
    /\ upd.pc \notin {"delete", "deleteAlt"} /\ upd'.pc # "deleteAlt"
    /\ \A t \in Tickets : upd'.list[t] # Absent => upd.list[t] # Absent \/ Exists(db, t)
    /\ upd'.pc = "delete" =>
            /\ upd'.cur \in Pending /\ ticketTx[upd'.cur] = "unknown"
            /\ UNCHANGED <<db, req, sent, issued>>

\* So does every step of the goroutine of Run but the removal of a ticket.
LEMMA UpdaterTakes ==
    SafeInv /\ (Update \/ ConsistencyCheck) => RemoveTicket \/ RemoveAltSignAddr \/ Takes
<1> SUFFICES ASSUME SafeInv, Update \/ ConsistencyCheck
             PROVE  RemoveTicket \/ RemoveAltSignAddr \/ Takes
  OBVIOUS
<1> USE DEF database, chain, bounds, history, Step
<1>1. /\ upd \in [pc : UpdaterState, list : TicketBucket, cur : Tickets \union {Absent},
                  clients : SUBSET Wallets, left : SUBSET Wallets]
      /\ upd.list \in Bucket /\ (upd.pc \in Working => upd.cur \in Tickets)
  BY DEF SafeInv, TypeInv, TypeOK, UpdaterShape
<1>2. ASSUME NEW pc \in UpdaterState \ {"delete", "deleteAlt"}, NEW S \in SUBSET Tickets,
             StartPhase(pc, S), \A t \in S : Exists(db, t), upd.pc \notin {"delete", "deleteAlt"}
      PROVE  Takes
  <2>1. /\ upd'.pc = pc
        /\ \A t \in Tickets : upd'.list[t] = IF t \in S THEN db[t] ELSE Absent
    BY <1>2 DEF StartPhase, IdleUpdater
  <2> QED
    BY <1>2, <2>1 DEF Takes, Exists
<1>3. ASSUME NEW t \in Tickets, NEW pc \in {"unconfirmed", "fees", "wallets", "outcomes"},
             Continue(t, pc), upd.pc \notin {"delete", "deleteAlt"}
      PROVE  Takes
  <2>1. upd'.pc = pc /\ \A u \in Tickets : upd'.list[u] \in {upd.list[u], Absent}
    BY <1>3, ContinueList, <1>1 DEF Continue
  <2> QED
    BY <1>3, <2>1 DEF Takes
<1>4. ASSUME NEW t \in Tickets, NEW pc, Handle(t, pc), pc \notin {"delete", "deleteAlt"},
             upd.pc \notin {"delete", "deleteAlt"}
      PROVE  Takes
  <2>1. upd'.pc = pc /\ upd'.list = upd.list
    BY <1>1, <1>4 DEF Handle
  <2> QED
    BY <1>4, <2>1 DEF Takes
<1>5. ASSUME upd'.pc \notin {"delete", "deleteAlt"}, upd.pc \notin {"delete", "deleteAlt"},
             \A t \in Tickets : upd'.list[t] # Absent => upd.list[t] # Absent
      PROVE  Takes
  BY <1>5 DEF Takes
<1>6. ASSUME NEW t \in Tickets, LookUpTicket(t) PROVE Takes
  <2>1. CASE Handle(t, "delete") /\ ticketTx[t] = "unknown"
    <3>1. upd'.pc = "delete" /\ upd'.cur = t /\ upd'.list = upd.list
      BY <1>1, <2>1 DEF Handle
    <3> QED
      BY <1>6, <2>1, <3>1 DEF Takes, LookUpTicket
  <2> QED
    BY <1>3, <1>4, <1>6, <2>1 DEF LookUpTicket
<1>7. ASSUME upd' = IdleUpdater, upd.pc \notin {"delete", "deleteAlt"} PROVE Takes
  BY <1>5, <1>7 DEF IdleUpdater
<1>8. CASE StartUpdate \/ StartBroadcastFees
  <2>1. \/ StartPhase("unconfirmed", GetUnconfirmedTickets(db))
        \/ StartPhase("fees", GetPendingFees(db))
    BY <1>8 DEF StartUpdate, StartBroadcastFees
  <2> QED
    BY <1>2, <1>8, <2>1 DEF StartUpdate, StartBroadcastFees, GetUnconfirmedTickets,
       GetPendingFees, UpdaterState
<1>9. CASE SetOutcomes
  <2>1. PICK pc \in {"idle", "outcomes"}, S \in SUBSET GetVotableTickets(db) : StartPhase(pc, S)
    BY <1>9 DEF SetOutcomes
  <2> QED
    BY <1>2, <1>9, <2>1 DEF SetOutcomes, GetVotableTickets, UpdaterState
<1>10. CASE StartAddToWallets
  <2>1. PICK C \in SUBSET Wallets :
            upd' = [IdleUpdater EXCEPT
                      !.pc = "wallets", !.clients = C,
                      !.list = [t \in Tickets |-> IF C # {} /\ t \in GetUnconfirmedFees(db)
                                                  THEN db[t] ELSE Absent]]
    BY <1>10 DEF StartAddToWallets
  <2>2. /\ upd'.pc = "wallets"
        /\ \A t \in Tickets : upd'.list[t] # Absent => t \in GetUnconfirmedFees(db)
    BY <2>1 DEF IdleUpdater
  <2> QED
    BY <1>10, <2>2 DEF Takes, StartAddToWallets, GetUnconfirmedFees
<1>11. CASE StartConsistencyCheck
  <2>1. PICK C \in SUBSET Wallets :
            upd' = [IdleUpdater EXCEPT
                      !.pc = "missing", !.clients = C, !.left = C,
                      !.list = [t \in Tickets |-> IF t \in GetVotableTickets(db)
                                                  THEN db[t] ELSE Absent]]
    BY <1>11 DEF StartConsistencyCheck
  <2>2. /\ upd'.pc = "missing"
        /\ \A t \in Tickets : upd'.list[t] # Absent => t \in GetVotableTickets(db)
    BY <2>1 DEF IdleUpdater
  <2> QED
    BY <1>11, <2>2 DEF Takes, StartConsistencyCheck, GetVotableTickets
<1>12. ASSUME NEW t \in Tickets, SendPendingFee(t) \/ LookUpFee(t) \/ SaveOutcome(t) PROVE Takes
  <2>1. upd.pc \notin {"delete", "deleteAlt"}
    BY <1>12 DEF SendPendingFee, LookUpFee, SaveOutcome
  <2>2. \/ \E pc \in {"feeSent", "feeRefused", "feeLost", "feeFinal"} : Handle(t, pc)
        \/ \E pc \in {"wallets", "outcomes"} : Continue(t, pc)
    BY <1>12 DEF SendPendingFee, LookUpFee, SaveOutcome
  <2> QED
    BY <1>3, <1>4, <2>1, <2>2
<1>13. CASE ConfirmTicket \/ SaveFeeSent \/ SaveFeeLost \/ TicketAdded
  <2>1. upd.pc \notin {"delete", "deleteAlt"} /\ upd.cur \in Tickets
    BY <1>1, <1>13 DEF ConfirmTicket, SaveFeeSent, SaveFeeLost, TicketAdded, Working
  <2>2. \E pc \in {"unconfirmed", "fees", "wallets"} : Continue(upd.cur, pc)
    BY <1>13 DEF ConfirmTicket, SaveFeeSent, SaveFeeLost, TicketAdded
  <2> QED
    BY <1>3, <2>1, <2>2
<1>14. ASSUME NEW l, upd'.list = [upd.list EXCEPT ![upd.cur] = l], upd.list[upd.cur] # Absent,
              upd'.pc = "add", upd.pc \notin {"delete", "deleteAlt"}
       PROVE  Takes
  <2>1. \A t \in Tickets : upd'.list[t] # Absent => upd.list[t] # Absent
    BY <1>1, <1>14 DEF Bucket
  <2> QED
    BY <1>5, <1>14, <2>1
<1>15. upd.pc \in Working => upd.list[upd.cur] # Absent
  BY DEF SafeInv, TypeInv, UpdaterShape
<1>16. CASE SaveFeeFinal
  <2>1. upd.pc = "feeFinal" /\ upd.cur \in Tickets
    BY <1>1, <1>16 DEF SaveFeeFinal, Working
  <2>2. CASE Continue(upd.cur, "wallets")
    BY <1>3, <2>1, <2>2
  <2>3. CASE \E l : upd' = [upd EXCEPT !.pc = "add", !.list[upd.cur] = l, !.left = upd.clients]
    <3>1. PICK l : upd' = [upd EXCEPT !.pc = "add", !.list[upd.cur] = l, !.left = upd.clients]
      BY <2>3
    <3>2. upd'.list = [upd.list EXCEPT ![upd.cur] = l] /\ upd'.pc = "add"
      BY <1>1, <3>1
    <3> QED
      BY <1>14, <1>15, <2>1, <3>2 DEF Working
  <2> QED
    BY <1>16, <2>2, <2>3 DEF SaveFeeFinal
<1>17. ASSUME NEW w \in Wallets, AddToWallet(w) PROVE Takes
  <2>1. upd.pc = "add"
    BY <1>17 DEF AddToWallet
  <2>2. CASE upd' = [upd EXCEPT !.left = @ \ {w}]
    <3>1. upd'.pc = upd.pc /\ upd'.list = upd.list
      BY <1>1, <2>2
    <3> QED
      BY <1>5, <2>1, <3>1
  <2>3. CASE \E l : upd' = [upd EXCEPT !.left = @ \ {w}, !.list[upd.cur] = l]
    <3>1. PICK l : upd' = [upd EXCEPT !.left = @ \ {w}, !.list[upd.cur] = l]
      BY <2>3
    <3>2. upd'.list = [upd.list EXCEPT ![upd.cur] = l] /\ upd'.pc = "add"
      BY <1>1, <2>1, <3>1
    <3> QED
      BY <1>14, <1>15, <2>1, <3>2 DEF Working
  <2> QED
    BY <1>17, <2>2, <2>3 DEF AddToWallet
<1>18. ASSUME NEW w \in Wallets, AddMissingTickets(w) \/ CheckChoices(w) PROVE Takes
  <2>1. upd.pc \in {"missing", "choices"}
    BY <1>18 DEF AddMissingTickets, CheckChoices
  <2>2. CASE upd' = [upd EXCEPT !.left = @ \ {w}]
    <3>1. upd'.pc = upd.pc /\ upd'.list = upd.list
      BY <1>1, <2>2
    <3> QED
      BY <1>5, <2>1, <3>1
  <2>3. CASE CheckChoices(w)
    <3> DEFINE removed(t) == [upd.list[t] EXCEPT !.VoteChoices = 0]
    <3>1. CASE upd' = [upd EXCEPT !.left = @ \ {w},
                            !.list = [t \in Tickets |-> IF t \in WrongChoices(w)
                                                        THEN removed(t) ELSE @[t]]]
      <4> HIDE DEF removed
      <4>1. /\ upd'.pc = upd.pc
            /\ \A t \in Tickets : upd'.list[t] = IF t \in WrongChoices(w)
                                                 THEN removed(t) ELSE upd.list[t]
        BY <1>1, <3>1
      <4>2. \A t \in WrongChoices(w) : upd.list[t] # Absent
        BY DEF WrongChoices, Pending
      <4> QED
        BY <1>5, <2>1, <4>1, <4>2
    <3> QED
      BY <2>2, <2>3, <3>1 DEF CheckChoices
  <2> QED
    BY <1>18, <2>2, <2>3 DEF AddMissingTickets
<1>19. CASE StartChoicesCheck
  <2>1. upd'.pc = "choices" /\ upd'.list = upd.list /\ upd.pc = "missing"
    BY <1>1, <1>19 DEF StartChoicesCheck
  <2> QED
    BY <1>5, <2>1
<1>20. CASE EndUpdate \/ EndConsistencyCheck
  BY <1>7, <1>20 DEF EndUpdate, EndConsistencyCheck
<1> QED
  BY <1>6, <1>8, <1>9, <1>10, <1>11, <1>12, <1>13, <1>16, <1>17, <1>18, <1>19, <1>20
     DEF Update, ConsistencyCheck

\* What a step leaves alone that neither the goroutine of Run nor a request takes.
LEMMA OtherSteps ==
    (Environment \/ Crash \/ UNCHANGED vars) =>
        /\ UNCHANGED <<db, sent, issued, wallets>>
        /\ (upd' = upd /\ req' = req) \/ upd' = IdleUpdater
BY DEF Environment, MineTicket, SpendTicket, DropTicket, MineFee, DropFee, PublishFee,
   OtherBlock, Tick, Crash, vars, database, chain, volatile, bounds, history

\* Records are removed in RemoveTicket only.
LEMMA OnlyRemoveTicket == SafeInv /\ [Next]_vars => RemoveTicket \/ RecordsStay
<1> SUFFICES ASSUME SafeInv, [Next]_vars PROVE RemoveTicket \/ RecordsStay
  OBVIOUS
<1>1. ASSUME NEW q \in Slots, Serve(q) PROVE RecordsStay
  BY <1>1, ServeSaves, AbsentFacts DEF Saves, RecordsStay, Exists
<1>2. UNCHANGED db => RecordsStay
  BY DEF RecordsStay, Exists
<1> QED
  BY <1>1, <1>2, UpdaterRemoves, OtherSteps DEF Next

\* A removal removes the one ticket, which is Doomed.
LEMMA RemovesDoomed ==
    ASSUME KeepInv, RemoveTicket
    PROVE  /\ upd.cur \in Tickets /\ Doomed(upd.cur) /\ upd'.pc = "deleteAlt"
           /\ upd'.cur = upd.cur /\ upd'.list = upd.list
           /\ \A t \in Tickets : t # upd.cur => db'[t] = db[t]
           /\ UNCHANGED <<req, sent, issued, wallets>>
<1>1. upd \in [pc : UpdaterState, list : TicketBucket, cur : Tickets \union {Absent},
               clients : SUBSET Wallets, left : SUBSET Wallets]
      /\ db \in Bucket /\ (upd.pc \in Working => upd.cur \in Tickets)
  BY DEF KeepInv, ServiceInv, SafeInv, TypeInv, TypeOK, UpdaterShape
<1>2. upd.pc = "delete" /\ upd' = [upd EXCEPT !.pc = "deleteAlt"] /\ db' = DeleteTicket(db, upd.cur)
      /\ UNCHANGED <<req, sent, issued, wallets>>
  BY DEF RemoveTicket, Step, history
<1> QED
  BY <1>1, <1>2 DEF KeepInv, Working, DeleteTicket, Bucket

\* The tickets of the list stay in the database, but for the one that is removed.
LEMMA ListedNext ==
    ASSUME KeepInv, [Next]_vars
    PROVE  (\A t \in Pending : Exists(db, t) \/ (upd.pc = "deleteAlt" /\ t = upd.cur))'
<1>1. SafeInv /\ \A t \in Pending : Exists(db, t) \/ (upd.pc = "deleteAlt" /\ t = upd.cur)
  BY DEF KeepInv, ServiceInv
<1>2. CASE RemoveTicket
  BY <1>1, <1>2, RemovesDoomed DEF Pending, Exists, RemoveTicket, Step
<1>3. CASE RemoveAltSignAddr
  <2>1. upd.cur \in Tickets /\ upd.list \in Bucket
    BY <1>1, <1>3 DEF RemoveAltSignAddr, Step, SafeInv, TypeInv, UpdaterShape, Working
  <2>2. UNCHANGED db /\ upd'.list = [upd.list EXCEPT ![upd.cur] = Absent]
    BY <1>1, <1>3 DEF RemoveAltSignAddr, Continue, SafeInv, TypeInv, TypeOK
  <2>3. \A t \in Tickets : upd'.list[t] # Absent => upd.list[t] # Absent /\ t # upd.cur
    BY <2>1, <2>2 DEF Bucket
  <2> QED
    BY <1>1, <2>2, <2>3 DEF Pending, Exists
<1>4. CASE RecordsStay /\ Takes
  BY <1>1, <1>4 DEF RecordsStay, Takes, Pending, Exists
<1>5. CASE RecordsStay /\ upd' = upd
  BY <1>1, <1>5 DEF RecordsStay, Pending, Exists
<1>6. CASE upd' = IdleUpdater
  BY <1>6 DEF IdleUpdater, Pending
<1>7. ASSUME NEW q \in Slots, Serve(q) PROVE upd' = upd
  BY <1>7 DEF Serve, Receive, BroadcastTicket, Refuse, CheckCanVote, RenewFee, NewFeeAddress, InsertTicket,
     PayFee, SendPaidFee, SavePaidFeeSent, SavePaidFeeRefused, CheckVoteChoices,
     SaveVoteChoices, UpdateWallet, RecordVoteChange, CheckAltSignAddr, StoreAltSignAddr
<1> QED
  BY <1>1, <1>2, <1>3, <1>4, <1>5, <1>6, <1>7, OnlyRemoveTicket, UpdaterTakes, OtherSteps
     DEF Next

\* The ticket about to be removed stays Doomed.
LEMMA DoomedNext ==
    ASSUME KeepInv, [Next]_vars
    PROVE  (upd.pc = "delete" => Doomed(upd.cur))'
<1> USE DEF database, chain, bounds, history
<1>1. ServiceInv /\ SafeInv
  BY DEF KeepInv, ServiceInv
<1>2. CASE RemoveTicket
  BY <1>2, RemovesDoomed
<1>3. CASE RemoveAltSignAddr
  <2>1. upd'.pc = "unconfirmed"
    BY <1>1, <1>3 DEF RemoveAltSignAddr, Continue, SafeInv, TypeInv, TypeOK
  <2> QED
    BY <2>1
<1>4. CASE Takes
  <2>1. ASSUME NEW t, t = upd'.cur, upd'.pc = "delete" PROVE Doomed(t)'
    <3>1. /\ t \in Tickets /\ Exists(db, t) /\ ticketTx[t] = "unknown"
          /\ UNCHANGED <<db, req, sent, issued>>
      BY <1>4, <2>1 DEF Takes, Pending, KeepInv
    <3>2. Doomed(t)
      BY <1>1, <3>1, UnknownIsDoomed
    <3> QED
      BY <3>1, <3>2 DEF Doomed
  <2> QED
    BY <2>1 DEF Doomed
<1>5. ASSUME NEW q \in Slots, Serve(q) PROVE (upd.pc = "delete" => Doomed(upd.cur))'
  <2>1. UNCHANGED upd
    BY <1>5 DEF Serve, Receive, BroadcastTicket, Refuse, CheckCanVote, RenewFee, NewFeeAddress,
       InsertTicket, PayFee, SendPaidFee, SavePaidFeeSent, SavePaidFeeRefused,
       CheckVoteChoices, SaveVoteChoices, UpdateWallet, RecordVoteChange, CheckAltSignAddr,
       StoreAltSignAddr
  <2>2. upd.pc = "delete" => upd.cur \in Pending /\ Doomed(upd.cur) /\ Exists(db, upd.cur)
    BY <1>1 DEF KeepInv, SafeInv, TypeInv, UpdaterShape, Working, Pending
  <2>3. \A t \in Tickets : Exists(db, t) /\ Doomed(t) => Doomed(t)'
    BY <1>1, <1>5, ServeDoomed
  <2> QED
    BY <2>1, <2>2, <2>3 DEF Doomed, Pending
<1>6. CASE UNCHANGED <<db, req, sent, issued, upd>>
  BY <1>6 DEF KeepInv, Doomed
<1>7. CASE upd' = IdleUpdater
  BY <1>7 DEF IdleUpdater
<1> QED
  BY <1>1, <1>2, <1>3, <1>4, <1>5, <1>6, <1>7, UpdaterTakes, OtherSteps DEF Next

\* What a wallet holds is not removed: its fee has been sent.
LEMMA HeldNext ==
    ASSUME KeepInv, [Next]_vars
    PROVE  (\A w \in Wallets, t \in Tickets : wallets[w][t] # Absent => Exists(db, t) /\ FeeSent(t))'
<1>1. SafeInv /\ TypeInv
  BY DEF KeepInv, ServiceInv, SafeInv
<1>2. \A t \in Tickets : FeeSent(t) => FeeSent(t)'
  BY <1>1, NextGrows DEF FeeSent, Grows
<1>3. \A t \in Tickets : ListedPaid(t) => Exists(db, t) /\ FeeSent(t)
  <2> SUFFICES ASSUME NEW t \in Tickets, ListedPaid(t) PROVE Exists(db, t) /\ FeeSent(t)
    OBVIOUS
  <2>1. Exists(db, t)
    BY DEF ListedPaid, KeepInv
  <2>2. /\ upd.list[t] \in TicketOK /\ Genuine(t, upd.list[t])
        /\ upd.list[t].FeeTxStatus = "confirmed"
    BY <1>1 DEF ListedPaid, SafeInv, TypeInv, UpdaterShape, Bucket, RecordsGenuine, Pending
  <2>3. upd.list[t].FeeTxHash \in sent /\ PaysTo[upd.list[t].FeeTxHash] \in issued[t]
    BY <2>2, DatabaseAssumption DEF TicketOK, Genuine
  <2> QED
    BY <2>1, <2>3 DEF FeeSent
<1>4. \A w \in Wallets, t \in Tickets : wallets'[w][t] # Absent => Exists(db, t) /\ FeeSent(t)
  BY <1>1, <1>3, HoldsNext DEF HoldsFromList, KeepInv
<1>5. CASE RecordsStay
  BY <1>2, <1>4, <1>5 DEF RecordsStay, Exists, FeeSent
<1>6. CASE RemoveTicket
  <2>1. ~ FeeSent(upd.cur)
    BY <1>6, RemovesDoomed DEF Doomed, FeeSent
  <2> QED
    BY <1>2, <1>4, <1>6, <2>1, RemovesDoomed DEF Exists, FeeSent
<1> QED
  BY <1>1, <1>5, <1>6, OnlyRemoveTicket

\* The invariant holds of the empty database.
LEMMA KeepInit == Init => KeepInv
BY ServiceInit DEF Init, KeepInv, IdleUpdater, Pending

\* Each part is kept with the help of the others.
LEMMA KeepNext == KeepInv /\ [Next]_vars => KeepInv'
<1> SUFFICES ASSUME KeepInv, [Next]_vars PROVE KeepInv'
  OBVIOUS
<1>1. ServiceInv'
  BY ServiceNext DEF KeepInv
<1> QED
  BY <1>1, ListedNext, DoomedNext, HeldNext DEF KeepInv

\* So it holds of every behaviour.
LEMMA KeepCorrect == Spec => []KeepInv
BY KeepInit, KeepNext, PTL DEF Spec

\* Every ticket a voting wallet holds is in the database, and stays there
\* (updateUnconfirmed, update.go:71-93, removes no ticket a wallet may have).
THEOREM HeldCorrect == Spec => []HeldInDatabase
<1>1. KeepInv => HeldInDatabase
  BY DEF KeepInv, HeldInDatabase
<1> QED
  BY <1>1, KeepCorrect, PTL

\* Between the answer of mond and the removal (update.go:71-93) the client may buy
\* the ticket again and requests may save it; what is removed is still not
\* confirmed, and no fee of it was sent.
THEOREM UnpaidRemoved == Spec => RemovedUnpaid
<1>1. KeepInv /\ [Next]_vars =>
        [\A t \in Tickets : Exists(db, t) /\ db'[t] = Absent =>
            /\ ~ db[t].Confirmed
            /\ \A f \in sent : PaysTo[f] \notin issued[t]]_vars
  <2> SUFFICES ASSUME KeepInv, [Next]_vars, NEW t \in Tickets, Exists(db, t), db'[t] = Absent
               PROVE  ~ db[t].Confirmed /\ \A f \in sent : PaysTo[f] \notin issued[t]
    OBVIOUS
  <2>1. RemoveTicket
    BY OnlyRemoveTicket DEF KeepInv, ServiceInv, RecordsStay
  <2>2. t = upd.cur /\ Doomed(t)
    BY <2>1, RemovesDoomed DEF Exists
  <2> QED
    BY <2>2 DEF Doomed
<1> QED
  BY <1>1, KeepCorrect, PTL DEF Spec, RemovedUnpaid
=============================================================================
