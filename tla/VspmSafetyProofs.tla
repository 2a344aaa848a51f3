-------------------------- MODULE VspmSafetyProofs --------------------------
(***************************************************************************)
(* RecordsGenuine, FeeHeldBack, PaidBeforeVoting and NoResurrection, for   *)
(* any number of tickets, fees, wallets and concurrent requests.           *)
(*                                                                         *)
(* Copies of records get stale but stay genuine: everything Genuine says   *)
(* is about facts no step takes back (Grows).  So a save from an old copy  *)
(* is as genuine as the copy and the fields it changes.  For these fields  *)
(* SafeInv adds what each thread has learned from mond between reading the *)
(* copy and saving it (UpdaterKnows, RequestKnows).                        *)
(***************************************************************************)
EXTENDS VspmTypeProofs

\* What the goroutine of Run knows, in each step, of the tickets of its list.
UpdaterKnows ==
    /\ upd.pc = "confirm" => ticketTx[upd.cur] \in Final
    /\ upd.pc \in {"fees", "feeSent", "feeRefused"} =>
            \A t \in Pending : upd.list[t].Confirmed
    /\ upd.pc = "feeSent" => upd.list[upd.cur].FeeTxHash \in sent
    /\ upd.pc = "feeFinal" => feeTx[upd.list[upd.cur].FeeTxHash] = "final"
    /\ upd.pc \in {"outcomes", "missing", "choices"} =>
            \A t \in Pending : upd.list[t].FeeTxStatus = "confirmed"

\* What a request knows of the ticket of its copy.
RequestKnows(q) ==
    /\ req[q].pc \in {"send", "sent", "refused"} => req[q].rec.Confirmed
    /\ req[q].pc = "sent" => req[q].rec.FeeTxHash \in sent
    /\ req[q].pc = "newFinal" => ticketTx[req[q].t] \in Final
    /\ req[q].pc = "pay" => req[q].rec.FeeTxStatus \notin FeeKnown
    /\ req[q].pc = "insert" => req[q].rec.FeeTxStatus = "none"
                               /\ req[q].rec.FeeTxHash = NoTx

SafeInv ==
    /\ TypeInv
    /\ RecordsGenuine
    /\ UpdaterKnows
    /\ \A q \in Slots : RequestKnows(q)
    /\ FeeHeldBack
    /\ PaidBeforeVoting

-----------------------------------------------------------------------------
(* Every step makes true more of what the records may claim.               *)

Grows ==
    /\ \A t \in Tickets : /\ issued[t] \subseteq issued'[t]
                          /\ ticketTx[t] \in Final => ticketTx'[t] \in Final
                          /\ t \in Spent => ticketTx'[t] = ticketTx[t]
    /\ \A f \in FeeTxs : feeTx[f] = "final" => feeTx'[f] = "final"
    /\ sent \subseteq sent'

\* The chain undoes nothing that has 6 confirmations, nor a spend.
LEMMA EnvironmentGrows == TypeInv /\ Environment => Grows
<1> SUFFICES ASSUME TypeInv, Environment PROVE Grows
  OBVIOUS
<1> USE StateAssumption DEF database, chain, volatile, bounds, history, TypeInv, TypeOK
<1>1. ASSUME NEW t \in Tickets, MineTicket(t) \/ SpendTicket(t) \/ DropTicket(t) PROVE Grows
  <2>1. PICK level : /\ ticketTx' = [ticketTx EXCEPT ![t] = level]
                     /\ \/ ticketTx[t] \in {"mempool", "mined"}
                        \/ ticketTx[t] \in {"final", "live"} /\ level \in Final
    BY <1>1 DEF MineTicket, SpendTicket, DropTicket, Final
  <2>2. UNCHANGED <<issued, feeTx, sent>>
    BY <1>1 DEF MineTicket, SpendTicket, DropTicket
  <2>3. \A u \in Tickets : ticketTx'[u] = IF u = t THEN level ELSE ticketTx[u]
    BY <2>1
  <2> QED
    BY <2>1, <2>2, <2>3 DEF Grows, Final, TicketOutcome, Spent
<1>2. ASSUME NEW f \in FeeTxs, MineFee(f) \/ DropFee(f) \/ PublishFee(f) PROVE Grows
  BY <1>2 DEF MineFee, DropFee, PublishFee, Grows
<1>3. CASE OtherBlock \/ Tick
  BY <1>3 DEF OtherBlock, Tick, Grows
<1> QED
  BY <1>1, <1>2, <1>3 DEF Environment

\* A step that leaves the history and the chain alone takes nothing back.
LEMMA UnchangedGrows == UNCHANGED <<issued, ticketTx, feeTx, sent>> => Grows
BY DEF Grows

\* Sending a fee takes nothing back.
LEMMA SendFeeGrows ==
    ASSUME TypeInv, NEW f, SendFee(f), UNCHANGED <<issued, ticketTx>>
    PROVE  Grows
BY DEF SendFee, Grows, TypeInv, TypeOK

\* Nor does the goroutine of Run take anything back.
LEMMA UpdaterGrows == TypeInv /\ (Update \/ ConsistencyCheck) => Grows
<1> SUFFICES ASSUME TypeInv, Update \/ ConsistencyCheck PROVE Grows
  OBVIOUS
<1> USE DEF database, chain, bounds, history
<1>1. ASSUME NEW t \in Tickets, SendPendingFee(t) PROVE Grows
  BY <1>1, SendFeeGrows, UnchangedGrows DEF SendPendingFee
<1>2. CASE UNCHANGED <<issued, ticketTx, feeTx, sent>>
  BY <1>2, UnchangedGrows
<1>3. (\E t \in Tickets : SendPendingFee(t)) \/ UNCHANGED <<issued, ticketTx, feeTx, sent>>
  BY DEF Update, ConsistencyCheck, StartUpdate, LookUpTicket, RemoveTicket, RemoveAltSignAddr,
     ConfirmTicket, StartBroadcastFees, SaveFeeSent, StartAddToWallets, LookUpFee, SaveFeeLost,
     SaveFeeFinal, AddToWallet, TicketAdded, SetOutcomes, SaveOutcome, EndUpdate,
     StartConsistencyCheck, AddMissingTickets, StartChoicesCheck, CheckChoices,
        EndConsistencyCheck
<1> QED
  BY <1>1, <1>2, <1>3

\* Nor does a request.
LEMMA ServeGrows == ASSUME TypeInv, NEW q \in Slots, Serve(q) PROVE Grows
<1> USE DEF database, chain, bounds, history
<1>1. ASSUME NEW kind \in Kinds, NEW t \in Tickets, Receive(q, kind, t) PROVE Grows
  BY <1>1 DEF Receive, BroadcastTicket, Grows, TypeInv, TypeOK, Final, TicketOutcome, Spent
<1>2. CASE NewFeeAddress(q)
  BY <1>2 DEF NewFeeAddress, Grows, TypeInv, TypeOK
<1>3. CASE SendPaidFee(q)
  BY <1>3, SendFeeGrows, UnchangedGrows DEF SendPaidFee
<1>4. \/ \E kind \in Kinds, t \in Tickets : Receive(q, kind, t)
      \/ NewFeeAddress(q) \/ SendPaidFee(q) \/ UNCHANGED <<issued, ticketTx, feeTx, sent>>
  BY DEF Serve, Refuse, CheckCanVote, RenewFee, InsertTicket, PayFee, SavePaidFeeSent, SavePaidFeeRefused,
     CheckVoteChoices, SaveVoteChoices, UpdateWallet, RecordVoteChange, CheckAltSignAddr,
     StoreAltSignAddr
<1> QED
  BY <1>1, <1>2, <1>3, <1>4, UnchangedGrows

\* No step takes back what a record may claim.
LEMMA NextGrows == TypeInv /\ [Next]_vars => Grows
<1>1. Crash \/ UNCHANGED vars => UNCHANGED <<issued, ticketTx, feeTx, sent>>
  BY DEF Crash, vars, database, chain, volatile, bounds, history
<1> QED
  BY <1>1, EnvironmentGrows, UpdaterGrows, ServeGrows, UnchangedGrows DEF Next

\* Genuine in the next state.
GenuineNext(t, r) ==
    /\ r.FeeAddress \in issued'[t]
    /\ r.Confirmed => ticketTx'[t] \in Final
    /\ r.FeeTxStatus # "none" => r.FeeTxHash \in FeeTxs
    /\ r.FeeTxHash # NoTx => PaysTo[r.FeeTxHash] = r.FeeAddress
    /\ r.FeeTxStatus \in {"broadcast", "confirmed"} => r.Confirmed /\ r.FeeTxHash \in sent'
    /\ r.FeeTxStatus = "confirmed" => feeTx'[r.FeeTxHash] = "final"
    /\ r.FeeTxStatus \in {"received", "broadcast", "error"} => r.FeeTxHex
    /\ r.Outcome # "" => /\ r.FeeTxStatus = "confirmed"
                         /\ t \in Spent'
                         /\ r.Outcome = "voted" <=> ticketTx'[t] = "voted"

\* What was true of a record stays true.
LEMMA GenuineStays ==
    ASSUME Grows, NEW t \in Tickets, NEW r \in TicketOK, Genuine(t, r)
    PROVE  GenuineNext(t, r)
<1>1. r.FeeTxStatus # "none" => r.FeeTxHash \in FeeTxs
  BY DEF TicketOK
<1>2. r.Outcome # "" => t \in Spent /\ t \in Spent'
  BY DEF Genuine, Grows, Spent
<1> QED
  BY <1>1, <1>2 DEF Genuine, GenuineNext, Grows

\* It is enough to look at the records a step makes.
LEMMA RecordsStep ==
    ASSUME SafeInv, TypeInv', Grows,
           \A t \in Tickets : db'[t] # Absent => db'[t] = db[t] \/ GenuineNext(t, db'[t]),
           \A t \in Tickets : upd'.list[t] # Absent =>
                \/ upd'.list[t] = upd.list[t] \/ upd'.list[t] = db[t]
                \/ GenuineNext(t, upd'.list[t]),
           \A q \in Slots : req'[q].rec # Absent =>
                \/ req'[q].rec = req[q].rec /\ req'[q].t = req[q].t
                \/ req'[q].rec = db[req'[q].t] /\ req'[q].t \in Tickets
                \/ GenuineNext(req'[q].t, req'[q].rec)
    PROVE  RecordsGenuine'
<1>1. \A t \in Tickets : db[t] # Absent => db[t] \in TicketOK /\ Genuine(t, db[t])
  BY DEF SafeInv, TypeInv, Bucket, RecordsGenuine, Exists
<1>2. \A t \in Tickets : upd.list[t] # Absent => upd.list[t] \in TicketOK /\ Genuine(t, upd.list[t])
  BY DEF SafeInv, TypeInv, UpdaterShape, Bucket, RecordsGenuine
<1>3. \A q \in Slots : req[q].rec # Absent =>
            req[q].t \in Tickets /\ req[q].rec \in TicketOK /\ Genuine(req[q].t, req[q].rec)
  BY DEF SafeInv, TypeInv, RequestShape, RecordsGenuine
<1>4. \A t \in Tickets : db'[t] # Absent => GenuineNext(t, db'[t])
  BY <1>1, GenuineStays
<1>5. \A t \in Tickets : upd'.list[t] # Absent => GenuineNext(t, upd'.list[t])
  BY <1>1, <1>2, GenuineStays
<1>6. \A q \in Slots : req'[q].rec # Absent => GenuineNext(req'[q].t, req'[q].rec)
  BY <1>1, <1>3, GenuineStays
<1> QED
  BY <1>4, <1>5, <1>6 DEF RecordsGenuine, Exists, Genuine, GenuineNext

\* A step of the goroutine of Run that makes no record of its own.
LEMMA ListStep ==
    ASSUME SafeInv, TypeInv', Grows, UNCHANGED req,
           \A u \in Tickets : db'[u] \in {db[u], Absent},
           \A u \in Tickets : upd'.list[u] \in {upd.list[u], db[u], Absent}
    PROVE  RecordsGenuine'
BY RecordsStep

\* A step of the goroutine of Run that saves record r of ticket t.
LEMMA SaveStep ==
    ASSUME SafeInv, TypeInv', Grows, UNCHANGED req,
           NEW t \in Tickets, NEW r, GenuineNext(t, r), db' = UpdateTicket(db, t, r),
           \A u \in Tickets : upd'.list[u] \in {upd.list[u], Absent} \/ (u = t /\ upd'.list[u] = r)
    PROVE  RecordsGenuine'
<1>1. \A u \in Tickets : db'[u] = db[u] \/ (u = t /\ db'[u] = r)
  BY DEF UpdateTicket, SafeInv, TypeInv, Bucket
<1> QED
  BY <1>1, RecordsStep

\* What is known of the record being handled.
LEMMA CurrentRecord ==
    ASSUME SafeInv, Grows, upd.pc \in Working
    PROVE  /\ upd.cur \in Pending /\ upd.cur \in Tickets
           /\ CurRecord \in TicketOK /\ GenuineNext(upd.cur, CurRecord)
<1>1. upd.cur \in Tickets /\ upd.list[upd.cur] # Absent /\ upd.list[upd.cur] \in TicketOK
  BY DEF SafeInv, TypeInv, UpdaterShape, Bucket
<1>2. Genuine(upd.cur, upd.list[upd.cur])
  BY <1>1 DEF SafeInv, RecordsGenuine
<1> QED
  BY <1>1, <1>2, GenuineStays DEF CurRecord, Pending

\* Being done with a ticket leaves the rest of the list as it was.
LEMMA ContinueList ==
    ASSUME SafeInv, NEW t \in Tickets, NEW pc, Continue(t, pc)
    PROVE  \A u \in Tickets : upd'.list[u] \in {upd.list[u], Absent}
<1>1. upd'.list = [upd.list EXCEPT ![t] = Absent] /\ upd.list \in Bucket
  BY DEF Continue, SafeInv, TypeInv, TypeOK, UpdaterShape
<1> QED
  BY <1>1 DEF Bucket

\* The list of a new phase comes from the database.
LEMMA StartPhaseList ==
    ASSUME SafeInv, NEW pc \in UpdaterState, NEW S, StartPhase(pc, S)
    PROVE  \A u \in Tickets : upd'.list[u] \in {db[u], Absent}
BY StartPhaseMove DEF SafeInv

\* Taking a ticket of the list does not change the list.
LEMMA HandleList ==
    ASSUME SafeInv, NEW t, NEW pc, Handle(t, pc)
    PROVE  upd'.list = upd.list
BY DEF Handle, SafeInv, TypeInv, TypeOK

\* updateUnconfirmed and broadcastFees save genuine records only.
LEMMA RecordsFees ==
    ASSUME SafeInv, TypeInv', Grows,
           \/ StartUpdate \/ (\E t \in Tickets : LookUpTicket(t))
           \/ RemoveTicket \/ RemoveAltSignAddr \/ ConfirmTicket
           \/ StartBroadcastFees \/ (\E t \in Tickets : SendPendingFee(t)) \/ SaveFeeSent
    PROVE  RecordsGenuine'
<1> USE DEF Step, database, chain, volatile, bounds, history
<1>0. {"unconfirmed", "fees"} \subseteq UpdaterState
  BY DEF UpdaterState
<1>1. CASE StartUpdate \/ StartBroadcastFees
  <2>1. \A u \in Tickets : upd'.list[u] \in {db[u], Absent}
    BY <1>0, <1>1, StartPhaseList DEF StartUpdate, StartBroadcastFees
  <2> QED
    BY <1>1, <2>1, ListStep DEF StartUpdate, StartBroadcastFees
<1>2. ASSUME NEW t \in Tickets, LookUpTicket(t) PROVE RecordsGenuine'
  <2>1. \A u \in Tickets : upd'.list[u] \in {upd.list[u], Absent}
    BY <1>2, ContinueList, HandleList DEF LookUpTicket
  <2> QED
    BY <1>2, <2>1, ListStep DEF LookUpTicket
<1>3. CASE RemoveTicket
  <2>1. upd'.list = upd.list
    BY <1>3 DEF RemoveTicket, SafeInv, TypeInv, TypeOK
  <2>2. \A u \in Tickets : db'[u] \in {db[u], Absent}
    BY <1>3 DEF RemoveTicket, DeleteTicket, SafeInv, TypeInv, Bucket
  <2> QED
    BY <1>3, <2>1, <2>2, ListStep DEF RemoveTicket
<1>4. CASE RemoveAltSignAddr
  <2>1. upd.cur \in Tickets
    BY <1>4, CurrentRecord DEF RemoveAltSignAddr, Working
  <2> QED
    BY <1>4, <2>1, ContinueList, ListStep DEF RemoveAltSignAddr
<1>5. CASE ConfirmTicket
  <2> DEFINE r == [CurRecord EXCEPT !.Confirmed = TRUE]
  <2>1. /\ upd.cur \in Tickets /\ CurRecord \in TicketOK /\ GenuineNext(upd.cur, CurRecord)
        /\ ticketTx'[upd.cur] \in Final
    BY <1>5, CurrentRecord DEF ConfirmTicket, Working, SafeInv, UpdaterKnows
  <2>2. GenuineNext(upd.cur, r)
    BY <2>1 DEF GenuineNext, TicketOK, Ticket
  <2> QED
    BY <1>5, <2>1, <2>2, ContinueList, SaveStep DEF ConfirmTicket
<1>6. ASSUME NEW t \in Tickets, SendPendingFee(t) PROVE RecordsGenuine'
  <2>1. upd'.list = upd.list
    BY <1>6, HandleList DEF SendPendingFee
  <2> QED
    BY <1>6, <2>1, ListStep DEF SendPendingFee
<1>7. CASE SaveFeeSent
  <2> DEFINE s == IF upd.pc = "feeSent" THEN "broadcast" ELSE "error"
             r == [CurRecord EXCEPT !.FeeTxStatus = s]
  <2>1. /\ upd.cur \in Tickets /\ CurRecord \in TicketOK /\ GenuineNext(upd.cur, CurRecord)
        /\ upd.cur \in Pending
    BY <1>7, CurrentRecord DEF SaveFeeSent, Working
  <2>2. /\ CurRecord.FeeTxStatus = "received" /\ CurRecord.Confirmed
        /\ upd.pc = "feeSent" => CurRecord.FeeTxHash \in sent'
    BY <1>7, <2>1 DEF SaveFeeSent, SafeInv, TypeInv, UpdaterShape, UpdaterKnows, CurRecord
  <2>3. GenuineNext(upd.cur, r)
    BY <2>1, <2>2 DEF GenuineNext, TicketOK, Ticket
  <2> QED
    BY <1>7, <2>1, <2>3, ContinueList, SaveStep DEF SaveFeeSent
<1> QED
  BY <1>1, <1>2, <1>3, <1>4, <1>5, <1>6, <1>7

\* So does addToWallets.
LEMMA RecordsWallets ==
    ASSUME SafeInv, TypeInv', Grows,
           \/ StartAddToWallets \/ (\E t \in Tickets : LookUpFee(t))
           \/ SaveFeeLost \/ SaveFeeFinal
           \/ (\E w \in Wallets : AddToWallet(w)) \/ TicketAdded
    PROVE  RecordsGenuine'
<1> USE DEF Step, database, chain, volatile, bounds, history
<1>1. CASE StartAddToWallets
  <2>1. PICK C : upd' = [IdleUpdater EXCEPT
                !.pc = "wallets", !.clients = C,
                !.list = [t \in Tickets |-> IF C # {} /\ t \in GetUnconfirmedFees(db)
                                            THEN db[t] ELSE Absent]]
    BY <1>1 DEF StartAddToWallets
  <2>2. \A u \in Tickets : upd'.list[u] \in {db[u], Absent}
    BY <2>1 DEF IdleUpdater
  <2> QED
    BY <1>1, <2>2, ListStep DEF StartAddToWallets
<1>2. ASSUME NEW t \in Tickets, LookUpFee(t) PROVE RecordsGenuine'
  <2>1. \A u \in Tickets : upd'.list[u] \in {upd.list[u], Absent}
    BY <1>2, ContinueList, HandleList DEF LookUpFee
  <2> QED
    BY <1>2, <2>1, ListStep DEF LookUpFee
<1>3. ASSUME upd.pc \in {"feeLost", "feeFinal"}
      PROVE  /\ upd.cur \in Tickets /\ CurRecord \in TicketOK
             /\ GenuineNext(upd.cur, CurRecord) /\ CurRecord.FeeTxStatus = "broadcast"
  <2>1. /\ upd.cur \in Tickets /\ CurRecord \in TicketOK
        /\ GenuineNext(upd.cur, CurRecord) /\ upd.cur \in Pending
    BY <1>3, CurrentRecord DEF Working
  <2> QED
    BY <1>3, <2>1 DEF SafeInv, TypeInv, UpdaterShape, CurRecord
<1>4. CASE SaveFeeLost
  <2> DEFINE r == [CurRecord EXCEPT !.FeeTxStatus = "error"]
  <2>1. GenuineNext(upd.cur, r)
    BY <1>3, <1>4 DEF SaveFeeLost, GenuineNext, TicketOK, Ticket
  <2> QED
    BY <1>3, <1>4, <2>1, ContinueList, SaveStep DEF SaveFeeLost
<1>5. CASE SaveFeeFinal
  <2> DEFINE paid == [CurRecord EXCEPT !.FeeTxHex = FALSE, !.FeeTxStatus = "confirmed"]
  <2>1. feeTx'[CurRecord.FeeTxHash] = "final"
    BY <1>5 DEF SaveFeeFinal, SafeInv, UpdaterKnows, CurRecord
  <2>2. GenuineNext(upd.cur, paid)
    BY <1>3, <1>5, <2>1 DEF SaveFeeFinal, GenuineNext, TicketOK, Ticket
  <2> HIDE DEF paid
  <2>3. CASE upd' = [upd EXCEPT !.pc = "add", !.list[upd.cur] = paid, !.left = upd.clients]
    <3>1. upd'.list = [upd.list EXCEPT ![upd.cur] = paid] /\ upd.list \in Bucket
      BY <2>3 DEF SafeInv, TypeInv, TypeOK, UpdaterShape
    <3>2. \A u \in Tickets : upd'.list[u] = upd.list[u] \/ (u = upd.cur /\ upd'.list[u] = paid)
      BY <3>1 DEF Bucket
    <3>3. db' = UpdateTicket(db, upd.cur, paid) /\ UNCHANGED req
      BY <1>5 DEF SaveFeeFinal, paid
    <3> QED
      BY <1>3, <1>5, <2>2, <3>2, <3>3, SaveStep DEF SaveFeeFinal
  <2>4. CASE Continue(upd.cur, "wallets")
    <3>1. db' = UpdateTicket(db, upd.cur, paid) /\ UNCHANGED req
      BY <1>5 DEF SaveFeeFinal, paid
    <3> QED
      BY <1>3, <1>5, <2>2, <2>4, <3>1, ContinueList, SaveStep DEF SaveFeeFinal
  <2> QED
    BY <1>5, <2>3, <2>4 DEF SaveFeeFinal, paid
<1>6. ASSUME NEW w \in Wallets, AddToWallet(w) PROVE RecordsGenuine'
  <2> DEFINE r == [CurRecord EXCEPT !.VoteChoices = 0]
  <2>1. upd.cur \in Tickets /\ CurRecord \in TicketOK /\ GenuineNext(upd.cur, CurRecord)
    BY <1>6, CurrentRecord DEF AddToWallet, Working
  <2>2. GenuineNext(upd.cur, r)
    BY <2>1 DEF GenuineNext, TicketOK, Ticket
  <2> HIDE DEF r
  <2>3. CASE UNCHANGED db /\ upd' = [upd EXCEPT !.left = @ \ {w}]
    <3>1. upd'.list = upd.list
      BY <2>3 DEF SafeInv, TypeInv, TypeOK
    <3> QED
      BY <1>6, <2>3, <3>1, ListStep DEF AddToWallet
  <2>4. CASE /\ db' = UpdateTicket(db, upd.cur, r)
             /\ upd' = [upd EXCEPT !.left = @ \ {w}, !.list[upd.cur] = r]
    <3>1. upd'.list = [upd.list EXCEPT ![upd.cur] = r] /\ upd.list \in Bucket
      BY <2>4 DEF SafeInv, TypeInv, TypeOK, UpdaterShape
    <3>2. \A u \in Tickets : upd'.list[u] = upd.list[u] \/ (u = upd.cur /\ upd'.list[u] = r)
      BY <3>1 DEF Bucket
    <3>3. UNCHANGED req
      BY <1>6 DEF AddToWallet
    <3> QED
      BY <2>1, <2>2, <2>4, <3>2, <3>3, SaveStep
  <2> QED
    BY <1>6, <2>3, <2>4 DEF AddToWallet, r
<1>7. CASE TicketAdded
  <2>1. upd.cur \in Tickets
    BY <1>7, CurrentRecord DEF TicketAdded, Working
  <2> QED
    BY <1>7, <2>1, ContinueList, ListStep DEF TicketAdded
<1> QED
  BY <1>1, <1>2, <1>4, <1>5, <1>6, <1>7

\* So does setOutcomes.
LEMMA RecordsOutcomes ==
    ASSUME SafeInv, TypeInv', Grows,
           SetOutcomes \/ (\E t \in Tickets : SaveOutcome(t)) \/ EndUpdate
    PROVE  RecordsGenuine'
<1> USE DEF Step, database, chain, volatile, bounds, history
<1>1. CASE SetOutcomes
  <2>1. {"idle", "outcomes"} \subseteq UpdaterState
    BY DEF UpdaterState
  <2>2. \A u \in Tickets : upd'.list[u] \in {db[u], Absent}
    BY <1>1, <2>1, StartPhaseList DEF SetOutcomes
  <2> QED
    BY <1>1, <2>2, ListStep DEF SetOutcomes
<1>2. ASSUME NEW t \in Tickets, SaveOutcome(t) PROVE RecordsGenuine'
  <2>0. PICK outcome \in OutcomeOf(t) :
            db' = UpdateTicket(db, t, [upd.list[t] EXCEPT !.Outcome = outcome])
    BY <1>2 DEF SaveOutcome
  <2> DEFINE r == [upd.list[t] EXCEPT !.Outcome = outcome]
  <2>1. t \in Pending /\ upd.list[t] \in TicketOK /\ Genuine(t, upd.list[t])
    BY <1>2 DEF SaveOutcome, Pending, SafeInv, TypeInv, UpdaterShape, Bucket, RecordsGenuine
  <2>2. upd.list[t].FeeTxStatus = "confirmed" /\ UNCHANGED ticketTx
    BY <1>2, <2>1 DEF SaveOutcome, SafeInv, UpdaterKnows
  <2>3. t \in Spent /\ t \in Spent' /\ (outcome = "voted" <=> ticketTx[t] = "voted")
    BY <1>2, <2>0, <2>2 DEF SaveOutcome, SafeInv, TypeInv, UpdaterShape, Spent, OutcomeOf
  <2>a. GenuineNext(t, upd.list[t])
    BY <2>1, GenuineStays
  <2>b. /\ r.FeeAddress = upd.list[t].FeeAddress /\ r.Confirmed = upd.list[t].Confirmed
        /\ r.FeeTxHash = upd.list[t].FeeTxHash /\ r.FeeTxHex = upd.list[t].FeeTxHex
        /\ r.FeeTxStatus = upd.list[t].FeeTxStatus /\ r.Outcome = outcome
    BY <2>1 DEF TicketOK, Ticket
  <2>c. outcome # "" => t \in Spent' /\ (outcome = "voted" <=> ticketTx'[t] = "voted")
    BY <2>2, <2>3
  <2> HIDE DEF r
  <2>4. GenuineNext(t, r)
    BY <2>2, <2>a, <2>b, <2>c DEF GenuineNext, Genuine
  <2> QED
    BY <1>2, <2>0, <2>4, ContinueList, SaveStep DEF SaveOutcome, r
<1>3. CASE EndUpdate
  <2>1. \A u \in Tickets : upd'.list[u] = Absent
    BY <1>3 DEF EndUpdate, IdleUpdater
  <2> QED
    BY <1>3, <2>1, ListStep DEF EndUpdate
<1> QED
  BY <1>1, <1>2, <1>3

\* So does checkWalletConsistency.
LEMMA RecordsConsistencyCheck ==
    ASSUME SafeInv, TypeInv', Grows, ConsistencyCheck
    PROVE  RecordsGenuine'
<1> USE DEF Step, database, chain, volatile, bounds, history
<1>1. CASE StartConsistencyCheck
  <2>1. PICK C : upd' = [IdleUpdater EXCEPT
                !.pc = "missing", !.clients = C, !.left = C,
                !.list = [t \in Tickets |-> IF t \in GetVotableTickets(db) THEN db[t] ELSE Absent]]
    BY <1>1 DEF StartConsistencyCheck
  <2>2. \A u \in Tickets : upd'.list[u] \in {db[u], Absent}
    BY <2>1 DEF IdleUpdater
  <2> QED
    BY <1>1, <2>2, ListStep DEF StartConsistencyCheck
<1>2. CASE (\E w \in Wallets : AddMissingTickets(w)) \/ StartChoicesCheck
  <2>1. upd'.list = upd.list
    BY <1>2 DEF AddMissingTickets, StartChoicesCheck, SafeInv, TypeInv, TypeOK
  <2> QED
    BY <1>2, <2>1, ListStep DEF AddMissingTickets, StartChoicesCheck
<1>3. ASSUME NEW w \in Wallets, CheckChoices(w) PROVE RecordsGenuine'
  <2> DEFINE wrong == WrongChoices(w)
             removed(t) == [upd.list[t] EXCEPT !.VoteChoices = 0]
             list == [t \in Tickets |-> IF t \in wrong THEN removed(t) ELSE upd.list[t]]
             saved == [t \in Tickets |-> IF t \in wrong
                                         THEN UpdateTicket(db, t, removed(t))[t] ELSE db[t]]
  <2>1. \A t \in wrong : /\ t \in Tickets /\ upd.list[t] \in TicketOK
                         /\ GenuineNext(t, upd.list[t])
    BY GenuineStays DEF WrongChoices, Pending, SafeInv, TypeInv, UpdaterShape, Bucket,
       RecordsGenuine
  <2>2. \A t \in wrong : GenuineNext(t, removed(t))
    BY <2>1 DEF GenuineNext, TicketOK, Ticket
  <2>3. \A t \in Tickets : list[t] # Absent => list[t] = upd.list[t] \/ GenuineNext(t, list[t])
    BY <2>2
  <2>4. \A t \in Tickets : saved[t] = db[t] \/ GenuineNext(t, saved[t])
    BY <2>2 DEF UpdateTicket, SafeInv, TypeInv, Bucket
  <2> HIDE DEF wrong, removed, list, saved
  <2>5. /\ UNCHANGED db \/ db' = saved
        /\ \/ upd' = [upd EXCEPT !.left = @ \ {w}, !.list = list]
           \/ upd' = [upd EXCEPT !.left = @ \ {w}]
        /\ UNCHANGED req
    BY <1>3 DEF CheckChoices, wrong, removed, list, saved
  <2>6. upd'.list = list \/ upd'.list = upd.list
    BY <2>5 DEF SafeInv, TypeInv, TypeOK
  <2> QED
    BY <2>3, <2>4, <2>5, <2>6, RecordsStep
<1>4. CASE EndConsistencyCheck
  <2>1. \A u \in Tickets : upd'.list[u] = Absent
    BY <1>4 DEF EndConsistencyCheck, IdleUpdater
  <2> QED
    BY <1>4, <2>1, ListStep DEF EndConsistencyCheck
<1> QED
  BY <1>1, <1>2, <1>3, <1>4 DEF ConsistencyCheck

-----------------------------------------------------------------------------
\* What is known of the copy a request holds.
LEMMA RequestRecord ==
    ASSUME SafeInv, Grows, NEW q \in Slots, req[q].rec # Absent
    PROVE  /\ req[q].t \in Tickets /\ req[q].rec \in TicketOK
           /\ GenuineNext(req[q].t, req[q].rec)
<1>1. req[q].t \in Tickets /\ req[q].rec \in TicketOK /\ Genuine(req[q].t, req[q].rec)
  BY DEF SafeInv, TypeInv, RequestShape, RecordsGenuine
<1> QED
  BY <1>1, GenuineStays

\* A step of request q that saves nothing, or record r of its ticket, and
\* goes on without a copy, with the same copy, or with r.
LEMMA RequestRecordsStep ==
    ASSUME SafeInv, TypeInv', Grows, UNCHANGED upd, NEW q \in Slots,
           NEW n, req' = [req EXCEPT ![q] = n], NEW r,
           \/ n.rec = Absent
           \/ n.t = req[q].t /\ n.rec = req[q].rec
           \/ n.t = req[q].t /\ n.rec = r /\ GenuineNext(req[q].t, r)
           \/ n.t \in Tickets /\ n.rec = db[n.t],
           \/ UNCHANGED db
           \/ db' = UpdateTicket(db, req[q].t, r) /\ GenuineNext(req[q].t, r)
           \/ db' = InsertNewTicket(db, req[q].t, r) /\ GenuineNext(req[q].t, r)
    PROVE  RecordsGenuine'
<1>1. \A p \in Slots : req'[p] = IF p = q THEN n ELSE req[p]
  BY DEF SafeInv, TypeInv, TypeOK
<1>2. \A t \in Tickets : db'[t] = db[t] \/ GenuineNext(t, db'[t])
  BY DEF UpdateTicket, InsertNewTicket, SafeInv, TypeInv, Bucket
<1> HIDE DEF SafeInv
<1> QED
  BY <1>1, <1>2, RecordsStep

\* /feeaddress saves genuine records only.
LEMMA RecordsFeeAddress ==
    ASSUME SafeInv, TypeInv', Grows, NEW q \in Slots,
           \/ \E kind \in Kinds, t \in Tickets : Receive(q, kind, t)
           \/ Refuse(q) \/ CheckCanVote(q)
           \/ RenewFee(q) \/ NewFeeAddress(q) \/ InsertTicket(q)
    PROVE  RecordsGenuine'
<1> USE DEF At, Go, Finish, Checking, database, chain, bounds, history
<1>0. IdleRequest.rec = Absent
  BY DEF IdleRequest
<1>1. ASSUME NEW kind \in Kinds, NEW t \in Tickets, Receive(q, kind, t) PROVE RecordsGenuine'
  <2> DEFINE n == [IdleRequest EXCEPT
                     !.pc = "check", !.kind = kind, !.t = t,
                     !.rec = IF kind = "setaltsignaddr" THEN Absent ELSE db[t]]
  <2>1. n.t = t /\ n.rec \in {Absent, db[t]}
    BY DEF IdleRequest
  <2>2. /\ req' = [req EXCEPT ![q] = n] \/ req' = [req EXCEPT ![q] = IdleRequest]
        /\ UNCHANGED <<db, upd>>
    BY <1>1 DEF Receive, BroadcastTicket
  <2> HIDE DEF n
  <2> QED
    BY <1>0, <2>1, <2>2, RequestRecordsStep
<1>2. CASE Refuse(q)
  BY <1>0, <1>2, RequestRecordsStep DEF Refuse
<1>3. CASE RenewFee(q)
  <2>1. req[q].rec # Absent
    BY <1>3 DEF RenewFee, SafeInv, TypeInv, RequestShape
  <2>2. GenuineNext(req[q].t, req[q].rec)
    BY <2>1, RequestRecord
  <2> QED
    BY <1>0, <1>3, <2>2, RequestRecordsStep DEF RenewFee
<1>4. CASE NewFeeAddress(q)
  <2> DEFINE rec == [FeeAddress |-> nextAddress, FeeExpiration |-> clock,
                     Confirmed |-> req[q].pc = "newFinal",
                     FeeTxHash |-> NoTx, FeeTxHex |-> FALSE, FeeTxStatus |-> "none",
                     VoteChoices |-> 0, Outcome |-> ""]
             n == [req[q] EXCEPT !.pc = "insert", !.rec = rec]
  <2>0. req[q].t \in Tickets
    BY <1>4 DEF NewFeeAddress, SafeInv, TypeInv, RequestShape
  <2>1. /\ nextAddress \in issued'[req[q].t] /\ UNCHANGED ticketTx
        /\ req[q].pc = "newFinal" => ticketTx[req[q].t] \in Final
    BY <1>4, <2>0 DEF NewFeeAddress, SafeInv, TypeInv, TypeOK, RequestKnows
  <2>2. GenuineNext(req[q].t, rec)
    BY <2>1 DEF GenuineNext
  <2>3. req' = [req EXCEPT ![q] = n] /\ UNCHANGED <<db, upd>>
    BY <1>4 DEF NewFeeAddress
  <2> HIDE DEF rec
  <2>4. n.t = req[q].t /\ n.rec = rec
    BY DEF SafeInv, TypeInv, TypeOK
  <2> HIDE DEF n
  <2> QED
    BY <2>2, <2>3, <2>4, RequestRecordsStep
<1>5. CASE InsertTicket(q)
  <2>1. req[q].rec # Absent
    BY <1>5 DEF InsertTicket, SafeInv, TypeInv, RequestShape
  <2>2. GenuineNext(req[q].t, req[q].rec)
    BY <2>1, RequestRecord
  <2> QED
    BY <1>0, <1>5, <2>2, RequestRecordsStep DEF InsertTicket
<1>6. CASE CheckCanVote(q)
  <2> DEFINE next(pc) == [req[q] EXCEPT !.pc = pc]
  <2>1. \A pc : next(pc).t = req[q].t /\ next(pc).rec = req[q].rec
    BY DEF SafeInv, TypeInv, TypeOK
  <2>2. ASSUME NEW pc, req' = [req EXCEPT ![q].pc = pc] PROVE RecordsGenuine'
    <3>1. req' = [req EXCEPT ![q] = next(pc)] /\ UNCHANGED <<db, upd>>
      BY <1>6, <2>2 DEF CheckCanVote
    <3> HIDE DEF next
    <3> QED
      BY <2>1, <3>1, RequestRecordsStep
  <2>3. ASSUME req[q].rec # Absent,
               req' = [req EXCEPT ![q].pc = "renew", ![q].rec.FeeExpiration = clock]
        PROVE  RecordsGenuine'
    <3> DEFINE r == [req[q].rec EXCEPT !.FeeExpiration = clock]
    <3>1. req[q].rec \in TicketOK /\ GenuineNext(req[q].t, req[q].rec)
      BY <2>3, RequestRecord
    <3>2. GenuineNext(req[q].t, r)
      BY <3>1 DEF GenuineNext, TicketOK, Ticket
    <3> HIDE DEF r
    <3> DEFINE n == [req[q] EXCEPT !.pc = "renew", !.rec = r]
    <3>3. req' = [req EXCEPT ![q] = n]
      BY <2>3 DEF r
    <3>4. n.t = req[q].t /\ n.rec = r
      BY DEF SafeInv, TypeInv, TypeOK
    <3> HIDE DEF n
    <3> QED
      BY <1>6, <3>2, <3>3, <3>4, RequestRecordsStep DEF CheckCanVote
  <2> QED
    BY <1>6, <2>2, <2>3 DEF CheckCanVote, FeeUnknown
<1> QED
  BY <1>1, <1>2, <1>3, <1>4, <1>5, <1>6

\* So does /payfee.
LEMMA RecordsPayFee ==
    ASSUME SafeInv, TypeInv', Grows, NEW q \in Slots,
           \/ \E f \in FeeTxs, ts \in Timestamps : PayFee(q, f, ts)
           \/ SendPaidFee(q) \/ SavePaidFeeSent(q) \/ SavePaidFeeRefused(q)
    PROVE  RecordsGenuine'
<1> USE DEF At, Go, Finish, Checking, database, chain, bounds, history
<1>0. IdleRequest.rec = Absent
  BY DEF IdleRequest
<1>1. ASSUME NEW f \in FeeTxs, NEW ts \in Timestamps, PayFee(q, f, ts) PROVE RecordsGenuine'
  <2> DEFINE rec == req[q].rec
             next(pc, r) == [req[q] EXCEPT !.pc = pc, !.rec = r, !.ts = ts]
  <2>0. rec # Absent /\ rec.FeeTxStatus \notin FeeKnown /\ PaysTo[f] = rec.FeeAddress
    BY <1>1 DEF PayFee, SafeInv, TypeInv, RequestShape, RequestKnows
  <2>1. rec \in TicketOK /\ GenuineNext(req[q].t, rec)
    BY <2>0, RequestRecord
  <2>2. PICK choices \in {rec.VoteChoices, 0, ts} :
            LET paid == Paid(rec, f, choices)
            IN  /\ db' = UpdateTicket(db, req[q].t, paid)
                /\ \/ req' = [req EXCEPT ![q] = IdleRequest]
                   \/ req' = [req EXCEPT ![q].pc = "send", ![q].rec = paid, ![q].ts = ts]
                   \/ req' = [req EXCEPT ![q].pc = "record", ![q].rec = paid, ![q].ts = ts]
    BY <1>1 DEF PayFee
  <2> DEFINE r == Paid(rec, f, choices)
  <2>3. GenuineNext(req[q].t, r)
    BY <2>0, <2>1 DEF GenuineNext, Paid, TicketOK, Ticket, FeeKnown, FeeStatus
  <2>4. /\ db' = UpdateTicket(db, req[q].t, r)
        /\ \/ req' = [req EXCEPT ![q] = IdleRequest]
           \/ req' = [req EXCEPT ![q] = next("send", r)]
           \/ req' = [req EXCEPT ![q] = next("record", r)]
    BY <2>2
  <2> HIDE DEF r
  <2>5. \A pc : next(pc, r).t = req[q].t /\ next(pc, r).rec = r
    BY DEF SafeInv, TypeInv, TypeOK
  <2>6. UNCHANGED upd
    BY <1>1 DEF PayFee
  <2> HIDE DEF next
  <2>7. PICK n : /\ req' = [req EXCEPT ![q] = n]
                 /\ n.rec = Absent \/ (n.t = req[q].t /\ n.rec = r)
    BY <1>0, <2>4, <2>5
  <2> QED
    BY <2>3, <2>4, <2>6, <2>7, RequestRecordsStep
<1>2. CASE SendPaidFee(q)
  <2>1. PICK pc : req' = [req EXCEPT ![q] = [req[q] EXCEPT !.pc = pc]]
    BY <1>2 DEF SendPaidFee
  <2> DEFINE n == [req[q] EXCEPT !.pc = pc]
  <2>2. n.t = req[q].t /\ n.rec = req[q].rec
    BY DEF SafeInv, TypeInv, TypeOK
  <2> HIDE DEF n
  <2>3. req' = [req EXCEPT ![q] = n] /\ UNCHANGED <<db, upd>>
    BY <1>2, <2>1 DEF SendPaidFee, n
  <2> QED
    BY <2>2, <2>3, RequestRecordsStep
<1>3. ASSUME req[q].pc \in {"sent", "refused"}
      PROVE  /\ req[q].rec \in TicketOK /\ GenuineNext(req[q].t, req[q].rec)
             /\ req[q].rec.FeeTxStatus = "received" /\ req[q].rec.Confirmed
             /\ req[q].pc = "sent" => req[q].rec.FeeTxHash \in sent
  <2>1. req[q].rec # Absent
    BY <1>3 DEF SafeInv, TypeInv, RequestShape
  <2> QED
    BY <1>3, <2>1, RequestRecord DEF SafeInv, TypeInv, RequestShape, RequestKnows
<1>4. CASE SavePaidFeeSent(q)
  <2> DEFINE r == [req[q].rec EXCEPT !.FeeTxStatus = "broadcast"]
             n == [req[q] EXCEPT !.pc = "record", !.rec = r]
  <2>1. GenuineNext(req[q].t, r)
    BY <1>3, <1>4 DEF SavePaidFeeSent, GenuineNext, TicketOK, Ticket
  <2>2. /\ db' = UpdateTicket(db, req[q].t, r) /\ UNCHANGED upd
        /\ \/ req' = [req EXCEPT ![q] = n] \/ req' = [req EXCEPT ![q] = IdleRequest]
    BY <1>4 DEF SavePaidFeeSent
  <2> HIDE DEF r
  <2>3. n.t = req[q].t /\ n.rec = r
    BY DEF SafeInv, TypeInv, TypeOK
  <2> HIDE DEF n
  <2> QED
    BY <1>0, <2>1, <2>2, <2>3, RequestRecordsStep
<1>5. CASE SavePaidFeeRefused(q)
  <2> DEFINE r == [req[q].rec EXCEPT !.FeeTxStatus = "error"]
  <2>1. GenuineNext(req[q].t, r)
    BY <1>3, <1>5 DEF SavePaidFeeRefused, GenuineNext, TicketOK, Ticket
  <2>2. /\ db' = UpdateTicket(db, req[q].t, r) /\ UNCHANGED upd
        /\ req' = [req EXCEPT ![q] = IdleRequest]
    BY <1>5 DEF SavePaidFeeRefused
  <2> HIDE DEF r
  <2> QED
    BY <1>0, <2>1, <2>2, RequestRecordsStep
<1> QED
  BY <1>1, <1>2, <1>4, <1>5

\* A step of request q that goes on with its copy, or without, and saves
\* the copy at most.
LEMMA SameCopyStep ==
    ASSUME SafeInv, TypeInv', Grows, UNCHANGED upd, NEW q \in Slots,
           NEW n, req' = [req EXCEPT ![q] = n],
           n.rec = Absent \/ (n.t = req[q].t /\ n.rec = req[q].rec),
           UNCHANGED db \/ (req[q].pc = "save" /\ db' = UpdateTicket(db, req[q].t, req[q].rec))
    PROVE  RecordsGenuine'
<1>1. req[q].pc = "save" => GenuineNext(req[q].t, req[q].rec)
  BY RequestRecord DEF SafeInv, TypeInv, RequestShape
<1>2. CASE UNCHANGED db
  BY <1>2, RequestRecordsStep
<1>3. CASE req[q].pc = "save" /\ db' = UpdateTicket(db, req[q].t, req[q].rec)
  BY <1>1, <1>3, RequestRecordsStep
<1> QED
  BY <1>2, <1>3

\* So do the other endpoints.
LEMMA RecordsOther ==
    ASSUME SafeInv, TypeInv', Grows, NEW q \in Slots,
           \/ \E ts \in Timestamps : CheckVoteChoices(q, ts)
           \/ SaveVoteChoices(q) \/ (\E w \in Wallets : UpdateWallet(q, w)) \/ RecordVoteChange(q)
           \/ (\E a \in AltSignAddrs : CheckAltSignAddr(q, a)) \/ StoreAltSignAddr(q)
    PROVE  RecordsGenuine'
<1> USE DEF At, Go, Finish, Checking, database, chain, bounds, history
<1>0. IdleRequest.rec = Absent
  BY DEF IdleRequest
<1>1. ASSUME NEW ts \in Timestamps, CheckVoteChoices(q, ts) PROVE RecordsGenuine'
  <2>0. PICK choices \in {req[q].rec.VoteChoices, ts} :
            req' = [req EXCEPT ![q].pc = "save", ![q].ts = ts,
                        ![q].rec = [req[q].rec EXCEPT !.VoteChoices = choices]]
    BY <1>1 DEF CheckVoteChoices
  <2> DEFINE r == [req[q].rec EXCEPT !.VoteChoices = choices]
             n == [req[q] EXCEPT !.pc = "save", !.ts = ts, !.rec = r]
  <2>1. req[q].rec \in TicketOK /\ GenuineNext(req[q].t, req[q].rec)
    BY <1>1, RequestRecord DEF CheckVoteChoices
  <2>2. GenuineNext(req[q].t, r)
    BY <2>1 DEF GenuineNext, TicketOK, Ticket
  <2>3. req' = [req EXCEPT ![q] = n] /\ UNCHANGED <<db, upd>>
    BY <1>1, <2>0 DEF CheckVoteChoices
  <2> HIDE DEF r
  <2>4. n.t = req[q].t /\ n.rec = r
    BY DEF SafeInv, TypeInv, TypeOK
  <2> HIDE DEF n
  <2> QED
    BY <2>2, <2>3, <2>4, RequestRecordsStep
<1>2. CASE SaveVoteChoices(q)
  <2>1. UNCHANGED upd /\ At(q, "save") /\ db' = UpdateTicket(db, req[q].t, req[q].rec)
    BY <1>2 DEF SaveVoteChoices
  <2>2. PICK n : /\ req' = [req EXCEPT ![q] = n]
                 /\ n.rec = Absent \/ (n.t = req[q].t /\ n.rec = req[q].rec)
    <3>1. CASE req' = [req EXCEPT ![q] = IdleRequest]
      BY <1>0, <3>1
    <3>2. CASE req' = [req EXCEPT ![q].pc = "record"]
      <4> DEFINE n == [req[q] EXCEPT !.pc = "record"]
      <4>1. n.t = req[q].t /\ n.rec = req[q].rec
        BY DEF SafeInv, TypeInv, TypeOK
      <4> QED
        BY <3>2, <4>1
    <3>3. ASSUME NEW C, req' = [req EXCEPT ![q].pc = "wallets", ![q].left = C]
          PROVE  \E n : /\ req' = [req EXCEPT ![q] = n]
                        /\ n.rec = Absent \/ (n.t = req[q].t /\ n.rec = req[q].rec)
      <4> DEFINE n == [req[q] EXCEPT !.pc = "wallets", !.left = C]
      <4>1. n.t = req[q].t /\ n.rec = req[q].rec
        BY DEF SafeInv, TypeInv, TypeOK
      <4>2. req' = [req EXCEPT ![q] = n]
        BY <3>3
      <4> HIDE DEF n
      <4> QED
        BY <4>1, <4>2
    <3> QED
      BY <1>2, <3>1, <3>2, <3>3 DEF SaveVoteChoices
  <2> QED
    BY <2>1, <2>2, SameCopyStep
<1>3. ASSUME NEW w \in Wallets, UpdateWallet(q, w) PROVE RecordsGenuine'
  <2> DEFINE n == [req[q] EXCEPT !.left = req[q].left \ {w},
                                 !.pc = IF req[q].left = {w} THEN "record" ELSE req[q].pc]
  <2>1. n.t = req[q].t /\ n.rec = req[q].rec
    BY DEF SafeInv, TypeInv, TypeOK
  <2>2. req' = [req EXCEPT ![q] = n] /\ UNCHANGED <<db, upd>>
    BY <1>3 DEF UpdateWallet, SafeInv, TypeInv, TypeOK
  <2> HIDE DEF n
  <2> QED
    BY <2>1, <2>2, SameCopyStep
<1>4. CASE RecordVoteChange(q) \/ StoreAltSignAddr(q)
  BY <1>0, <1>4, SameCopyStep DEF RecordVoteChange, StoreAltSignAddr
<1>5. ASSUME NEW a \in AltSignAddrs, CheckAltSignAddr(q, a) PROVE RecordsGenuine'
  <2> DEFINE n == [req[q] EXCEPT !.pc = "insertAlt", !.alt = a]
  <2>1. n.t = req[q].t /\ n.rec = req[q].rec
    BY DEF SafeInv, TypeInv, TypeOK
  <2>2. req' = [req EXCEPT ![q] = n] /\ UNCHANGED <<db, upd>>
    BY <1>5 DEF CheckAltSignAddr
  <2> HIDE DEF n
  <2> QED
    BY <2>1, <2>2, SameCopyStep
<1> QED
  BY <1>1, <1>2, <1>3, <1>4, <1>5

\* Every step keeps all records genuine.
LEMMA RecordsNext ==
    ASSUME SafeInv, TypeInv', Grows, [Next]_vars
    PROVE  RecordsGenuine'
<1>1. CASE UNCHANGED <<db, upd, req>>
  BY <1>1, RecordsStep
<1>2. CASE Crash
  <2>1. /\ UNCHANGED db /\ \A t \in Tickets : upd'.list[t] = Absent
        /\ \A q \in Slots : req'[q].rec = Absent
    BY <1>2 DEF Crash, database, IdleUpdater, IdleRequest
  <2> QED
    BY <2>1, RecordsStep
<1>3. Environment \/ UNCHANGED vars => UNCHANGED <<db, upd, req>>
  BY DEF Environment, MineTicket, SpendTicket, DropTicket, MineFee, DropFee, PublishFee,
     OtherBlock, Tick, vars, database, volatile
<1>4. CASE Update
  BY <1>4, RecordsFees, RecordsWallets, RecordsOutcomes DEF Update
<1>5. ASSUME NEW q \in Slots, Serve(q) PROVE RecordsGenuine'
  BY <1>5, RecordsFeeAddress, RecordsPayFee, RecordsOther DEF Serve
<1> QED
  BY <1>1, <1>2, <1>3, <1>4, <1>5, RecordsConsistencyCheck DEF Next

-----------------------------------------------------------------------------
\* What the goroutine of Run knows stays true when others step.
LEMMA UpdaterKnowsStays ==
    ASSUME SafeInv, Grows, UNCHANGED upd
    PROVE  UpdaterKnows'
<1>1. upd.pc \in Working => upd.cur \in Tickets /\ upd.list[upd.cur] \in TicketOK
  BY DEF SafeInv, TypeInv, UpdaterShape, Bucket
<1>2. upd.pc = "feeFinal" => upd.list[upd.cur].FeeTxHash \in FeeTxs
  <2>1. upd.pc = "feeFinal" => upd.cur \in Pending
    BY DEF SafeInv, TypeInv, UpdaterShape, Working, Pending
  <2> QED
    BY <1>1, <2>1 DEF SafeInv, TypeInv, UpdaterShape, Working, TicketOK
<1>3. UpdaterKnows
  BY DEF SafeInv
<1> QED
  BY <1>1, <1>2, <1>3 DEF UpdaterKnows, Grows, Working, Pending

\* In these steps nothing is to be known of the list.
LEMMA NothingToKnow ==
    upd'.pc \in {"idle", "unconfirmed", "delete", "deleteAlt", "wallets", "feeLost", "add"}
        => UpdaterKnows'
BY DEF UpdaterKnows

\* Being done with a ticket leads to the step named.
LEMMA ContinuePc ==
    ASSUME SafeInv, NEW t, NEW pc, Continue(t, pc) PROVE upd'.pc = pc
BY DEF Continue, SafeInv, TypeInv, TypeOK

\* Taking a ticket leads to the step named.
LEMMA HandleUpd ==
    ASSUME SafeInv, NEW t, NEW pc, Handle(t, pc)
    PROVE  upd'.pc = pc /\ upd'.cur = t /\ upd'.list = upd.list
BY DEF Handle, SafeInv, TypeInv, TypeOK

\* The update keeps what the goroutine of Run knows.
LEMMA UpdaterKnowsUpdate ==
    ASSUME SafeInv, Update
    PROVE  UpdaterKnows'
<1> USE DEF Step, database, chain, volatile, bounds, history
<1>0. {"idle", "unconfirmed", "fees", "outcomes"} \subseteq UpdaterState
  BY DEF UpdaterState
<1>1. CASE StartUpdate
  <2>1. upd'.pc = "unconfirmed"
    BY <1>0, <1>1, StartPhaseMove DEF StartUpdate, SafeInv
  <2> QED
    BY <2>1, NothingToKnow
<1>2. ASSUME NEW t \in Tickets, LookUpTicket(t) PROVE UpdaterKnows'
  <2>1. CASE Handle(t, "confirm") /\ ticketTx[t] \in Final
    BY <1>2, <2>1, HandleUpd DEF LookUpTicket, UpdaterKnows
  <2>2. CASE Handle(t, "delete") \/ Continue(t, "unconfirmed")
    BY <2>2, HandleUpd, ContinuePc, NothingToKnow
  <2> QED
    BY <1>2, <2>1, <2>2 DEF LookUpTicket
<1>3. CASE RemoveTicket \/ RemoveAltSignAddr \/ ConfirmTicket
  <2>1. upd'.pc \in {"deleteAlt", "unconfirmed"}
    BY <1>3, ContinuePc DEF RemoveTicket, RemoveAltSignAddr, ConfirmTicket, SafeInv,
       TypeInv, TypeOK
  <2> QED
    BY <2>1, NothingToKnow
<1>4. CASE StartBroadcastFees
  <2>1. /\ upd'.pc = "fees"
        /\ upd'.list = [t \in Tickets |-> IF t \in GetPendingFees(db) THEN db[t] ELSE Absent]
    BY <1>0, <1>4, StartPhaseMove DEF StartBroadcastFees, SafeInv
  <2>2. \A t \in Pending' : upd'.list[t].Confirmed
    BY <2>1 DEF Pending, GetPendingFees
  <2> QED
    BY <2>1, <2>2 DEF UpdaterKnows
<1>5. ASSUME NEW t \in Tickets, SendPendingFee(t) PROVE UpdaterKnows'
  <2>1. upd.pc = "fees" /\ \A u \in Pending : upd.list[u].Confirmed
    BY <1>5 DEF SendPendingFee, SafeInv, UpdaterKnows
  <2>2. /\ upd'.cur = t /\ upd'.list = upd.list
        /\ \/ upd'.pc = "feeSent" /\ upd.list[t].FeeTxHash \in sent'
           \/ upd'.pc = "feeRefused"
    BY <1>5, HandleUpd DEF SendPendingFee, SendFee
  <2> QED
    BY <2>1, <2>2 DEF UpdaterKnows, Pending
<1>6. CASE SaveFeeSent
  <2>1. upd.cur \in Tickets /\ upd.list \in Bucket /\ \A u \in Pending : upd.list[u].Confirmed
    BY <1>6 DEF SaveFeeSent, SafeInv, TypeInv, UpdaterShape, UpdaterKnows, Working
  <2>2. upd'.pc = "fees" /\ upd'.list = [upd.list EXCEPT ![upd.cur] = Absent]
    BY <1>0, <1>6, <2>1, ContinueMove DEF SaveFeeSent, SafeInv
  <2>3. \A u \in Pending' : u \in Pending /\ upd'.list[u] = upd.list[u]
    BY <2>1, <2>2 DEF Pending, Bucket
  <2> QED
    BY <2>1, <2>2, <2>3 DEF UpdaterKnows
<1>7. CASE StartAddToWallets
  <2>1. upd'.pc = "wallets"
    BY <1>7 DEF StartAddToWallets, IdleUpdater
  <2> QED
    BY <2>1, NothingToKnow
<1>8. ASSUME NEW t \in Tickets, LookUpFee(t) PROVE UpdaterKnows'
  <2>1. CASE Handle(t, "feeFinal") /\ feeTx[upd.list[t].FeeTxHash] = "final"
    BY <1>8, <2>1, HandleUpd DEF LookUpFee, UpdaterKnows
  <2>2. CASE Handle(t, "feeLost") \/ Continue(t, "wallets")
    BY <2>2, HandleUpd, ContinuePc, NothingToKnow
  <2> QED
    BY <1>8, <2>1, <2>2 DEF LookUpFee
<1>9. CASE SaveFeeLost \/ SaveFeeFinal \/ (\E w \in Wallets : AddToWallet(w)) \/ TicketAdded
  <2>1. upd'.pc \in {"wallets", "add"}
    BY <1>9, ContinuePc DEF SaveFeeLost, SaveFeeFinal, AddToWallet, TicketAdded, SafeInv,
       TypeInv, TypeOK
  <2> QED
    BY <2>1, NothingToKnow
<1>10. CASE SetOutcomes
  <2>1. PICK S : S \subseteq GetVotableTickets(db) /\ (StartPhase("outcomes", S) \/ StartPhase("idle", S))
    BY <1>10 DEF SetOutcomes
  <2>2. /\ upd'.pc \in {"outcomes", "idle"}
        /\ upd'.list = [t \in Tickets |-> IF t \in S THEN db[t] ELSE Absent]
    BY <1>0, <2>1, StartPhaseMove DEF SafeInv
  <2>3. \A t \in Pending' : upd'.list[t].FeeTxStatus = "confirmed"
    BY <2>1, <2>2 DEF Pending, GetVotableTickets
  <2> QED
    BY <2>2, <2>3 DEF UpdaterKnows
<1>11. ASSUME NEW t \in Tickets, SaveOutcome(t) PROVE UpdaterKnows'
  <2>1. upd.list \in Bucket /\ \A u \in Pending : upd.list[u].FeeTxStatus = "confirmed"
    BY <1>11 DEF SaveOutcome, SafeInv, TypeInv, UpdaterShape, UpdaterKnows
  <2>2. upd'.pc = "outcomes" /\ upd'.list = [upd.list EXCEPT ![t] = Absent]
    BY <1>0, <1>11, ContinueMove DEF SaveOutcome, SafeInv
  <2>3. \A u \in Pending' : u \in Pending /\ upd'.list[u] = upd.list[u]
    BY <2>1, <2>2 DEF Pending, Bucket
  <2> QED
    BY <2>1, <2>2, <2>3 DEF UpdaterKnows
<1>12. CASE EndUpdate
  BY <1>12, NothingToKnow DEF EndUpdate, IdleUpdater
<1> QED
  BY <1>1, <1>2, <1>3, <1>4, <1>5, <1>6, <1>7, <1>8, <1>9, <1>10, <1>11, <1>12 DEF Update

\* The consistency check keeps what the goroutine of Run knows.
LEMMA UpdaterKnowsCheck ==
    ASSUME SafeInv, ConsistencyCheck
    PROVE  UpdaterKnows'
<1> USE DEF Step, database, chain, volatile, bounds, history
<1>1. CASE StartConsistencyCheck
  <2>1. PICK C : upd' = [IdleUpdater EXCEPT
                !.pc = "missing", !.clients = C, !.left = C,
                !.list = [t \in Tickets |-> IF t \in GetVotableTickets(db) THEN db[t] ELSE Absent]]
    BY <1>1 DEF StartConsistencyCheck
  <2>2. /\ upd'.pc = "missing"
        /\ upd'.list = [t \in Tickets |-> IF t \in GetVotableTickets(db) THEN db[t] ELSE Absent]
    BY <2>1 DEF IdleUpdater
  <2>3. \A t \in Pending' : upd'.list[t].FeeTxStatus = "confirmed"
    BY <2>2 DEF Pending, GetVotableTickets
  <2> QED
    BY <2>2, <2>3 DEF UpdaterKnows
<1>2. CASE (\E w \in Wallets : AddMissingTickets(w)) \/ StartChoicesCheck
  <2>1. upd'.list = upd.list /\ upd'.pc \in {"missing", "choices"} /\ upd.pc = "missing"
    BY <1>2 DEF AddMissingTickets, StartChoicesCheck, SafeInv, TypeInv, TypeOK
  <2>2. \A t \in Pending : upd.list[t].FeeTxStatus = "confirmed"
    BY <2>1 DEF SafeInv, UpdaterKnows
  <2> QED
    BY <2>1, <2>2 DEF UpdaterKnows, Pending
<1>3. ASSUME NEW w \in Wallets, CheckChoices(w) PROVE UpdaterKnows'
  <2> DEFINE wrong == WrongChoices(w)
             removed(t) == [upd.list[t] EXCEPT !.VoteChoices = 0]
             list == [t \in Tickets |-> IF t \in wrong THEN removed(t) ELSE upd.list[t]]
  <2>1. /\ upd.pc = "choices" /\ upd.list \in Bucket
        /\ \A t \in Pending : upd.list[t].FeeTxStatus = "confirmed"
    BY <1>3 DEF CheckChoices, SafeInv, TypeInv, UpdaterShape, UpdaterKnows
  <2>2. \A t \in wrong : t \in Pending /\ upd.list[t] \in TicketOK
    BY <2>1 DEF WrongChoices, Pending, Bucket
  <2>3. \A t \in wrong : removed(t).FeeTxStatus = "confirmed"
    BY <2>1, <2>2 DEF TicketOK, Ticket
  <2>4. \A t \in Tickets : list[t] # Absent => list[t].FeeTxStatus = "confirmed"
    BY <2>1, <2>3 DEF Pending
  <2> HIDE DEF wrong, removed, list
  <2>5. \/ upd' = [upd EXCEPT !.left = @ \ {w}, !.list = list]
        \/ upd' = [upd EXCEPT !.left = @ \ {w}]
    BY <1>3 DEF CheckChoices, wrong, removed, list
  <2>6. upd'.pc = "choices" /\ (upd'.list = list \/ upd'.list = upd.list)
    BY <2>1, <2>5 DEF SafeInv, TypeInv, TypeOK
  <2>7. \A t \in Pending' : upd'.list[t].FeeTxStatus = "confirmed"
    BY <2>1, <2>4, <2>6 DEF Pending
  <2> QED
    BY <2>6, <2>7 DEF UpdaterKnows
<1>4. CASE EndConsistencyCheck
  BY <1>4, NothingToKnow DEF EndConsistencyCheck, IdleUpdater
<1> QED
  BY <1>1, <1>2, <1>3, <1>4 DEF ConsistencyCheck

-----------------------------------------------------------------------------
\* RequestKnows of request n, in the next state.
KnowsNext(n) ==
    /\ n.pc \in {"send", "sent", "refused"} => n.rec.Confirmed
    /\ n.pc = "sent" => n.rec.FeeTxHash \in sent'
    /\ n.pc = "newFinal" => ticketTx'[n.t] \in Final
    /\ n.pc = "pay" => n.rec.FeeTxStatus \notin FeeKnown
    /\ n.pc = "insert" => n.rec.FeeTxStatus = "none" /\ n.rec.FeeTxHash = NoTx

\* A step of a request changes what it knows, and nothing any other knows.
LEMMA RequestKnowsStep ==
    ASSUME SafeInv, Grows, NEW q \in Slots, NEW n, req' = [req EXCEPT ![q] = n], KnowsNext(n)
    PROVE  \A p \in Slots : RequestKnows(p)'
<1>1. \A p \in Slots : req'[p] = IF p = q THEN n ELSE req[p]
  BY DEF SafeInv, TypeInv, TypeOK
<1>2. \A p \in Slots : KnowsNext(req[p])
  <2> SUFFICES ASSUME NEW p \in Slots PROVE KnowsNext(req[p])
    OBVIOUS
  <2>1. RequestKnows(p) /\ (req[p].pc = "newFinal" => req[p].t \in Tickets)
    BY DEF SafeInv, TypeInv, RequestShape
  <2> QED
    BY <2>1 DEF RequestKnows, KnowsNext, Grows
<1> QED
  BY <1>1, <1>2 DEF RequestKnows, KnowsNext

\* A request need know nothing outside the named steps.
LEMMA NothingToKnowOf ==
    ASSUME NEW n, n.pc \in {"idle", "check", "new", "renew", "save", "wallets", "record",
                            "insertAlt"}
    PROVE  KnowsNext(n)
BY DEF KnowsNext

\* Every step of a request keeps what all requests know.
LEMMA RequestKnowsServe ==
    ASSUME SafeInv, Grows, NEW q \in Slots, Serve(q)
    PROVE  \A p \in Slots : RequestKnows(p)'
<1> USE DEF At, Go, Finish, Checking, database, chain, bounds, history
<1> DEFINE Quiet == {"idle", "check", "new", "renew", "save", "wallets", "record", "insertAlt"}
<1>1. ASSUME NEW n, req' = [req EXCEPT ![q] = n], n.pc \in Quiet
      PROVE  \A p \in Slots : RequestKnows(p)'
  <2>1. KnowsNext(n)
    BY <1>1, NothingToKnowOf
  <2> QED
    BY <1>1, <2>1, RequestKnowsStep
<1>2. IdleRequest.pc = "idle"
  BY DEF IdleRequest
<1>3. req[q] \in [pc : RequestState, kind : Kinds \union {"none"},
                  t : Tickets \union {Absent},
                  rec : Ticket \union {Absent}, ts : Nat,
                  alt : AltSignAddrs \union {Absent},
                  left : SUBSET Wallets]
  BY DEF SafeInv, TypeInv, TypeOK
<1>4. ASSUME NEW kind \in Kinds, NEW t \in Tickets, Receive(q, kind, t)
      PROVE  \A p \in Slots : RequestKnows(p)'
  <2> DEFINE n == [IdleRequest EXCEPT
                     !.pc = "check", !.kind = kind, !.t = t,
                     !.rec = IF kind = "setaltsignaddr" THEN Absent ELSE db[t]]
  <2>1. n.pc = "check"
    BY DEF IdleRequest
  <2>2. req' = [req EXCEPT ![q] = n] \/ req' = [req EXCEPT ![q] = IdleRequest]
    BY <1>4 DEF Receive
  <2> HIDE DEF n
  <2> QED
    BY <1>1, <1>2, <2>1, <2>2
<1>5. CASE req' = [req EXCEPT ![q] = IdleRequest]
  BY <1>1, <1>2, <1>5
<1>6. CASE NewFeeAddress(q)
  <2> DEFINE rec == [FeeAddress |-> nextAddress, FeeExpiration |-> clock,
                     Confirmed |-> req[q].pc = "newFinal",
                     FeeTxHash |-> NoTx, FeeTxHex |-> FALSE, FeeTxStatus |-> "none",
                     VoteChoices |-> 0, Outcome |-> ""]
             n == [req[q] EXCEPT !.pc = "insert", !.rec = rec]
  <2>1. rec.FeeTxStatus = "none" /\ rec.FeeTxHash = NoTx
    OBVIOUS
  <2>2. req' = [req EXCEPT ![q] = n]
    BY <1>6 DEF NewFeeAddress
  <2> HIDE DEF rec
  <2>3. KnowsNext(n)
    BY <1>3, <2>1 DEF KnowsNext
  <2> HIDE DEF n
  <2> QED
    BY <2>2, <2>3, RequestKnowsStep
<1>7. ASSUME NEW f \in FeeTxs, NEW ts \in Timestamps, PayFee(q, f, ts)
      PROVE  \A p \in Slots : RequestKnows(p)'
  <2> DEFINE paid(c) == Paid(req[q].rec, f, c)
             next(pc, r) == [req[q] EXCEPT !.pc = pc, !.rec = r, !.ts = ts]
  <2>1. req[q].rec # Absent
    BY <1>7 DEF PayFee, SafeInv, TypeInv, RequestShape
  <2>2. \A c : paid(c).Confirmed = req[q].rec.Confirmed
    BY <1>3, <2>1 DEF Paid, Ticket
  <2>3. \/ req' = [req EXCEPT ![q] = IdleRequest]
        \/ \E r : req' = [req EXCEPT ![q].pc = "record", ![q].rec = r, ![q].ts = ts]
        \/ \E c : /\ req[q].rec.Confirmed
                  /\ req' = [req EXCEPT ![q].pc = "send", ![q].rec = paid(c), ![q].ts = ts]
    <3>1. PICK choices \in {req[q].rec.VoteChoices, 0, ts} :
            LET r == Paid(req[q].rec, f, choices)
            IN  \/ req' = [req EXCEPT ![q] = IdleRequest]
                \/ /\ req[q].rec.Confirmed
                   /\ req' = [req EXCEPT ![q].pc = "send", ![q].rec = r, ![q].ts = ts]
                \/ req' = [req EXCEPT ![q].pc = "record", ![q].rec = r, ![q].ts = ts]
      BY <1>7 DEF PayFee
    <3> QED
      BY <3>1
  <2>4. ASSUME NEW r, req' = [req EXCEPT ![q].pc = "record", ![q].rec = r, ![q].ts = ts]
        PROVE  \A p \in Slots : RequestKnows(p)'
    <3>1. req' = [req EXCEPT ![q] = next("record", r)]
      BY <2>4
    <3>2. next("record", r).pc = "record"
      BY <1>3
    <3> HIDE DEF next
    <3> QED
      BY <1>1, <3>1, <3>2
  <2>5. ASSUME NEW c, req[q].rec.Confirmed,
               req' = [req EXCEPT ![q].pc = "send", ![q].rec = paid(c), ![q].ts = ts]
        PROVE  \A s \in Slots : RequestKnows(s)'
    <3> DEFINE r == paid(c)
    <3>1. r.Confirmed
      BY <2>2, <2>5
    <3> HIDE DEF paid, r
    <3>2. req' = [req EXCEPT ![q] = next("send", r)]
      BY <2>5 DEF r
    <3>3. KnowsNext(next("send", r))
      BY <1>3, <3>1 DEF KnowsNext
    <3> HIDE DEF next
    <3> QED
      BY <3>2, <3>3, RequestKnowsStep
  <2> HIDE DEF paid
  <2> QED
    BY <1>5, <2>3, <2>4, <2>5
<1>8. CASE SendPaidFee(q)
  <2>1. req[q].rec.Confirmed
    BY <1>8 DEF SendPaidFee, SafeInv, RequestKnows
  <2>2. PICK pc : /\ req' = [req EXCEPT ![q] = [req[q] EXCEPT !.pc = pc]]
                  /\ \/ pc = "sent" /\ req[q].rec.FeeTxHash \in sent'
                     \/ pc = "refused"
    BY <1>8 DEF SendPaidFee, SendFee
  <2> DEFINE n == [req[q] EXCEPT !.pc = pc]
  <2>3. KnowsNext(n)
    BY <1>3, <2>1, <2>2 DEF KnowsNext
  <2> HIDE DEF n
  <2>4. req' = [req EXCEPT ![q] = n]
    BY <2>2 DEF n
  <2> QED
    BY <2>3, <2>4, RequestKnowsStep
<1>9. CASE SavePaidFeeSent(q)
  <2> DEFINE r == [req[q].rec EXCEPT !.FeeTxStatus = "broadcast"]
  <2> HIDE DEF r
  <2> DEFINE n == [req[q] EXCEPT !.pc = "record", !.rec = r]
  <2>1. req' = [req EXCEPT ![q] = n] \/ req' = [req EXCEPT ![q] = IdleRequest]
    BY <1>9 DEF SavePaidFeeSent, r
  <2>2. n.pc = "record"
    BY <1>3
  <2> HIDE DEF n
  <2> QED
    BY <1>1, <1>5, <2>1, <2>2
<1>10. ASSUME NEW ts \in Timestamps, CheckVoteChoices(q, ts)
       PROVE  \A p \in Slots : RequestKnows(p)'
  <2>0. PICK choices \in {req[q].rec.VoteChoices, ts} :
            req' = [req EXCEPT ![q].pc = "save", ![q].ts = ts,
                        ![q].rec = [req[q].rec EXCEPT !.VoteChoices = choices]]
    BY <1>10 DEF CheckVoteChoices
  <2> DEFINE r == [req[q].rec EXCEPT !.VoteChoices = choices]
  <2> HIDE DEF r
  <2> DEFINE n == [req[q] EXCEPT !.pc = "save", !.ts = ts, !.rec = r]
  <2>1. req' = [req EXCEPT ![q] = n]
    BY <1>10, <2>0 DEF CheckVoteChoices, r
  <2>2. n.pc = "save"
    BY <1>3
  <2> HIDE DEF n
  <2> QED
    BY <1>1, <2>1, <2>2
<1>11. CASE SaveVoteChoices(q)
  <2>1. CASE req' = [req EXCEPT ![q].pc = "record"]
    <3>1. [req[q] EXCEPT !.pc = "record"].pc = "record"
      BY <1>3
    <3> QED
      BY <1>1, <2>1, <3>1
  <2>2. ASSUME NEW C, req' = [req EXCEPT ![q].pc = "wallets", ![q].left = C]
        PROVE  \A p \in Slots : RequestKnows(p)'
    <3> DEFINE n == [req[q] EXCEPT !.pc = "wallets", !.left = C]
    <3>1. req' = [req EXCEPT ![q] = n]
      BY <2>2
    <3>2. n.pc = "wallets"
      BY <1>3
    <3> HIDE DEF n
    <3> QED
      BY <1>1, <3>1, <3>2
  <2> QED
    BY <1>5, <1>11, <2>1, <2>2 DEF SaveVoteChoices
<1>12. ASSUME NEW w \in Wallets, UpdateWallet(q, w)
       PROVE  \A p \in Slots : RequestKnows(p)'
  <2> DEFINE n == [req[q] EXCEPT !.left = req[q].left \ {w},
                                 !.pc = IF req[q].left = {w} THEN "record" ELSE req[q].pc]
  <2>1. n.pc \in {"wallets", "record"}
    BY <1>3, <1>12 DEF UpdateWallet
  <2>2. req' = [req EXCEPT ![q] = n]
    BY <1>12 DEF UpdateWallet, SafeInv, TypeInv, TypeOK
  <2> HIDE DEF n
  <2> QED
    BY <1>1, <2>1, <2>2
<1>13. ASSUME NEW a \in AltSignAddrs, CheckAltSignAddr(q, a)
       PROVE  \A p \in Slots : RequestKnows(p)'
  <2> DEFINE n == [req[q] EXCEPT !.pc = "insertAlt", !.alt = a]
  <2>1. n.pc = "insertAlt"
    BY <1>3
  <2>2. req' = [req EXCEPT ![q] = n]
    BY <1>13 DEF CheckAltSignAddr
  <2> HIDE DEF n
  <2> QED
    BY <1>1, <2>1, <2>2
<1>14. \/ Refuse(q) \/ RenewFee(q) \/ InsertTicket(q) \/ SavePaidFeeRefused(q)
       \/ RecordVoteChange(q) \/ StoreAltSignAddr(q)
       => req' = [req EXCEPT ![q] = IdleRequest]
  BY DEF Refuse, RenewFee, InsertTicket, SavePaidFeeRefused, RecordVoteChange, StoreAltSignAddr
<1>15. CASE CheckCanVote(q)
  <2> DEFINE next(pc) == [req[q] EXCEPT !.pc = pc]
  <2>1. ASSUME NEW pc \in RequestState, req' = [req EXCEPT ![q].pc = pc],
               KnowsNext(next(pc))
        PROVE  \A p \in Slots : RequestKnows(p)'
    <3>1. req' = [req EXCEPT ![q] = next(pc)]
      BY <2>1
    <3> HIDE DEF next
    <3> QED
      BY <2>1, <3>1, RequestKnowsStep
  <2>a. {"new", "newFinal", "pay"} \subseteq RequestState
    BY DEF RequestState
  <2>2. \A pc : next(pc).pc = pc /\ next(pc).t = req[q].t /\ next(pc).rec = req[q].rec
    BY <1>3
  <2> HIDE DEF next
  <2>3. CASE req' = [req EXCEPT ![q].pc = "new"]
    <3>1. KnowsNext(next("new"))
      BY <2>2, NothingToKnowOf
    <3> QED
      BY <2>1, <2>a, <2>3, <3>1
  <2>4. CASE req' = [req EXCEPT ![q].pc = "newFinal"] /\ ticketTx[req[q].t] \in Final
    <3>1. KnowsNext(next("newFinal"))
      BY <1>15, <2>2, <2>4 DEF KnowsNext, CheckCanVote
    <3> QED
      BY <2>1, <2>a, <2>4, <3>1
  <2>5. CASE req' = [req EXCEPT ![q].pc = "pay"] /\ FeeUnknown(req[q].rec)
    <3>1. KnowsNext(next("pay"))
      BY <2>2, <2>5 DEF KnowsNext, FeeUnknown
    <3> QED
      BY <2>1, <2>a, <2>5, <3>1
  <2>6. CASE req' = [req EXCEPT ![q].pc = "renew", ![q].rec.FeeExpiration = clock]
    <3> DEFINE r == [req[q].rec EXCEPT !.FeeExpiration = clock]
    <3> HIDE DEF r
    <3> DEFINE n == [req[q] EXCEPT !.pc = "renew", !.rec = r]
    <3>1. req' = [req EXCEPT ![q] = n]
      BY <2>6 DEF r
    <3>2. n.pc = "renew"
      BY <1>3
    <3> HIDE DEF n
    <3> QED
      BY <1>1, <3>1, <3>2
  <2> QED
    BY <1>15, <2>3, <2>4, <2>5, <2>6 DEF CheckCanVote
<1> QED
  BY <1>4, <1>5, <1>6, <1>7, <1>8, <1>9, <1>10, <1>11, <1>12, <1>13, <1>14, <1>15 DEF Serve

-----------------------------------------------------------------------------
\* A purchase that is final, and a fee that pays one of its addresses.
LEMMA HeldBackStep ==
    ASSUME SafeInv, Grows, sent' \subseteq FeeTxs,
           \A f \in sent' : \/ f \in sent
                            \/ \E t \in Tickets : PaysTo[f] \in issued[t] /\ ticketTx[t] \in Final
    PROVE  FeeHeldBack'
BY DEF FeeHeldBack, Grows, SafeInv

\* The fee of a record that knows its purchase is final may be sent.
LEMMA MaySend ==
    ASSUME SafeInv, NEW t \in Tickets, NEW r \in TicketOK, Genuine(t, r),
           r.FeeTxStatus = "received", r.Confirmed
    PROVE  PaysTo[r.FeeTxHash] \in issued[t] /\ ticketTx[t] \in Final
BY DatabaseAssumption DEF Genuine

\* Both places that send a fee, broadcastFees and payFee, have such a record.
LEMMA HeldBackNext ==
    ASSUME SafeInv, TypeInv', Grows, [Next]_vars
    PROVE  FeeHeldBack'
<1> USE DEF database, chain, volatile, bounds, history
<1>1. sent' \subseteq FeeTxs
  BY DEF TypeInv, TypeOK
<1>2. ASSUME NEW t \in Tickets, SendPendingFee(t) PROVE FeeHeldBack'
  <2>1. /\ upd.list[t] \in TicketOK /\ Genuine(t, upd.list[t])
        /\ upd.list[t].FeeTxStatus = "received" /\ upd.list[t].Confirmed
    BY <1>2 DEF SendPendingFee, Step, Pending, SafeInv, TypeInv, UpdaterShape, Bucket,
                UpdaterKnows, RecordsGenuine
  <2>2. sent' \subseteq sent \union {upd.list[t].FeeTxHash}
    BY <1>2 DEF SendPendingFee, SendFee
  <2> QED
    BY <1>1, <2>1, <2>2, MaySend, HeldBackStep
<1>3. ASSUME NEW q \in Slots, SendPaidFee(q) PROVE FeeHeldBack'
  <2>1. /\ req[q].t \in Tickets /\ req[q].rec \in TicketOK /\ Genuine(req[q].t, req[q].rec)
        /\ req[q].rec.FeeTxStatus = "received" /\ req[q].rec.Confirmed
    BY <1>3 DEF SendPaidFee, At, SafeInv, TypeInv, RequestShape, RequestKnows, RecordsGenuine
  <2>2. sent' \subseteq sent \union {req[q].rec.FeeTxHash}
    BY <1>3 DEF SendPaidFee, SendFee
  <2> QED
    BY <1>1, <2>1, <2>2, MaySend, HeldBackStep
<1>4. CASE UNCHANGED sent
  BY <1>1, <1>4, HeldBackStep
<1>5. Update => (\E t \in Tickets : SendPendingFee(t)) \/ UNCHANGED sent
  BY DEF Update, StartUpdate, LookUpTicket, RemoveTicket, RemoveAltSignAddr, ConfirmTicket,
     StartBroadcastFees, SaveFeeSent, StartAddToWallets, LookUpFee, SaveFeeLost, SaveFeeFinal,
     AddToWallet, TicketAdded, SetOutcomes, SaveOutcome, EndUpdate
<1>6. ConsistencyCheck => UNCHANGED sent
  BY DEF ConsistencyCheck, StartConsistencyCheck, AddMissingTickets, StartChoicesCheck,
     CheckChoices, EndConsistencyCheck
<1>7. ASSUME NEW q \in Slots, Serve(q) PROVE SendPaidFee(q) \/ UNCHANGED sent
  BY <1>7 DEF Serve, Receive, BroadcastTicket, Refuse, CheckCanVote, RenewFee, NewFeeAddress,
     InsertTicket, PayFee,
     SavePaidFeeSent, SavePaidFeeRefused, CheckVoteChoices, SaveVoteChoices, UpdateWallet,
     RecordVoteChange, CheckAltSignAddr, StoreAltSignAddr
<1>8. Environment \/ Crash \/ UNCHANGED vars => UNCHANGED sent
  BY DEF Environment, MineTicket, SpendTicket, DropTicket, MineFee, DropFee, PublishFee,
     OtherBlock, Tick, Crash, vars
<1> QED
  BY <1>2, <1>3, <1>4, <1>5, <1>6, <1>7, <1>8 DEF Next

-----------------------------------------------------------------------------
FeePaid(t) == \E f \in FeeTxs : PaysTo[f] \in issued[t] /\ feeTx[f] = "final"

\* A step that adds only tickets whose fee is final keeps PaidBeforeVoting.
LEMMA PaidStep ==
    ASSUME SafeInv, Grows,
           \A w \in Wallets, t \in Tickets :
                wallets'[w][t] # Absent => wallets[w][t] # Absent \/ FeePaid(t)
    PROVE  PaidBeforeVoting'
<1>1. \A t \in Tickets : FeePaid(t) => FeePaid(t)'
  BY DEF FeePaid, Grows
<1>2. \A w \in Wallets, t \in Tickets : wallets[w][t] # Absent => FeePaid(t)
  BY DEF SafeInv, PaidBeforeVoting, FeePaid
<1> QED
  BY <1>1, <1>2 DEF PaidBeforeVoting, FeePaid

\* A genuine record with a confirmed fee is of a ticket whose fee is final.
LEMMA ConfirmedIsPaid ==
    ASSUME NEW t \in Tickets, NEW r \in TicketOK, Genuine(t, r), r.FeeTxStatus = "confirmed"
    PROVE  FeePaid(t)
BY DatabaseAssumption DEF Genuine, FeePaid

\* AddTicketForVoting adds no ticket but its own, SetVoteChoice adds none.
LEMMA WalletKnows ==
    ASSUME NEW W \in [Tickets -> WalletTicket \union {Absent}], NEW t \in Tickets
    PROVE  /\ \A u \in Tickets : AddTicketForVoting(W, t)[u] # Absent => W[u] # Absent \/ u = t
           /\ \A r, ok : \A u \in Tickets :
                SetVoteChoice(W, t, r, ok)[u] # Absent => W[u] # Absent
BY DEF AddTicketForVoting, SetVoteChoice

\* A ticket of the list, in a step that adds tickets, with its fee confirmed.
ListedPaid(t) ==
    /\ upd.pc \in {"add", "missing"}
    /\ t \in Pending /\ upd.list[t].FeeTxStatus = "confirmed"

HoldsFromList ==
    \A w \in Wallets, t \in Tickets :
        wallets'[w][t] # Absent => wallets[w][t] # Absent \/ ListedPaid(t)

\* The goroutine of Run adds only tickets whose fee is confirmed in its copy:
\* addToWallets, and the consistency check, which works from its list alone.
LEMMA HoldsUpdater ==
    ASSUME SafeInv, (\E w \in Wallets : AddToWallet(w) \/ AddMissingTickets(w) \/ CheckChoices(w))
    PROVE  HoldsFromList
<1> USE DEF Step
<1> DEFINE WalletTickets == [Tickets -> WalletTicket \union {Absent}]
<1>1. wallets \in [Wallets -> WalletTickets]
  BY DEF SafeInv, TypeInv, TypeOK
<1>2. CASE UNCHANGED wallets
  BY <1>2 DEF HoldsFromList
<1>3. ASSUME NEW w \in Wallets, NEW W, wallets' = [wallets EXCEPT ![w] = W],
             \A t \in Tickets : W[t] # Absent => wallets[w][t] # Absent \/ ListedPaid(t)
      PROVE  HoldsFromList
  <2>1. \A v \in Wallets, t \in Tickets :
            wallets'[v][t] # Absent => wallets[v][t] # Absent \/ ListedPaid(t)
    BY <1>1, <1>3
  <2> QED
    BY <2>1 DEF HoldsFromList
<1>4. ASSUME NEW w \in Wallets, AddToWallet(w) PROVE HoldsFromList
  <2>1. upd.cur \in Tickets /\ ListedPaid(upd.cur)
    BY <1>4 DEF AddToWallet, SafeInv, TypeInv, UpdaterShape, Working, Pending, ListedPaid
  <2> DEFINE added == AddTicketForVoting(wallets[w], upd.cur)
             W(ok) == SetVoteChoice(added, upd.cur, CurRecord, ok)
  <2>2. added \in WalletTickets /\ \A u \in Tickets : added[u] # Absent =>
                                        wallets[w][u] # Absent \/ u = upd.cur
    BY <1>1, <2>1, WalletKnows, WalletChange
  <2> HIDE DEF added
  <2>3. \A ok : \A u \in Tickets : W(ok)[u] # Absent =>
                            wallets[w][u] # Absent \/ ListedPaid(u)
    BY <2>1, <2>2, WalletKnows
  <2>4. UNCHANGED wallets \/ \E ok : wallets' = [wallets EXCEPT ![w] = W(ok)]
    BY <1>4 DEF AddToWallet, added
  <2> HIDE DEF W
  <2> QED
    BY <1>2, <1>3, <2>3, <2>4
<1>5. ASSUME NEW w \in Wallets, AddMissingTickets(w) PROVE HoldsFromList
  <2> DEFINE W(S) == [t \in Tickets |-> IF t \in S THEN AddTicketForVoting(wallets[w], t)[t]
                                                   ELSE wallets[w][t]]
  <2>1. PICK S \in SUBSET MissingTickets(w) : wallets' = [wallets EXCEPT ![w] = W(S)]
    BY <1>5 DEF AddMissingTickets
  <2>2. \A t \in S : ListedPaid(t)
    BY <1>5 DEF AddMissingTickets, MissingTickets, SafeInv, UpdaterKnows, ListedPaid
  <2>3. \A t \in Tickets : W(S)[t] # Absent => wallets[w][t] # Absent \/ ListedPaid(t)
    BY <2>2
  <2> HIDE DEF W
  <2> QED
    BY <1>3, <2>1, <2>3
<1>6. ASSUME NEW w \in Wallets, CheckChoices(w) PROVE HoldsFromList
  <2> DEFINE W(S) == [t \in Tickets |->
                        IF t \in S THEN SetVoteChoice(wallets[w], t, upd.list[t], TRUE)[t]
                                   ELSE wallets[w][t]]
  <2>1. UNCHANGED wallets \/ \E S : wallets' = [wallets EXCEPT ![w] = W(S)]
    BY <1>6 DEF CheckChoices
  <2>2. ASSUME NEW S, NEW t \in Tickets, W(S)[t] # Absent PROVE wallets[w][t] # Absent
    <3>1. wallets[w] \in WalletTickets
      BY <1>1
    <3>2. SetVoteChoice(wallets[w], t, upd.list[t], TRUE)[t] # Absent => wallets[w][t] # Absent
      BY DEF SetVoteChoice
    <3> QED
      BY <2>2, <3>2
  <2> HIDE DEF W
  <2> QED
    BY <1>2, <1>3, <2>1, <2>2
<1> QED
  BY <1>4, <1>5, <1>6

\* No other step adds tickets to the wallets.
LEMMA HoldsNext ==
    ASSUME SafeInv, [Next]_vars
    PROVE  HoldsFromList
<1> USE DEF database, chain, volatile, bounds, history
<1>1. CASE UNCHANGED wallets
  BY <1>1 DEF HoldsFromList
<1>2. ASSUME NEW q \in Slots, NEW w \in Wallets, UpdateWallet(q, w) PROVE HoldsFromList
  <2>1. wallets \in [Wallets -> [Tickets -> WalletTicket \union {Absent}]] /\ req[q].t \in Tickets
    BY <1>2 DEF UpdateWallet, At, SafeInv, TypeInv, TypeOK, RequestShape
  <2> DEFINE W(ok) == SetVoteChoice(wallets[w], req[q].t, req[q].rec, ok)
  <2>2. PICK ok : wallets' = [wallets EXCEPT ![w] = W(ok)]
    BY <1>2 DEF UpdateWallet
  <2>3. \A t \in Tickets : W(ok)[t] # Absent => wallets[w][t] # Absent
    BY <2>1, WalletKnows
  <2> HIDE DEF W
  <2>4. \A v \in Wallets, t \in Tickets : wallets'[v][t] # Absent => wallets[v][t] # Absent
    BY <2>1, <2>2, <2>3
  <2> QED
    BY <2>4 DEF HoldsFromList
<1>3. Update => (\E w \in Wallets : AddToWallet(w)) \/ UNCHANGED wallets
  BY DEF Update, StartUpdate, LookUpTicket, RemoveTicket, RemoveAltSignAddr, ConfirmTicket,
     StartBroadcastFees, SendPendingFee, SaveFeeSent, StartAddToWallets, LookUpFee, SaveFeeLost,
     SaveFeeFinal, TicketAdded, SetOutcomes, SaveOutcome, EndUpdate
<1>4. ConsistencyCheck => \/ \E w \in Wallets : AddMissingTickets(w) \/ CheckChoices(w)
                         \/ UNCHANGED wallets
  BY DEF ConsistencyCheck, StartConsistencyCheck, StartChoicesCheck, EndConsistencyCheck
<1>5. ASSUME NEW q \in Slots, Serve(q)
      PROVE  (\E w \in Wallets : UpdateWallet(q, w)) \/ UNCHANGED wallets
  BY <1>5 DEF Serve, Receive, BroadcastTicket, Refuse, CheckCanVote, RenewFee, NewFeeAddress,
     InsertTicket, PayFee,
     SendPaidFee, SavePaidFeeSent, SavePaidFeeRefused, CheckVoteChoices, SaveVoteChoices,
     RecordVoteChange, CheckAltSignAddr, StoreAltSignAddr
<1>6. Environment \/ Crash \/ UNCHANGED vars => UNCHANGED wallets
  BY DEF Environment, MineTicket, SpendTicket, DropTicket, MineFee, DropFee, PublishFee,
     OtherBlock, Tick, Crash, vars
<1> QED
  BY <1>1, <1>2, <1>3, <1>4, <1>5, <1>6, HoldsUpdater DEF Next

\* A ticket added to a wallet is one whose fee is final.
LEMMA PaidNext ==
    ASSUME SafeInv, Grows, [Next]_vars
    PROVE  PaidBeforeVoting'
<1>1. \A t \in Tickets : ListedPaid(t) => FeePaid(t)
  BY ConfirmedIsPaid DEF ListedPaid, SafeInv, TypeInv, UpdaterShape, Bucket, RecordsGenuine,
     Pending
<1> QED
  BY <1>1, HoldsNext, PaidStep DEF HoldsFromList

-----------------------------------------------------------------------------
\* The invariant holds of the empty database.
LEMMA SafeInit == Init => SafeInv
<1> SUFFICES ASSUME Init PROVE SafeInv
  OBVIOUS
<1>1. TypeInv
  BY TypeInit
<1>2. RecordsGenuine /\ UpdaterKnows /\ \A q \in Slots : RequestKnows(q)
  BY DEF Init, RecordsGenuine, Exists, UpdaterKnows, RequestKnows, IdleUpdater, IdleRequest
<1>3. FeeHeldBack /\ PaidBeforeVoting
  BY DEF Init, FeeHeldBack, PaidBeforeVoting
<1> QED
  BY <1>1, <1>2, <1>3 DEF SafeInv

\* The safety invariant is inductive.
LEMMA SafeNext == SafeInv /\ [Next]_vars => SafeInv'
<1> SUFFICES ASSUME SafeInv, [Next]_vars PROVE SafeInv'
  OBVIOUS
<1>1. TypeInv' /\ Grows
  BY TypeNext, NextGrows DEF SafeInv
<1>2. UpdaterKnows'
  <2>1. CASE UNCHANGED upd
    BY <1>1, <2>1, UpdaterKnowsStays
  <2>2. CASE Crash
    BY <2>2, NothingToKnow DEF Crash, IdleUpdater
  <2>3. Environment \/ UNCHANGED vars => UNCHANGED upd
    BY DEF Environment, MineTicket, SpendTicket, DropTicket, MineFee, DropFee, PublishFee,
       OtherBlock, Tick, vars, volatile
  <2>4. ASSUME NEW q \in Slots, Serve(q) PROVE UNCHANGED upd
    BY <2>4 DEF Serve, Receive, BroadcastTicket, Refuse, CheckCanVote, RenewFee, NewFeeAddress,
       InsertTicket, PayFee,
       SendPaidFee, SavePaidFeeSent, SavePaidFeeRefused, CheckVoteChoices, SaveVoteChoices,
       UpdateWallet, RecordVoteChange, CheckAltSignAddr, StoreAltSignAddr
  <2> QED
    BY <2>1, <2>2, <2>3, <2>4, UpdaterKnowsUpdate, UpdaterKnowsCheck DEF Next
<1>3. \A q \in Slots : RequestKnows(q)'
  <2>1. CASE UNCHANGED req
    BY <1>1, <2>1 DEF SafeInv, RequestKnows, Grows, TypeInv, RequestShape
  <2>2. CASE Crash
    BY <2>2 DEF Crash, IdleRequest, RequestKnows
  <2>3. Environment \/ UNCHANGED vars => UNCHANGED req
    BY DEF Environment, MineTicket, SpendTicket, DropTicket, MineFee, DropFee, PublishFee,
       OtherBlock, Tick, vars, volatile
  <2>4. Update => UNCHANGED req
    BY DEF Update, StartUpdate, LookUpTicket, RemoveTicket, RemoveAltSignAddr, ConfirmTicket,
       StartBroadcastFees, SendPendingFee, SaveFeeSent, StartAddToWallets, LookUpFee,
          SaveFeeLost,
       SaveFeeFinal, AddToWallet, TicketAdded, SetOutcomes, SaveOutcome, EndUpdate
  <2>5. ConsistencyCheck => UNCHANGED req
    BY DEF ConsistencyCheck, StartConsistencyCheck, AddMissingTickets, StartChoicesCheck,
       CheckChoices, EndConsistencyCheck
  <2> QED
    BY <1>1, <2>1, <2>2, <2>3, <2>4, <2>5, RequestKnowsServe DEF Next
<1> QED
  BY <1>1, <1>2, <1>3, RecordsNext, HeldBackNext, PaidNext DEF SafeInv

\* The safety invariant holds in every state.
THEOREM SafeCorrect == Spec => []SafeInv
BY SafeInit, SafeNext, PTL DEF Spec

\* No record, in the database or in the copy a handler or the update loop
\* holds, claims more than what is true: stale saves (UpdateTicket writes every
\* field) never make up a confirmation, a broadcast, or an outcome.
THEOREM RecordsCorrect == Spec => []RecordsGenuine
<1>1. SafeInv => RecordsGenuine
  BY DEF SafeInv
<1> QED
  BY <1>1, SafeCorrect, PTL

\* vspm sends a fee (broadcastFees, payFee) only once the purchase of the
\* ticket it pays for has 6 confirmations.
THEOREM HeldBackCorrect == Spec => []FeeHeldBack
<1>1. SafeInv => FeeHeldBack
  BY DEF SafeInv
<1> QED
  BY <1>1, SafeCorrect, PTL

\* A ticket is added to a voting wallet (addToWallets, checkWalletConsistency)
\* only once a fee that pays an address derived for it has 6 confirmations.
THEOREM PaidCorrect == Spec => []PaidBeforeVoting
<1>1. SafeInv => PaidBeforeVoting
  BY DEF SafeInv
<1> QED
  BY <1>1, SafeCorrect, PTL

-----------------------------------------------------------------------------
(* Removed tickets                                                         *)

NoneAppears == \A t \in Tickets : db[t] = Absent => db'[t] = Absent

\* UpdateTicket creates no record.
LEMMA UpdateTicketKeeps ==
    ASSUME NEW d, NEW t, NEW r, NEW u, d[u] = Absent, d \in Bucket, u \in Tickets
    PROVE  UpdateTicket(d, t, r)[u] = Absent
BY DEF UpdateTicket, Exists, Bucket

\* The goroutine of Run saves with UpdateTicket, and inserts nothing.
LEMMA UpdaterInsertsNothing == TypeInv /\ (Update \/ ConsistencyCheck) => NoneAppears
<1> SUFFICES ASSUME TypeInv, Update \/ ConsistencyCheck PROVE NoneAppears
  OBVIOUS
<1> USE DEF database, chain, bounds, history
<1>1. db \in Bucket
  BY DEF TypeInv
<1>2. ASSUME NEW t, NEW r, db' = UpdateTicket(db, t, r) PROVE NoneAppears
  BY <1>1, <1>2, UpdateTicketKeeps DEF NoneAppears
<1>3. CASE UNCHANGED db
  BY <1>3 DEF NoneAppears
<1>4. CASE RemoveTicket
  BY <1>1, <1>4 DEF RemoveTicket, DeleteTicket, NoneAppears, Bucket
<1>5. ASSUME NEW w \in Wallets, CheckChoices(w) PROVE NoneAppears
  <2> DEFINE removed(t) == [upd.list[t] EXCEPT !.VoteChoices = 0]
  <2>1. \/ UNCHANGED db
        \/ db' = [t \in Tickets |-> IF t \in WrongChoices(w)
                                    THEN UpdateTicket(db, t, removed(t))[t] ELSE db[t]]
    BY <1>5 DEF CheckChoices
  <2> HIDE DEF removed
  <2>2. \A t \in Tickets : db[t] = Absent => UpdateTicket(db, t, removed(t))[t] = Absent
    BY <1>1, UpdateTicketKeeps
  <2> QED
    BY <2>1, <2>2 DEF NoneAppears
<1>6. ASSUME NEW w \in Wallets, AddToWallet(w) PROVE NoneAppears
  BY <1>2, <1>3, <1>6 DEF AddToWallet
<1>7. CASE ConfirmTicket \/ SaveFeeSent \/ SaveFeeLost
  BY <1>2, <1>7 DEF ConfirmTicket, SaveFeeSent, SaveFeeLost
<1>8. CASE SaveFeeFinal
  BY <1>2, <1>8 DEF SaveFeeFinal
<1>9. ASSUME NEW t \in Tickets, SaveOutcome(t) PROVE NoneAppears
  BY <1>2, <1>9 DEF SaveOutcome
<1>10. CASE Update
  <2>1. \/ RemoveTicket \/ ConfirmTicket \/ SaveFeeSent \/ SaveFeeLost \/ SaveFeeFinal
        \/ \E w \in Wallets : AddToWallet(w)
        \/ \E t \in Tickets : SaveOutcome(t)
        \/ UNCHANGED db
    BY <1>10 DEF Update, StartUpdate, LookUpTicket, RemoveAltSignAddr, StartBroadcastFees,
       SendPendingFee, StartAddToWallets, LookUpFee, TicketAdded, SetOutcomes, EndUpdate
  <2> QED
    BY <2>1, <1>3, <1>4, <1>6, <1>7, <1>8, <1>9
<1>11. CASE ConsistencyCheck
  <2>1. (\E w \in Wallets : CheckChoices(w)) \/ UNCHANGED db
    BY <1>11 DEF ConsistencyCheck, StartConsistencyCheck, AddMissingTickets, StartChoicesCheck,
       EndConsistencyCheck
  <2> QED
    BY <2>1, <1>3, <1>5
<1> QED
  BY <1>10, <1>11

\* Of the requests, only InsertTicket inserts.
LEMMA RequestsInsertNothing ==
    ASSUME TypeInv, NEW q \in Slots, Serve(q)
    PROVE  NoneAppears \/ InsertTicket(q)
<1> USE DEF database, chain, bounds, history
<1>1. db \in Bucket
  BY DEF TypeInv
<1>2. ASSUME NEW t, NEW r, db' = UpdateTicket(db, t, r) PROVE NoneAppears
  BY <1>1, <1>2, UpdateTicketKeeps DEF NoneAppears
<1>3. CASE UNCHANGED db
  BY <1>3 DEF NoneAppears
<1>4. CASE RenewFee(q)
  BY <1>2, <1>4 DEF RenewFee
<1>5. ASSUME NEW f \in FeeTxs, NEW ts \in Timestamps, PayFee(q, f, ts) PROVE NoneAppears
  <2>1. \E r : db' = UpdateTicket(db, req[q].t, r)
    BY <1>5 DEF PayFee
  <2> QED
    BY <2>1, <1>2
<1>6. CASE SavePaidFeeSent(q) \/ SavePaidFeeRefused(q) \/ SaveVoteChoices(q)
  <2>1. \E r : db' = UpdateTicket(db, req[q].t, r)
    BY <1>6 DEF SavePaidFeeSent, SavePaidFeeRefused, SaveVoteChoices
  <2> QED
    BY <2>1, <1>2
<1>7. \/ RenewFee(q) \/ InsertTicket(q)
      \/ \E f \in FeeTxs, ts \in Timestamps : PayFee(q, f, ts)
      \/ SavePaidFeeSent(q) \/ SavePaidFeeRefused(q) \/ SaveVoteChoices(q)
      \/ UNCHANGED db
  BY DEF Serve, Receive, BroadcastTicket, Refuse, CheckCanVote, NewFeeAddress, SendPaidFee,
     CheckVoteChoices, UpdateWallet,
     RecordVoteChange, CheckAltSignAddr, StoreAltSignAddr
<1> QED
  BY <1>3, <1>4, <1>5, <1>6, <1>7

OnlyNewAppear ==
    \A t \in Tickets : ~ Exists(db, t) /\ db'[t] # Absent =>
        db'[t].FeeTxStatus = "none" /\ db'[t].FeeTxHash = NoTx

\* Every record that appears is a new one.
LEMMA OnlyNewNext == SafeInv /\ [Next]_vars => OnlyNewAppear
<1> SUFFICES ASSUME SafeInv, [Next]_vars PROVE OnlyNewAppear
  OBVIOUS
<1>1. TypeInv
  BY DEF SafeInv
<1>2. CASE NoneAppears
  BY <1>2 DEF NoneAppears, OnlyNewAppear, Exists
<1>3. ASSUME NEW q \in Slots, InsertTicket(q) PROVE OnlyNewAppear
  <2>1. req[q].rec.FeeTxStatus = "none" /\ req[q].rec.FeeTxHash = NoTx
    BY <1>3 DEF InsertTicket, At, SafeInv, RequestKnows
  <2>2. db' = InsertNewTicket(db, req[q].t, req[q].rec) /\ db \in Bucket
    BY <1>1, <1>3 DEF InsertTicket, TypeInv
  <2>3. \A t \in Tickets : db'[t] = db[t] \/ db'[t] = req[q].rec
    BY <2>2 DEF InsertNewTicket, Bucket
  <2> QED
    BY <2>1, <2>3 DEF OnlyNewAppear, Exists
<1>4. Environment \/ Crash \/ UNCHANGED vars => UNCHANGED db
  BY DEF Environment, MineTicket, SpendTicket, DropTicket, MineFee, DropFee, PublishFee,
     OtherBlock, Tick, Crash, vars, database, chain, volatile, bounds, history
<1>5. UNCHANGED db => NoneAppears
  BY DEF NoneAppears
<1> QED
  BY <1>1, <1>2, <1>3, <1>4, <1>5, UpdaterInsertsNothing, RequestsInsertNothing DEF Next

\* A ticket that updateUnconfirmed removed comes back only as a new one: the
\* handlers and the update loop save the copies they took before the removal
\* with UpdateTicket, which fails for a ticket that is gone.
THEOREM RemovedCorrect == Spec => NoResurrection
<1>1. SafeInv /\ [Next]_vars =>
        [\A t \in Tickets : ~ Exists(db, t) /\ db'[t] # Absent =>
            db'[t].FeeTxStatus = "none" /\ db'[t].FeeTxHash = NoTx]_vars
  BY OnlyNewNext DEF OnlyNewAppear
<1> QED
  BY <1>1, SafeCorrect, PTL DEF Spec, NoResurrection
=============================================================================
