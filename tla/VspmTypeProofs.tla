--------------------------- MODULE VspmTypeProofs ---------------------------
(***************************************************************************)
(* Spec => []TypeOK.  TypeOK is not inductive: that a save keeps the       *)
(* bucket typed takes that the record saved is one, that is, that the      *)
(* goroutine of Run and every request hold a copy of a record in the steps *)
(* that save it.  UpdaterShape and RequestShape say so step by step, with  *)
(* the fee statuses the lists were selected by, and TypeInv adds them.     *)
(***************************************************************************)
EXTENDS Vspm, TLAPS

\* A record whose fee status says there is a fee has one.
TicketOK == {r \in Ticket : r.FeeTxStatus # "none" => r.FeeTxHash \in FeeTxs}

Bucket == [Tickets -> TicketOK \union {Absent}]

\* The steps in which the goroutine of Run handles one ticket of its list.
Working == {"delete", "deleteAlt", "confirm", "feeSent", "feeRefused",
            "feeLost", "feeFinal", "add"}

UpdaterShape ==
    /\ upd.list \in Bucket
    /\ upd.pc \in Working => upd.cur \in Tickets /\ upd.list[upd.cur] # Absent
    /\ upd.pc \in {"fees", "feeSent", "feeRefused"} =>
            \A t \in Pending : upd.list[t].FeeTxStatus = "received"
    /\ upd.pc \in {"wallets", "feeLost", "feeFinal"} =>
            \A t \in Pending : upd.list[t].FeeTxStatus = "broadcast"
    /\ upd.pc = "add" =>
            \A t \in Pending : upd.list[t].FeeTxStatus =
                                  IF t = upd.cur THEN "confirmed" ELSE "broadcast"
    /\ upd.pc = "outcomes" => Pending \subseteq Spent

RequestShape(q) ==
    /\ req[q].rec \in TicketOK \union {Absent}
    /\ req[q].pc # "idle" \/ req[q].rec # Absent => req[q].t \in Tickets
    /\ req[q].pc \in {"renew", "insert", "pay", "send", "sent", "refused", "save", "wallets"} =>
            req[q].rec # Absent
    /\ req[q].pc \in {"send", "sent", "refused"} =>
            req[q].rec.FeeTxStatus = "received"

TypeInv ==
    /\ TypeOK
    /\ db \in Bucket
    /\ UpdaterShape
    /\ \A q \in Slots : RequestShape(q)

-----------------------------------------------------------------------------
\* The value for "no record" is no ticket and no record.
LEMMA AbsentFacts == Absent \notin Tickets /\ Absent \notin Ticket /\ NoTx \notin FeeTxs
BY DatabaseAssumption, AbsentAssumption

\* UpdateTicket keeps every record of the bucket well formed.
LEMMA UpdateType ==
    ASSUME NEW d \in Bucket, NEW t \in Tickets, NEW r \in TicketOK
    PROVE  UpdateTicket(d, t, r) \in Bucket
BY DEF UpdateTicket, Exists, Bucket

\* The invariant holds of the empty database before any request.
LEMMA TypeInit == Init => TypeInv
<1> SUFFICES ASSUME Init PROVE TypeInv
  OBVIOUS
<1> USE DEF Init
<1>1. TypeOK
  BY AbsentFacts DEF TypeOK, TicketBucket, IdleUpdater, IdleRequest, NotScanned,
     UpdaterState, RequestState, TicketLevel, FeeLevel
<1>2. db \in Bucket /\ UpdaterShape
  BY AbsentFacts DEF Bucket, UpdaterShape, IdleUpdater, Working, Pending
<1>3. \A q \in Slots : RequestShape(q)
  BY DEF RequestShape, IdleRequest
<1> QED
  BY <1>1, <1>2, <1>3 DEF TypeInv

\* Blocks, reorganizations, clients that publish a fee and the clock keep it.
LEMMA TypeEnv == TypeInv /\ Environment => TypeInv'
<1> SUFFICES ASSUME TypeInv, Environment PROVE TypeInv'
  OBVIOUS
<1> USE DEF TypeInv, TypeOK, database, chain, volatile, bounds, history
<1> DEFINE Same == UNCHANGED <<db, upd, req>> /\ Spent \subseteq Spent'
<1>1. Same => db' \in Bucket /\ UpdaterShape' /\ \A q \in Slots : RequestShape(q)'
  BY DEF UpdaterShape, RequestShape, Pending
<1>2. ASSUME NEW t \in Tickets, MineTicket(t) \/ SpendTicket(t) \/ DropTicket(t)
      PROVE  TypeInv'
  <2>1. Same
    BY <1>2, StateAssumption DEF MineTicket, SpendTicket, DropTicket, Spent, TicketOutcome
  <2>2. PICK level \in TicketLevel : ticketTx' = [ticketTx EXCEPT ![t] = level]
    BY <1>2, StateAssumption
       DEF MineTicket, SpendTicket, DropTicket, TicketLevel, Final, TicketOutcome
  <2>3. tipSpent' \subseteq Tickets
    BY <1>2 DEF MineTicket, SpendTicket, DropTicket
  <2>4. UNCHANGED <<database, feeTx, wallets, volatile, bounds, history>>
    BY <1>2 DEF MineTicket, SpendTicket, DropTicket
  <2>5. TypeOK'
    BY <2>2, <2>3, <2>4
  <2> QED
    BY <1>1, <2>1, <2>5
<1>3. ASSUME NEW f \in FeeTxs, MineFee(f) \/ DropFee(f) \/ PublishFee(f)
      PROVE  TypeInv'
  <2>1. Same
    BY <1>3 DEF MineFee, DropFee, PublishFee, Spent
  <2>2. PICK level \in FeeLevel : feeTx' = [feeTx EXCEPT ![f] = level]
    BY <1>3 DEF MineFee, DropFee, PublishFee, FeeLevel
  <2>3. tipSpent' \subseteq Tickets
    BY <1>3 DEF MineFee, DropFee, PublishFee
  <2>4. UNCHANGED <<database, ticketTx, wallets, volatile, bounds, history>>
    BY <1>3 DEF MineFee, DropFee, PublishFee
  <2>5. TypeOK'
    BY <2>2, <2>3, <2>4
  <2> QED
    BY <1>1, <2>1, <2>5
<1>4. ASSUME OtherBlock \/ Tick PROVE TypeInv'
  <2>1. Same
    BY <1>4 DEF OtherBlock, Tick, Spent
  <2>2. TypeOK'
    BY <1>4 DEF OtherBlock, Tick
  <2> QED
    BY <1>1, <2>1, <2>2
<1> QED
  BY <1>2, <1>3, <1>4 DEF Environment

-----------------------------------------------------------------------------
UpdaterType == [pc : UpdaterState, list : TicketBucket,
                cur : Tickets \union {Absent},
                clients : SUBSET Wallets, left : SUBSET Wallets]

\* A well formed bucket is one of the type.
LEMMA BucketType == Bucket \subseteq TicketBucket
BY DEF Bucket, TicketBucket, TicketOK

\* The moves of the goroutine of Run between its steps.
LEMMA StartPhaseMove ==
    ASSUME TypeInv, NEW pc \in UpdaterState, NEW S, StartPhase(pc, S)
    PROVE  /\ upd' \in UpdaterType /\ upd'.pc = pc /\ upd'.list \in Bucket
           /\ upd'.list = [t \in Tickets |-> IF t \in S THEN db[t] ELSE Absent]
<1>1. [t \in Tickets |-> IF t \in S THEN db[t] ELSE Absent] \in Bucket
  BY DEF TypeInv, Bucket
<1> QED
  BY <1>1, BucketType DEF StartPhase, IdleUpdater, UpdaterType, UpdaterState

\* The idle goroutine of Run is well formed.
LEMMA IdleMove == upd' = IdleUpdater => upd' \in UpdaterType /\ UpdaterShape'
BY AbsentFacts DEF IdleUpdater, UpdaterType, UpdaterState, UpdaterShape, Bucket, TicketBucket,
   Working, Pending

\* Taking a ticket of the list changes neither the list nor its tickets.
LEMMA HandleMove ==
    ASSUME TypeInv, NEW t \in Pending, NEW pc \in UpdaterState, Handle(t, pc)
    PROVE  /\ upd' \in UpdaterType /\ upd'.list = upd.list
           /\ upd'.cur = t /\ upd'.pc = pc
BY DEF Handle, TypeInv, TypeOK, UpdaterType, Pending

\* Being done with a ticket only takes it off the list.
LEMMA ContinueMove ==
    ASSUME TypeInv, NEW t \in Tickets, NEW pc \in UpdaterState, Continue(t, pc)
    PROVE  /\ upd' \in UpdaterType /\ upd'.pc = pc /\ upd'.list \in Bucket
           /\ upd'.list = [upd.list EXCEPT ![t] = Absent]
BY DEF Continue, TypeInv, TypeOK, UpdaterType, TicketBucket, UpdaterShape, Bucket

\* What is left when the database and the goroutine of Run are dealt with.
LEMMA UpdaterStep ==
    ASSUME TypeInv, db' \in Bucket, upd' \in UpdaterType, UpdaterShape',
           wallets' \in [Wallets -> [Tickets -> WalletTicket \union {Absent}]],
           scan' \in [set : BOOLEAN, behind : SUBSET Tickets],
           alt' \in [Tickets -> AltSignAddrs \union {Absent}],
           feeTx' \in [FeeTxs -> FeeLevel], sent' \subseteq FeeTxs, faults' \in Nat,
           UNCHANGED <<changes, lastAddr, ticketTx, tipSpent, req, clock, crashes,
                       issued, acked, altAcked>>
    PROVE  TypeInv'
<1>1. TypeOK'
  BY BucketType DEF TypeInv, TypeOK, UpdaterType
<1>2. \A q \in Slots : RequestShape(q)'
  BY DEF TypeInv, RequestShape
<1> QED
  BY <1>1, <1>2 DEF TypeInv

\* Counting a fault keeps the count a number.
LEMMA FaultType == TypeInv /\ Fault => faults' \in Nat
BY DEF TypeInv, TypeOK, Fault

-----------------------------------------------------------------------------
\* updateUnconfirmed keeps the invariant.
LEMMA TypeConfirmations ==
    ASSUME TypeInv,
           \/ StartUpdate \/ (\E t \in Tickets : LookUpTicket(t))
           \/ RemoveTicket \/ RemoveAltSignAddr \/ ConfirmTicket
    PROVE  TypeInv'
<1> USE DEF Step, database, chain, volatile, bounds, history
<1>1. CASE StartUpdate
  <2>1. "unconfirmed" \in UpdaterState
    BY DEF UpdaterState
  <2>2. upd' \in UpdaterType /\ UpdaterShape'
    BY <1>1, <2>1, StartPhaseMove DEF StartUpdate, UpdaterShape, Working
  <2> QED
    BY <1>1, <2>2, UpdaterStep DEF StartUpdate, TypeInv, TypeOK
<1>2. ASSUME NEW t \in Tickets, LookUpTicket(t) PROVE TypeInv'
  <2>1. {"delete", "confirm", "unconfirmed"} \subseteq UpdaterState
    BY DEF UpdaterState
  <2>2. upd' \in UpdaterType /\ UpdaterShape'
    <3>1. CASE Handle(t, "delete") \/ Handle(t, "confirm")
      BY <1>2, <2>1, <3>1, HandleMove DEF LookUpTicket, UpdaterShape, TypeInv, Pending
    <3>2. CASE Continue(t, "unconfirmed")
      BY <2>1, <3>2, ContinueMove DEF UpdaterShape, Working
    <3> QED
      BY <1>2, <3>1, <3>2 DEF LookUpTicket
  <2> QED
    BY <1>2, <2>2, FaultType, UpdaterStep DEF LookUpTicket, TypeInv, TypeOK
<1>3. CASE RemoveTicket
  <2>1. db' \in Bucket
    BY <1>3 DEF RemoveTicket, DeleteTicket, TypeInv, Bucket
  <2>2. upd' \in UpdaterType /\ upd'.pc = "deleteAlt" /\ upd'.list = upd.list /\ upd'.cur = upd.cur
    BY <1>3 DEF RemoveTicket, TypeInv, TypeOK, UpdaterType, UpdaterState
  <2>3. UpdaterShape'
    BY <1>3, <2>2 DEF RemoveTicket, TypeInv, UpdaterShape, Working
  <2> QED
    BY <1>3, <2>1, <2>2, <2>3, UpdaterStep DEF RemoveTicket, TypeInv, TypeOK
<1>4. CASE RemoveAltSignAddr
  <2>1. "unconfirmed" \in UpdaterState /\ upd.cur \in Tickets
    BY <1>4 DEF UpdaterState, RemoveAltSignAddr, TypeInv, UpdaterShape, Working
  <2>2. upd' \in UpdaterType /\ UpdaterShape'
    BY <1>4, <2>1, ContinueMove DEF RemoveAltSignAddr, UpdaterShape, Working
  <2>3. alt' \in [Tickets -> AltSignAddrs \union {Absent}]
    BY <1>4 DEF RemoveAltSignAddr, DeleteAltSignAddr, TypeInv, TypeOK
  <2> QED
    BY <1>4, <2>2, <2>3, UpdaterStep DEF RemoveAltSignAddr, TypeInv, TypeOK
<1>5. CASE ConfirmTicket
  <2>1. "unconfirmed" \in UpdaterState /\ upd.cur \in Tickets /\ CurRecord \in TicketOK
    BY <1>5 DEF UpdaterState, ConfirmTicket, CurRecord, TypeInv, UpdaterShape, Working, Bucket
  <2>2. [CurRecord EXCEPT !.Confirmed = TRUE] \in TicketOK
    BY <2>1 DEF TicketOK, Ticket
  <2>3. db' \in Bucket
    BY <1>5, <2>1, <2>2, UpdateType DEF ConfirmTicket, TypeInv
  <2>4. upd' \in UpdaterType /\ UpdaterShape'
    BY <1>5, <2>1, ContinueMove DEF ConfirmTicket, UpdaterShape, Working
  <2> QED
    BY <1>5, <2>3, <2>4, UpdaterStep DEF ConfirmTicket, TypeInv, TypeOK
<1> QED
  BY <1>1, <1>2, <1>3, <1>4, <1>5

\* broadcastFees keeps the invariant.
LEMMA TypeFees ==
    ASSUME TypeInv,
           StartBroadcastFees \/ (\E t \in Tickets : SendPendingFee(t)) \/ SaveFeeSent
    PROVE  TypeInv'
<1> USE DEF Step, database, chain, volatile, bounds, history
<1>1. CASE StartBroadcastFees
  <2>1. "fees" \in UpdaterState
    BY DEF UpdaterState
  <2>2. upd' \in UpdaterType /\ upd'.list \in Bucket /\ upd'.pc = "fees"
        /\ upd'.list = [t \in Tickets |-> IF t \in GetPendingFees(db) THEN db[t] ELSE Absent]
    BY <1>1, <2>1, StartPhaseMove DEF StartBroadcastFees
  <2>3. UpdaterShape'
    BY <2>2 DEF UpdaterShape, Working, Pending, GetPendingFees
  <2> QED
    BY <1>1, <2>2, <2>3, UpdaterStep DEF StartBroadcastFees, TypeInv, TypeOK
<1>2. ASSUME NEW t \in Tickets, SendPendingFee(t) PROVE TypeInv'
  <2>1. {"feeSent", "feeRefused"} \subseteq UpdaterState
    BY DEF UpdaterState
  <2>2. upd' \in UpdaterType /\ upd'.list = upd.list /\ upd'.cur = t
        /\ upd'.pc \in {"feeSent", "feeRefused"}
    BY <1>2, <2>1, HandleMove DEF SendPendingFee
  <2>3. UpdaterShape'
    BY <1>2, <2>2 DEF SendPendingFee, TypeInv, UpdaterShape, Pending
  <2>4. upd.list[t].FeeTxHash \in FeeTxs
    BY <1>2 DEF SendPendingFee, TypeInv, UpdaterShape, Pending, Bucket, TicketOK
  <2>5. feeTx' \in [FeeTxs -> FeeLevel] /\ sent' \subseteq FeeTxs
    BY <1>2, <2>4 DEF SendPendingFee, SendFee, TypeInv, TypeOK, FeeLevel
  <2> QED
    BY <1>2, <2>2, <2>3, <2>5, UpdaterStep DEF SendPendingFee, TypeInv, TypeOK
<1>3. CASE SaveFeeSent
  <2> DEFINE s == IF upd.pc = "feeSent" THEN "broadcast" ELSE "error"
  <2>1. "fees" \in UpdaterState /\ upd.cur \in Tickets /\ CurRecord \in TicketOK
        /\ CurRecord.FeeTxHash \in FeeTxs
    BY <1>3 DEF UpdaterState, SaveFeeSent, CurRecord, TypeInv, UpdaterShape, Working, Bucket,
                Pending, TicketOK
  <2>2. [CurRecord EXCEPT !.FeeTxStatus = s] \in TicketOK
    BY <2>1 DEF TicketOK, Ticket, FeeStatus
  <2>3. db' \in Bucket
    BY <1>3, <2>1, <2>2, UpdateType DEF SaveFeeSent, TypeInv
  <2>4. /\ upd' \in UpdaterType /\ upd'.pc = "fees" /\ upd'.list \in Bucket
        /\ upd'.list = [upd.list EXCEPT ![upd.cur] = Absent]
    BY <1>3, <2>1, ContinueMove DEF SaveFeeSent
  <2>5. upd.list \in Bucket /\ \A t \in Pending : upd.list[t].FeeTxStatus = "received"
    BY <1>3 DEF SaveFeeSent, TypeInv, UpdaterShape
  <2>6. \A t \in Tickets : upd'.list[t] # Absent => upd.list[t] = upd'.list[t]
    BY <2>1, <2>4, <2>5 DEF Bucket
  <2>7. \A t \in Pending' : upd'.list[t].FeeTxStatus = "received"
    BY <2>5, <2>6 DEF Pending
  <2>8. UpdaterShape'
    BY <2>4, <2>7 DEF UpdaterShape, Working
  <2> QED
    BY <1>3, <2>3, <2>4, <2>8, UpdaterStep DEF SaveFeeSent, TypeInv, TypeOK
<1> QED
  BY <1>1, <1>2, <1>3

\* What a wallet holds stays of its type.
LEMMA WalletChange ==
    ASSUME NEW W \in [Tickets -> WalletTicket \union {Absent}], NEW t \in Tickets
    PROVE  /\ AddTicketForVoting(W, t) \in [Tickets -> WalletTicket \union {Absent}]
           /\ \A r \in TicketOK, ok \in BOOLEAN :
                SetVoteChoice(W, t, r, ok) \in [Tickets -> WalletTicket \union {Absent}]
<1>1. [VoteChoices |-> 0] \in WalletTicket
  BY DEF WalletTicket
<1>2. AddTicketForVoting(W, t) \in [Tickets -> WalletTicket \union {Absent}]
  BY <1>1 DEF AddTicketForVoting
<1>3. ASSUME NEW r \in TicketOK, NEW ok \in BOOLEAN
      PROVE  SetVoteChoice(W, t, r, ok) \in [Tickets -> WalletTicket \union {Absent}]
  <2>1. CASE W[t] = Absent
    BY <2>1 DEF SetVoteChoice
  <2>2. CASE W[t] # Absent
    <3>1. [VoteChoices |-> r.VoteChoices] \in WalletTicket
      BY DEF TicketOK, Ticket, WalletTicket
    <3> QED
      BY <2>2, <3>1 DEF SetVoteChoice
  <2> QED
    BY <2>1, <2>2
<1> QED
  BY <1>2, <1>3

\* addToWallets, up to the calls to the wallets, keeps the invariant.
LEMMA TypeAddToWallets ==
    ASSUME TypeInv,
           \/ StartAddToWallets \/ (\E t \in Tickets : LookUpFee(t))
           \/ SaveFeeLost \/ SaveFeeFinal
    PROVE  TypeInv'
<1> USE DEF Step, database, chain, volatile, bounds, history
<1>1. CASE StartAddToWallets
  <2>1. PICK C \in SUBSET Wallets :
            /\ Connect(C)
            /\ upd' = [IdleUpdater EXCEPT
                         !.pc = "wallets", !.clients = C,
                         !.list = [t \in Tickets |->
                                     IF C # {} /\ t \in GetUnconfirmedFees(db)
                                     THEN db[t] ELSE Absent]]
    BY <1>1 DEF StartAddToWallets
  <2> DEFINE list == [t \in Tickets |-> IF C # {} /\ t \in GetUnconfirmedFees(db)
                                        THEN db[t] ELSE Absent]
  <2>2. list \in Bucket
    BY DEF TypeInv, Bucket
  <2>3. upd' \in UpdaterType /\ upd'.list = list /\ upd'.pc = "wallets"
    BY <2>1, <2>2, BucketType DEF IdleUpdater, UpdaterType, UpdaterState
  <2>4. UpdaterShape'
    BY <2>2, <2>3 DEF UpdaterShape, Working, Pending, GetUnconfirmedFees
  <2>5. faults' \in Nat
    BY <2>1, FaultType DEF Connect, TypeInv, TypeOK
  <2> QED
    BY <1>1, <2>3, <2>4, <2>5, UpdaterStep DEF StartAddToWallets, TypeInv, TypeOK
<1>2. ASSUME NEW t \in Tickets, LookUpFee(t) PROVE TypeInv'
  <2>1. {"feeLost", "feeFinal", "wallets"} \subseteq UpdaterState
    BY DEF UpdaterState
  <2>2. upd' \in UpdaterType /\ UpdaterShape'
    <3>1. CASE Handle(t, "feeLost") \/ Handle(t, "feeFinal")
      BY <1>2, <2>1, <3>1, HandleMove DEF LookUpFee, UpdaterShape, TypeInv, Pending
    <3>2. CASE Continue(t, "wallets")
      BY <1>2, <2>1, <3>2, ContinueMove, AbsentFacts
         DEF LookUpFee, TypeInv, UpdaterShape, Working, Pending, Bucket
    <3> QED
      BY <1>2, <3>1, <3>2 DEF LookUpFee
  <2>3. faults' \in Nat
    BY <1>2, FaultType DEF LookUpFee, TypeInv, TypeOK
  <2> QED
    BY <1>2, <2>2, <2>3, UpdaterStep DEF LookUpFee, TypeInv, TypeOK
<1>3. ASSUME upd.pc \in {"feeLost", "feeFinal"}
      PROVE  /\ upd.cur \in Tickets /\ CurRecord \in TicketOK
             /\ CurRecord.FeeTxHash \in FeeTxs
  BY <1>3 DEF CurRecord, TypeInv, UpdaterShape, Working, Bucket, Pending, TicketOK
<1>4. ASSUME upd.pc \in {"feeLost", "feeFinal"}, Continue(upd.cur, "wallets")
      PROVE  upd' \in UpdaterType /\ UpdaterShape'
  <2>1. "wallets" \in UpdaterState
    BY DEF UpdaterState
  <2>2. /\ upd' \in UpdaterType /\ upd'.pc = "wallets" /\ upd'.list \in Bucket
        /\ upd'.list = [upd.list EXCEPT ![upd.cur] = Absent]
    BY <1>3, <1>4, <2>1, ContinueMove
  <2>3. upd.list \in Bucket /\ \A t \in Pending : upd.list[t].FeeTxStatus = "broadcast"
    BY <1>4 DEF TypeInv, UpdaterShape
  <2>4. \A t \in Tickets : upd'.list[t] # Absent => upd.list[t] = upd'.list[t]
    BY <1>3, <1>4, <2>2, <2>3 DEF Bucket
  <2>5. \A t \in Pending' : upd'.list[t].FeeTxStatus = "broadcast"
    BY <2>3, <2>4 DEF Pending
  <2> QED
    BY <2>2, <2>5 DEF UpdaterShape, Working
<1>5. CASE SaveFeeLost
  <2>1. [CurRecord EXCEPT !.FeeTxStatus = "error"] \in TicketOK
    BY <1>3, <1>5 DEF SaveFeeLost, TicketOK, Ticket, FeeStatus
  <2>2. db' \in Bucket
    BY <1>3, <1>5, <2>1, UpdateType DEF SaveFeeLost, TypeInv
  <2> QED
    BY <1>4, <1>5, <2>2, UpdaterStep DEF SaveFeeLost, TypeInv, TypeOK
<1>6. CASE SaveFeeFinal
  <2> DEFINE paid == [CurRecord EXCEPT !.FeeTxHex = FALSE, !.FeeTxStatus = "confirmed"]
  <2>1. paid \in TicketOK /\ paid.FeeTxStatus = "confirmed"
    BY <1>3, <1>6 DEF SaveFeeFinal, TicketOK, Ticket, FeeStatus
  <2> HIDE DEF paid
  <2>2. db' \in Bucket
    BY <1>3, <1>6, <2>1, UpdateType DEF SaveFeeFinal, TypeInv, paid
  <2>3. CASE upd' = [upd EXCEPT !.pc = "add", !.list[upd.cur] = paid, !.left = upd.clients]
    <3>1. upd' \in UpdaterType /\ upd'.pc = "add" /\ upd'.cur = upd.cur
          /\ upd'.list = [upd.list EXCEPT ![upd.cur] = paid] /\ upd'.list \in Bucket
      BY <1>3, <1>6, <2>1, <2>3 DEF SaveFeeFinal, TypeInv, TypeOK, UpdaterType, UpdaterState,
         UpdaterShape, Bucket, TicketBucket, TicketOK
    <3>2. UpdaterShape'
      BY <1>3, <1>6, <2>1, <3>1, AbsentFacts
         DEF SaveFeeFinal, TypeInv, UpdaterShape, Working, Pending, Bucket, TicketOK
    <3> QED
      BY <1>6, <2>2, <3>1, <3>2, FaultType, UpdaterStep DEF SaveFeeFinal, TypeInv, TypeOK
  <2>4. CASE Continue(upd.cur, "wallets")
    BY <1>4, <1>6, <2>2, <2>4, FaultType, UpdaterStep DEF SaveFeeFinal, TypeInv, TypeOK
  <2> QED
    BY <1>6, <2>3, <2>4 DEF SaveFeeFinal, paid
<1> QED
  BY <1>1, <1>2, <1>5, <1>6

\* Counting the faults of the calls that set choices keeps the count a number.
LEMMA ChoiceFaults ==
    ASSUME TypeInv, NEW w, NEW ok, ChoiceCall(w, ok)
    PROVE  faults' \in Nat
BY FaultType DEF ChoiceCall, TypeInv, TypeOK

\* addToWallets keeps the invariant when it calls a wallet, also when it saves
\* the record without a stale agenda.
LEMMA TypeAddToWallet ==
    ASSUME TypeInv, (\E w \in Wallets : AddToWallet(w)) \/ TicketAdded
    PROVE  TypeInv'
<1> USE DEF Step, database, chain, volatile, bounds, history
<1>1. ASSUME upd.pc = "add"
      PROVE  /\ upd.cur \in Tickets /\ CurRecord \in TicketOK
             /\ CurRecord.FeeTxStatus = "confirmed"
  BY <1>1 DEF CurRecord, TypeInv, UpdaterShape, Working, Bucket, Pending
<1>2. ASSUME NEW w \in Wallets, AddToWallet(w) PROVE TypeInv'
  <2> DEFINE r == [CurRecord EXCEPT !.VoteChoices = 0]
  <2>1. r \in TicketOK /\ r.FeeTxStatus = "confirmed"
    BY <1>1, <1>2 DEF AddToWallet, TicketOK, Ticket
  <2> HIDE DEF r
  <2>2. wallets' \in [Wallets -> [Tickets -> WalletTicket \union {Absent}]] /\ faults' \in Nat
    <3>1. CASE UNCHANGED wallets
      BY <1>2, <3>1, ChoiceFaults, FaultType DEF AddToWallet, TypeInv, TypeOK
    <3>2. ASSUME NEW ok \in BOOLEAN, ChoiceCall(w, ok),
                 wallets' = [wallets EXCEPT ![w] =
                   SetVoteChoice(AddTicketForVoting(@, upd.cur), upd.cur, CurRecord, ok)]
          PROVE  wallets' \in [Wallets -> [Tickets -> WalletTicket \union {Absent}]]
                 /\ faults' \in Nat
      <4>1. wallets[w] \in [Tickets -> WalletTicket \union {Absent}]
        BY DEF TypeInv, TypeOK
      <4>2. AddTicketForVoting(wallets[w], upd.cur) \in [Tickets -> WalletTicket \union {Absent}]
        BY <1>1, <1>2, <4>1, WalletChange DEF AddToWallet
      <4>3. SetVoteChoice(AddTicketForVoting(wallets[w], upd.cur), upd.cur, CurRecord, ok)
              \in [Tickets -> WalletTicket \union {Absent}]
        BY <1>1, <1>2, <4>2, WalletChange DEF AddToWallet
      <4> QED
        BY <3>2, <4>3, ChoiceFaults DEF TypeInv, TypeOK
    <3> QED
      BY <1>2, <3>1, <3>2 DEF AddToWallet
  <2>3. CASE UNCHANGED db /\ upd' = [upd EXCEPT !.left = @ \ {w}]
    <3>1. upd' \in UpdaterType /\ upd'.pc = upd.pc /\ upd'.list = upd.list /\ upd'.cur = upd.cur
      BY <2>3 DEF TypeInv, TypeOK, UpdaterType
    <3>a. UNCHANGED <<db, ticketTx>> /\ db' \in Bucket
      BY <1>2, <2>3 DEF AddToWallet, TypeInv
    <3>2. db' \in Bucket /\ UpdaterShape'
      BY <3>1, <3>a DEF TypeInv, UpdaterShape, Pending, Spent
    <3> QED
      BY <1>2, <2>2, <3>1, <3>2, UpdaterStep DEF AddToWallet, TypeInv, TypeOK
  <2>4. CASE /\ db' = UpdateTicket(db, upd.cur, r)
             /\ upd' = [upd EXCEPT !.left = @ \ {w}, !.list[upd.cur] = r]
    <3>1. /\ upd' \in UpdaterType /\ upd'.pc = upd.pc /\ upd'.cur = upd.cur
          /\ upd'.list = [upd.list EXCEPT ![upd.cur] = r] /\ upd'.list \in Bucket
      <4>a. upd.pc = "add"
        BY <1>2 DEF AddToWallet
      <4>1. upd \in UpdaterType /\ upd.list \in Bucket /\ upd.cur \in Tickets
        BY <1>1, <4>a DEF TypeInv, TypeOK, UpdaterType, UpdaterShape
      <4> DEFINE list == [upd.list EXCEPT ![upd.cur] = r]
                 left == upd.left \ {w}
      <4>2. list \in Bucket /\ list \in TicketBucket /\ left \in SUBSET Wallets
        BY <1>1, <2>1, <4>1 DEF Bucket, TicketBucket, TicketOK, UpdaterType
      <4>3. upd' = [upd EXCEPT !.left = left, !.list = list]
        BY <2>4, <4>1 DEF UpdaterType
      <4>4. list = [upd.list EXCEPT ![upd.cur] = r]
        OBVIOUS
      <4> HIDE DEF list, left
      <4> QED
        BY ONLY <4>1, <4>2, <4>3, <4>4 DEF UpdaterType
    <3>2. db' \in Bucket
      BY <1>1, <1>2, <2>1, <2>4, UpdateType DEF AddToWallet, TypeInv
    <3>a. upd.pc = "add"
      BY <1>2 DEF AddToWallet
    <3>b. r # Absent
      BY <2>1, AbsentFacts DEF TicketOK
    <3>c. upd'.list[upd.cur] = r /\ \A t \in Tickets : t # upd.cur => upd'.list[t] = upd.list[t]
      BY <1>1, <3>1, <3>a DEF TypeInv, UpdaterShape, Bucket
    <3>d. \A t \in Tickets : upd'.list[t] # Absent =>
              upd'.list[t].FeeTxStatus = IF t = upd.cur THEN "confirmed" ELSE "broadcast"
      BY <2>1, <3>a, <3>c DEF TypeInv, UpdaterShape, Pending
    <3>3. UpdaterShape'
      BY <1>1, <3>1, <3>a, <3>b, <3>c, <3>d DEF UpdaterShape, Working, Pending
    <3> QED
      BY <1>2, <2>2, <3>1, <3>2, <3>3, UpdaterStep DEF AddToWallet, TypeInv, TypeOK
  <2> QED
    BY <1>2, <2>3, <2>4 DEF AddToWallet, r
<1>3. CASE TicketAdded
  <2>1. "wallets" \in UpdaterState /\ upd.cur \in Tickets
    BY <1>1, <1>3 DEF UpdaterState, TicketAdded
  <2>2. /\ upd' \in UpdaterType /\ upd'.pc = "wallets" /\ upd'.list \in Bucket
        /\ upd'.list = [upd.list EXCEPT ![upd.cur] = Absent]
    BY <1>3, <2>1, ContinueMove DEF TicketAdded
  <2>3. upd.list \in Bucket /\ \A t \in Pending : t # upd.cur => upd.list[t].FeeTxStatus = "broadcast"
    BY <1>3 DEF TicketAdded, TypeInv, UpdaterShape
  <2>4. \A t \in Tickets : upd'.list[t] # Absent => t # upd.cur /\ upd.list[t] = upd'.list[t]
    BY <2>2, <2>3 DEF Bucket
  <2>5. \A t \in Pending' : upd'.list[t].FeeTxStatus = "broadcast"
    BY <2>3, <2>4 DEF Pending
  <2>6. UpdaterShape'
    BY <2>2, <2>5 DEF UpdaterShape, Working
  <2> QED
    BY <1>3, <2>2, <2>6, UpdaterStep DEF TicketAdded, TypeInv, TypeOK
<1> QED
  BY <1>2, <1>3

\* setOutcomes keeps the invariant.
LEMMA TypeOutcomes ==
    ASSUME TypeInv, SetOutcomes \/ (\E t \in Tickets : SaveOutcome(t)) \/ EndUpdate
    PROVE  TypeInv'
<1> USE DEF Step, database, chain, volatile, bounds, history
<1>1. CASE SetOutcomes
  <2> DEFINE found == (GetVotableTickets(db) \intersect Spent) \ scan.behind
             list == [t \in Tickets |-> IF t \in found THEN db[t] ELSE Absent]
  <2>1. {"idle", "outcomes"} \subseteq UpdaterState
    BY DEF UpdaterState
  <2>2. UNCHANGED ticketTx /\ (StartPhase("outcomes", found) \/ StartPhase("idle", {}))
    BY <1>1 DEF SetOutcomes
  <2> HIDE DEF found
  <2>3. upd' \in UpdaterType /\ UpdaterShape'
    <3>1. CASE StartPhase("idle", {})
      BY <2>1, <3>1, StartPhaseMove DEF UpdaterShape, Working
    <3>2. CASE StartPhase("outcomes", found)
      <4>1. upd' \in UpdaterType /\ upd'.pc = "outcomes" /\ upd'.list \in Bucket /\ upd'.list = list
        BY <2>1, <3>2, StartPhaseMove
      <4>2. Pending' \subseteq Spent'
        BY <2>2, <4>1 DEF Pending, Spent, found
      <4> QED
        BY <4>1, <4>2 DEF UpdaterShape, Working
    <3> QED
      BY <2>2, <3>1, <3>2
  <2>4. scan' \in [set : BOOLEAN, behind : SUBSET Tickets]
    <3>1. Spent \ tipSpent \in SUBSET Tickets
      BY DEF Spent
    <3>2. scan' = [set |-> TRUE, behind |-> Spent \ tipSpent] \/ UNCHANGED scan
      BY <1>1 DEF SetOutcomes
    <3>3. \A X \in SUBSET Tickets :
            [set |-> TRUE, behind |-> X] \in [set : BOOLEAN, behind : SUBSET Tickets]
      OBVIOUS
    <3>4. scan \in [set : BOOLEAN, behind : SUBSET Tickets]
      BY DEF TypeInv, TypeOK
    <3> QED
      BY <3>1, <3>2, <3>3, <3>4
  <2>5. faults' \in Nat
    BY <1>1, FaultType DEF SetOutcomes, TypeInv, TypeOK
  <2> QED
    BY <1>1, <2>3, <2>4, <2>5, UpdaterStep DEF SetOutcomes, TypeInv, TypeOK
<1>2. ASSUME NEW t \in Tickets, SaveOutcome(t) PROVE TypeInv'
  <2>1. "outcomes" \in UpdaterState /\ upd.list[t] \in TicketOK
    BY <1>2 DEF UpdaterState, SaveOutcome, TypeInv, UpdaterShape, Bucket, Pending
  <2>2. \A o \in TicketOutcome : [upd.list[t] EXCEPT !.Outcome = o] \in TicketOK
    BY <2>1 DEF TicketOK, Ticket
  <2>3. OutcomeOf(t) \subseteq TicketOutcome
    BY DEF OutcomeOf, TicketOutcome
  <2>4. db' \in Bucket
    BY <1>2, <2>1, <2>2, <2>3, UpdateType DEF SaveOutcome, TypeInv
  <2>5. upd' \in UpdaterType /\ UpdaterShape'
    <3>1. /\ upd' \in UpdaterType /\ upd'.pc = "outcomes" /\ upd'.list \in Bucket
          /\ upd'.list = [upd.list EXCEPT ![t] = Absent]
      BY <1>2, <2>1, ContinueMove DEF SaveOutcome
    <3>2. Pending' \subseteq Pending /\ UNCHANGED Spent
      BY <1>2, <3>1, AbsentFacts DEF SaveOutcome, Pending, Spent, TypeInv, UpdaterShape, Bucket
    <3> QED
      BY <1>2, <3>1, <3>2 DEF SaveOutcome, TypeInv, UpdaterShape, Working
  <2> QED
    BY <1>2, <2>4, <2>5, UpdaterStep DEF SaveOutcome, TypeInv, TypeOK
<1>3. CASE EndUpdate
  BY <1>3, IdleMove, UpdaterStep DEF EndUpdate, TypeInv, TypeOK
<1> QED
  BY <1>1, <1>2, <1>3

\* checkWalletConsistency keeps the invariant.
LEMMA TypeConsistencyCheck ==
    ASSUME TypeInv, ConsistencyCheck
    PROVE  TypeInv'
<1> USE DEF Step, database, chain, volatile, bounds, history
<1> DEFINE WalletTickets == [Tickets -> WalletTicket \union {Absent}]
<1>1. CASE StartConsistencyCheck
  <2> DEFINE list == [t \in Tickets |-> IF t \in GetVotableTickets(db) THEN db[t] ELSE Absent]
  <2>1. PICK C \in SUBSET Wallets \ {{}} :
            /\ Connect(C)
            /\ upd' = [IdleUpdater EXCEPT !.pc = "missing", !.clients = C, !.left = C,
                                          !.list = list]
    BY <1>1 DEF StartConsistencyCheck
  <2>2. list \in Bucket
    BY DEF TypeInv, Bucket
  <2>3. upd' \in UpdaterType /\ upd'.list = list /\ upd'.pc = "missing"
    BY <2>1, <2>2, BucketType DEF IdleUpdater, UpdaterType, UpdaterState
  <2>4. UpdaterShape'
    BY <2>2, <2>3 DEF UpdaterShape, Working
  <2>5. faults' \in Nat
    BY <2>1, FaultType DEF Connect, TypeInv, TypeOK
  <2> QED
    BY <1>1, <2>3, <2>4, <2>5, UpdaterStep DEF StartConsistencyCheck, TypeInv, TypeOK
<1>2. ASSUME NEW w \in Wallets, AddMissingTickets(w) PROVE TypeInv'
  <2>1. wallets[w] \in WalletTickets
    BY DEF TypeInv, TypeOK
  <2>2. ASSUME NEW S PROVE [t \in Tickets |->
               IF t \in S THEN AddTicketForVoting(wallets[w], t)[t] ELSE wallets[w][t]]
               \in WalletTickets
    <3>1. \A t \in Tickets : AddTicketForVoting(wallets[w], t) \in WalletTickets
      BY <2>1, WalletChange
    <3> QED
      BY <2>1, <3>1
  <2>3. wallets' \in [Wallets -> WalletTickets] /\ faults' \in Nat
    BY <1>2, <2>2, FaultType DEF AddMissingTickets, TypeInv, TypeOK
  <2>4. /\ upd' \in UpdaterType /\ upd'.pc = "missing"
        /\ upd'.list = upd.list /\ upd.list \in Bucket
    BY <1>2 DEF AddMissingTickets, TypeInv, TypeOK, UpdaterType, UpdaterShape
  <2>5. UpdaterShape'
    BY <2>4 DEF UpdaterShape, Working
  <2> QED
    BY <1>2, <2>3, <2>4, <2>5, UpdaterStep DEF AddMissingTickets, TypeInv, TypeOK
<1>3. CASE StartChoicesCheck
  <2>1. /\ upd' \in UpdaterType /\ upd'.pc = "choices"
        /\ upd'.list = upd.list /\ upd.list \in Bucket
    BY <1>3 DEF StartChoicesCheck, TypeInv, TypeOK, UpdaterType, UpdaterShape, UpdaterState
  <2>2. UpdaterShape'
    BY <2>1 DEF UpdaterShape, Working
  <2> QED
    BY <1>3, <2>1, <2>2, UpdaterStep DEF StartChoicesCheck, TypeInv, TypeOK
<1>4. ASSUME NEW w \in Wallets, CheckChoices(w) PROVE TypeInv'
  <2> DEFINE wrong == WrongChoices(w)
             removed(t) == [upd.list[t] EXCEPT !.VoteChoices = 0]
             list == [t \in Tickets |-> IF t \in wrong THEN removed(t) ELSE upd.list[t]]
             given(S) == [t \in Tickets |-> IF t \in S
                             THEN SetVoteChoice(wallets[w], t, upd.list[t], TRUE)[t]
                             ELSE wallets[w][t]]
  <2>1. \A t \in wrong : t \in Tickets /\ upd.list[t] \in TicketOK
    BY DEF WrongChoices, Pending, TypeInv, UpdaterShape, Bucket
  <2>2. \A t \in wrong : removed(t) \in TicketOK
    BY <2>1 DEF TicketOK, Ticket
  <2>3. wallets[w] \in WalletTickets
    BY DEF TypeInv, TypeOK
  <2>4. ASSUME NEW S \in SUBSET wrong PROVE given(S) \in WalletTickets
    <3>1. \A t \in S : SetVoteChoice(wallets[w], t, upd.list[t], TRUE) \in WalletTickets
      BY <2>1, <2>3, WalletChange
    <3> QED
      BY <2>3, <3>1
  <2>5. list \in Bucket
    BY <2>2 DEF TypeInv, UpdaterShape, Bucket
  <2>6. [t \in Tickets |-> IF t \in wrong THEN UpdateTicket(db, t, removed(t))[t] ELSE db[t]]
          \in Bucket
    BY <2>1, <2>2, UpdateType DEF TypeInv, Bucket
  <2> HIDE DEF wrong, removed, list, given
  <2>7. wallets' \in [Wallets -> WalletTickets]
    <3>1. \/ UNCHANGED wallets
          \/ \E S \in SUBSET wrong : wallets' = [wallets EXCEPT ![w] = given(S)]
      BY <1>4 DEF CheckChoices, wrong, given
    <3>2. wallets \in [Wallets -> WalletTickets]
      BY DEF TypeInv, TypeOK
    <3> QED
      BY <2>4, <3>1, <3>2
  <2>8. db' \in Bucket /\ faults' \in Nat
    BY <1>4, <2>6, FaultType DEF CheckChoices, TypeInv, TypeOK, wrong, removed
  <2>9. \/ upd' = [upd EXCEPT !.left = @ \ {w}, !.list = list]
        \/ upd' = [upd EXCEPT !.left = @ \ {w}]
    BY <1>4 DEF CheckChoices, wrong, removed, list
  <2>10. /\ upd' \in UpdaterType /\ upd'.pc = "choices" /\ upd'.list \in Bucket
    <3>1. upd \in UpdaterType /\ upd.pc = "choices" /\ upd.list \in Bucket
      BY <1>4 DEF CheckChoices, TypeInv, TypeOK, UpdaterType, UpdaterShape
    <3>2. CASE upd' = [upd EXCEPT !.left = @ \ {w}, !.list = list]
      BY <2>5, <3>1, <3>2, BucketType DEF UpdaterType
    <3>3. CASE upd' = [upd EXCEPT !.left = @ \ {w}]
      BY <3>1, <3>3 DEF UpdaterType
    <3> QED
      BY <2>9, <3>2, <3>3
  <2>11. UpdaterShape'
    BY <2>10 DEF UpdaterShape, Working
  <2> QED
    BY <1>4, <2>7, <2>8, <2>10, <2>11, UpdaterStep DEF CheckChoices, TypeInv, TypeOK
<1>5. CASE EndConsistencyCheck
  BY <1>5, IdleMove, UpdaterStep DEF EndConsistencyCheck, TypeInv, TypeOK
<1> QED
  BY <1>1, <1>2, <1>3, <1>4, <1>5 DEF ConsistencyCheck

-----------------------------------------------------------------------------
RequestType == [pc : RequestState, kind : Kinds \union {"none"},
                t : Tickets \union {Absent},
                rec : TicketOK \union {Absent}, ts : Nat,
                alt : AltSignAddrs \union {Absent},
                left : SUBSET Wallets]

\* RequestShape of one request.
RequestOK(r) ==
    /\ r \in RequestType
    /\ r.pc # "idle" \/ r.rec # Absent => r.t \in Tickets
    /\ r.pc \in {"renew", "insert", "pay", "send", "sent", "refused", "save", "wallets"} =>
            r.rec # Absent
    /\ r.pc \in {"send", "sent", "refused"} => r.rec.FeeTxStatus = "received"

\* The requests of the invariant are well formed one by one.
LEMMA RequestsOK ==
    ASSUME TypeInv, NEW q \in Slots
    PROVE  RequestOK(req[q])
BY DEF TypeInv, TypeOK, RequestShape, RequestOK, RequestType

\* A step of request q is correct if it leaves q correct, and the rest.
LEMMA RequestStep ==
    ASSUME TypeInv, NEW q \in Slots, NEW r, req' = [req EXCEPT ![q] = r], RequestOK(r),
           db' \in Bucket,
           changes' \in [Tickets -> Seq(Nat)],
           alt' \in [Tickets -> AltSignAddrs \union {Absent}],
           lastAddr' \in Nat,
           ticketTx' \in [Tickets -> TicketLevel], Spent \subseteq Spent',
           feeTx' \in [FeeTxs -> FeeLevel],
           wallets' \in [Wallets -> [Tickets -> WalletTicket \union {Absent}]],
           faults' \in Nat,
           issued' \in [Tickets -> SUBSET Nat], sent' \subseteq FeeTxs,
           acked' \in [Tickets -> SUBSET FeeTxs],
              altAcked' \in [Tickets -> SUBSET AltSignAddrs],
           UNCHANGED <<tipSpent, scan, upd, clock, crashes>>
    PROVE  TypeInv'
<1>1. \A p \in Slots : req'[p] = IF p = q THEN r ELSE req[p]
  BY DEF TypeInv, TypeOK
<1>2. \A p \in Slots : RequestOK(req'[p])
  BY <1>1, RequestsOK
<1>3. \A p \in Slots : RequestShape(p)'
  BY <1>2 DEF RequestOK, RequestShape, RequestType
<1>4. req' \in [Slots -> [pc : RequestState, kind : Kinds \union {"none"},
                          t : Tickets \union {Absent},
                          rec : Ticket \union {Absent}, ts : Nat,
                          alt : AltSignAddrs \union {Absent},
                          left : SUBSET Wallets]]
  <2>1. RequestType \subseteq [pc : RequestState, kind : Kinds \union {"none"},
                          t : Tickets \union {Absent},
                          rec : Ticket \union {Absent}, ts : Nat,
                          alt : AltSignAddrs \union {Absent},
                          left : SUBSET Wallets]
    BY DEF RequestType, TicketOK
  <2> QED
    BY <2>1 DEF TypeInv, TypeOK, RequestOK
<1>5. TypeOK'
  BY <1>4, BucketType DEF TypeInv, TypeOK
<1>6. UpdaterShape'
  BY DEF TypeInv, UpdaterShape, Pending
<1> QED
  BY <1>3, <1>5, <1>6 DEF TypeInv

\* A slot with no request is well formed.
LEMMA IdleRequestOK == RequestOK(IdleRequest)
BY AbsentFacts DEF RequestOK, RequestType, IdleRequest, RequestState

\* The middleware and /feeaddress keep the invariant.
LEMMA TypeFeeAddress ==
    ASSUME TypeInv, NEW q \in Slots,
           \/ \E kind \in Kinds, t \in Tickets : Receive(q, kind, t)
           \/ Refuse(q) \/ CheckCanVote(q) \/ RenewFee(q) \/ NewFeeAddress(q) \/ InsertTicket(q)
    PROVE  TypeInv'
<1> USE DEF At, Go, Finish, Checking, database, chain, bounds, history
<1>0. RequestOK(req[q]) /\ RequestOK(IdleRequest)
  BY RequestsOK, IdleRequestOK
<1>1. ASSUME NEW kind \in Kinds, NEW t \in Tickets, Receive(q, kind, t) PROVE TypeInv'
  <2> DEFINE r == [IdleRequest EXCEPT
                     !.pc = "check", !.kind = kind, !.t = t,
                     !.rec = IF kind = "setaltsignaddr" THEN Absent ELSE db[t]]
  <2>1. RequestOK(r)
    BY DEF RequestOK, RequestType, IdleRequest, RequestState, TypeInv, Bucket
  <2>2. ticketTx' \in [Tickets -> TicketLevel] /\ Spent \subseteq Spent'
    <3>1. /\ ticketTx \in [Tickets -> TicketLevel] /\ "mempool" \in TicketLevel
          /\ \/ UNCHANGED ticketTx
             \/ ticketTx[t] = "unknown" /\ ticketTx' = [ticketTx EXCEPT ![t] = "mempool"]
      BY <1>1 DEF Receive, BroadcastTicket, TypeInv, TypeOK, TicketLevel
    <3>2. ticketTx' \in [Tickets -> TicketLevel]
      BY <3>1
    <3>3. \A u \in Tickets : ticketTx'[u] = ticketTx[u] \/ ticketTx[u] = "unknown"
      BY <3>1
    <3> QED
      BY <3>2, <3>3 DEF Spent, TicketOutcome
  <2>3. \E n : RequestOK(n) /\ req' = [req EXCEPT ![q] = n]
    BY <1>0, <1>1, <2>1 DEF Receive
  <2> QED
    BY <1>1, <2>2, <2>3, RequestStep DEF Receive, TypeInv, TypeOK
<1>2. CASE Refuse(q)
  BY <1>0, <1>2, RequestStep DEF Refuse, TypeInv, TypeOK, Spent
<1>3. CASE RenewFee(q)
  <2>1. req[q].t \in Tickets /\ req[q].rec \in TicketOK
    BY <1>0, <1>3 DEF RenewFee, RequestOK, RequestType
  <2>2. db' \in Bucket
    BY <1>3, <2>1, UpdateType DEF RenewFee, TypeInv
  <2> QED
    BY <1>0, <1>3, <2>2, RequestStep DEF RenewFee, TypeInv, TypeOK, Spent
<1>4. CASE NewFeeAddress(q)
  <2> DEFINE conf == req[q].pc = "newFinal"
             rec == [FeeAddress |-> nextAddress, FeeExpiration |-> clock,
                     Confirmed |-> conf,
                     FeeTxHash |-> NoTx, FeeTxHex |-> FALSE, FeeTxStatus |-> "none",
                     VoteChoices |-> 0, Outcome |-> ""]
             r == [req[q] EXCEPT !.pc = "insert", !.rec = rec]
  <2>0. req[q].pc # "idle"
    BY <1>4 DEF NewFeeAddress
  <2>1. req[q].t \in Tickets /\ nextAddress \in Nat /\ clock \in Nat
    BY <1>0, <2>0 DEF RequestOK, TypeInv, TypeOK, nextAddress
  <2>2. rec \in TicketOK
    <3>1. conf \in BOOLEAN
      OBVIOUS
    <3> HIDE DEF conf
    <3> QED
      BY <2>1, <3>1 DEF TicketOK, Ticket, FeeStatus
  <2>3. rec # Absent
    BY <2>2, AbsentFacts DEF TicketOK
  <2> HIDE DEF rec
  <2>4. RequestOK(r)
    BY <1>0, <1>4, <2>1, <2>2, <2>3 DEF NewFeeAddress, RequestOK, RequestType, RequestState
  <2>5. req' = [req EXCEPT ![q] = r]
    BY <1>4 DEF NewFeeAddress, rec
  <2>6. lastAddr' \in Nat /\ issued' \in [Tickets -> SUBSET Nat]
    BY <1>4, <2>1 DEF NewFeeAddress, TypeInv, TypeOK
  <2> HIDE DEF r
  <2> QED
    BY <1>4, <2>4, <2>5, <2>6, RequestStep DEF NewFeeAddress, TypeInv, TypeOK, Spent
<1>5. CASE InsertTicket(q)
  <2>1. req[q].t \in Tickets /\ req[q].rec \in TicketOK
    BY <1>0, <1>5 DEF InsertTicket, RequestOK, RequestType
  <2>2. db' \in Bucket
    BY <1>5, <2>1 DEF InsertTicket, InsertNewTicket, TypeInv, Bucket
  <2> QED
    BY <1>0, <1>5, <2>2, RequestStep DEF InsertTicket, TypeInv, TypeOK, Spent
<1>6. CASE CheckCanVote(q)
  <2>0. /\ req[q].pc = "check" /\ req[q].t \in Tickets /\ clock \in Nat
        /\ UNCHANGED <<database, chain, wallets, scan, upd, bounds, history>>
    BY <1>0, <1>6 DEF CheckCanVote, RequestOK, TypeInv, TypeOK
  <2>1. ASSUME NEW pc \in {"new", "newFinal", "pay"}, pc = "pay" => req[q].rec # Absent
        PROVE  RequestOK([req[q] EXCEPT !.pc = pc])
    BY <1>0, <2>0, <2>1 DEF RequestOK, RequestType, RequestState
  <2>2. ASSUME req[q].rec # Absent
        PROVE  RequestOK([req[q] EXCEPT !.pc = "renew", !.rec.FeeExpiration = clock])
    <3> DEFINE rec == [req[q].rec EXCEPT !.FeeExpiration = clock]
    <3>1. rec \in TicketOK
      BY <1>0, <2>0, <2>2 DEF RequestOK, RequestType, TicketOK, Ticket
    <3>2. rec # Absent
      BY <3>1, AbsentFacts DEF TicketOK
    <3> HIDE DEF rec
    <3>3. RequestOK([req[q] EXCEPT !.pc = "renew", !.rec = rec])
      BY <1>0, <2>0, <3>1, <3>2 DEF RequestOK, RequestType, RequestState
    <3>4. [req[q] EXCEPT !.pc = "renew", !.rec.FeeExpiration = clock]
            = [req[q] EXCEPT !.pc = "renew", !.rec = rec]
      BY <1>0 DEF rec, RequestOK, RequestType
    <3> QED
      BY <3>3, <3>4
  <2>3. PICK r : RequestOK(r) /\ req' = [req EXCEPT ![q] = r]
    <3>1. CASE req' = [req EXCEPT ![q].pc = "renew", ![q].rec.FeeExpiration = clock]
      <4>1. req[q].rec # Absent
        <5>1. req[q].pc = "check" /\ req'[q].pc = "renew"
          BY <1>0, <2>0, <3>1 DEF RequestOK, RequestType, TypeInv, TypeOK
        <5> QED
          BY <1>6, <5>1 DEF CheckCanVote, FeeUnknown, TypeInv, TypeOK
      <4>2. req' = [req EXCEPT ![q] = [req[q] EXCEPT !.pc = "renew", !.rec.FeeExpiration = clock]]
        BY <3>1
      <4> QED
        BY <2>2, <4>1, <4>2
    <3>2. ASSUME NEW pc \in {"new", "newFinal", "pay"}, pc = "pay" => req[q].rec # Absent,
                 req' = [req EXCEPT ![q].pc = pc]
          PROVE  \E r : RequestOK(r) /\ req' = [req EXCEPT ![q] = r]
      BY <2>1, <3>2
    <3> QED
      BY <1>6, <3>1, <3>2 DEF CheckCanVote, FeeUnknown
  <2> QED
    BY <2>0, <2>3, RequestStep DEF TypeInv, TypeOK, Spent
<1> QED
  BY <1>1, <1>2, <1>3, <1>4, <1>5, <1>6

\* /payfee keeps the invariant.
LEMMA TypePayFee ==
    ASSUME TypeInv, NEW q \in Slots,
           \/ \E f \in FeeTxs, ts \in Timestamps : PayFee(q, f, ts)
           \/ SendPaidFee(q) \/ SavePaidFeeSent(q) \/ SavePaidFeeRefused(q)
    PROVE  TypeInv'
<1> USE DEF At, Go, Finish, Checking, Acknowledge, database, chain, bounds, history
<1>0. RequestOK(req[q]) /\ RequestOK(IdleRequest)
  BY RequestsOK, IdleRequestOK
<1>1. ASSUME NEW f \in FeeTxs, NEW ts \in Timestamps, PayFee(q, f, ts) PROVE TypeInv'
  <2> DEFINE t == req[q].t
             rec == req[q].rec
  <2>1. t \in Tickets /\ rec \in TicketOK /\ ts \in Nat
    BY <1>0, <1>1, StateAssumption DEF PayFee, RequestOK, RequestType
  <2>2. PICK choices \in {rec.VoteChoices, 0, ts} :
            LET paid == Paid(rec, f, choices)
            IN  /\ db' = UpdateTicket(db, t, paid)
                /\ \/ ~ Exists(db, t) /\ Finish(q) /\ UNCHANGED acked
                   \/ /\ Exists(db, t) /\ rec.Confirmed
                      /\ req' = [req EXCEPT ![q].pc = "send", ![q].rec = paid, ![q].ts = ts]
                      /\ UNCHANGED acked
                   \/ /\ Exists(db, t) /\ ~ rec.Confirmed
                      /\ req' = [req EXCEPT ![q].pc = "record", ![q].rec = paid, ![q].ts = ts]
                      /\ Acknowledge(q, f)
    BY <1>1 DEF PayFee
  <2> DEFINE paid == Paid(rec, f, choices)
             next(pc) == [req[q] EXCEPT !.pc = pc, !.rec = paid, !.ts = ts]
  <2>3. paid \in TicketOK /\ paid.FeeTxStatus = "received"
    <3>1. choices \in {rec.VoteChoices, 0, ts} /\ rec.VoteChoices \in Nat
      BY <2>1, <2>2 DEF TicketOK, Ticket
    <3>2. choices \in Nat
      BY <2>1, <3>1
    <3> QED
      BY <2>1, <3>2 DEF Paid, TicketOK, Ticket, FeeStatus
  <2>4. paid # Absent
    BY <2>3, AbsentFacts DEF TicketOK
  <2>5. db' \in Bucket
    BY <2>1, <2>2, <2>3, UpdateType DEF TypeInv
  <2> HIDE DEF paid
  <2>6. RequestOK(next("send")) /\ RequestOK(next("record"))
    <3>1. ASSUME NEW pc \in {"send", "record"} PROVE RequestOK(next(pc))
      <4>1. req[q] \in RequestType /\ pc \in RequestState /\ ts \in Nat
            /\ req[q].t \in Tickets
        BY <1>0, <2>1 DEF RequestOK, RequestState
      <4>2. next(pc) \in RequestType /\ next(pc).pc = pc /\ next(pc).rec = paid
            /\ next(pc).t = req[q].t
        BY ONLY <4>1, <2>3 DEF RequestType
      <4> HIDE DEF next
      <4> QED
        BY <2>3, <2>4, <4>1, <4>2 DEF RequestOK
    <3> QED
      BY <3>1
  <2>7. PICK r : RequestOK(r) /\ req' = [req EXCEPT ![q] = r]
    <3>0. \/ req' = [req EXCEPT ![q] = IdleRequest]
          \/ req' = [req EXCEPT ![q].pc = "send", ![q].rec = paid, ![q].ts = ts]
          \/ req' = [req EXCEPT ![q].pc = "record", ![q].rec = paid, ![q].ts = ts]
      BY <2>2 DEF paid
    <3>1. \/ req' = [req EXCEPT ![q] = IdleRequest]
          \/ req' = [req EXCEPT ![q] = next("send")]
          \/ req' = [req EXCEPT ![q] = next("record")]
      BY ONLY <3>0
    <3> HIDE DEF next
    <3> QED
      BY <1>0, <2>6, <3>1
  <2>8. acked' \in [Tickets -> SUBSET FeeTxs]
    <3>1. UNCHANGED acked \/ acked' = [acked EXCEPT ![t] = acked[t] \union {f}]
      BY <2>2
    <3>2. acked \in [Tickets -> SUBSET FeeTxs]
      BY DEF TypeInv, TypeOK
    <3> QED
      BY <2>1, <3>1, <3>2
  <2> QED
    BY <1>1, <2>5, <2>7, <2>8, RequestStep DEF PayFee, TypeInv, TypeOK, Spent
<1>2. CASE SendPaidFee(q)
  <2>1. RequestOK([req[q] EXCEPT !.pc = "sent"]) /\ RequestOK([req[q] EXCEPT !.pc = "refused"])
    BY <1>0, <1>2 DEF SendPaidFee, RequestOK, RequestType, RequestState
  <2>2. PICK r : RequestOK(r) /\ req' = [req EXCEPT ![q] = r]
    BY <1>2, <2>1 DEF SendPaidFee
  <2>3. req[q].rec.FeeTxHash \in FeeTxs
    BY <1>0, <1>2 DEF SendPaidFee, RequestOK, RequestType, TicketOK
  <2>4. feeTx' \in [FeeTxs -> FeeLevel] /\ sent' \subseteq FeeTxs
    BY <1>2, <2>3 DEF SendPaidFee, SendFee, TypeInv, TypeOK, FeeLevel
  <2> QED
    BY <1>2, <2>2, <2>4, RequestStep DEF SendPaidFee, TypeInv, TypeOK, Spent
<1>3. ASSUME req[q].pc \in {"sent", "refused"}
      PROVE  /\ req[q].t \in Tickets /\ req[q].rec \in TicketOK
             /\ req[q].rec.FeeTxHash \in FeeTxs
             /\ \A s \in FeeStatus : [req[q].rec EXCEPT !.FeeTxStatus = s] \in TicketOK
  <2>1. /\ req[q].t \in Tickets /\ req[q].rec \in TicketOK
        /\ req[q].rec.FeeTxHash \in FeeTxs
    BY <1>0, <1>3 DEF RequestOK, RequestType, TicketOK
  <2> QED
    BY <2>1 DEF TicketOK, Ticket
<1>4. CASE SavePaidFeeSent(q)
  <2> DEFINE rec == [req[q].rec EXCEPT !.FeeTxStatus = "broadcast"]
  <2>1. req[q].t \in Tickets /\ rec \in TicketOK /\ rec.FeeTxHash \in FeeTxs
    BY <1>3, <1>4 DEF SavePaidFeeSent, FeeStatus, TicketOK, Ticket
  <2>2. rec # Absent
    BY <2>1, AbsentFacts DEF TicketOK
  <2> HIDE DEF rec
  <2>3. RequestOK([req[q] EXCEPT !.pc = "record", !.rec = rec])
    BY <1>0, <1>4, <2>1, <2>2 DEF SavePaidFeeSent, RequestOK, RequestType, RequestState
  <2>4. PICK r : RequestOK(r) /\ req' = [req EXCEPT ![q] = r]
    <3>1. \/ req' = [req EXCEPT ![q].pc = "record", ![q].rec = rec]
          \/ req' = [req EXCEPT ![q] = IdleRequest]
      BY <1>4 DEF SavePaidFeeSent, rec
    <3> DEFINE next == [req[q] EXCEPT !.pc = "record", !.rec = rec]
    <3>2. req' = [req EXCEPT ![q] = next] \/ req' = [req EXCEPT ![q] = IdleRequest]
      BY ONLY <3>1
    <3>3. RequestOK(next)
      BY <2>3
    <3> HIDE DEF next
    <3> QED
      BY <1>0, <3>2, <3>3
  <2>5. db' \in Bucket
    BY <1>4, <2>1, UpdateType DEF SavePaidFeeSent, TypeInv, rec
  <2>6. acked' \in [Tickets -> SUBSET FeeTxs]
    <3>1. \/ UNCHANGED acked
          \/ acked' = [acked EXCEPT ![req[q].t] = acked[req[q].t] \union {rec.FeeTxHash}]
      BY <1>4 DEF SavePaidFeeSent, rec
    <3>2. acked \in [Tickets -> SUBSET FeeTxs]
      BY DEF TypeInv, TypeOK
    <3> QED
      BY <2>1, <3>1, <3>2
  <2> QED
    BY <1>4, <2>4, <2>5, <2>6, RequestStep DEF SavePaidFeeSent, TypeInv, TypeOK, Spent
<1>5. CASE SavePaidFeeRefused(q)
  <2>1. db' \in Bucket
    BY <1>3, <1>5, UpdateType DEF SavePaidFeeRefused, TypeInv, FeeStatus
  <2> QED
    BY <1>0, <1>5, <2>1, RequestStep DEF SavePaidFeeRefused, TypeInv, TypeOK, Spent
<1> QED
  BY <1>1, <1>2, <1>4, <1>5

\* /setvotechoices keeps the invariant, as does recording a vote change.
LEMMA TypeVoteChoices ==
    ASSUME TypeInv, NEW q \in Slots,
           \/ \E ts \in Timestamps : CheckVoteChoices(q, ts)
           \/ SaveVoteChoices(q) \/ (\E w \in Wallets : UpdateWallet(q, w)) \/ RecordVoteChange(q)
    PROVE  TypeInv'
<1> USE DEF At, Go, Finish, Checking, database, chain, bounds, history
<1>0. RequestOK(req[q]) /\ RequestOK(IdleRequest)
  BY RequestsOK, IdleRequestOK
<1>1. ASSUME NEW ts \in Timestamps, CheckVoteChoices(q, ts) PROVE TypeInv'
  <2>0. PICK choices \in {req[q].rec.VoteChoices, ts} :
            req' = [req EXCEPT ![q].pc = "save", ![q].ts = ts,
                        ![q].rec = [req[q].rec EXCEPT !.VoteChoices = choices]]
    BY <1>1 DEF CheckVoteChoices
  <2> DEFINE rec == [req[q].rec EXCEPT !.VoteChoices = choices]
             r == [req[q] EXCEPT !.pc = "save", !.ts = ts, !.rec = rec]
  <2>1. req[q].pc = "check" /\ req[q].t \in Tickets /\ req[q].rec \in TicketOK /\ ts \in Nat
    BY <1>0, <1>1, StateAssumption DEF CheckVoteChoices, RequestOK, RequestType
  <2>2. rec \in TicketOK
    BY <2>0, <2>1 DEF TicketOK, Ticket
  <2>3. rec # Absent
    BY <2>2, AbsentFacts DEF TicketOK
  <2> HIDE DEF rec
  <2>4. RequestOK(r)
    BY <1>0, <2>1, <2>2, <2>3 DEF RequestOK, RequestType, RequestState
  <2>5. req' = [req EXCEPT ![q] = r]
    BY <1>1, <2>0 DEF CheckVoteChoices, rec
  <2> HIDE DEF r
  <2> QED
    BY <1>1, <2>4, <2>5, RequestStep DEF CheckVoteChoices, TypeInv, TypeOK, Spent
<1>2. CASE SaveVoteChoices(q)
  <2>1. req[q].t \in Tickets /\ req[q].rec \in TicketOK
    BY <1>0, <1>2 DEF SaveVoteChoices, RequestOK, RequestType
  <2>2. db' \in Bucket
    BY <1>2, <2>1, UpdateType DEF SaveVoteChoices, TypeInv
  <2>3. PICK r : RequestOK(r) /\ req' = [req EXCEPT ![q] = r]
    <3>1. CASE req' = [req EXCEPT ![q] = IdleRequest]
      BY <1>0, <3>1
    <3>2. CASE req' = [req EXCEPT ![q].pc = "record"]
      <4>1. RequestOK([req[q] EXCEPT !.pc = "record"])
        BY <1>0, <1>2 DEF SaveVoteChoices, RequestOK, RequestType, RequestState
      <4> QED
        BY <3>2, <4>1
    <3>3. ASSUME NEW C \in SUBSET Wallets,
                 req' = [req EXCEPT ![q].pc = "wallets", ![q].left = C]
          PROVE  \E r : RequestOK(r) /\ req' = [req EXCEPT ![q] = r]
      <4>1. RequestOK([req[q] EXCEPT !.pc = "wallets", !.left = C])
        BY <1>0, <1>2 DEF SaveVoteChoices, RequestOK, RequestType, RequestState
      <4>2. req' = [req EXCEPT ![q] = [req[q] EXCEPT !.pc = "wallets", !.left = C]]
        BY <3>3
      <4> QED
        BY <4>1, <4>2
    <3> QED
      BY <1>2, <3>1, <3>2, <3>3 DEF SaveVoteChoices
  <2>4. faults' \in Nat
    BY <1>2, FaultType DEF SaveVoteChoices, Connect, TypeInv, TypeOK
  <2> QED
    BY <1>2, <2>2, <2>3, <2>4, RequestStep DEF SaveVoteChoices, TypeInv, TypeOK, Spent
<1>3. ASSUME NEW w \in Wallets, UpdateWallet(q, w) PROVE TypeInv'
  <2> DEFINE r == [req[q] EXCEPT !.left = req[q].left \ {w},
                                 !.pc = IF req[q].left = {w} THEN "record" ELSE req[q].pc]
  <2>1. req[q].pc = "wallets" /\ req[q].t \in Tickets /\ req[q].rec \in TicketOK
    BY <1>0, <1>3 DEF UpdateWallet, RequestOK, RequestType
  <2>2. RequestOK(r)
    BY <1>0, <2>1 DEF RequestOK, RequestType, RequestState
  <2>3. req' = [req EXCEPT ![q] = r]
    BY <1>3 DEF UpdateWallet, TypeInv, TypeOK
  <2>4. PICK ok \in BOOLEAN :
            /\ ChoiceCall(w, ok)
            /\ wallets' = [wallets EXCEPT ![w] =
                             SetVoteChoice(wallets[w], req[q].t, req[q].rec, ok)]
    BY <1>3 DEF UpdateWallet
  <2>5. wallets \in [Wallets -> [Tickets -> WalletTicket \union {Absent}]]
    BY DEF TypeInv, TypeOK
  <2>6. wallets' \in [Wallets -> [Tickets -> WalletTicket \union {Absent}]]
    BY <2>1, <2>4, <2>5, WalletChange
  <2>7. faults' \in Nat
    BY <2>4, ChoiceFaults
  <2> HIDE DEF r
  <2> QED
    BY <1>3, <2>2, <2>3, <2>6, <2>7, RequestStep DEF UpdateWallet, TypeInv, TypeOK, Spent
<1>4. CASE RecordVoteChange(q)
  <2> DEFINE log == changes[req[q].t]
  <2>1. req[q].t \in Tickets /\ req[q].ts \in Nat
    BY <1>0, <1>4 DEF RecordVoteChange, RequestOK, RequestType
  <2>2. log \in Seq(Nat)
    BY <2>1 DEF TypeInv, TypeOK
  <2>3. Len(log) >= MaxVoteChangeRecords => Tail(log) \in Seq(Nat)
    BY <2>2, DatabaseAssumption
  <2> HIDE DEF log
  <2>4. SaveVoteChange(log, req[q].ts) \in Seq(Nat)
    BY <2>1, <2>2, <2>3 DEF SaveVoteChange
  <2>5. changes' \in [Tickets -> Seq(Nat)]
    BY <1>4, <2>1, <2>4 DEF RecordVoteChange, TypeInv, TypeOK, log
  <2> QED
    BY <1>0, <1>4, <2>5, RequestStep DEF RecordVoteChange, TypeInv, TypeOK, Spent
<1> QED
  BY <1>1, <1>2, <1>3, <1>4

\* /setaltsignaddr keeps the invariant.
LEMMA TypeAltSignAddr ==
    ASSUME TypeInv, NEW q \in Slots,
           (\E a \in AltSignAddrs : CheckAltSignAddr(q, a)) \/ StoreAltSignAddr(q)
    PROVE  TypeInv'
<1> USE DEF At, Go, Finish, Checking, database, chain, bounds, history
<1>0. RequestOK(req[q]) /\ RequestOK(IdleRequest)
  BY RequestsOK, IdleRequestOK
<1>1. ASSUME NEW a \in AltSignAddrs, CheckAltSignAddr(q, a) PROVE TypeInv'
  <2> DEFINE r == [req[q] EXCEPT !.pc = "insertAlt", !.alt = a]
  <2>1. req[q].t \in Tickets /\ "insertAlt" \in RequestState
    BY <1>0, <1>1 DEF CheckAltSignAddr, RequestOK, RequestState
  <2>2. RequestOK(r)
    BY <1>0, <2>1 DEF RequestOK, RequestType
  <2>3. req' = [req EXCEPT ![q] = r]
    BY <1>1 DEF CheckAltSignAddr
  <2>4. altAcked' \in [Tickets -> SUBSET AltSignAddrs]
    BY <1>1, <2>1 DEF CheckAltSignAddr, TypeInv, TypeOK
  <2> HIDE DEF r
  <2> QED
    BY <1>1, <2>2, <2>3, <2>4, RequestStep DEF CheckAltSignAddr, TypeInv, TypeOK, Spent
<1>2. CASE StoreAltSignAddr(q)
  <2>1. req[q].t \in Tickets /\ req[q].alt \in AltSignAddrs \union {Absent}
    BY <1>0, <1>2 DEF StoreAltSignAddr, RequestOK, RequestType
  <2>2. alt' \in [Tickets -> AltSignAddrs \union {Absent}]
    BY <1>2, <2>1 DEF StoreAltSignAddr, InsertAltSignAddr, TypeInv, TypeOK
  <2> QED
    BY <1>0, <1>2, <2>2, RequestStep DEF StoreAltSignAddr, TypeInv, TypeOK, Spent
<1> QED
  BY <1>1, <1>2

\* A crash keeps the invariant.
LEMMA TypeCrash == TypeInv /\ Crash => TypeInv'
<1> SUFFICES ASSUME TypeInv, Crash PROVE TypeInv'
  OBVIOUS
<1> USE DEF database, chain, volatile, bounds, history
<1>1. upd' \in UpdaterType /\ UpdaterShape'
  BY IdleMove DEF Crash
<1>2. \A q \in Slots : RequestOK(req'[q])
  BY IdleRequestOK DEF Crash
<1>3. req' \in [Slots -> [pc : RequestState, kind : Kinds \union {"none"},
                          t : Tickets \union {Absent},
                          rec : Ticket \union {Absent}, ts : Nat,
                          alt : AltSignAddrs \union {Absent},
                          left : SUBSET Wallets]]
  BY DEF Crash, IdleRequest, RequestState
<1>4. TypeOK'
  BY <1>1, <1>3 DEF Crash, TypeInv, TypeOK, UpdaterType, NotScanned
<1>5. \A q \in Slots : RequestShape(q)'
  BY <1>2 DEF RequestOK, RequestShape, RequestType
<1> QED
  BY <1>1, <1>4, <1>5 DEF Crash, TypeInv

\* A step that changes nothing keeps the invariant.
LEMMA TypeStutter == TypeInv /\ UNCHANGED vars => TypeInv'
BY DEF vars, database, chain, volatile, bounds, history, TypeInv, TypeOK, UpdaterShape,
   RequestShape, Pending, Spent

\* The type invariant is inductive.
LEMMA TypeNext == TypeInv /\ [Next]_vars => TypeInv'
<1> SUFFICES ASSUME TypeInv, [Next]_vars PROVE TypeInv'
  OBVIOUS
<1>1. CASE Update
  BY <1>1, TypeConfirmations, TypeFees, TypeAddToWallets, TypeAddToWallet,
     TypeOutcomes DEF Update
<1>2. ASSUME NEW q \in Slots, Serve(q) PROVE TypeInv'
  BY <1>2, TypeFeeAddress, TypePayFee, TypeVoteChoices, TypeAltSignAddr DEF Serve
<1> QED
  BY <1>1, <1>2, TypeEnv, TypeConsistencyCheck, TypeCrash, TypeStutter DEF Next

\* Every state of the server has the form the modules assume: in particular no
\* handler and no phase of the update loop goes on with a ticket it has no
\* record of, and no record has a fee status without a fee transaction.
THEOREM TypeCorrect == Spec => []TypeOK
<1>1. Spec => []TypeInv
  BY TypeInit, TypeNext, PTL DEF Spec
<1>2. TypeInv => TypeOK
  BY DEF TypeInv
<1> QED
  BY <1>1, <1>2, PTL
=============================================================================
