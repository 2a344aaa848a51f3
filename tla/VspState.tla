------------------------------ MODULE VspState ------------------------------
(***************************************************************************)
(* The state vspm works on, and everything around it that moves on its     *)
(* own: the block chain as mond reports it, the voting wallets, the clock. *)
(*                                                                         *)
(* A transaction is at a level of the chain: "unknown" (mond answers       *)
(* ErrNoTxInfo), "mempool", "mined" (1 to 5 confirmations), "final" (at    *)
(* least requiredConfs = 6).  A ticket goes on to "live" once it matures   *)
(* and is then spent by a vote or a revocation.  Blocks that move no       *)
(* transaction of the model arrive all the time; a block that moves        *)
(* several is as many blocks between which nothing else happens.           *)
(* Reorganizations of 6 or more blocks are not modelled, nor any that      *)
(* undoes a vote or a revocation.                                          *)
(***************************************************************************)
EXTENDS VspDatabase

CONSTANTS
    Wallets,     \* the configured voting wallets
    StaleWallets,\* those that answer "no agenda with ID" for the agenda
    Slots,       \* requests the web server handles concurrently
    Kinds,       \* the endpoints that are called
    Spends,      \* the ways tickets may be spent
    MaxFaults,   \* bound: RPC calls that fail although mond or wallet could answer
    MaxCrashes,  \* bound: crashes and shutdowns
    MaxClock,    \* bound: moments at which fees expire
    MaxAddr,     \* bound: fee addresses derived
    Timestamps   \* bound: timestamps of requests that set vote choices; with
                 \* 0 alone, every such request has an empty map

ASSUME StateAssumption ==
    /\ StaleWallets \subseteq Wallets
    /\ Kinds \subseteq {"feeaddress", "payfee", "setvotechoices", "setaltsignaddr"}
    /\ Spends \subseteq TicketOutcome
    /\ Timestamps \subseteq Nat

VARIABLES
    \* The database: persistent.
    db,          \* the ticket bucket
    changes,     \* vote change records of each ticket (their timestamps), oldest first
    alt,         \* alternate signing address of each ticket
    lastAddr,    \* last fee address index used (addrGen and the xpub bucket)
    \* mond and the voting wallets.
    ticketTx,    \* level of each ticket purchase
    feeTx,       \* level of each fee transaction
    tipSpent,    \* tickets spent in the current best block
    wallets,     \* tickets held by each wallet, with their vote choices
    \* vspm: volatile.
    scan,        \* lastScannedBlock: is it set, and which spends are below it
    upd,         \* the goroutine of Run
    req,         \* the requests being handled
    \* Time, and the use made of the bounds.
    clock, faults, crashes,
    \* History: what the program told or gave to others.
    issued,      \* fee addresses derived for each ticket
    sent,        \* fee transactions vspm sent to the network
    acked,       \* fee transactions acknowledged to the client, per ticket
    altAcked     \* alternate signing addresses acknowledged, per ticket

database == <<db, changes, alt, lastAddr>>
chain    == <<ticketTx, feeTx, tipSpent>>
volatile == <<scan, upd, req>>
bounds   == <<clock, faults, crashes>>
history  == <<issued, sent, acked, altAcked>>
vars     == <<database, chain, wallets, volatile, bounds, history>>

\* Faulty variant: one confirmation is taken for enough.
FinalMined == {"mined", "final", "live"} \union TicketOutcome

Final == {"final", "live"} \union TicketOutcome   \* at least 6 confirmations

TicketLevel == {"unknown", "mempool", "mined"} \union Final
FeeLevel    == {"unknown", "mempool", "mined", "final"}

\* canTicketVote: in the mempool, immature, or live.
CanVote(t) == ticketTx[t] \in {"mempool", "mined", "final", "live"}

\* What a wallet holds of a ticket.
WalletTicket == [VoteChoices : Nat]

ASSUME WalletAssumption == Absent \notin WalletTicket

\* FeeExpired: FeeExpiration is the last value of the clock at which the fee
\* is valid.
FeeExpired(r) == clock > r.FeeExpiration

\* An RPC call fails although its server could answer it.
Fault == faults < MaxFaults /\ faults' = faults + 1

\* The clients of Clients(): all wallets, or those that could be reached.
Connect(C) ==
    /\ C \in SUBSET Wallets
    /\ \/ C = Wallets /\ UNCHANGED faults
       \/ C # Wallets /\ Fault

-----------------------------------------------------------------------------
(* mond's chain                                                            *)

MineTicket(t) ==
    /\ \/ ticketTx[t] = "mempool" /\ ticketTx' = [ticketTx EXCEPT ![t] = "mined"]
       \/ ticketTx[t] = "mined"   /\ ticketTx' = [ticketTx EXCEPT ![t] = "final"]
       \/ ticketTx[t] = "final"   /\ ticketTx' = [ticketTx EXCEPT ![t] = "live"]
    /\ tipSpent' = {}
    /\ UNCHANGED <<database, feeTx, wallets, volatile, bounds, history>>

\* A live ticket is called and votes or misses, or it expires.
SpendTicket(t) ==
    /\ ticketTx[t] = "live"
    /\ \E how \in Spends : ticketTx' = [ticketTx EXCEPT ![t] = how]
    /\ tipSpent' = {t}
    /\ UNCHANGED <<database, feeTx, wallets, volatile, bounds, history>>

\* A reorganization returns the purchase to the mempool, which may drop it.
DropTicket(t) ==
    /\ \/ ticketTx[t] = "mined"   /\ ticketTx' = [ticketTx EXCEPT ![t] = "mempool"]
       \/ ticketTx[t] = "mempool" /\ ticketTx' = [ticketTx EXCEPT ![t] = "unknown"]
    /\ tipSpent' = {}
    /\ UNCHANGED <<database, feeTx, wallets, volatile, bounds, history>>

MineFee(f) ==
    /\ \/ feeTx[f] = "mempool" /\ feeTx' = [feeTx EXCEPT ![f] = "mined"]
       \/ feeTx[f] = "mined"   /\ feeTx' = [feeTx EXCEPT ![f] = "final"]
    /\ tipSpent' = {}
    /\ UNCHANGED <<database, ticketTx, wallets, volatile, bounds, history>>

DropFee(f) ==
    /\ \/ feeTx[f] = "mined"   /\ feeTx' = [feeTx EXCEPT ![f] = "mempool"]
       \/ feeTx[f] = "mempool" /\ feeTx' = [feeTx EXCEPT ![f] = "unknown"]
    /\ tipSpent' = {}
    /\ UNCHANGED <<database, ticketTx, wallets, volatile, bounds, history>>

\* The client holds the signed fee transaction too and may publish it.
PublishFee(f) ==
    /\ feeTx[f] = "unknown"
    /\ \E t \in Tickets : PaysTo[f] \in issued[t]
    /\ feeTx' = [feeTx EXCEPT ![f] = "mempool"]
    /\ UNCHANGED <<database, ticketTx, tipSpent, wallets, volatile, bounds, history>>

\* A block that concerns no transaction of the model.
OtherBlock ==
    /\ tipSpent # {}
    /\ tipSpent' = {}
    /\ UNCHANGED <<database, ticketTx, feeTx, wallets, volatile, bounds, history>>

\* The fees issued since the last tick, if any, expire: the length of
\* feeAddressExpiration matters to nothing else.
Tick ==
    /\ clock < MaxClock
    /\ clock' = clock + 1
    /\ UNCHANGED <<database, chain, wallets, volatile, faults, crashes, history>>

Environment ==
    \/ \E t \in Tickets : MineTicket(t) \/ SpendTicket(t) \/ DropTicket(t)
    \/ \E f \in FeeTxs : MineFee(f) \/ DropFee(f) \/ PublishFee(f)
    \/ OtherBlock
    \/ Tick

-----------------------------------------------------------------------------
\* SendRawTransaction(f) succeeds: mond accepts the transaction or has it.
SendFee(f) ==
    /\ feeTx' = IF feeTx[f] = "unknown" THEN [feeTx EXCEPT ![f] = "mempool"] ELSE feeTx
    /\ sent' = sent \union {f}

\* Set the choices of a ticket the wallet knows, if the call succeeds (ok); an
\* empty map sets nothing.
SetVoteChoice(W, t, r, ok) ==
    IF ok /\ W[t] # Absent /\ r.VoteChoices # 0
    THEN [W EXCEPT ![t] = [VoteChoices |-> r.VoteChoices]]
    ELSE W

\* The call succeeds, but for a wallet that lacks the agenda, or fails.
ChoiceCall(w, ok) ==
    \/ ok = (w \notin StaleWallets) /\ UNCHANGED faults
    \/ ~ ok /\ Fault

IdleUpdater == [pc |-> "idle", list |-> [t \in Tickets |-> Absent],
                cur |-> Absent, clients |-> {}, left |-> {}]

IdleRequest == [pc |-> "idle", kind |-> "none", t |-> Absent, rec |-> Absent,
                ts |-> 0, alt |-> Absent, left |-> {}]

NotScanned == [set |-> FALSE, behind |-> {}]
=============================================================================
