-------------------------------- MODULE Vspm --------------------------------
(***************************************************************************)
(* The VSP server: the goroutine of Run, the requests of the web server    *)
(* and the environment over one database, with crashes.                    *)
(***************************************************************************)
EXTENDS Updater, WebAPI, VoteChangeLog

Init ==
    /\ db = [t \in Tickets |-> Absent]
    /\ changes = [t \in Tickets |-> << >>]
    /\ alt = [t \in Tickets |-> Absent]
    /\ lastAddr = 0
    /\ ticketTx = [t \in Tickets |-> "unknown"]
    /\ feeTx = [f \in FeeTxs |-> "unknown"]
    /\ tipSpent = {}
    /\ wallets = [w \in Wallets |-> [t \in Tickets |-> Absent]]
    /\ scan = NotScanned
    /\ upd = IdleUpdater
    /\ req = [q \in Slots |-> IdleRequest]
    /\ clock = 0 /\ faults = 0 /\ crashes = 0
    /\ issued = [t \in Tickets |-> {}]
    /\ sent = {}
    /\ acked = [t \in Tickets |-> {}]
    /\ altAcked = [t \in Tickets |-> {}]

\* The process ends, in a crash or a shutdown, and starts again: what is not
\* in the database is lost.
Crash ==
    /\ crashes < MaxCrashes
    /\ crashes' = crashes + 1
    /\ scan' = NotScanned
    /\ upd' = IdleUpdater
    /\ req' = [q \in Slots |-> IdleRequest]
    /\ UNCHANGED <<database, chain, wallets, clock, faults, history>>

Next ==
    \/ Environment
    \/ Update
    \/ ConsistencyCheck
    \/ \E q \in Slots : Serve(q)
    \/ Crash

Spec == Init /\ [][Next]_vars

-----------------------------------------------------------------------------
RequestState == {"idle", "check", "new", "newFinal", "renew", "insert", "pay",
                 "send", "sent", "refused", "save", "wallets", "record", "insertAlt"}

UpdaterState == {"idle", "unconfirmed", "delete", "deleteAlt", "confirm",
                 "fees", "feeSent", "feeRefused",
                 "wallets", "feeLost", "feeFinal", "add",
                 "outcomes", "missing", "choices"}

\* The state of every component has the form the modules assume.
TypeOK ==
    /\ db \in TicketBucket
    /\ changes \in [Tickets -> Seq(Nat)]
    /\ alt \in [Tickets -> AltSignAddrs \union {Absent}]
    /\ lastAddr \in Nat
    /\ ticketTx \in [Tickets -> TicketLevel]
    /\ feeTx \in [FeeTxs -> FeeLevel]
    /\ tipSpent \subseteq Tickets
    /\ wallets \in [Wallets -> [Tickets -> WalletTicket \union {Absent}]]
    /\ scan \in [set : BOOLEAN, behind : SUBSET Tickets]
    /\ upd \in [pc : UpdaterState, list : TicketBucket,
                cur : Tickets \union {Absent},
                clients : SUBSET Wallets, left : SUBSET Wallets]
    /\ req \in [Slots -> [pc : RequestState, kind : Kinds \union {"none"},
                          t : Tickets \union {Absent},
                          rec : Ticket \union {Absent}, ts : Nat,
                          alt : AltSignAddrs \union {Absent},
                          left : SUBSET Wallets]]
    /\ clock \in Nat /\ faults \in Nat /\ crashes \in Nat
    /\ issued \in [Tickets -> SUBSET Nat]
    /\ sent \subseteq FeeTxs
    /\ acked \in [Tickets -> SUBSET FeeTxs]
    /\ altAcked \in [Tickets -> SUBSET AltSignAddrs]

-----------------------------------------------------------------------------
(* What every record of a ticket promises, in the database and in the copy *)
(* any thread holds, however old the copy is.                              *)

Genuine(t, r) ==
    \* The fee address was derived for this ticket.
    /\ r.FeeAddress \in issued[t]
    \* Confirmed says the purchase has its confirmations, which it keeps.
    /\ r.Confirmed => ticketTx[t] \in Final
    \* A fee status other than none comes with a fee that pays the address.
    /\ r.FeeTxStatus # "none" => r.FeeTxHash \in FeeTxs
    /\ r.FeeTxHash # NoTx => PaysTo[r.FeeTxHash] = r.FeeAddress
    \* The fee is sent, and confirmed, only for a confirmed ticket.
    /\ r.FeeTxStatus \in {"broadcast", "confirmed"} =>
            r.Confirmed /\ r.FeeTxHash \in sent
    \* A confirmed fee has its confirmations.
    /\ r.FeeTxStatus = "confirmed" => feeTx[r.FeeTxHash] = "final"
    \* Until then the hex is kept, to be sent.
    /\ r.FeeTxStatus \in {"received", "broadcast", "error"} => r.FeeTxHex
    \* An outcome says that the ticket, its fee confirmed, was spent, and
    \* whether by a vote.
    /\ r.Outcome # "" => /\ r.FeeTxStatus = "confirmed"
                         /\ t \in Spent
                         /\ r.Outcome = "voted" <=> ticketTx[t] = "voted"

\* Saves from stale copies may undo one another, but no record, wherever it
\* is, claims more than what is true of the ticket and its fee.
RecordsGenuine ==
    /\ \A t \in Tickets : Exists(db, t) => Genuine(t, db[t])
    /\ \A t \in Tickets : upd.list[t] # Absent => Genuine(t, upd.list[t])
    /\ \A q \in Slots : req[q].rec # Absent => Genuine(req[q].t, req[q].rec)

\* No ticket is on a voting wallet unless a fee transaction that pays an
\* address derived for it is confirmed (docs/api.md, update.go:191-217).
PaidBeforeVoting ==
    \A w \in Wallets, t \in Tickets :
        wallets[w][t] # Absent =>
            \E f \in FeeTxs : PaysTo[f] \in issued[t] /\ feeTx[f] = "final"

\* A ticket removed from the database comes back only as a new one, however
\* many copies of the removed record other threads still save.
NoResurrection ==
    [][\A t \in Tickets : ~ Exists(db, t) /\ db'[t] # Absent =>
            db'[t].FeeTxStatus = "none" /\ db'[t].FeeTxHash = NoTx]_vars

\* vspm sends a fee transaction only once the purchase of the ticket whose
\* address it pays has its confirmations (docs/api.md, "PayFee").
FeeHeldBack ==
    \A f \in sent : \E t \in Tickets : PaysTo[f] \in issued[t] /\ ticketTx[t] \in Final

\* A ticket mond no longer knows is removed a call later (update.go:71-93), and by
\* then the client may have bought it again, and requests may have read, changed
\* and saved its record.  Still no ticket is removed whose purchase the record
\* says is confirmed, or of which vspm has sent a fee.
RemovedUnpaid ==
    [][\A t \in Tickets : Exists(db, t) /\ db'[t] = Absent =>
            /\ ~ db[t].Confirmed
            /\ \A f \in sent : PaysTo[f] \notin issued[t]]_vars

\* "DB is the source of truth" (setvotechoices.go:122): every ticket a
\* voting wallet holds is in the database, whatever was removed or overwritten
\* there since it was added.
HeldInDatabase ==
    \A w \in Wallets, t \in Tickets : wallets[w][t] # Absent => Exists(db, t)

\* What is stored is never replaced by another address ("can only be set
\* once", docs/api.md), and the client holds a signed answer for it.
AltSignAddrSetOnce ==
    [][\A t \in Tickets : alt'[t] # alt[t] =>
            \/ alt'[t] = Absent
            \/ alt[t] = Absent /\ alt'[t] \in altAcked[t]]_vars

\* What clients and the network see of the state.
FinalTickets == {t \in Tickets : ticketTx[t] \in Final}
PaidFees     == {f \in FeeTxs : feeTx[f] = "final"}
Held         == [w \in Wallets |-> {t \in Tickets : wallets[w][t] # Absent}]

Service == INSTANCE VotingService WITH
    final <- FinalTickets, paid <- PaidFees, holds <- Held

\* Whatever the threads do with their copies of the records, clients and the
\* network see a service that gives each address out once, acknowledges and
\* sends only fees of the right ticket, holds a fee back until the purchase is
\* final, and hands a ticket to the wallets, for good, only once it is paid for.
ImplementsService == Service!Spec

\* The newest timestamp among the vote change records is never lost, so that
\* no older request passes the check of /setvotechoices afterwards.  It takes more
\* than MaxVoteChangeRecords requests in flight at once to break this, or as many
\* retries of /payfee, which checks its timestamp against no record.
NewestChangeKept ==
    [][\A t \in Tickets : \A i \in 1 .. Len(changes[t]) :
            \E j \in 1 .. Len(changes'[t]) : changes'[t][j] >= changes[t][i]]_vars

\* The keys of the vote change bucket (votechange.go:39-83) make the sequence the
\* threads work on: whatever the key of its first record, a record saved follows
\* the last one and takes the place of the first, as long as the keys last.
KeysInOrder ==
    \A t \in Tickets, ts \in Timestamps : \A first \in 0 .. MaxKey - Len(changes[t]) :
        LET b == StoreVoteChange(Stored(changes[t], first), ts)
        IN  \E key \in 0 .. MaxKey : b = Stored(SaveVoteChange(changes[t], ts), key)

-----------------------------------------------------------------------------
(* Liveness.  Blocks keep arriving and the ticker keeps firing, and select *)
(* picks among the channels that are ready, so neither starves the other;  *)
(* RPC calls return, so the goroutine of Run and a request that has been   *)
(* received do not stop between two steps.  Nothing is assumed of clients  *)
(* and of the chain.                                                       *)

Progress(q) == ~ At(q, "idle") /\ Serve(q)

Fairness ==
    /\ WF_vars(Update) /\ SF_vars(StartUpdate)
    /\ WF_vars(ConsistencyCheck) /\ SF_vars(StartConsistencyCheck)
    /\ \A q \in Slots : WF_vars(Progress(q))

FairSpec == Spec /\ Fairness

Votable(t) == t \in GetVotableTickets(db)

Unsent(t) == Exists(db, t) /\ db[t].Confirmed /\ db[t].FeeTxStatus = "received"

\* A fee received for a confirmed ticket does not stay unsent.
ReceivedFeeHandled == \A t \in Tickets : Unsent(t) ~> ~ Unsent(t)

\* A ticket that can vote gets to every wallet, whatever crashes and calls
\* fail on the way.
VotableOnWallets ==
    \A t \in Tickets, w \in Wallets :
        Votable(t) ~> (~ Votable(t) \/ wallets[w][t] # Absent)

\* The wallets agree with the database, "the source of truth"
\* (setvotechoices.go:122), again and again: any disagreement is repaired.
\* Choices that are cleared in the database stay on the wallets, and of a
\* wallet without the agenda nothing is asked.
WalletsAgree ==
    \A t \in Tickets, w \in Wallets \ StaleWallets :
        []<> (\/ ~ Votable(t)
              \/ db[t].VoteChoices = 0
              \/ wallets[w][t] # Absent /\ wallets[w][t].VoteChoices = db[t].VoteChoices)

-----------------------------------------------------------------------------
(* What the repository says and the code does not do: each of these is     *)
(* violated.                                                               *)

\* "NoFee indicates no fee tx has been received yet" (database/ticket.go):
\* not of a ticket whose fee the server has acknowledged.
NoFeeMeansNone ==
    \A t \in Tickets : Exists(db, t) /\ db[t].FeeTxStatus = "none" =>
        \A f \in acked[t] : PaysTo[f] # db[t].FeeAddress

\* "FeeError indicates fee tx could not be broadcast due to an error"
\* (database/ticket.go): not of a fee that was broadcast and that the network
\* still has.
FeeErrorMeansNotBroadcast ==
    \A t \in Tickets : Exists(db, t) /\ db[t].FeeTxStatus = "error" =>
        ~ (db[t].FeeTxHash \in sent /\ feeTx[db[t].FeeTxHash] # "unknown")

\* "Outcome is set once a ticket is either voted or revoked"
\* (database/ticket.go).
OutcomeSet ==
    \A t \in Tickets :
        Votable(t) /\ t \in Spent ~> Exists(db, t) /\ db[t].Outcome # ""
=============================================================================
