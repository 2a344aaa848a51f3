------------------------------- MODULE Updater -------------------------------
(***************************************************************************)
(* The goroutine of Run (internal/vspm): the update of the database on     *)
(* every block, and the periodic voting wallet consistency check.          *)
(*                                                                         *)
(* Each phase reads a list of tickets from the database and then handles   *)
(* them one by one from that copy, in the order of the database, modelled  *)
(* as any order.  An RPC call and the database write that follows it are   *)
(* two steps, so requests run in between.  A block notification may start  *)
(* an update whenever the goroutine is idle, and the ticker a consistency  *)
(* check; one that finds mond unreachable does nothing.                    *)
(***************************************************************************)
EXTENDS VspState

Step(pc) == upd.pc = pc

\* Take the tickets of S from the database as the list of phase pc.
StartPhase(pc, S) ==
    upd' = [IdleUpdater EXCEPT !.pc = pc,
                !.list = [t \in Tickets |-> IF t \in S THEN db[t] ELSE Absent]]

Pending == {t \in Tickets : upd.list[t] # Absent}

\* Handle t next, in step pc.
Handle(t, pc) == upd' = [upd EXCEPT !.cur = t, !.pc = pc]

\* Done with t: back to the loop, whose step is pc.
Continue(t, pc) == upd' = [upd EXCEPT !.list[t] = Absent, !.cur = Absent,
                                      !.left = {}, !.pc = pc]

CurRecord == upd.list[upd.cur]

-----------------------------------------------------------------------------
(* Step 1/4, updateUnconfirmed                                             *)

StartUpdate ==
    /\ Step("idle")
    /\ StartPhase("unconfirmed", GetUnconfirmedTickets(db))
    /\ UNCHANGED <<database, chain, wallets, scan, req, bounds, history>>

\* GetRawTransaction of an unconfirmed ticket.
LookUpTicket(t) ==
    /\ Step("unconfirmed") /\ t \in Pending
    /\ \/ ticketTx[t] = "unknown" /\ Handle(t, "delete") /\ UNCHANGED faults
       \/ ticketTx[t] \in Final   /\ Handle(t, "confirm") /\ UNCHANGED faults
       \/ ticketTx[t] \in {"mempool", "mined"} /\ Continue(t, "unconfirmed")
                                               /\ UNCHANGED faults
       \/ Continue(t, "unconfirmed") /\ Fault
    /\ UNCHANGED <<database, chain, wallets, scan, req, clock, crashes, history>>

\* No information about the ticket: remove it, then its alternate address.
RemoveTicket ==
    /\ Step("delete")
    /\ db' = DeleteTicket(db, upd.cur)
    /\ upd' = [upd EXCEPT !.pc = "deleteAlt"]
    /\ UNCHANGED <<changes, alt, lastAddr, chain, wallets, scan, req, bounds, history>>

RemoveAltSignAddr ==
    /\ Step("deleteAlt")
    /\ alt' = DeleteAltSignAddr(alt, upd.cur)
    /\ Continue(upd.cur, "unconfirmed")
    /\ UNCHANGED <<db, changes, lastAddr, chain, wallets, scan, req, bounds, history>>

ConfirmTicket ==
    /\ Step("confirm")
    /\ db' = UpdateTicket(db, upd.cur, [CurRecord EXCEPT !.Confirmed = TRUE])
    /\ Continue(upd.cur, "unconfirmed")
    /\ UNCHANGED <<changes, alt, lastAddr, chain, wallets, scan, req, bounds, history>>

-----------------------------------------------------------------------------
(* Step 2/4, broadcastFees                                                 *)

StartBroadcastFees ==
    /\ Step("unconfirmed") /\ Pending = {}
    /\ StartPhase("fees", GetPendingFees(db))
    /\ UNCHANGED <<database, chain, wallets, scan, req, bounds, history>>

\* mond may refuse the transaction, or the call fail, at any time.
SendPendingFee(t) ==
    /\ Step("fees") /\ t \in Pending
    /\ \/ SendFee(upd.list[t].FeeTxHash) /\ Handle(t, "feeSent")
       \/ UNCHANGED <<feeTx, sent>> /\ Handle(t, "feeRefused")
    /\ UNCHANGED <<database, ticketTx, tipSpent, wallets, scan, req, bounds,
                   issued, acked, altAcked>>

SaveFeeSent ==
    /\ upd.pc \in {"feeSent", "feeRefused"}
    /\ db' = UpdateTicket(db, upd.cur, [CurRecord EXCEPT
                !.FeeTxStatus = IF upd.pc = "feeSent" THEN "broadcast" ELSE "error"])
    /\ Continue(upd.cur, "fees")
    /\ UNCHANGED <<changes, alt, lastAddr, chain, wallets, scan, req, bounds, history>>

-----------------------------------------------------------------------------
(* Step 3/4, addToWallets                                                  *)

\* With no wallet connected the phase is skipped.
StartAddToWallets ==
    /\ Step("fees") /\ Pending = {}
    /\ \E C \in SUBSET Wallets :
        /\ Connect(C)
        /\ upd' = [IdleUpdater EXCEPT
                    !.pc = "wallets", !.clients = C,
                    !.list = [t \in Tickets |->
                                IF C # {} /\ t \in GetUnconfirmedFees(db)
                                THEN db[t] ELSE Absent]]
    /\ UNCHANGED <<database, chain, wallets, scan, req, clock, crashes, history>>

\* GetRawTransaction of a broadcast fee: every error is taken for a failure
\* of the fee transaction.
LookUpFee(t) ==
    /\ Step("wallets") /\ t \in Pending
    /\ LET level == feeTx[upd.list[t].FeeTxHash]
       IN  \/ level = "unknown" /\ Handle(t, "feeLost") /\ UNCHANGED faults
           \/ level = "final"   /\ Handle(t, "feeFinal") /\ UNCHANGED faults
           \/ level \in {"mempool", "mined"} /\ Continue(t, "wallets") /\ UNCHANGED faults
           \/ Handle(t, "feeLost") /\ Fault
    /\ UNCHANGED <<database, chain, wallets, scan, req, clock, crashes, history>>

SaveFeeLost ==
    /\ Step("feeLost")
    /\ db' = UpdateTicket(db, upd.cur, [CurRecord EXCEPT !.FeeTxStatus = "error"])
    /\ Continue(upd.cur, "wallets")
    /\ UNCHANGED <<changes, alt, lastAddr, chain, wallets, scan, req, bounds, history>>

\* Record the confirmed fee, then look up the ticket to add it to the wallets;
\* stop if the ticket is gone from the database or the lookup fails.
SaveFeeFinal ==
    /\ Step("feeFinal")
    /\ LET paid == [CurRecord EXCEPT !.FeeTxHex = FALSE, !.FeeTxStatus = "confirmed"]
       IN  /\ db' = UpdateTicket(db, upd.cur, paid)
           /\ \/ /\ Exists(db, upd.cur)
                 /\ upd' = [upd EXCEPT !.pc = "add", !.list[upd.cur] = paid,
                                       !.left = upd.clients]
                 /\ UNCHANGED faults
              \/ ~ Exists(db, upd.cur) /\ Continue(upd.cur, "wallets") /\ UNCHANGED faults
              \/ Exists(db, upd.cur) /\ Continue(upd.cur, "wallets") /\ Fault
    /\ UNCHANGED <<changes, alt, lastAddr, chain, wallets, scan, req, clock, crashes, history>>

\* The wallet's tickets after AddTicketForVoting.
AddTicketForVoting(W, t) ==
    IF W[t] = Absent THEN [W EXCEPT ![t] = [VoteChoices |-> 0]] ELSE W

\* An agenda the wallet answers it does not have is removed from the record,
\* which is then saved; the wallets that follow are not given it.
AgendaRemoved(w, r) == w \in StaleWallets /\ r.VoteChoices # 0

AddToWallet(w) ==
    /\ Step("add") /\ w \in upd.left
    /\ \/ /\ \E ok \in BOOLEAN :
                /\ ChoiceCall(w, ok)
                /\ wallets' = [wallets EXCEPT ![w] =
                       SetVoteChoice(AddTicketForVoting(@, upd.cur), upd.cur, CurRecord, ok)]
          /\ \/ LET r == [CurRecord EXCEPT !.VoteChoices = 0]
                IN  /\ AgendaRemoved(w, CurRecord)
                    /\ db' = UpdateTicket(db, upd.cur, r)
                    /\ upd' = [upd EXCEPT !.left = @ \ {w}, !.list[upd.cur] = r]
             \/ /\ AgendaRemoved(w, CurRecord) => faults' # faults
                /\ UNCHANGED db
                /\ upd' = [upd EXCEPT !.left = @ \ {w}]
       \/ /\ Fault   \* AddTicketForVoting failed: go on with the next wallet
          /\ upd' = [upd EXCEPT !.left = @ \ {w}]
          /\ UNCHANGED <<db, wallets>>
    /\ UNCHANGED <<changes, alt, lastAddr, chain, scan, req, clock, crashes, history>>

TicketAdded ==
    /\ Step("add") /\ upd.left = {}
    /\ Continue(upd.cur, "wallets")
    /\ UNCHANGED <<database, chain, wallets, scan, req, bounds, history>>

-----------------------------------------------------------------------------
(* Step 4/4, setOutcomes                                                   *)

Spent == {t \in Tickets : ticketTx[t] \in TicketOutcome}

\* The scan starts at lastScannedBlock, included, or when that is not set at
\* the height where the earliest votable ticket matured.  It is not run when
\* that height is in the future, and a failing call ends the update.
\* lastScannedBlock moves on before any outcome is saved.
SetOutcomes ==
    /\ Step("wallets") /\ Pending = {}
    /\ LET votable == GetVotableTickets(db)
           immature == \A t \in votable : ticketTx[t] = "final"
           found == (votable \intersect Spent) \ scan.behind
       IN  \/ /\ votable # {} /\ (scan.set \/ ~ immature)
              /\ StartPhase("outcomes", found)
              /\ scan' = [set |-> TRUE, behind |-> Spent \ tipSpent]
              /\ UNCHANGED faults
           \/ /\ votable = {} \/ (~ scan.set /\ immature)
              /\ StartPhase("idle", {})
              /\ UNCHANGED <<scan, faults>>
           \/ votable # {} /\ StartPhase("idle", {}) /\ UNCHANGED scan /\ Fault
    /\ UNCHANGED <<database, chain, wallets, req, clock, crashes, history>>

\* Faulty variant: the transaction is not looked at, and the deprecated outcome
\* for any spend that is not a vote is stored.
OutcomeDeprecated(t) == {"revoked"}

\* A vote is told from a revocation by its transaction.  Whether a revoked
\* ticket was missed or had expired is guessed from heights, and may be wrong.
OutcomeOf(t) == IF ticketTx[t] = "voted" THEN {"voted"} ELSE {"missed", "expired"}

SaveOutcome(t) ==
    /\ Step("outcomes") /\ t \in Pending
    /\ \E outcome \in OutcomeOf(t) :
        db' = UpdateTicket(db, t, [upd.list[t] EXCEPT !.Outcome = outcome])
    /\ Continue(t, "outcomes")
    /\ UNCHANGED <<changes, alt, lastAddr, chain, wallets, scan, req, bounds, history>>

EndUpdate ==
    /\ Step("outcomes") /\ Pending = {}
    /\ upd' = IdleUpdater
    /\ UNCHANGED <<database, chain, wallets, scan, req, bounds, history>>

-----------------------------------------------------------------------------
(* checkWalletConsistency                                                  *)

StartConsistencyCheck ==
    /\ Step("idle") /\ GetVotableTickets(db) # {}
    /\ \E C \in SUBSET Wallets \ {{}} :
        /\ Connect(C)
        /\ upd' = [IdleUpdater EXCEPT
                    !.pc = "missing", !.clients = C, !.left = C,
                    !.list = [t \in Tickets |-> IF t \in GetVotableTickets(db)
                                                THEN db[t] ELSE Absent]]
    /\ UNCHANGED <<database, chain, wallets, scan, req, clock, crashes, history>>

\* Faulty variant: the test whether the wallet has the ticket is inverted.
MissingTicketsInverted(w) == {t \in Pending : wallets[w][t] # Absent}

MissingTickets(w) == {t \in Pending : wallets[w][t] = Absent}

\* Step 1/2: add the tickets the wallet misses; any of the calls may fail.
\* No other thread adds tickets, so reading the wallet and adding is one step.
AddMissingTickets(w) ==
    /\ Step("missing") /\ w \in upd.left
    /\ \E S \in SUBSET MissingTickets(w) :
        /\ \/ S = MissingTickets(w) /\ UNCHANGED faults
           \/ S # MissingTickets(w) /\ Fault
        /\ wallets' = [wallets EXCEPT ![w] =
               [t \in Tickets |-> IF t \in S THEN AddTicketForVoting(@, t)[t] ELSE @[t]]]
    /\ upd' = [upd EXCEPT !.left = @ \ {w}]
    /\ UNCHANGED <<database, chain, scan, req, clock, crashes, history>>

StartChoicesCheck ==
    /\ Step("missing") /\ upd.left = {}
    /\ upd' = [upd EXCEPT !.pc = "choices", !.left = upd.clients]
    /\ UNCHANGED <<database, chain, wallets, scan, req, bounds, history>>

\* Faulty variant: only choices the wallet does not have at all are noticed.
WrongChoicesUnset(w) == {t \in Pending : wallets[w][t] # Absent
                                          /\ wallets[w][t].VoteChoices = 0}

\* The tickets of the list for which the wallet has other vote choices.
WrongChoices(w) ==
    {t \in Pending : /\ wallets[w][t] # Absent
                     /\ upd.list[t].VoteChoices # 0
                     /\ upd.list[t].VoteChoices # wallets[w][t].VoteChoices}

\* Step 2/2: give the wallet the vote choices of the list where it has others.
\* A wallet that lacks the agenda has it removed
\* from the record, and the record of the list saved.
CheckChoices(w) ==
    /\ Step("choices") /\ w \in upd.left
    /\ LET wrong == WrongChoices(w)
           removed(t) == [upd.list[t] EXCEPT !.VoteChoices = 0]
       IN  \/ /\ w \in StaleWallets
              /\ db' = [t \in Tickets |-> IF t \in wrong
                                          THEN UpdateTicket(db, t, removed(t))[t] ELSE db[t]]
              /\ upd' = [upd EXCEPT !.left = @ \ {w},
                            !.list = [t \in Tickets |-> IF t \in wrong THEN removed(t) ELSE @[t]]]
              /\ UNCHANGED <<wallets, faults>>
           \/ /\ w \in StaleWallets /\ Fault
              /\ upd' = [upd EXCEPT !.left = @ \ {w}]
              /\ UNCHANGED <<wallets, db>>
           \/ /\ w \notin StaleWallets
              /\ \E S \in SUBSET wrong :
                    /\ \/ S = wrong /\ UNCHANGED faults
                       \/ S # wrong /\ Fault
                    /\ wallets' = [wallets EXCEPT ![w] =
                           [t \in Tickets |-> IF t \in S
                               THEN SetVoteChoice(@, t, upd.list[t], TRUE)[t] ELSE @[t]]]
              /\ upd' = [upd EXCEPT !.left = @ \ {w}]
              /\ UNCHANGED db
    /\ UNCHANGED <<changes, alt, lastAddr, chain, scan, req, clock, crashes, history>>

EndConsistencyCheck ==
    /\ Step("choices") /\ upd.left = {}
    /\ upd' = IdleUpdater
    /\ UNCHANGED <<database, chain, wallets, scan, req, bounds, history>>

-----------------------------------------------------------------------------
Update ==
    \/ StartUpdate
    \/ \E t \in Tickets : LookUpTicket(t)
    \/ RemoveTicket \/ RemoveAltSignAddr \/ ConfirmTicket
    \/ StartBroadcastFees
    \/ \E t \in Tickets : SendPendingFee(t)
    \/ SaveFeeSent
    \/ StartAddToWallets
    \/ \E t \in Tickets : LookUpFee(t)
    \/ SaveFeeLost \/ SaveFeeFinal
    \/ \E w \in Wallets : AddToWallet(w)
    \/ TicketAdded
    \/ SetOutcomes
    \/ \E t \in Tickets : SaveOutcome(t)
    \/ EndUpdate

ConsistencyCheck ==
    \/ StartConsistencyCheck
    \/ \E w \in Wallets : AddMissingTickets(w)
    \/ StartChoicesCheck
    \/ \E w \in Wallets : CheckChoices(w)
    \/ EndConsistencyCheck
=============================================================================
