---------------------------- MODULE VspDatabase ----------------------------
(***************************************************************************)
(* The ticket and vote change buckets of the bbolt database of vspm        *)
(* (database/ticket.go, database/votechange.go).  Every operation of the   *)
(* database runs in one bbolt transaction, so each is an operator from the *)
(* contents before to the contents after, and one step of its caller.      *)
(*                                                                         *)
(* A ticket record keeps what the rest of the program branches on.  Not    *)
(* kept: the commitment address and the voting WIF (fixed per ticket), the *)
(* fee amount (whether a payment is large enough is an input of the        *)
(* request), PurchaseHeight, which is written together with Confirmed      *)
(* everywhere outside the database upgrades and is non-zero exactly when   *)
(* Confirmed is set, and the content of the vote choices: they are named   *)
(* by the timestamp of the request that last set some, 0 for an empty map. *)
(* TSpendPolicy and TreasuryPolicy are left out: the handlers treat them   *)
(* as they do the vote choices, and no property tells them apart.          *)
(***************************************************************************)
EXTENDS Naturals, Sequences

CONSTANTS
    Tickets,              \* ticket hashes
    FeeTxs,               \* fee transactions clients may submit
    PaysTo,               \* PaysTo[f]: index of the fee address f pays
    AltSignAddrs,         \* alternate signing addresses clients may submit
    NoTx,                 \* the empty FeeTxHash
    Absent,               \* no such record (or, of a thread, no such ticket)
    MaxVoteChangeRecords  \* maxVoteChangeRecords, 10 in cmd/vspm

ASSUME DatabaseAssumption ==
    /\ PaysTo \in [FeeTxs -> Nat]
    /\ NoTx \notin FeeTxs
    /\ Absent \notin Tickets
    /\ MaxVoteChangeRecords \in Nat \ {0}

FeeStatus == {"none", "received", "broadcast", "confirmed", "error"}

\* The statuses in which /feeaddress and /payfee consider the fee received.
FeeKnown == {"received", "broadcast", "confirmed"}

\* The ways a ticket is spent, and the outcomes recorded for it.
TicketOutcome == {"voted", "missed", "expired"}

\* The stored fields of a ticket; FeeTxHex only says whether the hex is there.
Ticket == [FeeAddress    : Nat,
           FeeExpiration : Nat,
           Confirmed     : BOOLEAN,
           FeeTxHash     : FeeTxs \union {NoTx},
           FeeTxHex      : BOOLEAN,
           FeeTxStatus   : FeeStatus,
           VoteChoices   : Nat,
           Outcome       : TicketOutcome \union {""}]

ASSUME AbsentAssumption == Absent \notin Ticket \union AltSignAddrs

\* The contents of the ticket bucket.
TicketBucket == [Tickets -> Ticket \union {Absent}]

Exists(d, t) == d[t] # Absent

-----------------------------------------------------------------------------
(* Writes.  UpdateTicket stores every field of the record it is given,     *)
(* whatever is in the bucket, and fails only when the ticket is not there. *)

\* Faulty variant: a record that is there is replaced.
InsertNewTicketReplacing(d, t, r) == [d EXCEPT ![t] = r]

InsertNewTicket(d, t, r) == IF Exists(d, t) THEN d ELSE [d EXCEPT ![t] = r]

\* Faulty variant: the bucket of the ticket is created if it is not there.
UpdateTicketUpsert(d, t, r) == [d EXCEPT ![t] = r]

UpdateTicket(d, t, r) == IF Exists(d, t) THEN [d EXCEPT ![t] = r] ELSE d

DeleteTicket(d, t) == [d EXCEPT ![t] = Absent]

\* Faulty variant: one record less is kept.
SaveVoteChangeFewer(log, ts) ==
    Append(IF Len(log) >= MaxVoteChangeRecords - 1 THEN Tail(log) ELSE log, ts)

\* Append a vote change record, dropping the oldest one at the limit.
SaveVoteChange(log, ts) ==
    Append(IF Len(log) >= MaxVoteChangeRecords THEN Tail(log) ELSE log, ts)

\* Faulty variant: an address that is there is replaced.
InsertAltSignAddrReplacing(al, t, a) == [al EXCEPT ![t] = a]

\* Fails if the ticket has an alternate signing address.
InsertAltSignAddr(al, t, a) == IF al[t] = Absent THEN [al EXCEPT ![t] = a] ELSE al

DeleteAltSignAddr(al, t) == [al EXCEPT ![t] = Absent]

-----------------------------------------------------------------------------
(* The lists the update loop works from.                                   *)

GetUnconfirmedTickets(d) == {t \in Tickets : Exists(d, t) /\ ~ d[t].Confirmed}

\* Faulty variants: the purchase is not looked at, or looked at wrongly.
GetPendingFeesUnconfirmed(d) ==
    {t \in Tickets : Exists(d, t) /\ d[t].FeeTxStatus = "received"}

GetPendingFeesNever(d) ==
    {t \in Tickets : Exists(d, t) /\ ~ d[t].Confirmed /\ d[t].FeeTxStatus = "broadcast"}

GetPendingFees(d) ==
    {t \in Tickets : Exists(d, t) /\ d[t].Confirmed
                                  /\ d[t].FeeTxStatus = "received"}

\* Faulty variant: also the fees that are not broadcast.
GetUnconfirmedFeesReceived(d) ==
    {t \in Tickets : Exists(d, t) /\ d[t].FeeTxStatus \in {"received", "broadcast"}}

GetUnconfirmedFees(d) ==
    {t \in Tickets : Exists(d, t) /\ d[t].FeeTxStatus = "broadcast"}

\* Faulty variant: also the tickets whose fee is not confirmed.
GetVotableTicketsUnpaid(d) ==
    {t \in Tickets : Exists(d, t) /\ d[t].FeeTxStatus \in {"broadcast", "confirmed"}
                                  /\ d[t].Outcome = ""}

GetVotableTickets(d) ==
    {t \in Tickets : Exists(d, t) /\ d[t].FeeTxStatus = "confirmed"
                                  /\ d[t].Outcome = ""}
=============================================================================
