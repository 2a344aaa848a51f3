------------------------------- MODULE WebAPI -------------------------------
(***************************************************************************)
(* The client endpoints of the web server (internal/webapi): /feeaddress,  *)
(* /payfee, /setvotechoices and /setaltsignaddr.                           *)
(*                                                                         *)
(* Every request runs in a goroutine of its own.  vspAuth reads the ticket *)
(* from the database once and hands this copy to the handler, which checks *)
(* and changes it, calls mond or the wallets, and saves the whole record;  *)
(* nothing stops another request, or the update loop, from saving in       *)
(* between.  A request that is refused changes nothing but its slot.       *)
(***************************************************************************)
EXTENDS VspState

At(q, pc) == req[q].pc = pc

Go(q, pc) == req' = [req EXCEPT ![q].pc = pc]

Finish(q) == req' = [req EXCEPT ![q] = IdleRequest]

\* Middleware of the endpoints a new ticket is registered with: the ticket, and
\* its parent, are sent to the network if mond does not know the ticket.
BroadcastTicket(kind, t) ==
    IF kind \in {"feeaddress", "setaltsignaddr"} /\ ticketTx[t] = "unknown"
    THEN ticketTx' = [ticketTx EXCEPT ![t] = "mempool"]
    ELSE UNCHANGED ticketTx

FeeUnknown(r) == r # Absent /\ r.FeeTxStatus \notin FeeKnown

\* Answers that need no call to mond: the fee was received, or there is no ticket
\* to pay for.
AnsweredEarly(kind, r) ==
    \/ kind = "feeaddress" /\ r # Absent /\ ~ FeeUnknown(r)
    \/ kind = "payfee" /\ ~ FeeUnknown(r)

\* Middleware of all: vspAuth reads the record and checks the signature, for
\* which mond must know a ticket the database does not.  setAltSignAddr does
\* not use the record.
Receive(q, kind, t) ==
    /\ At(q, "idle")
    /\ BroadcastTicket(kind, t)
    /\ Exists(db, t) \/ ticketTx'[t] # "unknown"
    /\ \/ AnsweredEarly(kind, db[t]) /\ Finish(q)
       \/ /\ ~ AnsweredEarly(kind, db[t])
          /\ req' = [req EXCEPT ![q] = [IdleRequest EXCEPT
                        !.pc = "check", !.kind = kind, !.t = t,
                        !.rec = IF kind = "setaltsignaddr" THEN Absent ELSE db[t]]]
    /\ UNCHANGED <<database, feeTx, tipSpent, wallets, scan, upd, bounds, history>>

\* A check of the handler fails, mond cannot be reached, or an RPC call fails; or a
\* fee that has not expired is asked for again, and the record is answered with.
Refuse(q) ==
    /\ req[q].pc \in {"check", "new", "newFinal", "renew", "pay"}
    /\ Finish(q)
    /\ UNCHANGED <<database, chain, wallets, scan, upd, bounds, history>>

Checking(q, kind) == At(q, "check") /\ req[q].kind = kind

\* /feeaddress and /payfee ask mond about the ticket, and look at the clock: a
\* ticket the database does not have is new; a fee not received is renewed if it
\* has expired, and paid if not.
CheckCanVote(q) ==
    LET t == req[q].t
        rec == req[q].rec
    IN  /\ At(q, "check")
        /\ CanVote(t)
        /\ \/ /\ Checking(q, "feeaddress") /\ rec = Absent
              /\ Go(q, IF ticketTx[t] \in Final THEN "newFinal" ELSE "new")
           \/ /\ Checking(q, "feeaddress") /\ FeeUnknown(rec) /\ FeeExpired(rec)
              /\ req' = [req EXCEPT ![q].pc = "renew", ![q].rec.FeeExpiration = clock]
           \/ /\ Checking(q, "payfee") /\ FeeUnknown(rec) /\ ~ FeeExpired(rec)
              /\ Go(q, "pay")
        /\ UNCHANGED <<database, chain, wallets, scan, upd, bounds, history>>

-----------------------------------------------------------------------------
(* /feeaddress                                                             *)

\* The fee of a known ticket, with the same address.
RenewFee(q) ==
    /\ At(q, "renew")
    /\ db' = UpdateTicket(db, req[q].t, req[q].rec)
    /\ Finish(q)
    /\ UNCHANGED <<changes, alt, lastAddr, chain, wallets, scan, upd, bounds, history>>

nextAddress == lastAddr + 1

\* A new ticket: getNewFeeAddress advances the counter and, a transaction later,
\* stores its index, under addrMtx.  FeeAddresses has both halves and the crash
\* between them, and implements FreshAddresses, whose one step this is.
NewFeeAddress(q) ==
    LET addr == nextAddress
    IN  /\ req[q].pc \in {"new", "newFinal"}
        /\ addr <= MaxAddr
        /\ lastAddr' = addr
        /\ issued' = [issued EXCEPT ![req[q].t] = @ \union {addr}]
        /\ req' = [req EXCEPT ![q].pc = "insert", ![q].rec =
              [FeeAddress |-> addr, FeeExpiration |-> clock,
               Confirmed |-> At(q, "newFinal"),
               FeeTxHash |-> NoTx, FeeTxHex |-> FALSE, FeeTxStatus |-> "none",
               VoteChoices |-> 0, Outcome |-> ""]]
        /\ UNCHANGED <<db, changes, alt, chain, wallets, scan, upd, bounds,
                       sent, acked, altAcked>>

\* Fails, leaving the address unused, if another request inserted the ticket.
InsertTicket(q) ==
    /\ At(q, "insert")
    /\ db' = InsertNewTicket(db, req[q].t, req[q].rec)
    /\ Finish(q)
    /\ UNCHANGED <<changes, alt, lastAddr, chain, wallets, scan, upd, bounds, history>>

-----------------------------------------------------------------------------
(* /payfee                                                                 *)

Acknowledge(q, f) == acked' = [acked EXCEPT ![req[q].t] = @ \union {f}]

\* The record with a fee that passed every check: f pays the fee address.
Paid(rec, f, choices) ==
    [rec EXCEPT !.FeeTxHash = f, !.FeeTxHex = TRUE, !.FeeTxStatus = "received",
                !.VoteChoices = choices]

\* The fee passes the checks, and is saved.  Invalid vote choices are ignored;
\* others replace those of the record, with an empty map (0) too.  A confirmed
\* ticket has its fee sent next; for any other the request is answered, and the
\* fee left to the update loop.
PayFee(q, f, ts) ==
    LET t == req[q].t
        rec == req[q].rec
    IN  /\ At(q, "pay")
        /\ PaysTo[f] = rec.FeeAddress
        /\ \E choices \in {rec.VoteChoices, 0, ts} :
            LET paid == Paid(rec, f, choices)
            IN  /\ db' = UpdateTicket(db, t, paid)
                /\ \/ ~ Exists(db, t) /\ Finish(q) /\ UNCHANGED acked
                   \/ /\ Exists(db, t) /\ rec.Confirmed
                      /\ req' = [req EXCEPT ![q].pc = "send", ![q].rec = paid, ![q].ts = ts]
                      /\ UNCHANGED acked
                   \/ /\ Exists(db, t) /\ ~ rec.Confirmed
                      /\ req' = [req EXCEPT ![q].pc = "record", ![q].rec = paid, ![q].ts = ts]
                      /\ Acknowledge(q, f)
        /\ UNCHANGED <<changes, alt, lastAddr, chain, wallets, scan, upd, bounds,
                       issued, sent, altAcked>>

SendPaidFee(q) ==
    /\ At(q, "send")
    /\ \/ SendFee(req[q].rec.FeeTxHash) /\ Go(q, "sent")
       \/ UNCHANGED <<feeTx, sent>> /\ Go(q, "refused")
    /\ UNCHANGED <<database, ticketTx, tipSpent, wallets, scan, upd, bounds,
                   issued, acked, altAcked>>

\* The request is answered once the new status is saved.
SavePaidFeeSent(q) ==
    LET t == req[q].t
        rec == [req[q].rec EXCEPT !.FeeTxStatus = "broadcast"]
    IN  /\ At(q, "sent")
        /\ db' = UpdateTicket(db, t, rec)
        /\ IF Exists(db, t)
           THEN /\ req' = [req EXCEPT ![q].pc = "record", ![q].rec = rec]
                /\ Acknowledge(q, rec.FeeTxHash)
           ELSE Finish(q) /\ UNCHANGED acked
        /\ UNCHANGED <<changes, alt, lastAddr, chain, wallets, scan, upd, bounds,
                       issued, sent, altAcked>>

SavePaidFeeRefused(q) ==
    /\ At(q, "refused")
    /\ db' = UpdateTicket(db, req[q].t, [req[q].rec EXCEPT !.FeeTxStatus = "error"])
    /\ Finish(q)
    /\ UNCHANGED <<changes, alt, lastAddr, chain, wallets, scan, upd, bounds, history>>

-----------------------------------------------------------------------------
(* /setvotechoices                                                         *)

\* The timestamp is compared with those of the stored vote change records; an
\* empty map leaves what the record has.
CheckVoteChoices(q, ts) ==
    LET t == req[q].t
        rec == req[q].rec
    IN  /\ Checking(q, "setvotechoices")
        /\ rec # Absent /\ rec.FeeTxStatus # "none" /\ rec.Outcome = ""
        /\ \A i \in 1 .. Len(changes[t]) : ts > changes[t][i]
        /\ \E choices \in {rec.VoteChoices, ts} :
            req' = [req EXCEPT ![q].pc = "save", ![q].ts = ts,
                        ![q].rec = [rec EXCEPT !.VoteChoices = choices]]
        /\ UNCHANGED <<database, chain, wallets, scan, upd, bounds, history>>

\* The wallets are told only of a ticket whose fee is confirmed in the copy;
\* the clients were obtained before the handler ran, at least one.
SaveVoteChoices(q) ==
    LET t == req[q].t
        rec == req[q].rec
    IN  /\ At(q, "save")
        /\ db' = UpdateTicket(db, t, rec)
        /\ \/ ~ Exists(db, t) /\ Finish(q) /\ UNCHANGED faults
           \/ /\ Exists(db, t) /\ rec.FeeTxStatus # "confirmed"
              /\ Go(q, "record") /\ UNCHANGED faults
           \/ /\ Exists(db, t) /\ rec.FeeTxStatus = "confirmed"
              /\ \E C \in SUBSET Wallets \ {{}} :
                    /\ Connect(C)
                    /\ req' = [req EXCEPT ![q].pc = "wallets", ![q].left = C]
        /\ UNCHANGED <<changes, alt, lastAddr, chain, wallets, scan, upd, clock, crashes,
                       history>>

\* Errors of the wallet are logged.
UpdateWallet(q, w) ==
    /\ At(q, "wallets") /\ w \in req[q].left
    /\ \E ok \in BOOLEAN :
        /\ ChoiceCall(w, ok)
        /\ wallets' = [wallets EXCEPT ![w] =
                         SetVoteChoice(@, req[q].t, req[q].rec, ok)]
    /\ req' = [req EXCEPT ![q].left = @ \ {w},
                          ![q].pc = IF req[q].left = {w} THEN "record" ELSE @]
    /\ UNCHANGED <<database, chain, scan, upd, clock, crashes, history>>

\* After the answer to /payfee or /setvotechoices: keep the signed request.
RecordVoteChange(q) ==
    /\ At(q, "record")
    /\ changes' = [changes EXCEPT ![req[q].t] = SaveVoteChange(@, req[q].ts)]
    /\ Finish(q)
    /\ UNCHANGED <<db, alt, lastAddr, chain, wallets, scan, upd, bounds, history>>

-----------------------------------------------------------------------------
(* /setaltsignaddr                                                         *)

\* The request is answered before the address is stored.
CheckAltSignAddr(q, a) ==
    LET t == req[q].t
    IN  /\ Checking(q, "setaltsignaddr")
        /\ alt[t] = Absent
        /\ CanVote(t)
        /\ altAcked' = [altAcked EXCEPT ![t] = @ \union {a}]
        /\ req' = [req EXCEPT ![q].pc = "insertAlt", ![q].alt = a]
        /\ UNCHANGED <<database, chain, wallets, scan, upd, bounds, issued, sent, acked>>

\* Stores nothing, and logs an error, if an address is there by now.
StoreAltSignAddr(q) ==
    LET t == req[q].t
    IN  /\ At(q, "insertAlt")
        /\ alt' = InsertAltSignAddr(alt, t, req[q].alt)
        /\ Finish(q)
        /\ UNCHANGED <<db, changes, lastAddr, chain, wallets, scan, upd, bounds, history>>

-----------------------------------------------------------------------------
Serve(q) ==
    \/ \E kind \in Kinds, t \in Tickets : Receive(q, kind, t)
    \/ Refuse(q) \/ CheckCanVote(q)
    \/ RenewFee(q) \/ NewFeeAddress(q) \/ InsertTicket(q)
    \/ \E f \in FeeTxs, ts \in Timestamps : PayFee(q, f, ts)
    \/ SendPaidFee(q) \/ SavePaidFeeSent(q) \/ SavePaidFeeRefused(q)
    \/ \E ts \in Timestamps : CheckVoteChoices(q, ts)
    \/ SaveVoteChoices(q)
    \/ \E w \in Wallets : UpdateWallet(q, w)
    \/ RecordVoteChange(q)
    \/ \E a \in AltSignAddrs : CheckAltSignAddr(q, a)
    \/ StoreAltSignAddr(q)
=============================================================================
