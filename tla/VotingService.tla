---------------------------- MODULE VotingService ----------------------------
(***************************************************************************)
(* What a VSP promises its clients and the network, as far as they can see *)
(* it: docs/api.md and docs/two-way-accountability.md say it of the        *)
(* program, Vspm is shown to implement it.  Of the database, its threads   *)
(* and their stale copies nothing is left here.                            *)
(***************************************************************************)

CONSTANTS
    Tickets, FeeTxs, Wallets,
    PaysTo     \* PaysTo[f]: the fee address f pays

VARIABLES
    final,     \* tickets whose purchase has its confirmations
    paid,      \* fee transactions that have theirs
    issued,    \* fee addresses given out for each ticket
    acked,     \* fee transactions acknowledged, signed, for each ticket
    sent,      \* fee transactions the VSP sent to the network
    holds      \* tickets each voting wallet holds

vars == <<final, paid, issued, acked, sent, holds>>

\* f pays an address given out for t.
Pays(f, t) == PaysTo[f] \in issued[t]

Init ==
    /\ final = {} /\ paid = {} /\ sent = {}
    /\ issued = [t \in Tickets |-> {}]
    /\ acked = [t \in Tickets |-> {}]
    /\ holds = [w \in Wallets |-> {}]

Confirm(t) ==
    /\ final' = final \union {t}
    /\ UNCHANGED <<paid, issued, acked, sent, holds>>

\* An address is given out once, for one ticket.
Issue(t) ==
    /\ \E a \in issued'[t] :
          /\ \A u \in Tickets : a \notin issued[u]
          /\ issued' = [issued EXCEPT ![t] = @ \union {a}]
    /\ UNCHANGED <<final, paid, acked, sent, holds>>

\* A fee is acknowledged for the ticket whose address it pays.
Acknowledge(t, f) ==
    /\ Pays(f, t)
    /\ acked' = [acked EXCEPT ![t] = @ \union {f}]
    /\ UNCHANGED <<final, paid, issued, sent, holds>>

\* A fee is not sent before the ticket it is paid for is safely purchased.
Send(f) ==
    /\ \E t \in final : Pays(f, t)
    /\ sent' = sent \union {f}
    /\ UNCHANGED <<final, paid, issued, acked, holds>>

\* Whoever publishes the fee, it pays an address that was given out.
Pay(f) ==
    /\ \E t \in Tickets : Pays(f, t)
    /\ paid' = paid \union {f}
    /\ UNCHANGED <<final, issued, acked, sent, holds>>

\* Wallets get tickets whose fee is paid; they are never taken from them.
Hold(w) ==
    /\ \E S \in SUBSET {t \in Tickets : \E f \in paid : Pays(f, t)} :
          holds' = [holds EXCEPT ![w] = @ \union S]
    /\ UNCHANGED <<final, paid, issued, acked, sent>>

Next ==
    \/ \E t \in Tickets : Confirm(t) \/ Issue(t) \/ \E f \in FeeTxs : Acknowledge(t, f)
    \/ \E f \in FeeTxs : Send(f) \/ Pay(f)
    \/ \E w \in Wallets : Hold(w)

Spec == Init /\ [][Next]_vars
=============================================================================
