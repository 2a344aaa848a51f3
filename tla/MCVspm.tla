------------------------------- MODULE MCVspm -------------------------------
(* Instances of Vspm for TLC.                                              *)
EXTENDS Vspm, FiniteSets, TLC

\* One ticket: every fee pays the first address derived.
PayFirst == [f \in FeeTxs |-> 1]

\* Every fee pays an address of its own.
PayEach == CHOOSE g \in [FeeTxs -> 1 .. Cardinality(FeeTxs)] :
               \A e, f \in FeeTxs : g[e] = g[f] => e = f

Symmetry == Permutations(Slots) \union Permutations(FeeTxs)

SlotSymmetry == Permutations(Slots)

RegistrationSymmetry ==
    Permutations(Slots) \union Permutations(Tickets) \union Permutations(AltSignAddrs)

-----------------------------------------------------------------------------
(* Start after the registration: every ticket has an address, and its fee  *)
(* was received, acknowledged and recorded before the purchase was final.  *)
(* Vspm!Init reaches this state by Receive, NewFeeAddress, InsertTicket,   *)
(* Receive, PayFee and RecordVoteChange for each ticket, and further       *)
(* levels of the purchase by MineTicket.                                   *)

Number == CHOOSE n \in [Tickets -> 1 .. Cardinality(Tickets)] :
              \A t, u \in Tickets : n[t] = n[u] => t = u

FeeOf(t) == CHOOSE f \in FeeTxs : PaysTo[f] = Number[t]

InitPaid(level) ==
    /\ db = [t \in Tickets |->
                [FeeAddress |-> Number[t], FeeExpiration |-> 0, Confirmed |-> FALSE,
                 FeeTxHash |-> FeeOf(t), FeeTxHex |-> TRUE, FeeTxStatus |-> "received",
                 VoteChoices |-> 1, Outcome |-> ""]]
    /\ changes = [t \in Tickets |-> <<1>>]
    /\ alt = [t \in Tickets |-> Absent]
    /\ lastAddr = Cardinality(Tickets)
    /\ ticketTx = [t \in Tickets |-> level]
    /\ feeTx = [f \in FeeTxs |-> "unknown"]
    /\ tipSpent = {}
    /\ wallets = [w \in Wallets |-> [t \in Tickets |-> Absent]]
    /\ scan = NotScanned
    /\ upd = IdleUpdater
    /\ req = [q \in Slots |-> IdleRequest]
    /\ clock = 0 /\ faults = 0 /\ crashes = 0
    /\ issued = [t \in Tickets |-> {Number[t]}]
    /\ sent = {}
    /\ acked = [t \in Tickets |-> {FeeOf(t)}]
    /\ altAcked = [t \in Tickets |-> {}]

SpecPaid == InitPaid("mined") /\ [][Next]_vars

\* The same, with a purchase that no reorganization undoes any more.
SpecMature == InitPaid("live") /\ [][Next]_vars

FairSpecPaid == SpecPaid /\ Fairness
=============================================================================
