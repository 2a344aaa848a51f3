--------------------------- MODULE MCSpentTickets ---------------------------
(* Instances of SpentTickets for TLC.                                      *)
EXTENDS SpentTickets

CONSTANTS t1, t2, s1, s2

\* A ticket bought later than the other, with another commitment address.
Purchases == [t \in Tickets |-> IF t = t1 THEN 3 ELSE 1]

Addresses == [t \in Tickets |-> IF t = t2 THEN s2 ELSE s1]

\* The first one bought may miss its vote, up to its expiry height, the other expire.
Ends == [t \in Tickets |-> IF t = t1 THEN {"voted", "expired"} ELSE {"voted", "missed"}]
=============================================================================
