--------------------------- MODULE FreshAddresses ---------------------------
(***************************************************************************)
(* What the fee address generator promises, whatever keys it goes through  *)
(* and however often it is restarted: no address is handed out twice.      *)
(***************************************************************************)
EXTENDS Sequences

CONSTANT Address   \* fee addresses

VARIABLE handed    \* those handed out, in order

Init == handed = << >>

HandOut(a) ==
    /\ \A i \in DOMAIN handed : handed[i] # a
    /\ handed' = Append(handed, a)

Next == \E a \in Address : HandOut(a)

Spec == Init /\ [][Next]_handed
=============================================================================
