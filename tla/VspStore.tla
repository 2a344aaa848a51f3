------------------------------ MODULE VspStore ------------------------------
(***************************************************************************)
(* What the database file, its upgrades and its backups amount to: one     *)
(* store that is created once and changed by transactions, and a backup    *)
(* that is replaced by snapshots of it, always whole and never older ones, *)
(* but for snapshots taken while two processes were at the store.          *)
(* Crashes, restarts and upgrades do not show.                             *)
(***************************************************************************)
EXTENDS Naturals

CONSTANTS
    Tickets,   \* ticket hashes
    SignKeys,  \* keys that sign responses
    XPubs,     \* extended public keys
    MaxID,     \* greatest ID of an extended public key
    Nothing,   \* no store, no snapshot, no backup, no such entry
    Torn       \* a snapshot of which nothing is known

VARIABLES
    store, snapshot, backup,
    overlap    \* a process copies the store while another one is at it too

vars == <<store, snapshot, backup>>

Ticket == [FeeTxStatus : {"none", "confirmed"}, FeeTxHex : {"", "hex"},
           VoteChoices : {"{}", "choices"}, FeeAddressXPubID : Nat]

FeeXPub == [Key : XPubs, LastUsedIdx : Nat, Retired : BOOLEAN]

NewXPub(x, idx) == [Key |-> x, LastUsedIdx |-> idx, Retired |-> FALSE]

Initial(x) == [id \in 0 .. MaxID |-> IF id = 0 THEN NewXPub(x, 0) ELSE Nothing]

NewStore(key, x) ==
    [signKey |-> key, tickets |-> [t \in Tickets |-> Nothing], altSigs |-> {},
     xpubs |-> Initial(x)]

-----------------------------------------------------------------------------
(* The transactions, from store s to s2                                    *)

\* A record is inserted, or replaced by one with an address of the same key.
PutTicket(s, s2) ==
    \E t \in Tickets :
        /\ s2.tickets[t] \in Ticket
        /\ s.tickets[t] # Nothing =>
               s2.tickets[t].FeeAddressXPubID = s.tickets[t].FeeAddressXPubID
        /\ s2 = [s EXCEPT !.tickets[t] = s2.tickets[t]]

DeleteTicket(s, s2) ==
    \E t \in Tickets : s2 = [s EXCEPT !.tickets[t] = Nothing]

InsertAltSignAddr(s, s2) ==
    \E t \in Tickets \ s.altSigs : s2 = [s EXCEPT !.altSigs = @ \union {t}]

\* id is of the active key, the last one.
Active(s, id) ==
    /\ s.xpubs[id] # Nothing
    /\ \A i \in 0 .. MaxID : i > id => s.xpubs[i] = Nothing

SetLastAddressIndex(s, s2) ==
    \E id \in 0 .. MaxID :
        /\ Active(s, id)
        /\ s2.xpubs[id] \in FeeXPub
        /\ s2 = [s EXCEPT !.xpubs[id].LastUsedIdx = s2.xpubs[id].LastUsedIdx]

RetireXPub(s, s2) ==
    \E id \in 0 .. MaxID - 1, x \in XPubs :
        /\ Active(s, id)
        /\ \A i \in 0 .. id : s.xpubs[i].Key # x
        /\ s2 = [s EXCEPT !.xpubs = [@ EXCEPT ![id].Retired = TRUE, ![id + 1] = NewXPub(x, 0)]]

Transaction(s, s2) ==
    \/ PutTicket(s, s2)
    \/ DeleteTicket(s, s2)
    \/ InsertAltSignAddr(s, s2)
    \/ SetLastAddressIndex(s, s2)
    \/ RetireXPub(s, s2)

-----------------------------------------------------------------------------
Create ==
    /\ store = Nothing
    /\ \E key \in SignKeys, x \in XPubs : store' = NewStore(key, x)
    /\ UNCHANGED <<snapshot, backup>>

Commit ==
    /\ store # Nothing
    /\ Transaction(store, store')
    /\ UNCHANGED <<snapshot, backup>>

TakeSnapshot ==
    /\ store # Nothing
    /\ snapshot' = store \/ (overlap' /\ snapshot' = Torn)
    /\ UNCHANGED <<store, backup>>

TearSnapshot ==
    /\ snapshot # Nothing /\ overlap'
    /\ snapshot' = Torn
    /\ UNCHANGED <<store, backup>>

\* The snapshot becomes the backup.
Publish ==
    /\ snapshot # Nothing
    /\ backup' = snapshot
    /\ snapshot' = Nothing
    /\ UNCHANGED store

Init == snapshot = Nothing /\ backup = Nothing   \* any store

Next == Create \/ Commit \/ TakeSnapshot \/ TearSnapshot \/ Publish

\* The overlap is the environment's.
Spec == Init /\ [][Next]_vars
=============================================================================
