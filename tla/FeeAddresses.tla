---------------------------- MODULE FeeAddresses ----------------------------
(***************************************************************************)
(* The fee address generator (internal/webapi/addressgenerator.go) and the *)
(* bucket of extended public keys it works from (database/feexpub.go).     *)
(*                                                                         *)
(* The generator counts the addresses of the active key in memory; the     *)
(* database keeps the last index of every key, which the generator starts  *)
(* from.  Requests derive under addrMtx; the index is stored by a read     *)
(* transaction and a write transaction.  vspmadmin replaces the active key *)
(* while the server is stopped: bbolt locks the database file.  WebAPI     *)
(* takes all of this for one step, NewFeeAddress.                          *)
(*                                                                         *)
(* Bound: MaxIndex.  Beyond 2^31 - 1 the derivation fails.                 *)
(***************************************************************************)
EXTENDS Naturals, Sequences

CONSTANTS
    Keys,          \* extended public keys of the operator
    FirstKey,      \* the key the database was created with
    InvalidChild,  \* the <<key, index>> that give no address (ErrInvalidChild)
    Requests,      \* requests that need a fee address
    MaxIndex,      \* bound: no index above it is derived
    Stopped        \* there is no generator: the server is not running

ASSUME AddressAssumption ==
    /\ FirstKey \in Keys
    /\ InvalidChild \subseteq Keys \X Nat
    /\ MaxIndex \in Nat

FeeXPub == [ID : Nat, Key : Keys, LastUsedIdx : Nat, Retired : BOOLEAN]

addressGenerator == [key : Keys, lastUsedIndex : Nat, feeXPubID : Nat]

ASSUME StoppedAssumption == Stopped \notin addressGenerator

VARIABLES
    xpubs,    \* the xpub bucket, by ID
    addrGen,  \* the generator of the running server
    call,     \* of each request: how far getNewFeeAddress has got
    handed    \* history: addresses handed out, in order

vars == <<xpubs, addrGen, call, handed>>

-----------------------------------------------------------------------------
(* database/feexpub.go                                                     *)

\* Store a key under its ID, whatever is there.
insertFeeXPub(x, r) == [i \in DOMAIN x \union {r.ID} |-> IF i = r.ID THEN r ELSE x[i]]

\* Faulty variant: the key with the lowest ID is taken.
Lowest(x) == CHOOSE i \in DOMAIN x : \A j \in DOMAIN x : i <= j

\* The active key is the one with the highest ID.
Highest(x) == CHOOSE i \in DOMAIN x : \A j \in DOMAIN x : j <= i

Active(x) == x[Highest(x)]

\* Faulty variant: the new key takes over the index of the retired one.
NewXPubInheriting(k, old) ==
    [ID |-> old.ID, Key |-> k, LastUsedIdx |-> old.LastUsedIdx, Retired |-> FALSE]

NewXPub(k, old) ==
    [ID |-> old.ID + 1, Key |-> k, LastUsedIdx |-> 0, Retired |-> FALSE]

-----------------------------------------------------------------------------
(* The generator                                                           *)

\* Faulty variant: the stored index is not taken over.
newAddressGeneratorReset(x) ==
    [key |-> x.Key, lastUsedIndex |-> 0, feeXPubID |-> x.ID]

newAddressGenerator(x) ==
    [key |-> x.Key, lastUsedIndex |-> x.LastUsedIdx, feeXPubID |-> x.ID]

\* nextAddress skips an index without an address, but gives up at the third.
Tried(g) == g.lastUsedIndex + 1 .. g.lastUsedIndex + 3

Valid(g) == {i \in Tried(g) : <<g.key, i>> \notin InvalidChild}

-----------------------------------------------------------------------------
FirstXPub == [ID |-> 0, Key |-> FirstKey, LastUsedIdx |-> 0, Retired |-> FALSE]

\* pc: "idle", "derived" the index idx, or "read" the record current to store it.
IdleCall == [pc |-> "idle", idx |-> 0, current |-> FirstXPub]

Init ==
    /\ xpubs = [i \in {0} |-> FirstXPub]
    /\ addrGen = Stopped
    /\ call = [q \in Requests |-> IdleCall]
    /\ handed = << >>

Start ==
    /\ addrGen = Stopped
    /\ addrGen' = newAddressGenerator(Active(xpubs))
    /\ UNCHANGED <<xpubs, call, handed>>

\* A shutdown, or a crash.
Stop ==
    /\ addrGen # Stopped
    /\ addrGen' = Stopped
    /\ call' = [q \in Requests |-> IdleCall]
    /\ UNCHANGED <<xpubs, handed>>

\* Faulty variant: addrMtx is not taken, the file is not locked.
AlwaysFree == TRUE

AddrMtxFree == \A q \in Requests : call[q].pc = "idle"

FileFree == addrGen = Stopped

\* vspmadmin retirexpub: the database is its own, so its transactions are one
\* step.
RetireXPub(k) ==
    /\ FileFree
    /\ \A i \in DOMAIN xpubs : xpubs[i].Key # k
    /\ LET old == Active(xpubs)
       IN  xpubs' = insertFeeXPub(insertFeeXPub(xpubs, [old EXCEPT !.Retired = TRUE]),
                                  NewXPub(k, old))
    /\ UNCHANGED <<addrGen, call, handed>>

nextAddress(q) ==
    /\ addrGen # Stopped
    /\ call[q].pc = "idle" /\ AddrMtxFree
    /\ addrGen.lastUsedIndex + 3 <= MaxIndex
    /\ \/ /\ Valid(addrGen) = {}
          /\ addrGen' = [addrGen EXCEPT !.lastUsedIndex = @ + 3]
          /\ UNCHANGED call
       \/ \E i \in Valid(addrGen) :
          /\ \A j \in Valid(addrGen) : i <= j
          /\ addrGen' = [addrGen EXCEPT !.lastUsedIndex = i]
          /\ call' = [call EXCEPT ![q].pc = "derived", ![q].idx = i]
    /\ UNCHANGED <<xpubs, handed>>

\* SetLastAddressIndex, first transaction.
ReadFeeXPub(q) ==
    /\ call[q].pc = "derived"
    /\ call' = [call EXCEPT ![q].pc = "read", ![q].current = Active(xpubs)]
    /\ UNCHANGED <<xpubs, addrGen, handed>>

\* Its second transaction; the address is returned, with the ID of the key.
SetLastAddressIndex(q) ==
    /\ call[q].pc = "read"
    /\ xpubs' = insertFeeXPub(xpubs, [call[q].current EXCEPT !.LastUsedIdx = call[q].idx])
    /\ handed' = Append(handed, [key |-> addrGen.key, idx |-> call[q].idx,
                                 xPubID |-> addrGen.feeXPubID])
    /\ call' = [call EXCEPT ![q] = IdleCall]
    /\ UNCHANGED addrGen

\* A transaction fails: no address is returned, the counter stays moved on.
Fail(q) ==
    /\ call[q].pc \in {"derived", "read"}
    /\ call' = [call EXCEPT ![q] = IdleCall]
    /\ UNCHANGED <<xpubs, addrGen, handed>>

Next ==
    \/ Start
    \/ Stop
    \/ \E k \in Keys : RetireXPub(k)
    \/ \E q \in Requests : nextAddress(q)
    \/ \E q \in Requests : ReadFeeXPub(q)
    \/ \E q \in Requests : SetLastAddressIndex(q)
    \/ \E q \in Requests : Fail(q)

Spec == Init /\ [][Next]_vars

-----------------------------------------------------------------------------
Handed == [key : Keys, idx : Nat, xPubID : Nat]

\* The bucket, the generator and the requests have the form the code gives them.
AddressTypeOK ==
    /\ DOMAIN xpubs = 0 .. Highest(xpubs)
    /\ \A i \in DOMAIN xpubs : xpubs[i] \in FeeXPub
    /\ addrGen \in addressGenerator \union {Stopped}
    /\ call \in [Requests -> [pc : {"idle", "derived", "read"}, idx : Nat,
                              current : FeeXPub]]
    /\ handed \in Seq(Handed)

\* Every address ever handed out can be found again from the database: its key
\* is stored under the ID kept with the ticket, and the last index used of this
\* key covers it, also when requests, crashes, failed transactions and
\* replaced keys got between deriving and storing (getNewFeeAddress).
HandedRecoverable ==
    \A n \in 1 .. Len(handed) :
        LET a == handed[n]
        IN  /\ a.xPubID \in DOMAIN xpubs
            /\ xpubs[a.xPubID].Key = a.key
            /\ a.idx <= xpubs[a.xPubID].LastUsedIdx

\* Once retired, a key is never used again: its record stays as it is, though
\* records are stored under their ID whatever is there (RetireXPub,
\* insertFeeXPub).
RetiredStays ==
    [][\A i \in DOMAIN xpubs : xpubs[i].Retired =>
            i \in DOMAIN xpubs' /\ xpubs'[i] = xpubs[i]]_vars

\* The addresses, without the ID kept with them.
Fresh == INSTANCE FreshAddresses WITH
    Address <- Keys \X (0 .. MaxIndex),
    handed  <- [n \in DOMAIN handed |-> <<handed[n].key, handed[n].idx>>]

\* No fee address is handed out twice (nextAddress, SetLastAddressIndex).
AddressesFresh == Fresh!Spec
=============================================================================
