------------------------- MODULE FeeAddressesProofs -------------------------
(***************************************************************************)
(* For any number of keys, requests, crashes and failed transactions: fee  *)
(* addresses are handed out once, stay recoverable, and retired keys stay  *)
(* as they are.                                                            *)
(*                                                                         *)
(* None of the three is inductive.  AddressInv adds how the bucket, the    *)
(* counter in memory and the request that holds addrMtx go together: the   *)
(* counter is never behind the stored index, and while a request is        *)
(* between deriving and storing, its index is the counter, is ahead of the *)
(* stored one, and the record it has read is still that of the database.   *)
(***************************************************************************)
EXTENDS FeeAddresses, SequenceTheorems, TLAPS

\* IDs are positions, only the last key is active, and no key is there twice.
BucketInv ==
    /\ Highest(xpubs) \in Nat
    /\ \A i \in DOMAIN xpubs :
            xpubs[i].ID = i /\ (xpubs[i].Retired <=> i # Highest(xpubs))
    /\ \A i, j \in DOMAIN xpubs : xpubs[i].Key = xpubs[j].Key => i = j

\* The generator of a running server counts on from the active key.
GeneratorInv ==
    addrGen # Stopped =>
        /\ addrGen.feeXPubID = Highest(xpubs)
        /\ addrGen.key = Active(xpubs).Key
        /\ Active(xpubs).LastUsedIdx <= addrGen.lastUsedIndex

\* What the one request in getNewFeeAddress holds.
CallInv ==
    \A q \in Requests : call[q].pc # "idle" =>
        /\ addrGen # Stopped
        /\ \A r \in Requests : call[r].pc # "idle" => r = q
        /\ call[q].idx = addrGen.lastUsedIndex
        /\ Active(xpubs).LastUsedIdx < call[q].idx
        /\ call[q].idx <= MaxIndex
        /\ call[q].pc = "read" => call[q].current = Active(xpubs)

AddressInv ==
    /\ AddressTypeOK
    /\ BucketInv
    /\ GeneratorInv
    /\ CallInv
    /\ HandedRecoverable

-----------------------------------------------------------------------------
\* The highest of 0 .. n is n.
LEMMA HighestOfRange ==
    ASSUME NEW x, NEW n \in Nat, DOMAIN x = 0 .. n
    PROVE  Highest(x) = n
<1>1. n \in DOMAIN x /\ \A j \in DOMAIN x : j <= n
  OBVIOUS
<1>2. ASSUME NEW i \in DOMAIN x, \A j \in DOMAIN x : j <= i
      PROVE  i = n
  <2>1. i \in 0 .. n /\ n <= i
    BY <1>1, <1>2
  <2> QED
    BY <2>1
<1> QED
  BY <1>1, <1>2 DEF Highest

\* Storing a record under an ID that is there replaces it and nothing else.
LEMMA StoreExisting ==
    ASSUME NEW x, NEW r, r.ID \in DOMAIN x
    PROVE  /\ DOMAIN insertFeeXPub(x, r) = DOMAIN x
           /\ \A i \in DOMAIN x : insertFeeXPub(x, r)[i] = IF i = r.ID THEN r ELSE x[i]
<1>1. DOMAIN x \union {r.ID} = DOMAIN x
  OBVIOUS
<1> QED
  BY <1>1 DEF insertFeeXPub

-----------------------------------------------------------------------------
\* SetLastAddressIndex leaves the bucket as it is but for the index of the
\* active key, which it moves on.
LEMMA StoredIndex ==
    ASSUME AddressInv, NEW q \in Requests, SetLastAddressIndex(q)
    PROVE  /\ DOMAIN xpubs' = DOMAIN xpubs
           /\ Highest(xpubs)' = Highest(xpubs)
           /\ xpubs'[Highest(xpubs)] =
                  [Active(xpubs) EXCEPT !.LastUsedIdx = call[q].idx]
           /\ \A i \in DOMAIN xpubs : i # Highest(xpubs) => xpubs'[i] = xpubs[i]
<1> DEFINE r == [Active(xpubs) EXCEPT !.LastUsedIdx = call[q].idx]
<1>1. call[q].current = Active(xpubs)
  BY DEF AddressInv, CallInv, SetLastAddressIndex
<1>2. Highest(xpubs) \in DOMAIN xpubs /\ Highest(xpubs) \in Nat
  BY DEF AddressInv, AddressTypeOK, BucketInv
<1>3. Active(xpubs) \in FeeXPub /\ Active(xpubs).ID = Highest(xpubs)
  BY <1>2 DEF AddressInv, AddressTypeOK, BucketInv, Active
<1>4. r.ID = Highest(xpubs)
  BY <1>3 DEF FeeXPub
<1>5. xpubs' = insertFeeXPub(xpubs, r)
  BY <1>1 DEF SetLastAddressIndex
<1>6. /\ DOMAIN xpubs' = DOMAIN xpubs
      /\ \A i \in DOMAIN xpubs : xpubs'[i] = IF i = Highest(xpubs) THEN r ELSE xpubs[i]
  <2> HIDE DEF r
  <2> QED
    BY <1>2, <1>4, <1>5, StoreExisting
<1>7. Highest(xpubs)' = Highest(xpubs)
  BY <1>2, <1>6, HighestOfRange DEF AddressInv, AddressTypeOK
<1> QED
  BY <1>2, <1>6, <1>7

\* RetireXPub retires the active key and adds the new one after it.
LEMMA RetiredBucket ==
    ASSUME AddressInv, NEW k \in Keys, RetireXPub(k)
    PROVE  LET n == Highest(xpubs)
           IN  /\ n \in Nat
               /\ DOMAIN xpubs = 0 .. n
               /\ DOMAIN xpubs' = 0 .. n + 1
               /\ Highest(xpubs)' = n + 1
               /\ xpubs'[n] = [xpubs[n] EXCEPT !.Retired = TRUE]
               /\ xpubs'[n + 1] = NewXPub(k, xpubs[n])
               /\ \A i \in 0 .. n : i # n => xpubs'[i] = xpubs[i]
<1> DEFINE n == Highest(xpubs)
           old == xpubs[n]
           r == [old EXCEPT !.Retired = TRUE]
           x == insertFeeXPub(xpubs, r)
           new == NewXPub(k, old)
<1>1. n \in Nat /\ DOMAIN xpubs = 0 .. n /\ n \in DOMAIN xpubs
  BY DEF AddressInv, AddressTypeOK, BucketInv
<1>2. old \in FeeXPub /\ old.ID = n
  BY <1>1 DEF AddressInv, AddressTypeOK, BucketInv
<1>3. r.ID = n /\ new.ID = n + 1
  BY <1>2 DEF FeeXPub, NewXPub
<1>4. /\ DOMAIN x = DOMAIN xpubs
      /\ \A i \in DOMAIN xpubs : x[i] = IF i = n THEN r ELSE xpubs[i]
  <2> HIDE DEF r
  <2> QED
    BY <1>1, <1>3, StoreExisting
<1>5. xpubs' = insertFeeXPub(x, new)
  BY DEF RetireXPub, Active
<1>6. DOMAIN x \union {new.ID} = 0 .. n + 1
  BY <1>1, <1>3, <1>4
<1>7. /\ DOMAIN xpubs' = 0 .. n + 1
      /\ \A i \in 0 .. n + 1 : xpubs'[i] = IF i = n + 1 THEN new ELSE x[i]
  <2> HIDE DEF x, new
  <2> QED
    BY <1>3, <1>5, <1>6 DEF insertFeeXPub
<1>8. Highest(xpubs)' = n + 1
  BY <1>1, <1>7, HighestOfRange
<1> HIDE DEF x, new, r
<1>9. xpubs'[n] = r /\ xpubs'[n + 1] = new
  BY <1>1, <1>4, <1>7
<1>10. \A i \in 0 .. n : i # n => xpubs'[i] = xpubs[i]
  BY <1>1, <1>4, <1>7
<1> QED
  BY <1>1, <1>7, <1>8, <1>9, <1>10 DEF r, new

-----------------------------------------------------------------------------
\* The invariant holds at first.
LEMMA AddressInit == Init => AddressInv
<1> SUFFICES ASSUME Init PROVE AddressInv
  OBVIOUS
<1>1. /\ DOMAIN xpubs = 0 .. 0 /\ xpubs[0] = FirstXPub
      /\ \A i \in DOMAIN xpubs : i = 0
  BY DEF Init
<1>2. Highest(xpubs) = 0
  BY <1>1, HighestOfRange
<1>3. FirstXPub \in FeeXPub
  BY AddressAssumption DEF FirstXPub, FeeXPub
<1>4. AddressTypeOK
  BY <1>1, <1>2, <1>3 DEF Init, AddressTypeOK, IdleCall, Handed
<1>5. BucketInv
  BY <1>1, <1>2 DEF BucketInv, FirstXPub
<1>6. GeneratorInv /\ CallInv /\ HandedRecoverable
  BY DEF Init, GeneratorInv, CallInv, HandedRecoverable, IdleCall
<1> QED
  BY <1>4, <1>5, <1>6 DEF AddressInv

\* The active key is in the bucket.
LEMMA ActiveTyped ==
    ASSUME AddressInv
    PROVE  /\ Highest(xpubs) \in Nat /\ Highest(xpubs) \in DOMAIN xpubs
           /\ Active(xpubs) \in FeeXPub /\ Active(xpubs) = xpubs[Highest(xpubs)]
           /\ Active(xpubs).ID = Highest(xpubs)
BY DEF AddressInv, AddressTypeOK, BucketInv, Active

\* The indexes a request may derive.
LEMMA DerivedIndex ==
    ASSUME NEW g \in addressGenerator, g.lastUsedIndex + 3 <= MaxIndex, NEW i \in Valid(g)
    PROVE  i \in Nat /\ g.lastUsedIndex < i /\ i <= MaxIndex
BY AddressAssumption DEF addressGenerator, Valid, Tried

\* Every step keeps the invariant.
LEMMA AddressNext == AddressInv /\ [Next]_vars => AddressInv'
<1> SUFFICES ASSUME AddressInv, [Next]_vars PROVE AddressInv'
  OBVIOUS
<1> USE DEF AddressInv
<1>0. IdleCall \in [pc : {"idle", "derived", "read"}, idx : Nat, current : FeeXPub]
  BY AddressAssumption DEF IdleCall, FirstXPub, FeeXPub
<1>1. CASE Start
  <2>1. UNCHANGED <<xpubs, call, handed>> /\ addrGen = Stopped
        /\ addrGen' = newAddressGenerator(Active(xpubs))
    BY <1>1 DEF Start
  <2>2. addrGen' \in addressGenerator
    BY <2>1, ActiveTyped DEF newAddressGenerator, addressGenerator, FeeXPub
  <2>3. AddressTypeOK' /\ BucketInv' /\ HandedRecoverable'
    BY <2>1, <2>2 DEF AddressTypeOK, BucketInv, HandedRecoverable
  <2>4. GeneratorInv'
    BY <2>1, ActiveTyped DEF GeneratorInv, newAddressGenerator, FeeXPub
  <2>5. CallInv'
    BY <2>1 DEF CallInv
  <2> QED
    BY <2>3, <2>4, <2>5
<1>2. CASE Stop
  <2>1. /\ UNCHANGED <<xpubs, handed>> /\ addrGen' = Stopped
        /\ call' = [q \in Requests |-> IdleCall]
    BY <1>2 DEF Stop
  <2>2. AddressTypeOK' /\ BucketInv' /\ HandedRecoverable'
    BY <1>0, <2>1 DEF AddressTypeOK, BucketInv, HandedRecoverable
  <2>3. GeneratorInv' /\ CallInv'
    BY <2>1 DEF GeneratorInv, CallInv, IdleCall
  <2> QED
    BY <2>2, <2>3
<1>3. ASSUME NEW k \in Keys, RetireXPub(k) PROVE AddressInv'
  <2> DEFINE n == Highest(xpubs)
  <2>1. /\ n \in Nat /\ DOMAIN xpubs = 0 .. n /\ n \in DOMAIN xpubs
        /\ DOMAIN xpubs' = 0 .. n + 1 /\ Highest(xpubs)' = n + 1
        /\ xpubs'[n] = [xpubs[n] EXCEPT !.Retired = TRUE]
        /\ xpubs'[n + 1] = NewXPub(k, xpubs[n])
        /\ \A i \in 0 .. n : i # n => xpubs'[i] = xpubs[i]
    <3> HIDE DEF AddressInv
    <3>1. /\ n \in Nat /\ DOMAIN xpubs = 0 .. n
          /\ DOMAIN xpubs' = 0 .. n + 1 /\ Highest(xpubs)' = n + 1
          /\ xpubs'[n] = [xpubs[n] EXCEPT !.Retired = TRUE]
          /\ xpubs'[n + 1] = NewXPub(k, xpubs[n])
          /\ \A i \in 0 .. n : i # n => xpubs'[i] = xpubs[i]
      BY <1>3, RetiredBucket
    <3> HIDE DEF n
    <3>2. n \in 0 .. n
      BY <3>1
    <3> QED
      BY <3>1, <3>2
  <2>2. /\ UNCHANGED <<addrGen, call, handed>> /\ addrGen = Stopped
        /\ \A i \in DOMAIN xpubs : xpubs[i].Key # k
    BY <1>3 DEF RetireXPub, FileFree
  <2>3. xpubs[n] \in FeeXPub /\ xpubs[n].ID = n
    BY <2>1 DEF AddressTypeOK, BucketInv
  <2>4. /\ xpubs'[n] \in FeeXPub /\ xpubs'[n].ID = n /\ xpubs'[n].Retired = TRUE
        /\ xpubs'[n].Key = xpubs[n].Key /\ xpubs'[n].LastUsedIdx = xpubs[n].LastUsedIdx
    BY <2>1, <2>3 DEF FeeXPub
  <2>5. /\ xpubs'[n + 1] \in FeeXPub /\ xpubs'[n + 1].ID = n + 1
        /\ xpubs'[n + 1].Retired = FALSE /\ xpubs'[n + 1].Key = k
    BY <2>1, <2>3 DEF FeeXPub, NewXPub
  <2>6. \A i \in 0 .. n + 1 : i \in 0 .. n \/ i = n + 1
    BY <2>1
  <2>7. \A i \in 0 .. n + 1 : xpubs'[i] \in FeeXPub
    BY <2>1, <2>4, <2>5, <2>6 DEF AddressTypeOK
  <2>8. AddressTypeOK'
    BY <2>1, <2>2, <2>7 DEF AddressTypeOK
  <2>9. BucketInv'
    <3>1. \A i \in 0 .. n + 1 : xpubs'[i].ID = i /\ (xpubs'[i].Retired <=> i # n + 1)
      <4>1. \A i \in 0 .. n : xpubs[i].ID = i /\ (xpubs[i].Retired <=> i # n)
        BY <2>1 DEF BucketInv
      <4>2. \A i \in 0 .. n : i # n + 1
        BY <2>1
      <4>3. \A i \in 0 .. n : i # n => xpubs'[i] = xpubs[i]
        BY <2>1
      <4>4. \A i \in 0 .. n : xpubs'[i].ID = i /\ xpubs'[i].Retired
        BY <2>4, <4>1, <4>3
      <4> QED
        BY <2>5, <2>6, <4>2, <4>4
    <3>2. \A i \in 0 .. n : xpubs'[i].Key = xpubs[i].Key
      BY <2>1, <2>4
    <3>3. \A i, j \in 0 .. n + 1 : xpubs'[i].Key = xpubs'[j].Key => i = j
      <4>1. \A i, j \in 0 .. n : xpubs[i].Key = xpubs[j].Key => i = j
        BY <2>1 DEF BucketInv
      <4>2. \A i \in 0 .. n : xpubs'[i].Key # k
        BY <2>1, <2>2, <3>2
      <4>3. xpubs'[n + 1].Key = k
        BY <2>5
      <4> QED
        BY <2>6, <3>2, <4>1, <4>2, <4>3
    <3> QED
      BY <2>1, <3>1, <3>3 DEF BucketInv
  <2>10. GeneratorInv' /\ CallInv'
    BY <2>2 DEF GeneratorInv, CallInv
  <2>11. HandedRecoverable'
    <3>1. \A i \in 0 .. n : i \in 0 .. n + 1
      BY <2>1
    <3>2. \A i \in 0 .. n : /\ xpubs'[i].Key = xpubs[i].Key
                             /\ xpubs'[i].LastUsedIdx = xpubs[i].LastUsedIdx
      BY <2>1, <2>4
    <3> QED
      BY <2>1, <2>2, <3>1, <3>2 DEF HandedRecoverable
  <2> QED
    BY <2>8, <2>9, <2>10, <2>11
<1>4. ASSUME NEW q \in Requests, nextAddress(q) PROVE AddressInv'
  <2>1. /\ addrGen # Stopped /\ \A r \in Requests : call[r].pc = "idle"
        /\ UNCHANGED <<xpubs, handed>> /\ addrGen.lastUsedIndex + 3 <= MaxIndex
    BY <1>4 DEF nextAddress, AddrMtxFree
  <2>2. addrGen \in addressGenerator
    BY <2>1 DEF AddressTypeOK
  <2>3. BucketInv' /\ HandedRecoverable'
    BY <2>1 DEF BucketInv, HandedRecoverable
  <2>4. CASE Valid(addrGen) = {}
    <3>1. addrGen' = [addrGen EXCEPT !.lastUsedIndex = @ + 3] /\ UNCHANGED call
      BY <1>4, <2>4 DEF nextAddress
    <3>2. addrGen' \in addressGenerator
      BY <2>2, <3>1 DEF addressGenerator
    <3>3. AddressTypeOK'
      BY <2>1, <3>1, <3>2 DEF AddressTypeOK
    <3>4. GeneratorInv'
      BY <2>1, <2>2, <3>1, ActiveTyped DEF GeneratorInv, addressGenerator, FeeXPub
    <3>5. CallInv'
      BY <2>1, <3>1 DEF CallInv
    <3> QED
      BY <2>3, <3>3, <3>4, <3>5
  <2>5. ASSUME NEW i \in Valid(addrGen),
               addrGen' = [addrGen EXCEPT !.lastUsedIndex = i],
               call' = [call EXCEPT ![q].pc = "derived", ![q].idx = i]
        PROVE  AddressInv'
    <3>1. i \in Nat /\ addrGen.lastUsedIndex < i /\ i <= MaxIndex
      BY <2>1, <2>2, DerivedIndex
    <3>2. /\ addrGen' \in addressGenerator /\ addrGen' # Stopped
          /\ addrGen'.lastUsedIndex = i /\ addrGen'.key = addrGen.key
          /\ addrGen'.feeXPubID = addrGen.feeXPubID
      BY <2>2, <2>5, <3>1, StoppedAssumption DEF addressGenerator
    <3>3. call' \in [Requests -> [pc : {"idle", "derived", "read"}, idx : Nat,
                                  current : FeeXPub]]
      BY <2>5, <3>1 DEF AddressTypeOK
    <3>4. AddressTypeOK'
      BY <2>1, <3>2, <3>3 DEF AddressTypeOK
    <3>5. /\ Active(xpubs) = xpubs[Highest(xpubs)] /\ UNCHANGED Active(xpubs)
          /\ Active(xpubs).LastUsedIdx \in Nat /\ addrGen.lastUsedIndex \in Nat
          /\ Active(xpubs).LastUsedIdx <= addrGen.lastUsedIndex
      BY <2>1, <2>2, ActiveTyped DEF GeneratorInv, FeeXPub, addressGenerator, Active
    <3>6. Active(xpubs).LastUsedIdx < i
      BY <3>1, <3>5
    <3>7. GeneratorInv'
      BY <2>1, <3>2, <3>5, <3>6, <3>1 DEF GeneratorInv
    <3>8. /\ call'[q].pc = "derived" /\ call'[q].idx = i
          /\ \A r \in Requests : r # q => call'[r].pc = "idle"
      BY <2>1, <2>5 DEF AddressTypeOK
    <3>9. CallInv'
      BY <3>1, <3>2, <3>5, <3>6, <3>8 DEF CallInv
    <3> QED
      BY <2>3, <3>4, <3>7, <3>9
  <2> QED
    BY <1>4, <2>4, <2>5 DEF nextAddress
<1>5. ASSUME NEW q \in Requests, ReadFeeXPub(q) PROVE AddressInv'
  <2>1. /\ call[q].pc = "derived" /\ UNCHANGED <<xpubs, addrGen, handed>>
        /\ call' = [call EXCEPT ![q].pc = "read", ![q].current = Active(xpubs)]
    BY <1>5 DEF ReadFeeXPub
  <2>2. BucketInv' /\ GeneratorInv' /\ HandedRecoverable'
    BY <2>1 DEF BucketInv, GeneratorInv, HandedRecoverable, Active
  <2>3. AddressTypeOK'
    BY <2>1, ActiveTyped DEF AddressTypeOK
  <2>4. /\ call'[q].pc = "read" /\ call'[q].idx = call[q].idx
        /\ call'[q].current = Active(xpubs)
        /\ \A r \in Requests : r # q => call'[r] = call[r]
    BY <2>1 DEF AddressTypeOK
  <2>5. CallInv'
    <3>1. \A r \in Requests : /\ call'[r].pc # "idle" <=> call[r].pc # "idle"
                              /\ call'[r].idx = call[r].idx
                              /\ call'[r].pc = "read" => r = q \/ call'[r] = call[r]
      BY <2>1, <2>4
    <3>2. Active(xpubs)' = Active(xpubs) /\ addrGen' = addrGen
      BY <2>1 DEF Active
    <3> QED
      BY <2>4, <3>1, <3>2 DEF CallInv
  <2> QED
    BY <2>2, <2>3, <2>5
<1>6. ASSUME NEW q \in Requests, SetLastAddressIndex(q) PROVE AddressInv'
  <2> DEFINE n == Highest(xpubs)
             i == call[q].idx
             a == [key |-> addrGen.key, idx |-> i, xPubID |-> addrGen.feeXPubID]
  <2>1. /\ call[q].pc = "read" /\ UNCHANGED addrGen /\ handed' = Append(handed, a)
        /\ call' = [call EXCEPT ![q] = IdleCall]
    BY <1>6 DEF SetLastAddressIndex
  <2>2. /\ DOMAIN xpubs' = DOMAIN xpubs /\ Highest(xpubs)' = n
        /\ xpubs'[n] = [Active(xpubs) EXCEPT !.LastUsedIdx = i]
        /\ \A j \in DOMAIN xpubs : j # n => xpubs'[j] = xpubs[j]
    BY <1>6, StoredIndex
  <2>3. /\ n \in Nat /\ n \in DOMAIN xpubs /\ DOMAIN xpubs = 0 .. n
        /\ xpubs[n] \in FeeXPub /\ Active(xpubs) = xpubs[n]
    BY ActiveTyped DEF AddressTypeOK
  <2>4. /\ addrGen \in addressGenerator /\ addrGen # Stopped
        /\ i = addrGen.lastUsedIndex /\ i \in Nat /\ xpubs[n].LastUsedIdx < i
        /\ \A r \in Requests : call[r].pc # "idle" => r = q
    BY <2>1, <2>3 DEF CallInv, AddressTypeOK
  <2>5. /\ xpubs'[n] \in FeeXPub /\ xpubs'[n].LastUsedIdx = i
        /\ xpubs'[n].ID = xpubs[n].ID /\ xpubs'[n].Key = xpubs[n].Key
        /\ xpubs'[n].Retired = xpubs[n].Retired
    BY <2>2, <2>3, <2>4 DEF FeeXPub
  <2>6. \A j \in DOMAIN xpubs : /\ xpubs'[j].ID = xpubs[j].ID
                                /\ xpubs'[j].Key = xpubs[j].Key
                                /\ xpubs'[j].Retired = xpubs[j].Retired
    BY <2>2, <2>5
  <2>7. a \in Handed
    BY <2>4 DEF Handed, addressGenerator
  <2>8. \A r \in Requests : call'[r].pc = "idle"
    BY <2>1, <2>4 DEF AddressTypeOK, IdleCall
  <2>9. AddressTypeOK'
    <3>1. \A j \in DOMAIN xpubs : xpubs'[j] \in FeeXPub
      BY <2>2, <2>5 DEF AddressTypeOK
    <3>2. call' \in [Requests -> [pc : {"idle", "derived", "read"}, idx : Nat,
                                  current : FeeXPub]]
      BY <1>0, <2>1 DEF AddressTypeOK
    <3>3. handed' \in Seq(Handed)
      BY <2>1, <2>7 DEF AddressTypeOK
    <3> QED
      BY <2>1, <2>2, <2>3, <3>1, <3>2, <3>3 DEF AddressTypeOK
  <2>10. BucketInv'
    BY <2>2, <2>6 DEF BucketInv
  <2>11. GeneratorInv'
    <3>1. Active(xpubs)' = xpubs'[n]
      BY <2>2 DEF Active
    <3>2. addrGen.feeXPubID = n /\ addrGen.key = xpubs[n].Key
      BY <2>3, <2>4 DEF GeneratorInv
    <3> QED
      BY <2>1, <2>2, <2>4, <2>5, <3>1, <3>2 DEF GeneratorInv
  <2>12. CallInv'
    BY <2>8 DEF CallInv
  <2>13. HandedRecoverable'
    <3> SUFFICES ASSUME NEW m \in 1 .. Len(handed')
                 PROVE  LET b == handed'[m]
                        IN  /\ b.xPubID \in DOMAIN xpubs'
                            /\ xpubs'[b.xPubID].Key = b.key
                            /\ b.idx <= xpubs'[b.xPubID].LastUsedIdx
      BY DEF HandedRecoverable
    <3>1. handed \in Seq(Handed) /\ Len(handed') = Len(handed) + 1
      BY <2>1, <2>7 DEF AddressTypeOK
    <3>2. CASE m = Len(handed) + 1
      <4>1. handed'[m] = a
        BY <2>1, <2>7, <3>1, <3>2
      <4>2. a.xPubID = n /\ a.key = xpubs[n].Key /\ a.idx = i
        BY <2>3, <2>4 DEF GeneratorInv
      <4> QED
        BY <2>2, <2>3, <2>4, <2>5, <4>1, <4>2
    <3>3. CASE m # Len(handed) + 1
      <4> DEFINE b == handed[m]
      <4>1. m \in 1 .. Len(handed) /\ handed'[m] = b /\ b \in Handed
        BY <2>1, <2>7, <3>1, <3>3
      <4>2. /\ b.xPubID \in DOMAIN xpubs /\ xpubs[b.xPubID].Key = b.key
            /\ b.idx <= xpubs[b.xPubID].LastUsedIdx
        BY <4>1 DEF HandedRecoverable
      <4>3. \A j \in DOMAIN xpubs : /\ xpubs[j].LastUsedIdx \in Nat
                                    /\ xpubs'[j].LastUsedIdx \in Nat
                                    /\ xpubs[j].LastUsedIdx <= xpubs'[j].LastUsedIdx
        <5>1. \A j \in DOMAIN xpubs : xpubs[j].LastUsedIdx \in Nat
          BY DEF AddressTypeOK, FeeXPub
        <5>2. \A j \in DOMAIN xpubs : j # n => xpubs'[j].LastUsedIdx = xpubs[j].LastUsedIdx
          BY <2>2
        <5>3. \A x \in Nat : x <= x
          OBVIOUS
        <5>4. xpubs[n].LastUsedIdx <= i
          BY <2>3, <2>4, <5>1
        <5> HIDE DEF n, i
        <5> QED
          BY <2>4, <2>5, <5>1, <5>2, <5>3, <5>4
      <4>4. b.idx \in Nat
        BY <4>1 DEF Handed
      <4> HIDE DEF b
      <4> QED
        BY <2>2, <2>6, <4>1, <4>2, <4>3, <4>4
    <3> QED
      BY <3>2, <3>3
  <2> QED
    BY <2>9, <2>10, <2>11, <2>12, <2>13
<1>7. ASSUME NEW q \in Requests, Fail(q) PROVE AddressInv'
  <2>1. UNCHANGED <<xpubs, addrGen, handed>> /\ call' = [call EXCEPT ![q] = IdleCall]
    BY <1>7 DEF Fail
  <2>2. BucketInv' /\ GeneratorInv' /\ HandedRecoverable'
    BY <2>1 DEF BucketInv, GeneratorInv, HandedRecoverable, Active
  <2>3. AddressTypeOK'
    BY <1>0, <2>1 DEF AddressTypeOK
  <2>4. \A r \in Requests : call'[r].pc # "idle" => call'[r] = call[r]
    BY <2>1 DEF AddressTypeOK, IdleCall
  <2>5. CallInv'
    BY <2>1, <2>4 DEF CallInv, Active
  <2> QED
    BY <2>2, <2>3, <2>5
<1>8. CASE UNCHANGED vars
  BY <1>8 DEF vars, AddressTypeOK, BucketInv, GeneratorInv, CallInv, HandedRecoverable, Active
<1> QED
  BY <1>1, <1>2, <1>3, <1>4, <1>5, <1>6, <1>7, <1>8 DEF Next

\* Every reachable state satisfies the inductive invariant.
THEOREM AddressInvariant == Spec => []AddressInv
<1> QED
  BY AddressInit, AddressNext, PTL DEF Spec

\* The bucket, the generator and the requests have their types, for every
\* value of the constants.
THEOREM AddressTypeCorrect == Spec => []AddressTypeOK
<1>1. AddressInv => AddressTypeOK
  BY DEF AddressInv
<1> QED
  BY <1>1, AddressInvariant, PTL

\* Every address handed out can be found again from the database: it belongs to
\* the key stored under its ID, whose last used index covers it.
THEOREM RecoverableCorrect == Spec => []HandedRecoverable
<1>1. AddressInv => HandedRecoverable
  BY DEF AddressInv
<1> QED
  BY <1>1, AddressInvariant, PTL

-----------------------------------------------------------------------------
\* No step changes the record of a retired key.
LEMMA RetiredKept ==
    AddressInv /\ [Next]_vars =>
        \A i \in DOMAIN xpubs : xpubs[i].Retired =>
            i \in DOMAIN xpubs' /\ xpubs'[i] = xpubs[i]
<1> SUFFICES ASSUME AddressInv, [Next]_vars, NEW i \in DOMAIN xpubs, xpubs[i].Retired
             PROVE  i \in DOMAIN xpubs' /\ xpubs'[i] = xpubs[i]
  OBVIOUS
<1>1. i # Highest(xpubs)
  BY DEF AddressInv, BucketInv
<1>2. ASSUME NEW k \in Keys, RetireXPub(k)
      PROVE  i \in DOMAIN xpubs' /\ xpubs'[i] = xpubs[i]
  <2> DEFINE n == Highest(xpubs)
  <2>1. /\ n \in Nat /\ DOMAIN xpubs = 0 .. n /\ DOMAIN xpubs' = 0 .. n + 1
        /\ \A j \in 0 .. n : j # n => xpubs'[j] = xpubs[j]
    BY <1>2, RetiredBucket
  <2> HIDE DEF n
  <2>2. i \in 0 .. n + 1
    BY <2>1
  <2> QED
    BY <1>1, <2>1, <2>2 DEF n
<1>3. ASSUME NEW q \in Requests, SetLastAddressIndex(q)
      PROVE  i \in DOMAIN xpubs' /\ xpubs'[i] = xpubs[i]
  BY <1>1, <1>3, StoredIndex
<1>4. CASE UNCHANGED xpubs
  BY <1>4
<1> QED
  BY <1>2, <1>3, <1>4
     DEF Next, vars, Start, Stop, nextAddress, ReadFeeXPub, Fail

\* The record of a retired key never changes again.
THEOREM RetiredCorrect == Spec => RetiredStays
<1> QED
  BY RetiredKept, AddressInvariant, PTL DEF Spec, RetiredStays

-----------------------------------------------------------------------------
\* The address SetLastAddressIndex returns has not been handed out before.
LEMMA NewAddress ==
    ASSUME AddressInv, NEW q \in Requests, SetLastAddressIndex(q),
           NEW n \in 1 .. Len(handed)
    PROVE  <<handed[n].key, handed[n].idx>> # <<addrGen.key, call[q].idx>>
<1> DEFINE a == handed[n]
           h == Highest(xpubs)
<1>1. SUFFICES ASSUME a.key = addrGen.key, a.idx = call[q].idx PROVE FALSE
  OBVIOUS
<1>2. a.xPubID \in DOMAIN xpubs /\ xpubs[a.xPubID].Key = a.key
      /\ a.idx <= xpubs[a.xPubID].LastUsedIdx
  BY DEF AddressInv, HandedRecoverable
<1>3. /\ addrGen # Stopped /\ Active(xpubs).LastUsedIdx < call[q].idx
      /\ addrGen.key = Active(xpubs).Key
  BY DEF AddressInv, CallInv, GeneratorInv, SetLastAddressIndex
<1>4. h \in DOMAIN xpubs /\ Active(xpubs) = xpubs[h] /\ xpubs[h].LastUsedIdx \in Nat
  BY ActiveTyped DEF FeeXPub
<1>5. a.xPubID = h
  BY <1>1, <1>2, <1>3, <1>4 DEF AddressInv, BucketInv
<1>6. call[q].idx \in Nat
  BY DEF AddressInv, AddressTypeOK
<1> HIDE DEF a, h
<1>7. a.idx \in Nat
  BY <1>1, <1>6
<1> QED
  BY <1>1, <1>2, <1>3, <1>4, <1>5, <1>6, <1>7

\* What the refinement mapping makes of handed grows by the new address.
LEMMA HandedGrows ==
    ASSUME NEW s \in Seq(Handed), NEW a \in Handed
    PROVE  [n \in DOMAIN Append(s, a) |-> <<Append(s, a)[n].key, Append(s, a)[n].idx>>]
             = Append([n \in DOMAIN s |-> <<s[n].key, s[n].idx>>], <<a.key, a.idx>>)
<1> DEFINE t == [n \in DOMAIN s |-> <<s[n].key, s[n].idx>>]
           u == [n \in DOMAIN Append(s, a) |->
                    <<Append(s, a)[n].key, Append(s, a)[n].idx>>]
           e == <<a.key, a.idx>>
<1>1. /\ Len(s) \in Nat /\ DOMAIN s = 1 .. Len(s)
      /\ DOMAIN Append(s, a) = 1 .. Len(s) + 1
      /\ \A n \in 1 .. Len(s) : Append(s, a)[n] = s[n]
      /\ Append(s, a)[Len(s) + 1] = a
  OBVIOUS
<1>2. ASSUME NEW n \in 1 .. Len(s) PROVE t[n] \in Keys \X Nat
  <2>1. s[n] \in Handed
    BY <1>2, ElementOfSeq
  <2>2. t[n] = <<s[n].key, s[n].idx>>
    BY <1>1, <1>2
  <2>3. s[n].key \in Keys /\ s[n].idx \in Nat
    BY <2>1 DEF Handed
  <2> QED
    BY <2>2, <2>3
<1>3. t \in Seq(Keys \X Nat)
  <2>1. DOMAIN t = 1 .. Len(s)
    BY <1>1
  <2>2. t \in [1 .. Len(s) -> Keys \X Nat]
    BY <1>1, <1>2, <2>1
  <2> QED
    BY <1>1, <2>2, SeqDef
<1>4. Len(t) = Len(s)
  BY <1>1, <1>3
<1>5. e \in Keys \X Nat
  BY DEF Handed
<1>6. /\ DOMAIN Append(t, e) = 1 .. Len(s) + 1
      /\ \A n \in 1 .. Len(s) : Append(t, e)[n] = t[n]
      /\ Append(t, e)[Len(s) + 1] = e
      /\ Append(t, e) \in Seq(Keys \X Nat)
  <2> HIDE DEF t, e
  <2> QED
    BY <1>3, <1>4, <1>5, AppendProperties
<1> QED
  BY <1>1, <1>6

\* A step of FeeAddresses is a step of FreshAddresses, or changes nothing of it.
LEMMA AddressStep ==
    AddressInv /\ AddressInv' /\ [Next]_vars =>
        [Fresh!Next]_[n \in DOMAIN handed |-> <<handed[n].key, handed[n].idx>>]
<1> DEFINE view == [n \in DOMAIN handed |-> <<handed[n].key, handed[n].idx>>]
<1> SUFFICES ASSUME AddressInv, [Next]_vars PROVE Fresh!Next \/ UNCHANGED view
  OBVIOUS
<1>1. ASSUME NEW q \in Requests, SetLastAddressIndex(q) PROVE Fresh!Next
  <2> DEFINE a == [key |-> addrGen.key, idx |-> call[q].idx, xPubID |-> addrGen.feeXPubID]
             e == <<addrGen.key, call[q].idx>>
  <2>1. /\ addrGen \in addressGenerator /\ call[q].idx \in 0 .. MaxIndex
        /\ handed \in Seq(Handed) /\ handed' = Append(handed, a)
    BY <1>1, AddressAssumption
       DEF AddressInv, AddressTypeOK, CallInv, SetLastAddressIndex
  <2>2. a \in Handed /\ <<a.key, a.idx>> = e /\ e \in Keys \X (0 .. MaxIndex)
    BY <2>1 DEF Handed, addressGenerator
  <2>3. view' = Append(view, e)
    <3> HIDE DEF a, e
    <3> QED
      BY <2>1, <2>2, HandedGrows
  <2>4. \A n \in DOMAIN view : view[n] # e
    <3>1. DOMAIN handed = 1 .. Len(handed)
      BY <2>1
    <3> QED
      BY <1>1, <3>1, NewAddress
  <2> HIDE DEF a, e, view
  <2>5. \E x \in Keys \X (0 .. MaxIndex) :
            (\A n \in DOMAIN view : view[n] # x) /\ view' = Append(view, x)
    BY <2>2, <2>3, <2>4
  <2> QED
    BY <2>5 DEF view, Fresh!Next, Fresh!HandOut
<1>2. CASE UNCHANGED handed
  BY <1>2
<1> QED
  BY <1>1, <1>2 DEF Next, vars, Start, Stop, RetireXPub, nextAddress, ReadFeeXPub, Fail

\* The fee address generator with its key bucket, crashes and replaced keys
\* implements FreshAddresses: no fee address is handed out twice.
THEOREM FreshCorrect == Spec => AddressesFresh
<1>1. Init => Fresh!Init
  BY DEF Init, Fresh!Init
<1> QED
  BY <1>1, AddressInvariant, AddressStep, PTL DEF Spec, AddressesFresh, Fresh!Spec
=============================================================================
