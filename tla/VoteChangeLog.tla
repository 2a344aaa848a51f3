---------------------------- MODULE VoteChangeLog ----------------------------
(***************************************************************************)
(* The vote change bucket of a ticket as it is stored                      *)
(* (database/votechange.go): records under serially increasing keys, which *)
(* bbolt does not return in their order, since they are little-endian.     *)
(* VspDatabase has the bucket as a sequence.                               *)
(***************************************************************************)
EXTENDS VspDatabase, Integers, FiniteSets

CONSTANT MaxKey   \* the largest key, math.MaxUint32 in the code

ASSUME KeyAssumption == MaxKey \in Nat

\* The largest key, starting the search from 0, and the smallest, from MaxKey.
Newest(b) == CHOOSE k \in DOMAIN b \union {0} : \A j \in DOMAIN b : j <= k
Oldest(b) == CHOOSE k \in DOMAIN b \union {MaxKey} : \A j \in DOMAIN b : k <= j

Full(b) == Cardinality(DOMAIN b) >= MaxVoteChangeRecords

\* The keys left once there is room.
Kept(b) == IF Full(b) THEN DOMAIN b \ {Oldest(b)} ELSE DOMAIN b

\* Faulty variant: the next key is the number of records.
NextKeyCount(b) == Cardinality(DOMAIN b)

NextKey(b) == IF DOMAIN b = {} THEN 0 ELSE (Newest(b) + 1) % (MaxKey + 1)

\* SaveVoteChange on the bucket itself.
StoreVoteChange(b, r) ==
    LET key == NextKey(b)
    IN  [k \in Kept(b) \union {key} |-> IF k = key THEN r ELSE b[k]]

\* The bucket with the records of log, in order, the first under the key first.
Stored(log, first) == [k \in first .. first + Len(log) - 1 |-> log[k - first + 1]]
=============================================================================
