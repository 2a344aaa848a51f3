------------------------- MODULE VoteChangeLogProofs -------------------------
(***************************************************************************)
(* The keys of the vote change bucket, for any limit and any width of the  *)
(* keys: contiguous they find the first record and the place for the next, *)
(* and they stay contiguous.                                               *)
(***************************************************************************)
EXTENDS VspmTypeProofs, FiniteSetTheorems

\* A number below the divisor is its own remainder.
LEMMA SmallMod ==
    ASSUME NEW a \in Nat, NEW d \in Nat, a < d
    PROVE  a % d = a
OBVIOUS

\* The search of SaveVoteChange in a bucket with contiguous keys.
LEMMA ContiguousKeys ==
    ASSUME NEW b, NEW lo \in Nat, NEW hi \in Nat, lo <= hi, hi <= MaxKey, DOMAIN b = lo .. hi
    PROVE  Newest(b) = hi /\ Oldest(b) = lo /\ Cardinality(DOMAIN b) = hi - lo + 1
<1>1. Newest(b) = hi
  <2>1. /\ hi \in DOMAIN b \union {0} /\ \A j \in DOMAIN b : j <= hi
        /\ \A k \in DOMAIN b \union {0} : (\A j \in DOMAIN b : j <= k) => k = hi
    OBVIOUS
  <2> QED
    BY <2>1 DEF Newest
<1>2. Oldest(b) = lo
  <2>1. /\ lo \in DOMAIN b \union {MaxKey} /\ \A j \in DOMAIN b : lo <= j
        /\ \A k \in DOMAIN b \union {MaxKey} : (\A j \in DOMAIN b : k <= j) => k = lo
    BY KeyAssumption
  <2> QED
    BY <2>1 DEF Oldest
<1>3. Cardinality(DOMAIN b) = hi - lo + 1
  BY FS_Interval
<1> QED
  BY <1>1, <1>2, <1>3

\* A sequence with an element appended, element by element.
LEMMA AppendElements ==
    ASSUME NEW S, NEW q \in Seq(S), NEW r \in S, NEW n \in Nat, n = Len(q)
    PROVE  /\ Len(Append(q, r)) = n + 1
           /\ \A i \in 1 .. n + 1 : Append(q, r)[i] = IF i = n + 1 THEN r ELSE q[i]
OBVIOUS

\* The first record of a ticket is stored under key 0.
LEMMA FirstStored ==
    ASSUME NEW S, NEW log \in Seq(S), NEW r \in S, NEW first \in Nat, Len(log) = 0
    PROVE  StoreVoteChange(Stored(log, first), r) = Stored(SaveVoteChange(log, r), 0)
<1> DEFINE b == Stored(log, first)
<1>1. MaxVoteChangeRecords \in Nat \ {0}
  BY DatabaseAssumption
<1>2. DOMAIN b = {}
  BY DEF Stored
<1>3. Cardinality(DOMAIN b) = 0
  BY <1>2, FS_EmptySet
<1>4. Kept(b) = {} /\ NextKey(b) = 0
  BY <1>1, <1>2, <1>3 DEF Kept, Full, NextKey
<1>5. StoreVoteChange(b, r) = [k \in {0} |-> r]
  BY <1>4 DEF StoreVoteChange
<1>6. SaveVoteChange(log, r) = Append(log, r)
  BY <1>1 DEF SaveVoteChange
<1>7. Len(Append(log, r)) = 1 /\ Append(log, r)[1] = r
  OBVIOUS
<1>8. Stored(Append(log, r), 0) = [k \in {0} |-> r]
  <2>1. 0 .. 0 + Len(Append(log, r)) - 1 = {0}
    BY <1>7
  <2>2. \A k \in {0} : Append(log, r)[k - 0 + 1] = r
    BY <1>7
  <2> QED
    BY <2>1, <2>2 DEF Stored
<1> QED
  BY <1>5, <1>6, <1>8

\* Every other one follows the last, and the first goes when there is no room.
LEMMA NextStored ==
    ASSUME NEW S, NEW log \in Seq(S), NEW r \in S, NEW first \in Nat,
           Len(log) > 0, first + Len(log) <= MaxKey
    PROVE  \E key \in 0 .. MaxKey :
               StoreVoteChange(Stored(log, first), r) = Stored(SaveVoteChange(log, r), key)
<1>n. PICK n \in Nat : n = Len(log) /\ n > 0 /\ first + n <= MaxKey
  OBVIOUS
<1>b. PICK b : b = Stored(log, first)
  OBVIOUS
<1>1. MaxVoteChangeRecords \in Nat \ {0} /\ MaxKey \in Nat
  BY DatabaseAssumption, KeyAssumption
<1>2. DOMAIN b = first .. first + n - 1 /\ \A k \in DOMAIN b : b[k] = log[k - first + 1]
  BY <1>n, <1>b DEF Stored
<1>3. Newest(b) = first + n - 1 /\ Oldest(b) = first /\ Cardinality(DOMAIN b) = n
  <2>1. first + n - 1 \in Nat /\ first <= first + n - 1 /\ first + n - 1 <= MaxKey
    BY <1>n, <1>1
  <2>2. Cardinality(DOMAIN b) = (first + n - 1) - first + 1
        /\ Newest(b) = first + n - 1 /\ Oldest(b) = first
    BY <1>2, <2>1, ContiguousKeys
  <2> QED
    BY <2>2
<1>4. NextKey(b) = first + n
  <2>1. first \in DOMAIN b
    BY <1>n, <1>2
  <2>2. NextKey(b) = (first + n - 1 + 1) % (MaxKey + 1)
    BY <1>3, <2>1 DEF NextKey
  <2>3. /\ first + n - 1 + 1 = first + n /\ first + n \in Nat
        /\ MaxKey + 1 \in Nat /\ first + n < MaxKey + 1
    BY <1>n, <1>1
  <2> QED
    BY <2>2, <2>3, SmallMod
<1>5. CASE n >= MaxVoteChangeRecords
  <2>q. PICK q : q = Tail(log)
    OBVIOUS
  <2>1. q \in Seq(S) /\ Len(q) = n - 1 /\ \A i \in 1 .. n - 1 : q[i] = log[i + 1]
    BY <1>n, <2>q
  <2>2. SaveVoteChange(log, r) = Append(q, r)
    BY <1>n, <1>5, <2>q DEF SaveVoteChange
  <2>3. Kept(b) \union {NextKey(b)} = first + 1 .. first + n
    <3>1. Kept(b) = (first .. first + n - 1) \ {first}
      BY <1>2, <1>3, <1>5 DEF Kept, Full
    <3>2. ((first .. first + n - 1) \ {first}) \union {first + n} = first + 1 .. first + n
      BY <1>n
    <3> QED
      BY <1>4, <3>1, <3>2
  <2>4. StoreVoteChange(b, r) =
           [k \in first + 1 .. first + n |-> IF k = first + n THEN r ELSE b[k]]
    BY <1>4, <2>3 DEF StoreVoteChange
  <2>5. /\ Len(Append(q, r)) = n
        /\ \A i \in 1 .. n : Append(q, r)[i] = IF i = n THEN r ELSE q[i]
    <3>1. n - 1 \in Nat /\ (n - 1) + 1 = n
      BY <1>n
    <3> QED
      BY <2>1, <3>1, AppendElements
  <2>6. ASSUME NEW k \in first + 1 .. first + n
        PROVE  Append(q, r)[k - (first + 1) + 1] = IF k = first + n THEN r ELSE b[k]
    <3>1. /\ k - (first + 1) + 1 \in 1 .. n
          /\ k - (first + 1) + 1 = n <=> k = first + n
      BY <1>n
    <3>2. k # first + n => /\ k - (first + 1) + 1 \in 1 .. n - 1
                           /\ k \in first .. first + n - 1
                           /\ (k - (first + 1) + 1) + 1 = k - first + 1
      BY <1>n
    <3>3. k # first + n => q[k - (first + 1) + 1] = b[k]
      BY <1>2, <2>1, <3>2
    <3> QED
      BY <2>5, <3>1, <3>3
  <2>7. Stored(Append(q, r), first + 1) =
           [k \in first + 1 .. first + n |-> IF k = first + n THEN r ELSE b[k]]
    <3>1. first + 1 + n - 1 = first + n
      BY <1>n
    <3> QED
      BY <2>5, <2>6, <3>1 DEF Stored
  <2>8. first + 1 \in 0 .. MaxKey
    BY <1>n, <1>1
  <2> QED
    BY <1>b, <2>2, <2>4, <2>7, <2>8
<1>6. CASE ~ (n >= MaxVoteChangeRecords)
  <2>2. SaveVoteChange(log, r) = Append(log, r)
    BY <1>n, <1>6 DEF SaveVoteChange
  <2>3. Kept(b) \union {NextKey(b)} = first .. first + n
    <3>1. Kept(b) = first .. first + n - 1
      BY <1>2, <1>3, <1>6 DEF Kept, Full
    <3>2. (first .. first + n - 1) \union {first + n} = first .. first + n
      BY <1>n
    <3> QED
      BY <1>4, <3>1, <3>2
  <2>4. StoreVoteChange(b, r) =
           [k \in first .. first + n |-> IF k = first + n THEN r ELSE b[k]]
    BY <1>4, <2>3 DEF StoreVoteChange
  <2>5. /\ Len(Append(log, r)) = n + 1
        /\ \A i \in 1 .. n + 1 : Append(log, r)[i] = IF i = n + 1 THEN r ELSE log[i]
    BY <1>n, AppendElements
  <2>6. ASSUME NEW k \in first .. first + n
        PROVE  Append(log, r)[k - first + 1] = IF k = first + n THEN r ELSE b[k]
    <3>1. /\ k - first + 1 \in 1 .. n + 1
          /\ k - first + 1 = n + 1 <=> k = first + n
      BY <1>n
    <3>2. k # first + n => k \in first .. first + n - 1
      BY <1>n
    <3> QED
      BY <1>2, <2>5, <3>1, <3>2
  <2>7. Stored(Append(log, r), first) =
           [k \in first .. first + n |-> IF k = first + n THEN r ELSE b[k]]
    <3>1. first + (n + 1) - 1 = first + n
      BY <1>n
    <3> QED
      BY <2>5, <2>6, <3>1 DEF Stored
  <2>8. first \in 0 .. MaxKey
    BY <1>n, <1>1
  <2> QED
    BY <1>b, <2>2, <2>4, <2>7, <2>8
<1> QED
  BY <1>5, <1>6

\* However many vote changes a ticket has had, its bucket holds the last of them
\* in the order of their keys (SaveVoteChange, votechange.go:28).
THEOREM KeysCorrect == Spec => []KeysInOrder
<1>1. TypeInv => KeysInOrder
  <2> SUFFICES ASSUME TypeInv, NEW t \in Tickets, NEW ts \in Timestamps,
                      NEW first \in 0 .. MaxKey - Len(changes[t])
               PROVE  \E key \in 0 .. MaxKey :
                          StoreVoteChange(Stored(changes[t], first), ts)
                              = Stored(SaveVoteChange(changes[t], ts), key)
    BY DEF KeysInOrder
  <2>l. PICK log : log = changes[t]
    OBVIOUS
  <2>1. log \in Seq(Nat) /\ ts \in Nat /\ MaxKey \in Nat
    BY <2>l, StateAssumption, KeyAssumption DEF TypeInv, TypeOK
  <2>2. Len(log) \in Nat
    BY <2>1
  <2>3. first \in Nat /\ first + Len(log) <= MaxKey /\ 0 \in 0 .. MaxKey
    BY <2>l, <2>1, <2>2
  <2>4. CASE Len(log) = 0
    BY <2>l, <2>1, <2>3, <2>4, FirstStored
  <2>5. CASE Len(log) > 0
    BY <2>l, <2>1, <2>3, <2>5, NextStored
  <2> QED
    BY <2>2, <2>4, <2>5
<1> QED
  BY <1>1, TypeInit, TypeNext, PTL DEF Spec
=============================================================================
