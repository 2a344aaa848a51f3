------------------------- MODULE DatabaseFileProofs -------------------------
(***************************************************************************)
(* For any number of processes, tickets, keys, commits, faults and crashes *)
(* DatabaseFile implements VspStore.                                       *)
(*                                                                         *)
(* First what happens to the content of a file: an upgrade, from any       *)
(* version, leaves a content of the next version with the same logical     *)
(* content; a transaction of vspm on the latest version is one of the      *)
(* store.  Then FileInv, which is inductive: what each process may rely on *)
(* at its step.  At its core is that one process at a time is at work, as  *)
(* it holds the lock, or is ending while no other has opened the file; and *)
(* that a copy in which two had a hand is Torn.                            *)
(***************************************************************************)
EXTENDS DatabaseFile, TLAPS

\* None and Empty are no data.
LEMMA NoneIsNothing ==
    /\ None \notin Ticket /\ None \notin FeeXPub /\ None \notin XPubs
    /\ None \notin Nat /\ None \notin Content /\ Empty \notin Content
    /\ None \notin LogicalContent /\ None \notin SUBSET Tickets /\ None # Empty
    /\ None \notin Copy
BY FileAssumption

\* The fields of a content.
LEMMA ContentFields ==
    ASSUME NEW c \in Content
    PROVE  /\ c.version \in Nat /\ c.privatekey \in SignKeys
           /\ c.ticketbkt \in [Tickets -> {None} \union Ticket]
           /\ c.altsigbkt \in {None} \union SUBSET Tickets
           /\ c.feeXPub \in XPubs \union {None}
           /\ c.lastaddressindex \in Nat \union {None}
           /\ c.xpubbkt \in [XPubIDs -> {None} \union FeeXPub]
BY DEF Content

\* A logical content is one.
LEMMA LogicalType ==
    ASSUME NEW c \in Content, WellFormed(c)
    PROVE  Logical(c) \in LogicalContent
<1>1. ASSUME NEW t \in Tickets
      PROVE  LogicalTicket(c.ticketbkt[t], c.version) \in {None} \union
                    [FeeTxStatus : {"none", "confirmed"}, FeeTxHex : {"", "hex"},
                     VoteChoices : {"{}", "choices"}, FeeAddressXPubID : {None} \union XPubIDs]
  <2>1. c.ticketbkt[t] \in {None} \union Ticket
    BY ContentFields
  <2>2. 0 \in XPubIDs
    BY FileAssumption DEF XPubIDs
  <2> QED
    BY <2>1, <2>2 DEF LogicalTicket, Ticket, bytesToStringMap
<1>2. LogicalXPubs(c) \in [XPubIDs -> {None} \union FeeXPub]
  <2>1. CASE c.version >= 5
    BY <2>1, ContentFields DEF LogicalXPubs
  <2>2. CASE ~ (c.version >= 5)
    <3>1. c.feeXPub \in XPubs
      BY <2>2, ContentFields DEF WellFormed
    <3>2. NewXPub(c.feeXPub, IF c.lastaddressindex = None THEN 0 ELSE c.lastaddressindex)
            \in FeeXPub
      BY <3>1, ContentFields DEF NewXPub, FeeXPub
    <3> QED
      BY <2>2, <3>2, ContentFields DEF LogicalXPubs
  <2> QED
    BY <2>1, <2>2
<1>3. (IF c.altsigbkt = None THEN {} ELSE c.altsigbkt) \in SUBSET Tickets
  BY ContentFields
<1>4. c.privatekey \in SignKeys
  BY ContentFields
<1> QED
  BY <1>1, <1>2, <1>3, <1>4 DEF Logical, LogicalContent

-----------------------------------------------------------------------------
\* The record of a ticket after the upgrade from a version.
UpgradedTicket(version, r) ==
    CASE version = 1 -> DropOldFeeTx(r)
      [] version = 2 -> MoveToBucket(r)
      [] version = 3 -> r
      [] version = 4 -> SetFirstXPub(r)

\* d has, field by field, what the upgrade of c is to leave.
UpgradeOf(c, d) ==
    /\ d \in Content
    /\ d.version = c.version + 1
    /\ d.privatekey = c.privatekey
    /\ d.altsigbkt = IF c.version = 3 THEN {} ELSE c.altsigbkt
    /\ d.feeXPub = IF c.version = 4 THEN None ELSE c.feeXPub
    /\ d.lastaddressindex = IF c.version = 4 THEN None ELSE c.lastaddressindex
    /\ d.xpubbkt = IF c.version = 4
                   THEN [c.xpubbkt EXCEPT ![0] = NewXPub(c.feeXPub, storedIndex(c))]
                   ELSE c.xpubbkt
    /\ \A t \in Tickets : d.ticketbkt[t] = UpgradedTicket(c.version, c.ticketbkt[t])

\* What upgrades do to the record of a ticket.
LEMMA UpgradedTickets ==
    ASSUME NEW r \in Ticket
    PROVE  /\ DropOldFeeTx(r) \in Ticket /\ MoveToBucket(r) \in Ticket
           /\ SetFirstXPub(r) \in Ticket
           /\ DropOldFeeTx(r).form = r.form
           /\ DropOldFeeTx(r).FeeAddressXPubID = r.FeeAddressXPubID
           /\ MoveToBucket(r).form = "bucket" /\ MoveToBucket(r).FeeAddressXPubID = 0
<1>0. 0 \in XPubIDs /\ r # None
  BY NoneIsNothing, FileAssumption DEF XPubIDs
<1> QED
  BY <1>0 DEF DropOldFeeTx, MoveToBucket, SetFirstXPub, Ticket

\* An upgrade leaves a ticket, whatever the version, the same ticket.
LEMMA UpgradedTicketLogical ==
    ASSUME NEW r \in Ticket
    PROVE  /\ LogicalTicket(DropOldFeeTx(r), 2) = LogicalTicket(r, 1)
           /\ LogicalTicket(MoveToBucket(r), 3) = LogicalTicket(r, 2)
           /\ LogicalTicket(r, 4) = LogicalTicket(r, 3)
           /\ LogicalTicket(SetFirstXPub(r), 5) = LogicalTicket(r, 4)
<1>0. r # None
  BY NoneIsNothing
<1>1. LogicalTicket(DropOldFeeTx(r), 2) = LogicalTicket(r, 1)
  <2> DEFINE d == DropOldFeeTx(r)
  <2>1. d # None
    BY UpgradedTickets, NoneIsNothing
  <2>2. /\ d.FeeTxStatus = r.FeeTxStatus /\ d.VoteChoices = r.VoteChoices
        /\ d.FeeTxHex = IF r.FeeTxStatus = "confirmed" THEN "" ELSE r.FeeTxHex
    BY <1>0 DEF DropOldFeeTx, Ticket
  <2> HIDE DEF d
  <2>3. LogicalTicket(d, 2) = LogicalTicket(r, 1)
    <3>1. CASE r.FeeTxStatus = "confirmed"
      <4>1. d.FeeTxHex = "" /\ d.FeeTxStatus = r.FeeTxStatus /\ d.VoteChoices = r.VoteChoices
        BY <2>2, <3>1
      <4>2. LogicalTicket(d, 2) =
                [FeeTxStatus |-> r.FeeTxStatus, FeeTxHex |-> "",
                 VoteChoices |-> bytesToStringMap(r.VoteChoices), FeeAddressXPubID |-> 0]
        <5>1. LogicalTicket(d, 2) =
                [FeeTxStatus |-> d.FeeTxStatus, FeeTxHex |-> d.FeeTxHex,
                 VoteChoices |-> bytesToStringMap(d.VoteChoices), FeeAddressXPubID |-> 0]
          BY <2>1 DEF LogicalTicket
        <5> QED
          BY <4>1, <5>1
      <4>3. LogicalTicket(r, 1) =
                [FeeTxStatus |-> r.FeeTxStatus, FeeTxHex |-> "",
                 VoteChoices |-> bytesToStringMap(r.VoteChoices), FeeAddressXPubID |-> 0]
        BY <1>0, <3>1 DEF LogicalTicket
      <4> QED
        BY <4>2, <4>3
    <3>2. CASE r.FeeTxStatus # "confirmed"
      BY <1>0, <2>1, <2>2, <3>2 DEF LogicalTicket
    <3> QED
      BY <3>1, <3>2
  <2> QED
    BY <2>3 DEF d
<1>2. LogicalTicket(MoveToBucket(r), 3) = LogicalTicket(r, 2)
  <2> DEFINE d == MoveToBucket(r)
  <2>1. d # None
    BY UpgradedTickets, NoneIsNothing
  <2>2. /\ d.FeeTxStatus = r.FeeTxStatus /\ d.VoteChoices = r.VoteChoices
        /\ d.FeeTxHex = r.FeeTxHex
    BY <1>0 DEF MoveToBucket, Ticket
  <2> HIDE DEF d
  <2>3. LogicalTicket(d, 3) = LogicalTicket(r, 2)
    BY <1>0, <2>1, <2>2 DEF LogicalTicket
  <2> QED
    BY <2>3 DEF d
<1>3. LogicalTicket(r, 4) = LogicalTicket(r, 3)
  BY DEF LogicalTicket
<1>4. LogicalTicket(SetFirstXPub(r), 5) = LogicalTicket(r, 4)
  <2> DEFINE d == SetFirstXPub(r)
  <2>1. d # None
    BY UpgradedTickets, NoneIsNothing
  <2>2. /\ d.FeeTxStatus = r.FeeTxStatus /\ d.VoteChoices = r.VoteChoices
        /\ d.FeeTxHex = r.FeeTxHex /\ d.FeeAddressXPubID = 0
    BY <1>0, FileAssumption DEF SetFirstXPub, Ticket, XPubIDs
  <2> HIDE DEF d
  <2>3. LogicalTicket(d, 5) = LogicalTicket(r, 4)
    BY <1>0, <2>1, <2>2 DEF LogicalTicket
  <2> QED
    BY <2>3 DEF d
<1> QED
  BY <1>1, <1>2, <1>3, <1>4

\* The file after an upgrade, field by field.
LEMMA UpgradeFields ==
    ASSUME NEW c \in Content, WellFormed(c), c.version < latestVersion
    PROVE  UpgradeOf(c, Upgrade(c.version, c))
<1>0. c.version \in {1, 2, 3, 4} /\ 0 \in XPubIDs
  BY ContentFields, FileAssumption DEF WellFormed, latestVersion, XPubIDs
<1>1. ASSUME NEW t \in Tickets
      PROVE  /\ DropOldFeeTx(c.ticketbkt[t]) \in {None} \union Ticket
             /\ MoveToBucket(c.ticketbkt[t]) \in {None} \union Ticket
             /\ SetFirstXPub(c.ticketbkt[t]) \in {None} \union Ticket
  <2>1. c.ticketbkt[t] \in {None} \union Ticket
    BY ContentFields
  <2> QED
    BY <1>0, <2>1 DEF DropOldFeeTx, MoveToBucket, SetFirstXPub, Ticket
<1>2. CASE c.version = 1
  <2> DEFINE bkt == [t \in Tickets |-> DropOldFeeTx(c.ticketbkt[t])]
             d == [c EXCEPT !.ticketbkt = bkt, !.version = 2]
  <2>1. Upgrade(c.version, c) = d
    <3>1. Upgrade(c.version, c) = removeOldFeeTx(c)
      BY <1>2 DEF Upgrade
    <3>2. removeOldFeeTx(c) = d
      BY DEF removeOldFeeTx, Content
    <3> QED
      BY <3>1, <3>2
  <2>2. bkt \in [Tickets -> {None} \union Ticket]
    BY <1>1
  <2>3. \A t \in Tickets : bkt[t] = UpgradedTicket(1, c.ticketbkt[t])
    BY DEF UpgradedTicket
  <2> HIDE DEF bkt
  <2>4. d \in Content
    BY <2>2, <2>3 DEF Content
  <2>7. /\ d.version = 2 /\ d.privatekey = c.privatekey /\ d.altsigbkt = c.altsigbkt
        /\ d.feeXPub = c.feeXPub /\ d.lastaddressindex = c.lastaddressindex
        /\ d.xpubbkt = c.xpubbkt /\ d.ticketbkt = bkt
    BY DEF Content
  <2> HIDE DEF d
  <2> QED
    BY <1>2, <2>1, <2>3, <2>4, <2>7 DEF UpgradeOf
<1>3. CASE c.version = 2
  <2> DEFINE bkt == [t \in Tickets |-> MoveToBucket(c.ticketbkt[t])]
             d == [c EXCEPT !.ticketbkt = bkt, !.version = 3]
  <2>1. Upgrade(c.version, c) = d
    <3>1. Upgrade(c.version, c) = ticketBucket(c)
      BY <1>3 DEF Upgrade
    <3>2. ticketBucket(c) = d
      BY DEF ticketBucket, Content
    <3> QED
      BY <3>1, <3>2
  <2>2. bkt \in [Tickets -> {None} \union Ticket]
    BY <1>1
  <2>3. \A t \in Tickets : bkt[t] = UpgradedTicket(2, c.ticketbkt[t])
    BY DEF UpgradedTicket
  <2> HIDE DEF bkt
  <2>4. d \in Content
    BY <2>2, <2>3 DEF Content
  <2>7. /\ d.version = 3 /\ d.privatekey = c.privatekey /\ d.altsigbkt = c.altsigbkt
        /\ d.feeXPub = c.feeXPub /\ d.lastaddressindex = c.lastaddressindex
        /\ d.xpubbkt = c.xpubbkt /\ d.ticketbkt = bkt
    BY DEF Content
  <2> HIDE DEF d
  <2> QED
    BY <1>3, <2>1, <2>3, <2>4, <2>7 DEF UpgradeOf
<1>4. CASE c.version = 3
  <2> DEFINE d == [c EXCEPT !.altsigbkt = {}, !.version = 4]
  <2>1. Upgrade(c.version, c) = d
    <3>1. Upgrade(c.version, c) = altSignAddr(c)
      BY <1>4 DEF Upgrade
    <3>2. altSignAddr(c) = d
      BY DEF altSignAddr, Content
    <3> QED
      BY <3>1, <3>2
  <2>2. {} \in SUBSET Tickets
    OBVIOUS
  <2>3. d \in Content
    BY <2>2 DEF Content
  <2>7. /\ d.version = 4 /\ d.privatekey = c.privatekey /\ d.altsigbkt = {}
        /\ d.feeXPub = c.feeXPub /\ d.lastaddressindex = c.lastaddressindex
        /\ d.xpubbkt = c.xpubbkt /\ d.ticketbkt = c.ticketbkt
    BY DEF Content
  <2> HIDE DEF d
  <2> QED
    BY <1>4, <2>1, <2>3, <2>7 DEF UpgradeOf, UpgradedTicket
<1>5. CASE c.version = 4
  <2> DEFINE x == NewXPub(c.feeXPub, storedIndex(c))
             bkt == [t \in Tickets |-> SetFirstXPub(c.ticketbkt[t])]
             xpubs == [c.xpubbkt EXCEPT ![0] = x]
             d == [c EXCEPT !.feeXPub = None, !.lastaddressindex = None, !.xpubbkt = xpubs,
                                !.ticketbkt = bkt, !.version = 5]
  <2>1. Upgrade(c.version, c) = d
    <3>1. Upgrade(c.version, c) = xPubBucket(c)
      BY <1>5 DEF Upgrade
    <3>2. xPubBucket(c) = d
      BY DEF xPubBucket, Content
    <3> QED
      BY <3>1, <3>2
  <2>2. bkt \in [Tickets -> {None} \union Ticket]
    BY <1>1
  <2>3. \A t \in Tickets : bkt[t] = UpgradedTicket(4, c.ticketbkt[t])
    BY DEF UpgradedTicket
  <2>4. x \in FeeXPub
    BY <1>5, ContentFields DEF WellFormed, NewXPub, storedIndex, FeeXPub
  <2> HIDE DEF x
  <2>5. xpubs \in [XPubIDs -> {None} \union FeeXPub]
    BY <1>0, <2>4, ContentFields
  <2> HIDE DEF bkt, xpubs
  <2>6. d \in Content
    BY <2>2, <2>5 DEF Content
  <2>7. /\ d.version = 5 /\ d.privatekey = c.privatekey /\ d.altsigbkt = c.altsigbkt
        /\ d.feeXPub = None /\ d.lastaddressindex = None
        /\ d.xpubbkt = xpubs /\ d.ticketbkt = bkt
    BY DEF Content
  <2> HIDE DEF d
  <2> USE DEF xpubs, x
  <2> QED
    BY <1>5, <2>1, <2>3, <2>6, <2>7 DEF UpgradeOf
<1> QED
  BY <1>0, <1>2, <1>3, <1>4, <1>5

\* An upgrade makes a file of one version one of the next ...
LEMMA UpgradeWellFormed ==
    ASSUME NEW c \in Content, WellFormed(c), c.version < latestVersion
    PROVE  WellFormed(Upgrade(c.version, c))
<1> DEFINE d == Upgrade(c.version, c)
<1>a. UpgradeOf(c, d)
  BY UpgradeFields
<1> HIDE DEF d
<1>0. c.version \in {1, 2, 3, 4} /\ 0 \in XPubIDs /\ d.version = c.version + 1
  BY <1>a, ContentFields, FileAssumption DEF WellFormed, latestVersion, XPubIDs, UpgradeOf
<1>1. d.version \in 1 .. latestVersion + 1
  BY <1>0 DEF latestVersion
<1>2. d.altsigbkt = None <=> d.version < 4
  BY <1>0, <1>a, NoneIsNothing DEF WellFormed, UpgradeOf
<1>3. d.feeXPub = None <=> d.version >= 5
  BY <1>0, <1>a DEF WellFormed, UpgradeOf
<1>4. d.version >= 5 => d.lastaddressindex = None
  BY <1>0, <1>a DEF UpgradeOf
<1>5. ASSUME c.version # 4 PROVE WellFormed(d)
  <2>1. \A i \in XPubIDs : d.xpubbkt[i] = None
    BY <1>0, <1>5, <1>a DEF WellFormed, UpgradeOf
  <2>2. ASSUME NEW t \in Tickets, d.ticketbkt[t] # None
        PROVE  /\ d.ticketbkt[t].form = IF d.version < 3 THEN "json" ELSE "bucket"
               /\ d.ticketbkt[t].FeeAddressXPubID \in {None, 0}
    <3>1. c.ticketbkt[t] \in {None} \union Ticket
      BY ContentFields
    <3>2. d.ticketbkt[t] = UpgradedTicket(c.version, c.ticketbkt[t])
      BY <1>a DEF UpgradeOf
    <3>3. c.ticketbkt[t] # None
      BY <1>0, <1>5, <2>2, <3>2 DEF DropOldFeeTx, MoveToBucket, UpgradedTicket
    <3>4. /\ c.ticketbkt[t].form = IF c.version < 3 THEN "json" ELSE "bucket"
          /\ c.ticketbkt[t].FeeAddressXPubID \in {None, 0}
      BY <1>0, <1>5, <3>3 DEF WellFormed
    <3>5. c.ticketbkt[t] \in Ticket
      BY <3>1, <3>3
    <3>6. /\ d.ticketbkt[t].form = IF c.version = 2 THEN "bucket" ELSE c.ticketbkt[t].form
          /\ d.ticketbkt[t].FeeAddressXPubID =
                    IF c.version = 2 THEN 0 ELSE c.ticketbkt[t].FeeAddressXPubID
      BY <1>0, <1>5, <3>2, <3>5, UpgradedTickets DEF UpgradedTicket
    <3> QED
      BY <1>0, <1>5, <3>4, <3>6
  <2> QED
    BY <1>0, <1>1, <1>2, <1>3, <1>4, <1>5, <2>1, <2>2 DEF WellFormed
<1>6. ASSUME c.version = 4 PROVE WellFormed(d)
  <2>1. /\ d.xpubbkt = [c.xpubbkt EXCEPT ![0] = NewXPub(c.feeXPub, storedIndex(c))]
        /\ \A i \in XPubIDs : c.xpubbkt[i] = None
    BY <1>6, <1>a DEF WellFormed, UpgradeOf
  <2>2. NewXPub(c.feeXPub, storedIndex(c)) \in FeeXPub
    BY <1>6, ContentFields DEF WellFormed, NewXPub, storedIndex, FeeXPub
  <2>3. NewXPub(c.feeXPub, storedIndex(c)) # None
    BY <2>2, NoneIsNothing
  <2>4. NewXPub(c.feeXPub, storedIndex(c)).Retired = FALSE
    BY DEF NewXPub
  <2>5. \A i \in XPubIDs : d.xpubbkt[i] =
            IF i = 0 THEN NewXPub(c.feeXPub, storedIndex(c)) ELSE None
    BY <2>1, ContentFields
  <2>6. \A i \in XPubIDs : i <= 0 <=> i = 0
    BY FileAssumption DEF XPubIDs
  <2>7. \A i \in XPubIDs : /\ d.xpubbkt[i] # None <=> i <= 0
                           /\ i <= 0 => (d.xpubbkt[i].Retired <=> i # 0)
    BY <2>3, <2>4, <2>5, <2>6
  <2>8. ASSUME NEW t \in Tickets, d.ticketbkt[t] # None
        PROVE  d.ticketbkt[t].form = "bucket" /\ d.ticketbkt[t].FeeAddressXPubID = 0
    <3>1. c.ticketbkt[t] \in {None} \union Ticket
      BY ContentFields
    <3>2. d.ticketbkt[t] = SetFirstXPub(c.ticketbkt[t])
      BY <1>6, <1>a DEF UpgradeOf, UpgradedTicket
    <3>3. c.ticketbkt[t] # None
      BY <2>8, <3>2 DEF SetFirstXPub
    <3>4. c.ticketbkt[t].form = "bucket"
      BY <1>6, <3>3 DEF WellFormed
    <3> QED
      BY <3>1, <3>2, <3>3, <3>4 DEF SetFirstXPub, Ticket
  <2>9. \A t \in Tickets : d.ticketbkt[t] # None =>
            /\ d.ticketbkt[t].form = "bucket"
            /\ d.ticketbkt[t].FeeAddressXPubID # None
            /\ d.xpubbkt[d.ticketbkt[t].FeeAddressXPubID] # None
    BY <1>0, <2>3, <2>5, <2>8, NoneIsNothing
  <2> QED
    BY <1>0, <1>1, <1>2, <1>3, <1>4, <1>6, <2>7, <2>9 DEF WellFormed
<1>7. WellFormed(d)
  BY <1>5, <1>6
<1> QED
  BY <1>7 DEF d

\* ... and changes nothing of what it says.
LEMMA UpgradeLogical ==
    ASSUME NEW c \in Content, WellFormed(c), c.version < latestVersion
    PROVE  Logical(Upgrade(c.version, c)) = Logical(c)
<1> DEFINE d == Upgrade(c.version, c)
<1>a. UpgradeOf(c, d)
  BY UpgradeFields
<1> HIDE DEF d
<1>0. /\ c.version \in {1, 2, 3, 4} /\ 0 \in XPubIDs /\ d.version = c.version + 1
      /\ d.privatekey = c.privatekey
  BY <1>a, ContentFields, FileAssumption DEF WellFormed, latestVersion, XPubIDs, UpgradeOf
<1>1. ASSUME NEW t \in Tickets
      PROVE  LogicalTicket(d.ticketbkt[t], d.version) = LogicalTicket(c.ticketbkt[t], c.version)
  <2>1. c.ticketbkt[t] \in {None} \union Ticket
    BY ContentFields
  <2>2. d.ticketbkt[t] = UpgradedTicket(c.version, c.ticketbkt[t])
    BY <1>a DEF UpgradeOf
  <2>3. CASE c.ticketbkt[t] = None
    BY <1>0, <2>2, <2>3 DEF LogicalTicket, UpgradedTicket, DropOldFeeTx, MoveToBucket, SetFirstXPub
  <2>4. CASE c.ticketbkt[t] # None
    <3>1. c.ticketbkt[t] \in Ticket
      BY <2>1, <2>4
    <3> QED
      BY <1>0, <2>2, <3>1, UpgradedTicketLogical DEF UpgradedTicket
  <2> QED
    BY <2>3, <2>4
<1>2. LogicalXPubs(d) = LogicalXPubs(c)
  BY <1>0, <1>a DEF LogicalXPubs, storedIndex, UpgradeOf
<1>3. (IF d.altsigbkt = None THEN {} ELSE d.altsigbkt) =
      (IF c.altsigbkt = None THEN {} ELSE c.altsigbkt)
  BY <1>0, <1>a DEF WellFormed, UpgradeOf
<1>4. Logical(d) = Logical(c)
  BY <1>0, <1>1, <1>2, <1>3 DEF Logical
<1> QED
  BY <1>4 DEF d

-----------------------------------------------------------------------------
\* A file of the latest version that holds c.
Latest(c) == c \in Content /\ WellFormed(c) /\ c.version = latestVersion

\* The logical content of a file of the latest version.
LEMMA LogicalLatest ==
    ASSUME NEW c, Latest(c)
    PROVE  /\ Logical(c) \in LogicalContent
           /\ Logical(c).signKey = c.privatekey
           /\ \A t \in Tickets : Logical(c).tickets[t] = LogicalTicket(c.ticketbkt[t], 5)
           /\ Logical(c).altSigs = c.altsigbkt
           /\ Logical(c).xpubs = c.xpubbkt
           /\ c.altsigbkt \in SUBSET Tickets
<1>1. c \in Content /\ WellFormed(c) /\ c.version = 5
  BY DEF Latest, latestVersion
<1>2. Logical(c) \in LogicalContent
  BY <1>1, LogicalType
<1>3. c.altsigbkt # None /\ c.altsigbkt \in SUBSET Tickets
  BY <1>1, ContentFields DEF WellFormed
<1>4. LogicalXPubs(c) = c.xpubbkt
  BY <1>1 DEF LogicalXPubs
<1>5. \A t \in Tickets : Logical(c).tickets[t] = LogicalTicket(c.ticketbkt[t], 5)
  BY <1>1 DEF Logical
<1> QED
  BY <1>2, <1>3, <1>4, <1>5 DEF Logical

\* A function that differs from another in one place.
LEMMA ChangedAt ==
    ASSUME NEW S, NEW T, NEW f \in [S -> T], NEW g \in [S -> T], NEW s, NEW v,
           \A k \in S : g[k] = IF k = s THEN v ELSE f[k]
    PROVE  g = [f EXCEPT ![s] = v]
OBVIOUS

\* What WellFormed asks of it.
Tidy(c) ==
    /\ \A t \in Tickets : c.ticketbkt[t] # None =>
          /\ c.ticketbkt[t].form = "bucket"
          /\ c.ticketbkt[t].FeeAddressXPubID # None
          /\ c.xpubbkt[c.ticketbkt[t].FeeAddressXPubID] # None
    /\ c.altsigbkt # None /\ c.feeXPub = None /\ c.lastaddressindex = None
    /\ \E last \in XPubIDs : \A i \in XPubIDs :
          /\ c.xpubbkt[i] # None <=> i <= last
          /\ i <= last => (c.xpubbkt[i].Retired <=> i # last)

\* A file of the latest version is one whose buckets are as they should be.
LEMMA LatestTidy ==
    ASSUME NEW c
    PROVE  Latest(c) <=> c \in Content /\ c.version = latestVersion /\ Tidy(c)
BY DEF Latest, WellFormed, latestVersion, Tidy

\* Two functions with the same values are one.
LEMMA SameFunction ==
    ASSUME NEW S, NEW T, NEW f \in [S -> T], NEW g \in [S -> T], \A k \in S : f[k] = g[k]
    PROVE  f = g
OBVIOUS

\* A logical content is a record of four fields.
LEMMA FourFields ==
    ASSUME NEW c
    PROVE  Logical(c) = [signKey |-> Logical(c).signKey, tickets |-> Logical(c).tickets,
                         altSigs |-> Logical(c).altSigs, xpubs |-> Logical(c).xpubs]
BY DEF Logical

\* Two logical contents that differ in their tickets only.
LEMMA OtherTickets ==
    ASSUME NEW c, NEW d, Logical(d).signKey = Logical(c).signKey,
           Logical(d).altSigs = Logical(c).altSigs, Logical(d).xpubs = Logical(c).xpubs
    PROVE  Logical(d) = [Logical(c) EXCEPT !.tickets = Logical(d).tickets]
BY FourFields

\* Two that differ in their alternate signing addresses only.
LEMMA OtherAltSigs ==
    ASSUME NEW c, NEW d, Logical(d).signKey = Logical(c).signKey,
           Logical(d).tickets = Logical(c).tickets, Logical(d).xpubs = Logical(c).xpubs
    PROVE  Logical(d) = [Logical(c) EXCEPT !.altSigs = Logical(d).altSigs]
BY FourFields

\* Two that differ in their extended public keys only.
LEMMA OtherXPubs ==
    ASSUME NEW c, NEW d, Logical(d).signKey = Logical(c).signKey,
           Logical(d).tickets = Logical(c).tickets, Logical(d).altSigs = Logical(c).altSigs
    PROVE  Logical(d) = [Logical(c) EXCEPT !.xpubs = Logical(d).xpubs]
BY FourFields

\* Two logical contents that differ in one ticket.
LEMMA OtherTicket ==
    ASSUME NEW c, NEW d, NEW t, NEW r, Logical(c) \in LogicalContent,
           Logical(d) \in LogicalContent,
           Logical(d).signKey = Logical(c).signKey, Logical(d).altSigs = Logical(c).altSigs,
           Logical(d).xpubs = Logical(c).xpubs,
           \A k \in Tickets :
                Logical(d).tickets[k] = IF k = t THEN r ELSE Logical(c).tickets[k]
    PROVE  Logical(d) = [Logical(c) EXCEPT !.tickets[t] = r]
<1>1. Logical(d).tickets = [Logical(c).tickets EXCEPT ![t] = r]
  BY ChangedAt DEF LogicalContent
<1>2. Logical(d) = [Logical(c) EXCEPT !.tickets = Logical(d).tickets]
  BY OtherTickets
<1> QED
  BY <1>1, <1>2

\* Saving a ticket.
LEMMA PutTicketStep ==
    ASSUME NEW c, Latest(c), NEW t \in Tickets, NEW id \in XPubIDs, NEW r \in Records,
           IF c.ticketbkt[t] = None THEN c.xpubbkt[id] # None
                                    ELSE id = c.ticketbkt[t].FeeAddressXPubID,
           NEW d, d = [c EXCEPT !.ticketbkt[t] = [r EXCEPT !.FeeAddressXPubID = id]]
    PROVE  Latest(d) /\ Store!PutTicket(Logical(c), Logical(d))
<1> DEFINE r2 == [r EXCEPT !.FeeAddressXPubID = id]
           bkt == [c.ticketbkt EXCEPT ![t] = r2]
<1>0. c \in Content /\ id \in Nat
  BY FileAssumption DEF Latest, XPubIDs
<1>1. r2 \in Ticket /\ r2.form = "bucket" /\ r2.FeeAddressXPubID = id
  BY FileAssumption DEF Ticket
<1>2. r2 # None
  BY <1>1, NoneIsNothing
<1>a. Tidy(c)
  BY LatestTidy
<1>3. c.xpubbkt[id] # None
  BY <1>a DEF Tidy
<1> HIDE DEF r2
<1>4. /\ bkt \in [Tickets -> {None} \union Ticket]
      /\ \A k \in Tickets : bkt[k] = IF k = t THEN r2 ELSE c.ticketbkt[k]
  BY <1>0, <1>1, ContentFields
<1>5. d = [c EXCEPT !.ticketbkt = bkt]
  BY <1>0 DEF Content, r2
<1> HIDE DEF bkt
<1>6. /\ d \in Content /\ d.version = c.version /\ d.privatekey = c.privatekey
      /\ d.ticketbkt = bkt /\ d.altsigbkt = c.altsigbkt /\ d.feeXPub = c.feeXPub
      /\ d.lastaddressindex = c.lastaddressindex /\ d.xpubbkt = c.xpubbkt
  BY <1>0, <1>4, <1>5 DEF Content
<1>7. d.version = latestVersion
  BY <1>6 DEF Latest
<1>8. Tidy(d)
  <2>1. \A k \in Tickets : d.ticketbkt[k] # None =>
            /\ d.ticketbkt[k].form = "bucket"
            /\ d.ticketbkt[k].FeeAddressXPubID # None
            /\ d.xpubbkt[d.ticketbkt[k].FeeAddressXPubID] # None
    <3>1. ASSUME NEW k \in Tickets, d.ticketbkt[k] # None
          PROVE  /\ d.ticketbkt[k].form = "bucket"
                 /\ d.ticketbkt[k].FeeAddressXPubID # None
                 /\ c.xpubbkt[d.ticketbkt[k].FeeAddressXPubID] # None
      <4>1. id # None
        BY <1>0, NoneIsNothing
      <4>2. CASE k = t
        BY <1>1, <1>3, <1>4, <1>6, <4>1, <4>2
      <4>3. CASE k # t
        BY <1>a, <1>4, <1>6, <3>1, <4>3 DEF Tidy
      <4> QED
        BY <4>2, <4>3
    <3> QED
      BY <1>6, <3>1
  <2> QED
    BY <1>a, <1>6, <2>1 DEF Tidy
<1>9. Latest(d)
  BY <1>6, <1>7, <1>8, LatestTidy
<1>10. LogicalTicket(r2, 5) \in Store!Ticket
       /\ LogicalTicket(r2, 5).FeeAddressXPubID = id
  <2>1. LogicalTicket(r2, 5) =
            [FeeTxStatus |-> r2.FeeTxStatus, FeeTxHex |-> r2.FeeTxHex,
             VoteChoices |-> bytesToStringMap(r2.VoteChoices), FeeAddressXPubID |-> id]
    BY <1>1, <1>2 DEF LogicalTicket
  <2>2. bytesToStringMap(r2.VoteChoices) \in {"{}", "choices"}
    BY <1>1 DEF bytesToStringMap, Ticket
  <2>3. r2.FeeTxStatus \in {"none", "confirmed"} /\ r2.FeeTxHex \in {"", "hex"}
    BY <1>1 DEF Ticket
  <2> QED
    <3>1. [FeeTxStatus |-> r2.FeeTxStatus, FeeTxHex |-> r2.FeeTxHex,
           VoteChoices |-> bytesToStringMap(r2.VoteChoices), FeeAddressXPubID |-> id]
                \in Store!Ticket
      BY <1>0, <2>2, <2>3 DEF Store!Ticket
    <3> QED
      BY <2>1, <3>1
<1>11. ASSUME NEW k \in Tickets
       PROVE  Logical(d).tickets[k] =
                IF k = t THEN LogicalTicket(r2, 5) ELSE Logical(c).tickets[k]
  <2>1. /\ Logical(d).tickets[k] = LogicalTicket(d.ticketbkt[k], 5)
        /\ Logical(c).tickets[k] = LogicalTicket(c.ticketbkt[k], 5)
    BY <1>9, LogicalLatest
  <2>2. d.ticketbkt[k] = IF k = t THEN r2 ELSE c.ticketbkt[k]
    BY <1>4, <1>6
  <2> QED
    BY <2>1, <2>2
<1>12. /\ Logical(d).signKey = Logical(c).signKey /\ Logical(d).altSigs = Logical(c).altSigs
       /\ Logical(d).xpubs = Logical(c).xpubs
  BY <1>6, <1>9, LogicalLatest
<1>13. Logical(d) = [Logical(c) EXCEPT !.tickets[t] = LogicalTicket(r2, 5)]
  <2>1. Logical(c) \in LogicalContent /\ Logical(d) \in LogicalContent
    BY <1>9, LogicalLatest
  <2> DEFINE v == LogicalTicket(r2, 5)
  <2>2. \A k \in Tickets : Logical(d).tickets[k] = IF k = t THEN v ELSE Logical(c).tickets[k]
    BY <1>11
  <2> HIDE DEF v
  <2>3. Logical(d) = [Logical(c) EXCEPT !.tickets[t] = v]
    BY <1>12, <2>1, <2>2, OtherTicket
  <2> QED
    BY <2>3 DEF v
<1>14. Logical(c).tickets[t] # None => Logical(c).tickets[t].FeeAddressXPubID = id
  <2>1. Logical(c).tickets[t] = LogicalTicket(c.ticketbkt[t], 5)
    BY LogicalLatest
  <2> QED
    BY <2>1 DEF LogicalTicket
<1> QED
  BY <1>9, <1>10, <1>11, <1>13, <1>14 DEF Store!PutTicket

\* Deleting a ticket.
LEMMA DeleteTicketStep ==
    ASSUME NEW c, Latest(c), NEW t \in Tickets, NEW d, d = [c EXCEPT !.ticketbkt[t] = None]
    PROVE  Latest(d) /\ Store!DeleteTicket(Logical(c), Logical(d))
<1> DEFINE bkt == [c.ticketbkt EXCEPT ![t] = None]
<1>0. c \in Content
  BY DEF Latest
<1>a. Tidy(c)
  BY LatestTidy
<1>4. /\ bkt \in [Tickets -> {None} \union Ticket]
      /\ \A k \in Tickets : bkt[k] = IF k = t THEN None ELSE c.ticketbkt[k]
  BY <1>0, ContentFields
<1>5. d = [c EXCEPT !.ticketbkt = bkt]
  BY <1>0 DEF Content
<1> HIDE DEF bkt
<1>6. /\ d \in Content /\ d.version = c.version /\ d.privatekey = c.privatekey
      /\ d.ticketbkt = bkt /\ d.altsigbkt = c.altsigbkt /\ d.feeXPub = c.feeXPub
      /\ d.lastaddressindex = c.lastaddressindex /\ d.xpubbkt = c.xpubbkt
  BY <1>0, <1>4, <1>5 DEF Content
<1>7. d.version = latestVersion
  BY <1>6 DEF Latest
<1>8. Tidy(d)
  <2>1. \A k \in Tickets : d.ticketbkt[k] # None =>
            /\ d.ticketbkt[k].form = "bucket"
            /\ d.ticketbkt[k].FeeAddressXPubID # None
            /\ d.xpubbkt[d.ticketbkt[k].FeeAddressXPubID] # None
    BY <1>a, <1>4, <1>6 DEF Tidy
  <2> QED
    BY <1>a, <1>6, <2>1 DEF Tidy
<1>9. Latest(d)
  BY <1>6, <1>7, <1>8, LatestTidy
<1>11. ASSUME NEW k \in Tickets
       PROVE  Logical(d).tickets[k] = IF k = t THEN None ELSE Logical(c).tickets[k]
  <2>1. /\ Logical(d).tickets[k] = LogicalTicket(d.ticketbkt[k], 5)
        /\ Logical(c).tickets[k] = LogicalTicket(c.ticketbkt[k], 5)
    BY <1>9, LogicalLatest
  <2>2. d.ticketbkt[k] = IF k = t THEN None ELSE c.ticketbkt[k]
    BY <1>4, <1>6
  <2>3. LogicalTicket(None, 5) = None
    BY DEF LogicalTicket
  <2> QED
    BY <2>1, <2>2, <2>3
<1>12. /\ Logical(d).signKey = Logical(c).signKey /\ Logical(d).altSigs = Logical(c).altSigs
       /\ Logical(d).xpubs = Logical(c).xpubs
  BY <1>6, <1>9, LogicalLatest
<1>13. Logical(d) = [Logical(c) EXCEPT !.tickets[t] = None]
  <2>1. Logical(c) \in LogicalContent /\ Logical(d) \in LogicalContent
    BY <1>9, LogicalLatest
  <2>2. PICK S : Logical(c).tickets \in [Tickets -> S] /\ Logical(d).tickets \in [Tickets -> S]
    BY <2>1 DEF LogicalContent
  <2>3. Logical(d).tickets = [Logical(c).tickets EXCEPT ![t] = None]
    BY <1>11, <2>2, ChangedAt
  <2> QED
    BY <1>12, <2>1, <2>3 DEF LogicalContent
<1> QED
  BY <1>9, <1>13 DEF Store!DeleteTicket

\* The logical tickets depend on the bucket of tickets alone.
LEMMA SameTickets ==
    ASSUME NEW c, NEW d, Latest(c), Latest(d), d.ticketbkt = c.ticketbkt
    PROVE  Logical(d).tickets = Logical(c).tickets
<1>1. ASSUME NEW k \in Tickets PROVE Logical(d).tickets[k] = Logical(c).tickets[k]
  BY <1>1, LogicalLatest
<1>2. PICK S : Logical(c).tickets \in [Tickets -> S] /\ Logical(d).tickets \in [Tickets -> S]
  BY LogicalLatest DEF LogicalContent
<1> QED
  BY <1>1, <1>2, SameFunction

\* Storing that a ticket has an alternate signing address.
LEMMA AltSignAddrStep ==
    ASSUME NEW c, Latest(c), NEW t \in Tickets \ c.altsigbkt,
           NEW d, d = [c EXCEPT !.altsigbkt = @ \union {t}]
    PROVE  Latest(d) /\ Store!InsertAltSignAddr(Logical(c), Logical(d))
<1> DEFINE alt == c.altsigbkt \union {t}
<1>0. c \in Content
  BY DEF Latest
<1>a. Tidy(c)
  BY LatestTidy
<1>1. alt \in SUBSET Tickets /\ alt # None
  BY LogicalLatest, NoneIsNothing
<1>2. d = [c EXCEPT !.altsigbkt = alt]
  BY <1>0 DEF Content
<1>3. alt = c.altsigbkt \union {t}
  OBVIOUS
<1> HIDE DEF alt
<1>6. /\ d \in Content /\ d.version = c.version /\ d.privatekey = c.privatekey
      /\ d.ticketbkt = c.ticketbkt /\ d.altsigbkt = alt /\ d.feeXPub = c.feeXPub
      /\ d.lastaddressindex = c.lastaddressindex /\ d.xpubbkt = c.xpubbkt
  BY <1>0, <1>1, <1>2 DEF Content
<1>7. d.version = latestVersion
  BY <1>6 DEF Latest
<1>8. Tidy(d)
  <2>1. \A k \in Tickets : d.ticketbkt[k] # None =>
            /\ d.ticketbkt[k].form = "bucket"
            /\ d.ticketbkt[k].FeeAddressXPubID # None
            /\ d.xpubbkt[d.ticketbkt[k].FeeAddressXPubID] # None
    BY <1>a, <1>6 DEF Tidy
  <2>2. d.altsigbkt # None /\ d.feeXPub = None /\ d.lastaddressindex = None
    BY <1>a, <1>1, <1>6 DEF Tidy
  <2>3. \E last \in XPubIDs : \A i \in XPubIDs :
            /\ d.xpubbkt[i] # None <=> i <= last
            /\ i <= last => (d.xpubbkt[i].Retired <=> i # last)
    BY <1>a, <1>6 DEF Tidy
  <2> QED
    BY <2>1, <2>2, <2>3 DEF Tidy
<1>9. Latest(d)
  BY <1>6, <1>7, <1>8, LatestTidy
<1>10. /\ Logical(d).signKey = Logical(c).signKey /\ Logical(d).tickets = Logical(c).tickets
       /\ Logical(d).xpubs = Logical(c).xpubs
       /\ Logical(d).altSigs = Logical(c).altSigs \union {t}
       /\ t \notin Logical(c).altSigs
  <2>1. Logical(d).tickets = Logical(c).tickets
    BY <1>6, <1>9, SameTickets
  <2> QED
    BY <1>3, <1>6, <1>9, <2>1, LogicalLatest
<1>11. Logical(d) = [Logical(c) EXCEPT !.altSigs = @ \union {t}]
  <2>1. Logical(d) = [Logical(c) EXCEPT !.altSigs = Logical(d).altSigs]
    BY <1>10, OtherAltSigs
  <2> QED
    BY ONLY <1>10, <2>1
<1> QED
  BY <1>9, <1>10, <1>11 DEF Store!InsertAltSignAddr

\* Storing the index of the active key.
LEMMA AddressIndexStep ==
    ASSUME NEW c, Latest(c), NEW id \in XPubIDs, c.xpubbkt[id] # None,
           \A i \in XPubIDs : i > id => c.xpubbkt[i] = None, NEW idx \in Nat,
           NEW d, d = [c EXCEPT !.xpubbkt[id].LastUsedIdx = idx]
    PROVE  Latest(d) /\ Store!SetLastAddressIndex(Logical(c), Logical(d))
<1> DEFINE x == [c.xpubbkt[id] EXCEPT !.LastUsedIdx = idx]
           bkt == [c.xpubbkt EXCEPT ![id] = x]
<1>0. c \in Content /\ c.xpubbkt[id] \in FeeXPub
  BY ContentFields DEF Latest
<1>a. Tidy(c)
  BY LatestTidy
<1>1. x \in FeeXPub /\ x.Retired = c.xpubbkt[id].Retired /\ x.LastUsedIdx = idx
  BY <1>0 DEF FeeXPub
<1>2. x # None
  BY <1>1, NoneIsNothing
<1>3. d = [c EXCEPT !.xpubbkt = bkt]
  BY <1>0 DEF Content
<1> HIDE DEF x
<1>4. /\ bkt \in [XPubIDs -> {None} \union FeeXPub]
      /\ \A i \in XPubIDs : bkt[i] = IF i = id THEN x ELSE c.xpubbkt[i]
  BY <1>0, <1>1, ContentFields
<1>5. bkt = [c.xpubbkt EXCEPT ![id].LastUsedIdx = idx]
  BY DEF x
<1> HIDE DEF bkt
<1>6. /\ d \in Content /\ d.version = c.version /\ d.privatekey = c.privatekey
      /\ d.ticketbkt = c.ticketbkt /\ d.altsigbkt = c.altsigbkt /\ d.feeXPub = c.feeXPub
      /\ d.lastaddressindex = c.lastaddressindex /\ d.xpubbkt = bkt
  BY <1>0, <1>3, <1>4 DEF Content
<1>7. d.version = latestVersion
  BY <1>6 DEF Latest
<1>b. \A i \in XPubIDs : /\ bkt[i] # None <=> c.xpubbkt[i] # None
                         /\ bkt[i].Retired = c.xpubbkt[i].Retired
  BY <1>1, <1>2, <1>4
<1>8. Tidy(d)
  <2>1. ASSUME NEW k \in Tickets, d.ticketbkt[k] # None
        PROVE  /\ d.ticketbkt[k].form = "bucket"
               /\ d.ticketbkt[k].FeeAddressXPubID # None
               /\ d.xpubbkt[d.ticketbkt[k].FeeAddressXPubID] # None
    <3>1. c.ticketbkt[k] \in Ticket
      BY <1>0, <1>6, <2>1, ContentFields
    <3>2. /\ c.ticketbkt[k].form = "bucket"
          /\ c.ticketbkt[k].FeeAddressXPubID # None
          /\ c.xpubbkt[c.ticketbkt[k].FeeAddressXPubID] # None
      BY <1>a, <1>6, <2>1 DEF Tidy
    <3>3. c.ticketbkt[k].FeeAddressXPubID \in XPubIDs
      BY <3>1, <3>2 DEF Ticket
    <3> QED
      BY <1>b, <1>6, <3>2, <3>3
  <2>2. PICK last \in XPubIDs : \A i \in XPubIDs :
          /\ c.xpubbkt[i] # None <=> i <= last
          /\ i <= last => (c.xpubbkt[i].Retired <=> i # last)
    BY <1>a DEF Tidy
  <2>3. \A i \in XPubIDs : /\ d.xpubbkt[i] # None <=> i <= last
                           /\ i <= last => (d.xpubbkt[i].Retired <=> i # last)
    BY <1>b, <1>6, <2>2
  <2> QED
    BY <1>a, <1>6, <2>1, <2>3 DEF Tidy
<1>9. Latest(d)
  BY <1>6, <1>7, <1>8, LatestTidy
<1>10. /\ Logical(d).signKey = Logical(c).signKey /\ Logical(d).tickets = Logical(c).tickets
       /\ Logical(d).altSigs = Logical(c).altSigs
       /\ Logical(c).xpubs = c.xpubbkt /\ Logical(d).xpubs = bkt
       /\ Logical(c) \in LogicalContent /\ Logical(d) \in LogicalContent
  BY <1>6, <1>9, SameTickets, LogicalLatest
<1>11. Logical(d) = [Logical(c) EXCEPT !.xpubs[id].LastUsedIdx = idx]
  <2>1. Logical(d) = [Logical(c) EXCEPT !.xpubs = Logical(d).xpubs]
    BY <1>10, OtherXPubs
  <2>2. Logical(d).xpubs = [Logical(c).xpubs EXCEPT ![id].LastUsedIdx = idx]
    BY <1>5, <1>10
  <2> QED
    BY ONLY <2>1, <2>2
<1>12. Logical(d).xpubs[id].LastUsedIdx = idx /\ Logical(d).xpubs[id] \in Store!FeeXPub
  BY <1>1, <1>4, <1>10 DEF FeeXPub, Store!FeeXPub
<1>13. Store!Active(Logical(c), id)
  BY <1>10 DEF Store!Active, XPubIDs
<1> QED
  BY <1>9, <1>11, <1>12, <1>13 DEF Store!SetLastAddressIndex, XPubIDs

\* Replacing the active key by one that was not used before.
LEMMA RetireStep ==
    ASSUME NEW c, Latest(c), NEW id \in XPubIDs, id < MaxID, c.xpubbkt[id] # None,
           \A i \in XPubIDs : i > id => c.xpubbkt[i] = None, NEW x \in XPubs,
           \A i \in XPubIDs : c.xpubbkt[i] # None => c.xpubbkt[i].Key # x,
           NEW d, d = [c EXCEPT !.xpubbkt = [@ EXCEPT ![id].Retired = TRUE,
                                                      ![id + 1] = NewXPub(x, 0)]]
    PROVE  Latest(d) /\ Store!RetireXPub(Logical(c), Logical(d))
<1> DEFINE old == [c.xpubbkt[id] EXCEPT !.Retired = TRUE]
           new == NewXPub(x, 0)
           bkt == [c.xpubbkt EXCEPT ![id] = old, ![id + 1] = new]
<1>0. /\ c \in Content /\ c.xpubbkt[id] \in FeeXPub
      /\ id + 1 \in XPubIDs /\ id \in Nat /\ MaxID \in Nat
  BY ContentFields, FileAssumption DEF Latest, XPubIDs
<1>a. Tidy(c)
  BY LatestTidy
<1>1. /\ old \in FeeXPub /\ old.Retired = TRUE
      /\ new \in FeeXPub /\ new.Retired = FALSE
  BY <1>0 DEF FeeXPub, NewXPub
<1>2. old # None /\ new # None
  BY <1>1, NoneIsNothing
<1> HIDE DEF new
<1>3. d = [c EXCEPT !.xpubbkt = bkt]
  BY <1>0 DEF Content, new
<1>5. bkt = [c.xpubbkt EXCEPT ![id].Retired = TRUE, ![id + 1] = new]
  OBVIOUS
<1> HIDE DEF old
<1>4. /\ bkt \in [XPubIDs -> {None} \union FeeXPub]
      /\ \A i \in XPubIDs : bkt[i] = IF i = id + 1 THEN new
                                     ELSE IF i = id THEN old ELSE c.xpubbkt[i]
  BY <1>0, <1>1, ContentFields
<1> HIDE DEF bkt
<1>6. /\ d \in Content /\ d.version = c.version /\ d.privatekey = c.privatekey
      /\ d.ticketbkt = c.ticketbkt /\ d.altsigbkt = c.altsigbkt /\ d.feeXPub = c.feeXPub
      /\ d.lastaddressindex = c.lastaddressindex /\ d.xpubbkt = bkt
  BY <1>0, <1>3, <1>4 DEF Content
<1>7. d.version = latestVersion
  BY <1>6 DEF Latest
<1>8. Tidy(d)
  <2>1. ASSUME NEW k \in Tickets, d.ticketbkt[k] # None
        PROVE  /\ d.ticketbkt[k].form = "bucket"
               /\ d.ticketbkt[k].FeeAddressXPubID # None
               /\ d.xpubbkt[d.ticketbkt[k].FeeAddressXPubID] # None
    <3>1. c.ticketbkt[k] \in Ticket
      BY <1>0, <1>6, <2>1, ContentFields
    <3>2. /\ c.ticketbkt[k].form = "bucket"
          /\ c.ticketbkt[k].FeeAddressXPubID # None
          /\ c.xpubbkt[c.ticketbkt[k].FeeAddressXPubID] # None
      BY <1>a, <1>6, <2>1 DEF Tidy
    <3>3. c.ticketbkt[k].FeeAddressXPubID \in XPubIDs
      BY <3>1, <3>2 DEF Ticket
    <3> QED
      BY <1>2, <1>4, <1>6, <3>2, <3>3
  <2>2. PICK last \in XPubIDs : \A i \in XPubIDs :
          /\ c.xpubbkt[i] # None <=> i <= last
          /\ i <= last => (c.xpubbkt[i].Retired <=> i # last)
    BY <1>a DEF Tidy
  <2>3. last = id
    <3>1. id <= last
      BY <2>2
    <3>2. c.xpubbkt[last] # None
      BY <2>2 DEF XPubIDs
    <3> QED
      BY <1>0, <3>1, <3>2 DEF XPubIDs
  <2>4. ASSUME NEW i \in XPubIDs
        PROVE  /\ bkt[i] # None <=> i <= id + 1
               /\ i <= id + 1 => (bkt[i].Retired <=> i # id + 1)
    <3>1. CASE i = id + 1
      BY <1>0, <1>1, <1>2, <1>4, <3>1
    <3>2. CASE i = id
      BY <1>0, <1>1, <1>2, <1>4, <3>2
    <3>3. CASE i # id /\ i # id + 1
      <4>1. i \in Nat /\ (i <= id + 1 <=> i <= id)
        BY <1>0, <3>3 DEF XPubIDs
      <4> QED
        BY <1>4, <2>2, <2>3, <3>3, <4>1
    <3> QED
      BY <3>1, <3>2, <3>3
  <2>5. \A i \in XPubIDs : /\ d.xpubbkt[i] # None <=> i <= id + 1
                           /\ i <= id + 1 => (d.xpubbkt[i].Retired <=> i # id + 1)
    BY <1>6, <2>4
  <2> QED
    BY <1>0, <1>a, <1>6, <2>1, <2>5 DEF Tidy
<1>9. Latest(d)
  BY <1>6, <1>7, <1>8, LatestTidy
<1>10. /\ Logical(d).signKey = Logical(c).signKey /\ Logical(d).tickets = Logical(c).tickets
       /\ Logical(d).altSigs = Logical(c).altSigs
       /\ Logical(c).xpubs = c.xpubbkt /\ Logical(d).xpubs = bkt
       /\ Logical(c) \in LogicalContent /\ Logical(d) \in LogicalContent
  BY <1>6, <1>9, SameTickets, LogicalLatest
<1>11. Logical(d) = [Logical(c) EXCEPT !.xpubs = [@ EXCEPT ![id].Retired = TRUE, ![id + 1] = new]]
  <2>1. Logical(d) = [Logical(c) EXCEPT !.xpubs = Logical(d).xpubs]
    BY <1>10, OtherXPubs
  <2>2. Logical(d).xpubs = [Logical(c).xpubs EXCEPT ![id].Retired = TRUE, ![id + 1] = new]
    BY <1>5, <1>10
  <2> QED
    BY ONLY <2>1, <2>2
<1>12. new = Store!NewXPub(x, 0)
  BY DEF new, NewXPub, Store!NewXPub
<1>13. Store!Active(Logical(c), id)
  BY <1>10 DEF Store!Active, XPubIDs
<1>14. \A i \in 0 .. id : Logical(c).xpubs[i].Key # x
  <2>1. PICK last \in XPubIDs : \A i \in XPubIDs : c.xpubbkt[i] # None <=> i <= last
    BY <1>a DEF Tidy
  <2>2. id <= last
    BY <2>1
  <2>3. ASSUME NEW i \in 0 .. id PROVE c.xpubbkt[i].Key # x
    <3>1. i \in XPubIDs /\ i <= last
      BY <1>0, <2>2, <2>3 DEF XPubIDs
    <3> QED
      BY <2>1, <3>1
  <2> QED
    BY <1>10, <2>3
<1>15. id \in 0 .. MaxID - 1
  BY <1>0
<1> QED
  BY <1>9, <1>11, <1>12, <1>13, <1>14, <1>15 DEF Store!RetireXPub

\* A new file.
LEMMA NewContentStep ==
    ASSUME NEW key \in SignKeys, NEW x \in XPubs
    PROVE  /\ Latest(NewContent(key, x))
           /\ Logical(NewContent(key, x)) = Store!NewStore(key, x)
<1> DEFINE c == NewContent(key, x)
           new == NewXPub(x, 0)
<1>0. 0 \in XPubIDs /\ \A i \in XPubIDs : i \in Nat /\ (i <= 0 <=> i = 0)
  BY FileAssumption DEF XPubIDs
<1>1. new \in FeeXPub /\ new.Retired = FALSE
  BY DEF NewXPub, FeeXPub
<1>2. new # None
  BY <1>1, NoneIsNothing
<1>3. /\ c.version = latestVersion /\ c.privatekey = key
      /\ c.ticketbkt = [t \in Tickets |-> None] /\ c.altsigbkt = {}
      /\ c.feeXPub = None /\ c.lastaddressindex = None
      /\ c.xpubbkt = [id \in XPubIDs |-> IF id = 0 THEN new ELSE None]
  BY DEF NewContent
<1>4. c \in Content
  BY <1>1 DEF NewContent, Content, latestVersion
<1> HIDE DEF c, new
<1>5. Tidy(c)
  <2>1. \A i \in XPubIDs : /\ c.xpubbkt[i] # None <=> i <= 0
                           /\ i <= 0 => (c.xpubbkt[i].Retired <=> i # 0)
    BY <1>0, <1>1, <1>2, <1>3
  <2>2. {} # None
    BY NoneIsNothing
  <2>3. \A t \in Tickets : c.ticketbkt[t] = None
    BY <1>3
  <2>4. c.altsigbkt # None /\ c.feeXPub = None /\ c.lastaddressindex = None
    BY <1>3, <2>2
  <2>5. \E last \in XPubIDs : \A i \in XPubIDs :
            /\ c.xpubbkt[i] # None <=> i <= last
            /\ i <= last => (c.xpubbkt[i].Retired <=> i # last)
    BY <1>0, <2>1
  <2> QED
    BY <2>3, <2>4, <2>5 DEF Tidy
<1>6. Latest(c)
  BY <1>3, <1>4, <1>5, LatestTidy
<1>7. Logical(c).tickets = [t \in Tickets |-> None]
  <2>1. ASSUME NEW t \in Tickets PROVE Logical(c).tickets[t] = None
    <3>1. Logical(c).tickets[t] = LogicalTicket(c.ticketbkt[t], 5) /\ c.ticketbkt[t] = None
      BY <1>3, <1>6, LogicalLatest
    <3>2. LogicalTicket(None, 5) = None
      BY DEF LogicalTicket
    <3> QED
      BY <3>1, <3>2
  <2>2. Logical(c).tickets = [t \in Tickets |-> Logical(c).tickets[t]]
    BY <1>6, LogicalLatest DEF LogicalContent
  <2> QED
    BY <2>1, <2>2
<1>8. Logical(c) = Store!NewStore(key, x)
  <2>1. Store!Initial(x) = c.xpubbkt
    BY <1>3 DEF Store!Initial, Store!NewXPub, NewXPub, XPubIDs, new
  <2>2. /\ Logical(c).signKey = key /\ Logical(c).altSigs = {}
        /\ Logical(c).xpubs = Store!Initial(x)
    BY <1>3, <1>6, <2>1, LogicalLatest
  <2> QED
    BY <1>7, <2>2 DEF Store!NewStore, Logical
<1> QED
  BY <1>6, <1>8 DEF c

-----------------------------------------------------------------------------
\* The file has the form of its version, and the backup is whole or Torn.
Files ==
    /\ FileTypeOK
    /\ file \notin {None, Empty} => WellFormed(file)
    /\ temp # None /\ temp.content # Torn => WellFormed(temp.content)
    /\ backup # None => backup.done \/ backup.content = Torn

\* The copy of p is made.
Copied(p) == At(p, "rename") \/ (Serving(p) /\ proc[p].hot = "rename")

\* A copy that is not Torn is one process's, and when it is to be renamed done.
Copies ==
    temp # None /\ temp.content # Torn =>
        \A p \in Processes : Copying(p) =>
            /\ \A q \in Processes \ {p} : ~ Copying(q)
            /\ Copied(p) => temp.done

\* What a process may rely on at its step: that it holds the lock, which version
\* the file has, and, if it is alone, what the temporary file has and that
\* nobody else is at work.
Knows(p) ==
    /\ At(p, "created") \/ Using(p) => holder = p
    /\ Using(p) \/ Ending(p) => file \notin {None, Empty}
    /\ At(p, "open") => proc[p].version = file.version /\ proc[p].hot = "waiting"
    /\ proc[p].pc \in {"retire", "running", "stopping"} => file.version = latestVersion
    /\ Ending(p) /\ p \notin shared =>
        /\ \A q \in Processes \ {p} : proc[q].pc \in {"down", "create", "created"}
        /\ proc[p].pc \in {"copying", "rename"} => temp # None /\ temp.content = file

FileInv == Files /\ Copies /\ \A p \in Processes : Knows(p)

Steps == {"down", "create", "created", "open", "retire", "running", "stopping",
          "copy", "copying", "rename"}

\* A step of one process takes nothing from another that holds the lock, or is
\* ending alone, if it leaves the files to it.
LEMMA OthersKnow ==
    ASSUME FileInv, NEW p \in Processes, NEW q \in Processes \ {p},
           \A u \in Processes \ {p} : proc'[u] = proc[u],
           holder = q => holder' = q,
           Using(q) => file' = file,
           Ending(q) => file' = file \/ file' \notin {None, Empty},
           Ending(q) /\ q \notin shared' =>
                /\ q \notin shared /\ file' = file /\ temp' = temp
                /\ proc'[p].pc \in {"down", "create", "created"}
    PROVE  Knows(q)'
<1>1. proc'[q] = proc[q] /\ Knows(q)
  BY DEF FileInv
<1>2. CASE Ending(q)
  BY <1>1, <1>2 DEF Knows, Using, Ending, At
<1>3. CASE Using(q) \/ At(q, "created")
  BY <1>1, <1>3 DEF Knows, Using, Ending, At
<1>4. CASE proc[q].pc \in {"down", "create"}
  BY <1>1, <1>4 DEF Knows, Using, Ending, At
<1>5. proc[q].pc \in Steps
  BY DEF FileInv, Files, FileTypeOK, Proc, Steps
<1> QED
  BY <1>2, <1>3, <1>4, <1>5 DEF Steps, Using, Ending, At

\* A step that does not write the temporary file, but for making it Torn or
\* renaming it, takes nothing from its copies.
LEMMA CopiesKept ==
    ASSUME FileInv, NEW p \in Processes,
           \A u \in Processes \ {p} : proc'[u] = proc[u],
           Copying(p)' => Copying(p), Copied(p)' => Copied(p),
           temp' = temp \/ temp' = None \/ temp'.content = Torn
    PROVE  Copies'
<1>1. \A q \in Processes : (Copying(q)' => Copying(q)) /\ (Copied(q)' => Copied(q))
  BY DEF Copying, Copied, Serving, At
<1> QED
  BY <1>1 DEF FileInv, Copies

\* One process at a time is at work, but for those that are ending and not alone.
LEMMA OneAtWork ==
    ASSUME FileInv, NEW p \in Processes, NEW q \in Processes \ {p}
    PROVE  /\ Using(p) => ~ Using(q) /\ holder # q /\ (Ending(q) => q \in shared)
           /\ Ending(p) => /\ Ending(q) => p \in shared /\ q \in shared
                           /\ Using(q) => p \in shared
           /\ At(p, "created") => holder # q /\ ~ Using(q)
BY DEF FileInv, Knows, Using, Ending, At

\* What FileInv says of a process.
LEMMA ProcEntry ==
    ASSUME FileInv, NEW p \in Processes
    PROVE  /\ proc \in [Processes -> Proc] /\ proc[p] \in Proc
           /\ proc[p].pc \in Steps /\ Knows(p) /\ p # None
BY FileAssumption DEF FileInv, Files, FileTypeOK, Proc, Steps

\* A process went on to another step.
LEMMA Went ==
    ASSUME FileInv, NEW p \in Processes, NEW pc \in Steps, Go(p, pc)
    PROVE  /\ proc' \in [Processes -> Proc]
           /\ proc'[p].pc = pc /\ proc'[p].version = proc[p].version
           /\ proc'[p].hot = proc[p].hot
           /\ \A u \in Processes \ {p} : proc'[u] = proc[u]
<1> DEFINE r == [proc[p] EXCEPT !.pc = pc]
<1>1. /\ r \in Proc /\ r.pc = pc /\ r.version = proc[p].version /\ r.hot = proc[p].hot
  BY ProcEntry DEF Proc, Steps
<1>2. proc' = [proc EXCEPT ![p] = r]
  BY DEF Go
<1> HIDE DEF r
<1> QED
  BY <1>1, <1>2, ProcEntry

\* The goroutine that writes backups went on.
LEMMA HotWent ==
    ASSUME FileInv, NEW p \in Processes,
           NEW hot \in {"waiting", "copying", "rename", "returned"}, Hot(p, hot)
    PROVE  /\ proc' \in [Processes -> Proc]
           /\ proc'[p].pc = proc[p].pc /\ proc'[p].version = proc[p].version
           /\ proc'[p].hot = hot
           /\ \A u \in Processes \ {p} : proc'[u] = proc[u]
<1> DEFINE r == [proc[p] EXCEPT !.hot = hot]
<1>1. r \in Proc /\ r.pc = proc[p].pc /\ r.version = proc[p].version /\ r.hot = hot
  BY ProcEntry DEF Proc
<1>2. proc' = [proc EXCEPT ![p] = r]
  BY DEF Hot
<1> HIDE DEF r
<1> QED
  BY <1>1, <1>2, ProcEntry

\* A process that ends leaves the others as they are, if the files stay too.
LEMMA Exited ==
    ASSUME FileInv, NEW p \in Processes, Exit(p),
           file' = file \/ Using(p) \/ (At(p, "created") /\ file = Empty),
           file' = file \/ file' \notin {None, Empty},
           temp' = temp \/ (temp' = None /\ (Using(p) \/ Ending(p)))
    PROVE  /\ proc' \in [Processes -> Proc]
           /\ holder' \in Processes \union {None} /\ shared' \subseteq Processes
           /\ Copies' /\ \A q \in Processes : Knows(q)'
<1>1. /\ proc'[p].pc = "down"
      /\ \A u \in Processes \ {p} : proc'[u] = proc[u]
      /\ proc' \in [Processes -> Proc]
  BY ProcEntry DEF Exit, Down, Proc
<1>2. holder' \in Processes \union {None} /\ shared' \subseteq Processes
  BY DEF Exit, FileInv, Files, FileTypeOK
<1>3. Knows(p)'
  BY <1>1 DEF Knows, Using, Ending, At
<1>4. ASSUME NEW q \in Processes \ {p} PROVE Knows(q)'
  <2>1. (holder = q => holder' = q) /\ (q \notin shared' => q \notin shared)
    BY DEF Exit
  <2>2. Using(q) \/ (Ending(q) /\ q \notin shared) => file' = file
    <3>1. Ending(q) => file # Empty
      BY ProcEntry DEF Knows
    <3> QED
      BY <3>1, OneAtWork DEF Using, Ending, At
  <2>3. Ending(q) /\ q \notin shared => temp' = temp
    BY OneAtWork
  <2> QED
    BY <1>1, <2>1, <2>2, <2>3, OthersKnow
<1>5. Copies'
  BY <1>1, CopiesKept DEF Copying, Copied, Serving, At
<1> QED
  BY <1>1, <1>2, <1>3, <1>4, <1>5

-----------------------------------------------------------------------------
\* The steps.  Those of createdatabase:
LEMMA CreateSteps ==
    ASSUME FileInv, NEW p \in Processes, CreateDatabase(p) \/ OpenNew(p) \/ Initialize(p)
    PROVE  FileInv'
<1>1. CASE CreateDatabase(p)
  <2>1. /\ file' = file /\ temp' = temp /\ backup' = backup /\ holder' = holder
        /\ UNCHANGED <<shared, commits, faults, crashes>>
        /\ At(p, "down")
    BY <1>1 DEF CreateDatabase
  <2> DEFINE r == [proc[p] EXCEPT !.kind = "createdatabase", !.pc = "create"]
  <2>2. r \in Proc /\ r.pc = "create"
    BY ProcEntry DEF Proc
  <2>3. proc' = [proc EXCEPT ![p] = r]
    BY <1>1, ProcEntry DEF CreateDatabase, Proc
  <2> HIDE DEF r
  <2>4. /\ proc' \in [Processes -> Proc] /\ proc'[p].pc = "create"
        /\ \A u \in Processes \ {p} : proc'[u] = proc[u]
    BY <2>2, <2>3, ProcEntry
  <2>5. Files'
    BY <2>1, <2>4 DEF FileInv, Files, FileTypeOK
  <2>6. Knows(p)'
    BY <2>4 DEF Knows, Using, Ending, At, Serving
  <2>7. \A q \in Processes \ {p} : Knows(q)'
    BY <2>1, <2>4, OthersKnow
  <2>8. Copies'
    BY <2>1, <2>4, CopiesKept DEF Copying, Copied, Serving, At
  <2> QED
    BY <2>5, <2>6, <2>7, <2>8 DEF FileInv
<1>2. CASE OpenNew(p) /\ Exit(p) /\ UNCHANGED file
  <2>1. temp' = temp /\ UNCHANGED <<backup, commits, faults, crashes>>
    BY <1>2 DEF OpenNew
  <2> QED
    BY <1>2, <2>1, Exited DEF FileInv, Files, FileTypeOK
<1>3. CASE OpenNew(p) /\ ~ (Exit(p) /\ UNCHANGED file)
  <2>1. /\ holder = None /\ holder' = p
        /\ file' = IF file = None THEN Empty ELSE file
        /\ Go(p, "created") /\ UNCHANGED <<temp, backup, shared, commits, faults, crashes>>
    BY <1>3 DEF OpenNew
  <2>2. /\ proc' \in [Processes -> Proc] /\ proc'[p].pc = "created"
        /\ \A u \in Processes \ {p} : proc'[u] = proc[u]
    BY <2>1, Went DEF Steps
  <2>3. Files'
    BY <2>1, <2>2 DEF FileInv, Files, FileTypeOK
  <2>4. Knows(p)'
    BY <2>1, <2>2 DEF Knows, Using, Ending, At, Serving
  <2>5. ASSUME NEW q \in Processes \ {p} PROVE Knows(q)'
    <3>1. Using(q) \/ Ending(q) => file # None
      BY ProcEntry DEF Knows
    <3>2. holder # q
      BY <2>1, ProcEntry
    <3> QED
      BY <2>1, <2>2, <3>1, <3>2, OthersKnow
  <2>6. Copies'
    BY <2>1, <2>2, CopiesKept DEF Copying, Copied, Serving, At
  <2> QED
    BY <2>3, <2>4, <2>5, <2>6 DEF FileInv
<1>4. CASE Initialize(p)
  <2>1. /\ At(p, "created") /\ Exit(p) /\ UNCHANGED <<temp, backup, crashes>>
        /\ commits' \in Nat /\ faults' \in Nat
    BY <1>4 DEF Initialize, Update, Fault, FileInv, Files, FileTypeOK
  <2>2. \/ file' = file
        \/ file = Empty /\ file' \in Content /\ WellFormed(file')
    BY <1>4, NewContentStep DEF Initialize, NoBucketYet, Update, Latest
  <2>3. /\ proc' \in [Processes -> Proc] /\ holder' \in Processes \union {None}
        /\ shared' \subseteq Processes /\ Copies' /\ \A q \in Processes : Knows(q)'
    BY <2>1, <2>2, Exited, NoneIsNothing
  <2> QED
    BY <2>1, <2>2, <2>3 DEF FileInv, Files, FileTypeOK
<1> QED
  BY <1>1, <1>2, <1>3, <1>4 DEF OpenNew

\* Of Open:
LEMMA OpenSteps ==
    ASSUME FileInv, NEW p \in Processes,
           \/ \E kind \in {"vspm", "retirexpub"} : Open(p, kind)
           \/ RunUpgrade(p) \/ Opened(p)
    PROVE  FileInv'
<1>1. ASSUME NEW kind \in {"vspm", "retirexpub"}, Open(p, kind) PROVE FileInv'
  <2>1. /\ file \notin {None, Empty} /\ holder = None /\ holder' = p /\ At(p, "down")
        /\ shared' = shared \union {q \in Processes : Ending(q)}
        /\ UNCHANGED <<file, backup, commits, faults, crashes>>
    BY <1>1 DEF Open
  <2>a. temp' = temp \/ (temp # None /\ temp' = [temp EXCEPT !.content = Torn])
    BY <1>1 DEF Open, Tear
  <2>b. /\ temp' = temp \/ temp'.content = Torn
        /\ temp' = None \/ temp' \in Copy
    BY <2>a DEF FileInv, Files, FileTypeOK, Copy
  <2> DEFINE r == [kind |-> kind, pc |-> "open", version |-> file.version, hot |-> "waiting"]
  <2>2. r \in Proc /\ r.pc = "open" /\ r.version = file.version /\ r.hot = "waiting"
    BY <2>1, ContentFields DEF Proc, FileInv, Files, FileTypeOK
  <2>3. proc' = [proc EXCEPT ![p] = r]
    BY <1>1 DEF Open
  <2> HIDE DEF r
  <2>4. /\ proc' \in [Processes -> Proc] /\ proc'[p].pc = "open"
        /\ proc'[p].version = file.version /\ proc'[p].hot = "waiting"
        /\ \A u \in Processes \ {p} : proc'[u] = proc[u]
    BY <2>2, <2>3, ProcEntry
  <2>5. Files'
    BY <2>1, <2>b, <2>4 DEF FileInv, Files, FileTypeOK
  <2>6. Knows(p)'
    BY <2>1, <2>4 DEF Knows, Using, Ending, At, Serving
  <2>7. ASSUME NEW q \in Processes \ {p} PROVE Knows(q)'
    <3>1. holder # q
      BY <2>1, ProcEntry
    <3>2. Ending(q) => q \in shared'
      BY <2>1
    <3> QED
      BY <2>1, <2>4, <3>1, <3>2, OthersKnow
  <2>8. Copies'
    BY <2>b, <2>4, CopiesKept DEF Copying, Copied, Serving, At
  <2> QED
    BY <2>5, <2>6, <2>7, <2>8 DEF FileInv
<1>2. CASE RunUpgrade(p) /\ Exit(p) /\ UNCHANGED file
  <2>1. UNCHANGED <<temp, backup, commits, crashes>> /\ faults' \in Nat
    BY <1>2 DEF RunUpgrade, Fault, FileInv, Files, FileTypeOK
  <2> QED
    BY <1>2, <2>1, Exited DEF FileInv, Files, FileTypeOK
<1>3. CASE RunUpgrade(p) /\ ~ (Exit(p) /\ UNCHANGED file)
  <2>1. /\ At(p, "open") /\ proc[p].version < latestVersion
        /\ file' = Upgrade(proc[p].version, file)
        /\ proc' = [proc EXCEPT ![p].version = @ + 1]
        /\ UNCHANGED <<temp, backup, holder, shared, commits, faults, crashes>>
    BY <1>3 DEF RunUpgrade
  <2>2. /\ holder = p /\ file \in Content /\ WellFormed(file)
        /\ proc[p].version = file.version /\ Using(p)
    BY <2>1, ProcEntry DEF Knows, Using, At, FileInv, Files, FileTypeOK
  <2>a. file' = Upgrade(file.version, file) /\ file.version < latestVersion
    BY <2>1, <2>2
  <2>3. file' \in Content /\ WellFormed(file') /\ file'.version = file.version + 1
    BY <2>2, <2>a, UpgradeFields, UpgradeWellFormed DEF UpgradeOf
  <2> DEFINE r == [proc[p] EXCEPT !.version = @ + 1]
  <2>4. r \in Proc /\ r.pc = "open" /\ r.version = file.version + 1 /\ r.hot = "waiting"
    BY <2>1, <2>2, ProcEntry DEF Proc, At, Knows
  <2>5. proc' = [proc EXCEPT ![p] = r]
    BY <2>1
  <2> HIDE DEF r
  <2>6. /\ proc' \in [Processes -> Proc] /\ proc'[p].pc = "open"
        /\ proc'[p].version = file.version + 1 /\ proc'[p].hot = "waiting"
        /\ \A u \in Processes \ {p} : proc'[u] = proc[u]
    BY <2>4, <2>5, ProcEntry
  <2>7. Files'
    BY <2>1, <2>3, <2>6 DEF FileInv, Files, FileTypeOK
  <2>8. Knows(p)'
    BY <2>1, <2>2, <2>3, <2>6, NoneIsNothing DEF Knows, Using, Ending, At, Serving
  <2>9. \A q \in Processes \ {p} : Knows(q)'
    BY <2>1, <2>2, <2>3, <2>6, OneAtWork, OthersKnow, NoneIsNothing
  <2>10. Copies'
    BY <2>1, <2>6, CopiesKept DEF Copying, Copied, Serving, At
  <2> QED
    BY <2>7, <2>8, <2>9, <2>10 DEF FileInv
<1>4. CASE Opened(p) /\ Exit(p)
  <2>1. UNCHANGED <<file, temp, backup, commits, faults, crashes>>
    BY <1>4 DEF Opened
  <2> QED
    BY <1>4, <2>1, Exited DEF FileInv, Files, FileTypeOK
<1>5. CASE Opened(p) /\ ~ Exit(p)
  <2>1. PICK pc \in {"running", "retire"} : Go(p, pc)
    BY <1>5 DEF Opened
  <2>2. /\ At(p, "open") /\ proc[p].version = latestVersion
        /\ UNCHANGED <<file, temp, backup, holder, shared, commits, faults, crashes>>
    BY <1>5 DEF Opened, Understood
  <2>3. /\ holder = p /\ file \notin {None, Empty} /\ file.version = latestVersion
        /\ proc[p].hot = "waiting"
    BY <2>2, ProcEntry DEF Knows, Using, At
  <2>4. /\ proc' \in [Processes -> Proc] /\ proc'[p].pc = pc /\ proc'[p].hot = proc[p].hot
        /\ \A u \in Processes \ {p} : proc'[u] = proc[u]
    BY <2>1, Went DEF Steps
  <2>5. Files'
    BY <2>2, <2>4 DEF FileInv, Files, FileTypeOK
  <2>6. Knows(p)'
    BY <2>2, <2>3, <2>4 DEF Knows, Using, Ending, At, Serving
  <2>7. \A q \in Processes \ {p} : Knows(q)'
    BY <2>2, <2>3, <2>4, OneAtWork, OthersKnow DEF Using, At
  <2>8. Copies'
    BY <2>2, <2>3, <2>4, CopiesKept DEF Copying, Copied, Serving, At
  <2> QED
    BY <2>5, <2>6, <2>7, <2>8 DEF FileInv
<1> QED
  BY <1>1, <1>2, <1>3, <1>4, <1>5

\* Of transactions: they are those of the store, on a file of the latest version.
LEMMA LatestFile ==
    ASSUME FileInv, NEW p \in Processes, At(p, "retire") \/ Serving(p)
    PROVE  Latest(file) /\ Using(p) /\ holder = p
BY ProcEntry DEF Knows, Using, At, Serving, FileInv, Files, FileTypeOK, Latest

\* A transaction of vspm is one of the store.
LEMMA WriteStep ==
    ASSUME FileInv, NEW p \in Processes, Write(p)
    PROVE  Latest(file') /\ Store!Transaction(Logical(file), Logical(file'))
<1>0. Latest(file) /\ file \in Content
  BY LatestFile DEF Write, Latest
<1>1. CASE PutTicket
  <2>1. PICK t \in Tickets, id \in XPubIDs, r \in Records :
            /\ IF file.ticketbkt[t] = None THEN Active(id)
                                           ELSE id = file.ticketbkt[t].FeeAddressXPubID
            /\ file' = [file EXCEPT !.ticketbkt[t] = [r EXCEPT !.FeeAddressXPubID = id]]
    BY <1>1 DEF PutTicket, Update
  <2>2. IF file.ticketbkt[t] = None THEN file.xpubbkt[id] # None
                                    ELSE id = file.ticketbkt[t].FeeAddressXPubID
    BY <2>1 DEF Active
  <2> QED
    BY <1>0, <2>1, <2>2, PutTicketStep DEF Store!Transaction
<1>2. CASE DeleteTicket
  BY <1>0, <1>2, DeleteTicketStep DEF DeleteTicket, Update, Store!Transaction
<1>3. CASE InsertAltSignAddr
  BY <1>0, <1>3, AltSignAddrStep DEF InsertAltSignAddr, Update, Store!Transaction
<1>4. CASE SetLastAddressIndex
  <2>1. PICK id \in XPubIDs, idx \in 0 .. MaxIndex :
            Active(id) /\ file' = [file EXCEPT !.xpubbkt[id].LastUsedIdx = idx]
    BY <1>4 DEF SetLastAddressIndex, Update
  <2>2. idx \in Nat
    OBVIOUS
  <2> QED
    BY <1>0, <2>1, <2>2, AddressIndexStep DEF Active, Store!Transaction
<1> QED
  BY <1>1, <1>2, <1>3, <1>4 DEF Write

\* That of vspmadmin retirexpub is one of the store.
LEMMA RetireXPubStep ==
    ASSUME FileInv, NEW p \in Processes, RetireXPub(p), file' # file
    PROVE  Latest(file') /\ Store!Transaction(Logical(file), Logical(file'))
<1>0. Latest(file) /\ file \in Content
  BY LatestFile DEF RetireXPub, Latest
<1>1. PICK x \in XPubs, id \in XPubIDs :
            /\ Active(id) /\ id < MaxID /\ ~ Used(x)
            /\ file' = [file EXCEPT !.xpubbkt = [@ EXCEPT ![id].Retired = TRUE,
                                                         ![id + 1] = NewXPub(x, 0)]]
  BY DEF RetireXPub, Update
<1> QED
  BY <1>0, <1>1, RetireStep DEF Active, Used, Store!Transaction

\* Transactions keep the invariant.
LEMMA TransactionSteps ==
    ASSUME FileInv, NEW p \in Processes, RetireXPub(p) \/ Write(p)
    PROVE  FileInv'
<1>1. CASE RetireXPub(p)
  <2>1. /\ At(p, "retire") /\ Exit(p) /\ UNCHANGED <<temp, backup, crashes>>
        /\ commits' \in Nat /\ faults' \in Nat
    BY <1>1 DEF RetireXPub, Update, Fault, FileInv, Files, FileTypeOK
  <2>2. file' = file \/ (file' \in Content /\ WellFormed(file'))
    <3>1. CASE file' # file
      BY <1>1, <3>1, RetireXPubStep DEF Latest
    <3> QED
      BY <3>1
  <2>3. /\ proc' \in [Processes -> Proc] /\ holder' \in Processes \union {None}
        /\ shared' \subseteq Processes /\ Copies' /\ \A q \in Processes : Knows(q)'
    BY <2>1, <2>2, Exited, NoneIsNothing DEF Using, At
  <2> QED
    BY <2>1, <2>2, <2>3 DEF FileInv, Files, FileTypeOK
<1>2. CASE Write(p)
  <2>1. /\ Serving(p) /\ UNCHANGED <<temp, backup, holder, shared, proc, faults, crashes>>
        /\ commits' \in Nat
    BY <1>2 DEF Write, PutTicket, DeleteTicket, InsertAltSignAddr, SetLastAddressIndex, Update,
                FileInv, Files, FileTypeOK
  <2>2. /\ file' \in Content /\ WellFormed(file') /\ file'.version = latestVersion
        /\ Using(p) /\ holder = p
    BY <1>2, <2>1, WriteStep, LatestFile DEF Latest
  <2>3. Files'
    BY <2>1, <2>2 DEF FileInv, Files, FileTypeOK
  <2>4. Knows(p)'
    BY <2>1, <2>2, ProcEntry, NoneIsNothing DEF Knows, Using, Ending, At, Serving
  <2>5. \A q \in Processes \ {p} : Knows(q)'
    BY <2>1, <2>2, OneAtWork, OthersKnow, NoneIsNothing
  <2>6. Copies'
    BY <2>1, CopiesKept DEF Copying, Copied, Serving, At
  <2> QED
    BY <2>3, <2>4, <2>5, <2>6 DEF FileInv
<1> QED
  BY <1>1, <1>2

\* A process that begins to copy.
LEMMA CopyBegun ==
    ASSUME FileInv, NEW p \in Processes, Using(p) \/ Ending(p),
           \A u \in Processes \ {p} : proc'[u] = proc[u],
           ~ Copied(p)', temp' = NewTemp(p)
    PROVE  /\ temp' \in Copy /\ temp' # None
           /\ temp'.content = Torn \/ (temp'.content = file /\ ~ Disturbed(p) /\ WellFormed(file))
           /\ Ending(p) /\ p \notin shared => temp'.content = file
           /\ Copies'
<1>1. file \in Content /\ file \notin {None, Empty} /\ WellFormed(file)
  BY ProcEntry DEF Knows, FileInv, Files, FileTypeOK
<1>2. temp' = [content |-> IF Disturbed(p) THEN Torn ELSE file, done |-> FALSE]
  BY DEF NewTemp
<1>3. temp' \in Copy /\ temp' # None
  <2>1. (IF Disturbed(p) THEN Torn ELSE file) \in Content \union {Torn}
    BY <1>1
  <2>2. temp' \in Copy
    BY <1>2, <2>1 DEF Copy
  <2> QED
    BY <2>2, NoneIsNothing
<1>4. Ending(p) /\ p \notin shared => ~ Disturbed(p)
  <2> SUFFICES ASSUME Ending(p), p \notin shared, NEW q \in Processes \ {p}
               PROVE  ~ Copying(q) /\ ~ Using(q)
    BY DEF Disturbed
  <2>1. proc[q].pc \in {"down", "create", "created"}
    BY ProcEntry DEF Knows
  <2> QED
    BY <2>1 DEF Copying, Using, Serving
<1>5. Copies'
  <2>1. CASE Disturbed(p)
    BY <1>2, <2>1 DEF Copies
  <2>2. CASE ~ Disturbed(p)
    <3>1. \A q \in Processes \ {p} : ~ Copying(q) /\ ~ Copying(q)'
      BY <2>2 DEF Disturbed, Copying, Serving
    <3> QED
      BY <3>1 DEF Copies
  <2> QED
    BY <2>1, <2>2
<1> QED
  BY <1>1, <1>2, <1>3, <1>4, <1>5

\* A copy that is made.
LEMMA CopyMade ==
    ASSUME FileInv, NEW p \in Processes, Copying(p),
           \A u \in Processes \ {p} : proc'[u] = proc[u], Finish
    PROVE  /\ temp' = None \/ temp' \in Copy
           /\ temp' = None <=> temp = None
           /\ temp # None => temp'.content = temp.content
           /\ Copies'
<1>1. CASE temp = None
  BY <1>1 DEF Finish, Copies
<1>2. CASE temp # None
  <2>1. temp \in Copy /\ temp' = [temp EXCEPT !.done = TRUE]
    BY <1>2 DEF Finish, FileInv, Files, FileTypeOK
  <2>2. temp' \in Copy /\ temp'.content = temp.content /\ temp'.done
    BY <2>1 DEF Copy
  <2>3. Copies'
    <3> SUFFICES ASSUME temp.content # Torn, NEW q \in Processes, Copying(q)'
                 PROVE  \A u \in Processes \ {q} : ~ Copying(u)'
      BY <2>2 DEF Copies
    <3>1. \A u \in Processes \ {p} : ~ Copying(u) /\ ~ Copying(u)'
      BY <1>2 DEF FileInv, Copies, Copying, Serving
    <3> QED
      BY <3>1
  <2> QED
    BY <1>2, <2>2, <2>3, NoneIsNothing
<1> QED
  BY <1>1, <1>2

\* A copy that is renamed.
LEMMA Renamed ==
    ASSUME FileInv, NEW p \in Processes, Copied(p), Rename
    PROVE  /\ faults' \in Nat
           /\ \/ temp' = temp /\ backup' = backup
              \/ /\ temp # None /\ temp' = None /\ backup' = temp /\ temp \in Copy
                 /\ temp.done \/ temp.content = Torn
<1>1. faults' \in Nat
  BY DEF Rename, Fault, FileInv, Files, FileTypeOK
<1>2. Copying(p)
  BY DEF Copied, Copying, At
<1>3. temp # None => temp \in Copy /\ (temp.done \/ temp.content = Torn)
  BY <1>2 DEF FileInv, Files, FileTypeOK, Copies
<1> QED
  BY <1>1, <1>3 DEF Rename

\* Of backups while vspm runs:
LEMMA HotSteps ==
    ASSUME FileInv, NEW p \in Processes,
           HotCopy(p) \/ HotCopied(p) \/ HotRename(p) \/ HotReturn(p)
    PROVE  FileInv'
<1>0. /\ Serving(p) /\ UNCHANGED <<file, holder, shared, commits, crashes>>
  BY DEF HotCopy, HotCopied, HotRename, HotReturn, Serving, At
<1>1. /\ Using(p) /\ holder = p /\ file \notin {None, Empty} /\ file \in Content
      /\ file.version = latestVersion
  BY <1>0, ProcEntry DEF Knows, Using, At, Serving, FileInv, Files, FileTypeOK
<1>2. PICK hot \in {"waiting", "copying", "rename", "returned"} : Hot(p, hot)
  BY DEF HotCopy, HotCopied, HotRename, HotReturn
<1>3. /\ proc' \in [Processes -> Proc]
      /\ proc'[p].pc = proc[p].pc /\ proc'[p].version = proc[p].version
      /\ proc'[p].hot = hot
      /\ \A u \in Processes \ {p} : proc'[u] = proc[u]
  BY <1>2, HotWent
<1>4. \A q \in Processes \ {p} : Knows(q)'
  BY <1>0, <1>1, <1>3, OneAtWork, OthersKnow
<1>5. Knows(p)'
  BY <1>0, <1>1, <1>3 DEF Knows, Using, Ending, At, Serving
<1>6. SUFFICES /\ temp' = None \/ temp' \in Copy
               /\ backup' = None \/ backup' \in Copy
               /\ temp' # None /\ temp'.content # Torn => WellFormed(temp'.content)
               /\ backup' # None => backup'.done \/ backup'.content = Torn
               /\ faults' \in Nat /\ Copies'
  BY <1>0, <1>1, <1>3, <1>4, <1>5 DEF FileInv, Files, FileTypeOK
<1>7. /\ temp = None \/ temp \in Copy
      /\ backup = None \/ backup \in Copy
      /\ temp # None /\ temp.content # Torn => WellFormed(temp.content)
      /\ backup # None => backup.done \/ backup.content = Torn
      /\ faults \in Nat
  BY DEF FileInv, Files, FileTypeOK
<1>8. CASE HotCopy(p)
  <2>1. temp' = NewTemp(p) /\ backup' = backup /\ faults' = faults /\ proc'[p].hot = "copying"
    BY <1>8, HotWent DEF HotCopy
  <2>2. ~ Copied(p)'
    BY <1>0, <1>3, <2>1 DEF Copied, At, Serving
  <2> QED
    BY <1>1, <1>3, <1>7, <2>1, <2>2, CopyBegun
<1>9. CASE HotCopied(p) /\ Finish
  <2>1. backup' = backup /\ faults' \in Nat /\ Copying(p)
    BY <1>7, <1>9 DEF HotCopied, Fault, Copying
  <2> QED
    BY <1>3, <1>7, <1>9, <2>1, CopyMade
<1>10. CASE HotCopied(p) /\ ~ Finish
  <2>1. temp' = temp /\ backup' = backup /\ faults' \in Nat /\ proc'[p].hot = "waiting"
    BY <1>7, <1>10, HotWent DEF HotCopied, Fault
  <2>2. Copies'
    BY <1>3, <2>1, CopiesKept DEF Copying, Copied, Serving, At
  <2> QED
    BY <1>7, <2>1, <2>2
<1>11. CASE HotRename(p)
  <2>1. Copied(p) /\ Rename /\ proc'[p].hot = "waiting"
    BY <1>11, HotWent DEF HotRename, Copied
  <2>2. Copies'
    BY <1>3, <2>1, Renamed, CopiesKept DEF Copying, Copied, Serving, At
  <2> QED
    BY <1>7, <2>1, <2>2, Renamed
<1>12. CASE HotReturn(p)
  <2>1. UNCHANGED <<temp, backup, faults>> /\ proc'[p].hot = "returned"
    BY <1>12, HotWent DEF HotReturn
  <2>2. Copies'
    BY <1>3, <2>1, CopiesKept DEF Copying, Copied, Serving, At
  <2> QED
    BY <1>7, <2>1, <2>2
<1> QED
  BY <1>8, <1>9, <1>10, <1>11, <1>12

\* Of the end of vspm, and crashes:
LEMMA EndSteps ==
    ASSUME FileInv, NEW p \in Processes,
           \/ Stop(p) \/ CloseDatabase(p) \/ CloseCopy(p) \/ CloseCopied(p)
           \/ CloseRename(p) \/ Crash(p)
    PROVE  FileInv'
<1>0. /\ file' = file /\ commits' = commits /\ crashes' \in Nat
      /\ temp = None \/ temp \in Copy
      /\ backup = None \/ backup \in Copy
      /\ faults \in Nat
  BY DEF Stop, CloseDatabase, CloseCopy, CloseCopied, CloseRename, Crash,
         FileInv, Files, FileTypeOK
<1>1. ASSUME Exit(p), faults' \in Nat,
             \/ temp' = temp /\ backup' = backup
             \/ /\ Ending(p) /\ temp' = None /\ backup' = temp /\ temp \in Copy
                /\ temp.done \/ temp.content = Torn
      PROVE  FileInv'
  <2>1. /\ proc' \in [Processes -> Proc] /\ holder' \in Processes \union {None}
        /\ shared' \subseteq Processes /\ Copies' /\ \A q \in Processes : Knows(q)'
    BY <1>0, <1>1, Exited
  <2> QED
    BY <1>0, <1>1, <2>1 DEF FileInv, Files, FileTypeOK
<1>2. CASE Stop(p)
  <2>1. /\ At(p, "running") /\ Go(p, "stopping")
        /\ UNCHANGED <<temp, backup, holder, shared, faults>>
    BY <1>2 DEF Stop
  <2>2. /\ proc' \in [Processes -> Proc] /\ proc'[p].pc = "stopping"
        /\ proc'[p].hot = proc[p].hot
        /\ \A u \in Processes \ {p} : proc'[u] = proc[u]
    BY <2>1, Went DEF Steps
  <2>3. Files'
    BY <1>0, <2>1, <2>2 DEF FileInv, Files, FileTypeOK
  <2>4. Knows(p)'
    BY <1>0, <2>1, <2>2, ProcEntry DEF Knows, Using, Ending, At, Serving
  <2>5. \A q \in Processes \ {p} : Knows(q)'
    BY <1>0, <2>1, <2>2, OneAtWork, OthersKnow DEF Using, At
  <2>6. Copies'
    BY <2>1, <2>2, CopiesKept DEF Copying, Copied, Serving, At
  <2> QED
    BY <2>3, <2>4, <2>5, <2>6 DEF FileInv
<1>3. CASE CloseDatabase(p) /\ ~ Exit(p)
  <2>1. /\ At(p, "stopping") /\ Go(p, "copy") /\ UNCHANGED <<temp, backup, faults>>
        /\ holder' = None /\ proc[p].hot = "returned"
        /\ shared' = IF \E q \in Processes : Ending(q) THEN shared \union {p} ELSE shared
    BY <1>3 DEF CloseDatabase
  <2>2. /\ proc' \in [Processes -> Proc] /\ proc'[p].pc = "copy"
        /\ \A u \in Processes \ {p} : proc'[u] = proc[u]
    BY <2>1, Went DEF Steps
  <2>3. Files'
    BY <1>0, <2>1, <2>2 DEF FileInv, Files, FileTypeOK
  <2>4. ASSUME NEW q \in Processes \ {p}
        PROVE  /\ proc[q].pc \in {"down", "create"} \/ (Ending(q) /\ q \in shared)
               /\ holder # q
    <3>1. proc[q].pc \in Steps /\ Knows(q) /\ holder = p /\ Using(p)
      BY <2>1, ProcEntry DEF Knows, Using, At
    <3>2. ~ Using(q) /\ holder # q /\ (Ending(q) => q \in shared) /\ ~ At(q, "created")
      BY <3>1, OneAtWork DEF Knows
    <3> QED
      BY <3>1, <3>2 DEF Steps, Using, Ending, At
  <2>5. p \notin shared' => \A q \in Processes \ {p} : proc[q].pc \in {"down", "create"}
    BY <2>1, <2>4
  <2>6. Knows(p)'
    BY <1>0, <2>1, <2>2, <2>5, ProcEntry DEF Knows, Using, Ending, At, Serving
  <2>7. ASSUME NEW q \in Processes \ {p} PROVE Knows(q)'
    <3>1. q \in shared => q \in shared'
      BY <2>1
    <3> QED
      BY <1>0, <2>1, <2>2, <2>4, <3>1, OthersKnow DEF Using, Ending
  <2>8. Copies'
    BY <2>1, <2>2, CopiesKept DEF Copying, Copied, Serving, At
  <2> QED
    BY <2>3, <2>6, <2>7, <2>8 DEF FileInv
<1>4. ASSUME NEW pc \in {"copying", "rename"}, Ending(p), Go(p, pc), holder' = holder,
             shared' = shared, backup' = backup, faults' = faults,
             temp' = None \/ temp' \in Copy,
             temp' # None /\ temp'.content # Torn => WellFormed(temp'.content),
             p \notin shared => temp' # None /\ temp'.content = file,
             Copies'
      PROVE  FileInv'
  <2>1. /\ proc' \in [Processes -> Proc] /\ proc'[p].pc = pc
        /\ \A u \in Processes \ {p} : proc'[u] = proc[u]
    BY <1>4, Went DEF Steps
  <2>2. Files'
    BY <1>0, <1>4, <2>1 DEF FileInv, Files, FileTypeOK
  <2>3. Knows(p)'
    BY <1>0, <1>4, <2>1, ProcEntry DEF Knows, Using, Ending, At, Serving
  <2>4. ASSUME NEW q \in Processes \ {p} PROVE Knows(q)'
    BY <1>0, <1>4, <2>1, OneAtWork, OthersKnow
  <2> QED
    BY <1>4, <2>2, <2>3, <2>4 DEF FileInv
<1>5. CASE CloseCopy(p) /\ ~ Exit(p)
  <2>1. /\ At(p, "copy") /\ temp' = NewTemp(p) /\ Go(p, "copying")
        /\ UNCHANGED <<holder, shared, backup, faults>>
    BY <1>5 DEF CloseCopy
  <2>2. /\ proc'[p].pc = "copying" /\ Ending(p)
        /\ \A u \in Processes \ {p} : proc'[u] = proc[u]
    BY <2>1, Went DEF Steps, Ending, At
  <2>3. ~ Copied(p)'
    BY <2>2 DEF Copied, At, Serving
  <2> QED
    BY <1>4, <2>1, <2>2, <2>3, CopyBegun
<1>6. CASE CloseCopied(p) /\ ~ Exit(p)
  <2>1. /\ At(p, "copying") /\ Finish /\ Go(p, "rename")
        /\ UNCHANGED <<holder, shared, backup, faults>>
    BY <1>6 DEF CloseCopied
  <2>2. Ending(p) /\ Copying(p) /\ \A u \in Processes \ {p} : proc'[u] = proc[u]
    BY <2>1, Went DEF Steps, Ending, At, Copying
  <2>3. /\ p \notin shared => temp # None /\ temp.content = file
        /\ temp # None /\ temp.content # Torn => WellFormed(temp.content)
    BY <2>1, <2>2, ProcEntry DEF Knows, At, FileInv, Files
  <2> QED
    BY <1>4, <2>1, <2>2, <2>3, CopyMade
<1>7. CASE Exit(p)
  <2>1. CASE CloseRename(p)
    <3>1. Ending(p) /\ Copied(p) /\ Rename
      BY <2>1 DEF CloseRename, Copied, Ending, At
    <3> QED
      BY <1>1, <1>7, <3>1, Renamed
  <2>2. CASE Stop(p) \/ CloseDatabase(p) \/ Crash(p)
    BY <1>0, <1>1, <1>7, <2>2 DEF Stop, CloseDatabase, Crash, Fault
  <2>3. CASE CloseCopy(p) \/ CloseCopied(p)
    <3>1. proc'[p].pc = "down"
      BY <1>7, ProcEntry DEF Exit, Down
    <3>2. ~ Go(p, "copying") /\ ~ Go(p, "rename")
      BY <3>1, Went DEF Steps
    <3> QED
      BY <1>0, <1>1, <1>7, <2>3, <3>2 DEF CloseCopy, CloseCopied, Fault
  <2> QED
    BY <2>1, <2>2, <2>3
<1> QED
  BY <1>2, <1>3, <1>5, <1>6, <1>7 DEF CloseRename, Crash

\* FileInv holds at first ...
LEMMA FileInitially == Init => FileInv
<1> SUFFICES ASSUME Init PROVE FileInv
  OBVIOUS
<1>1. Down \in Proc /\ Down.pc = "down"
  BY DEF Down, Proc
<1>2. /\ proc \in [Processes -> Proc]
      /\ \A p \in Processes : proc[p].pc = "down"
  BY <1>1 DEF Init
<1>3. \A p \in Processes : Knows(p)
  BY <1>2 DEF Knows, Using, Ending, At, Serving
<1>4. Files /\ Copies
  BY <1>2, FileAssumption DEF Init, Files, Copies, FileTypeOK
<1> QED
  BY <1>3, <1>4 DEF FileInv

\* ... and every step keeps it.
LEMMA FileInductive == FileInv /\ [Next]_vars => FileInv'
<1> SUFFICES ASSUME FileInv, [Next]_vars PROVE FileInv'
  OBVIOUS
<1>1. ASSUME NEW p \in Processes, Next, CreateDatabase(p) \/ OpenNew(p) \/ Initialize(p)
      PROVE  FileInv'
  BY <1>1, CreateSteps
<1>2. CASE UNCHANGED vars
  BY <1>2 DEF vars, FileInv, Files, FileTypeOK, Copies, Copying, Copied, Knows, Using, Ending,
              At, Serving
<1> QED
  BY <1>1, <1>2, OpenSteps, TransactionSteps, HotSteps, EndSteps DEF Next

\* The inductive invariant.
THEOREM FileCorrect == Spec => []FileInv
BY FileInitially, FileInductive, PTL DEF Spec

\* The files and processes are well typed.
THEOREM FileTypeCorrect == Spec => []FileTypeOK
<1>1. FileInv => FileTypeOK
  BY DEF FileInv, Files
<1> QED
  BY <1>1, FileCorrect, PTL

\* The file has the form of its version, whatever it was and wherever upgrades
\* end, and transactions find the latest.
THEOREM OpenedCorrect == Spec => []OpenedIsLatest
<1>1. FileInv => OpenedIsLatest
  BY DEF FileInv, Files, Knows, Using, OpenedIsLatest
<1> QED
  BY <1>1, FileCorrect, PTL

\* vspm's last backup is of the file as it then is, if vspm is alone.
THEOREM ShutdownCorrect == Spec => ShutdownBackupCurrent
<1>1. ASSUME FileInv, Next, NEW p \in Processes \ shared, At(p, "rename"), backup' # backup
      PROVE  backup' = [content |-> file, done |-> TRUE]
  <2>0. p \in Processes /\ p \notin shared /\ Knows(p)
    BY <1>1, ProcEntry
  <2>a. Ending(p) /\ Copying(p) /\ Copied(p)
    BY <1>1 DEF Ending, Copying, Copied, At
  <2>b. temp # None /\ temp.content = file /\ file \notin {None, Empty}
    BY <1>1, <2>0, <2>a DEF Knows, At
  <2>c. (temp = None \/ temp \in Copy) /\ (file \in {None, Empty} \/ file \in Content)
    BY <1>1 DEF FileInv, Files, FileTypeOK
  <2>1. /\ Copying(p) /\ Copied(p) /\ p \in Processes
        /\ temp \in Copy /\ temp # None /\ temp.content = file /\ file \in Content
    BY <2>0, <2>a, <2>b, <2>c
  <2>2. temp.done
    BY <1>1, <2>1, FileAssumption DEF FileInv, Copies
  <2>3. temp = [content |-> file, done |-> TRUE]
    BY <2>1, <2>2 DEF Copy
  <2>4. PICK q \in Processes : HotRename(q) \/ CloseRename(q)
    BY <1>1 DEF Next, CreateDatabase, Open, OpenNew, Initialize, RunUpgrade, Opened,
                RetireXPub, Write, HotCopy, HotCopied, HotReturn, Stop, CloseDatabase,
                CloseCopy, CloseCopied, Crash
  <2>5. backup' = temp
    BY <1>1, <2>4 DEF HotRename, CloseRename, Rename
  <2> QED
    BY <2>3, <2>5
<1>2. FileInv /\ [Next]_vars =>
        [\A p \in Processes \ shared :
            At(p, "rename") /\ backup' # backup
                => backup' = [content |-> file, done |-> TRUE]]_vars
  BY <1>1
<1> QED
  BY <1>2, FileCorrect, PTL DEF Spec, ShutdownBackupCurrent

-----------------------------------------------------------------------------
\* The three variables of VspStore.
TheStore == IF file \in {None, Empty} THEN None ELSE Logical(file)
TheSnapshot == IF temp = None THEN None ELSE LogicalCopy(temp.content)
TheBackup == IF backup = None THEN None
             ELSE IF backup.done \/ backup.content = Torn THEN LogicalCopy(backup.content)
             ELSE Broken

\* A file there is has something in the store.
LEMMA StoreThere ==
    ASSUME NEW c \in Content, WellFormed(c)
    PROVE  Logical(c) # None /\ c \notin {None, Empty}
BY LogicalType, NoneIsNothing

\* Every step is one of the store, or leaves it alone.
LEMMA StoreStep ==
    ASSUME FileInv, [Next]_vars
    PROVE  Store!Next \/ UNCHANGED <<TheStore, TheSnapshot, TheBackup>>
<1>1. ASSUME NEW p \in Processes, Initialize(p), file' # file
      PROVE  Store!Next
  <2>1. PICK key \in SignKeys, x \in XPubs : file' = NewContent(key, x)
    BY <1>1 DEF Initialize, Update
  <2>2. file = Empty /\ temp' = temp /\ backup' = backup
    BY <1>1 DEF Initialize, NoBucketYet
  <2>3. /\ file' \in Content /\ WellFormed(file')
        /\ Logical(file') = Store!NewStore(key, x)
    BY <2>1, NewContentStep DEF Latest
  <2>4. TheStore = None /\ TheStore' = Store!NewStore(key, x)
    BY <2>2, <2>3, StoreThere DEF TheStore
  <2>5. TheSnapshot' = TheSnapshot /\ TheBackup' = TheBackup
    BY <2>2 DEF TheSnapshot, TheBackup
  <2>6. Store!Create
    BY <2>4, <2>5 DEF Store!Create, TheStore, TheSnapshot, TheBackup
  <2> QED
    BY <2>6 DEF Store!Next
<1>2. ASSUME NEW p \in Processes, RunUpgrade(p), file' # file
      PROVE  UNCHANGED <<TheStore, TheSnapshot, TheBackup>>
  <2>1. /\ At(p, "open") /\ proc[p].version < latestVersion
        /\ file' = Upgrade(proc[p].version, file) /\ temp' = temp /\ backup' = backup
    BY <1>2 DEF RunUpgrade
  <2>2. file \in Content /\ WellFormed(file) /\ proc[p].version = file.version
    BY <2>1, ProcEntry DEF Knows, Using, At, FileInv, Files, FileTypeOK
  <2>3. file' = Upgrade(file.version, file) /\ file.version < latestVersion
    BY <2>1, <2>2
  <2>4. file' \in Content /\ WellFormed(file') /\ Logical(file') = Logical(file)
    BY <2>2, <2>3, UpgradeFields, UpgradeWellFormed, UpgradeLogical DEF UpgradeOf
  <2> QED
    BY <2>1, <2>2, <2>4, StoreThere DEF TheStore, TheSnapshot, TheBackup
<1>3. ASSUME NEW p \in Processes, Write(p) \/ (RetireXPub(p) /\ file' # file)
      PROVE  Store!Next
  <2>1. temp' = temp /\ backup' = backup /\ (At(p, "retire") \/ Serving(p))
    BY <1>3 DEF Write, RetireXPub
  <2>2. /\ Latest(file) /\ Latest(file')
        /\ Store!Transaction(Logical(file), Logical(file'))
    BY <1>3, <2>1, LatestFile, WriteStep, RetireXPubStep
  <2>3. TheStore = Logical(file) /\ TheStore' = Logical(file') /\ Logical(file) # None
    BY <2>2, StoreThere DEF TheStore, Latest
  <2>4. TheSnapshot' = TheSnapshot /\ TheBackup' = TheBackup
    BY <2>1 DEF TheSnapshot, TheBackup
  <2>5. Store!Commit
    BY <2>2, <2>3, <2>4 DEF Store!Commit, TheStore, TheSnapshot, TheBackup
  <2> QED
    BY <2>5 DEF Store!Next
<1>4. ASSUME NEW p \in Processes, HotCopy(p) \/ CloseCopy(p), temp' # temp
      PROVE  Store!Next
  <2>1. /\ temp' = NewTemp(p) /\ file' = file /\ backup' = backup
        /\ Using(p) \/ Ending(p)
        /\ ~ Copied(p)' /\ (Using(p) => Using(p)') /\ (Ending(p) => Ending(p)')
        /\ \A u \in Processes \ {p} : proc'[u] = proc[u]
    <3>1. CASE HotCopy(p)
      BY <3>1, HotWent DEF HotCopy, Using, Ending, Serving, Copied, At
    <3>2. CASE CloseCopy(p)
      <4>1. At(p, "copy") /\ Go(p, "copying") /\ temp' = NewTemp(p) /\ file' = file
            /\ backup' = backup
        BY <1>4, <3>2 DEF CloseCopy
      <4> QED
        BY <4>1, Went DEF Steps, Using, Ending, Serving, Copied, At
    <3> QED
      BY <1>4, <3>1, <3>2
  <2>2. file \in Content /\ WellFormed(file)
    BY <2>1, ProcEntry DEF Knows, FileInv, Files, FileTypeOK
  <2>3. /\ temp' # None
        /\ temp' = [content |-> IF Disturbed(p) THEN Torn ELSE file, done |-> FALSE]
    BY <2>1, CopyBegun DEF NewTemp
  <2>4. /\ TheStore = Logical(file) /\ TheStore # None /\ TheStore' = TheStore
        /\ TheBackup' = TheBackup
    BY <2>1, <2>2, StoreThere DEF TheStore, TheBackup
  <2>5. CASE ~ Disturbed(p)
    <3>1. temp'.content = file /\ file # Torn
      BY <2>2, <2>3, <2>5, FileAssumption
    <3>2. TheSnapshot' = Logical(file)
      BY <2>3, <3>1 DEF TheSnapshot, LogicalCopy
    <3> QED
      BY <2>4, <3>2 DEF Store!TakeSnapshot, TheStore, TheSnapshot, TheBackup, Store!Next
  <2>6. CASE Disturbed(p)
    <3>1. temp'.content = Torn
      BY <2>3, <2>6
    <3>2. TheSnapshot' = Torn
      BY <2>3, <3>1 DEF TheSnapshot, LogicalCopy
    <3>3. PICK q \in Processes \ {p} : Copying(q) \/ (Ending(p) /\ Using(q))
      BY <2>6 DEF Disturbed
    <3>4. \/ Ending(p)' /\ (Using(q)' \/ Ending(q)')
          \/ Ending(q)' /\ Using(p)'
      <4>1. Using(q) => ~ Using(p)
        BY OneAtWork
      <4>2. Copying(q) => Using(q) \/ Ending(q)
        BY DEF Copying, Using, Ending, Serving
      <4>3. (Using(p) => Using(p)') /\ (Ending(p) => Ending(p)')
        BY <2>1
      <4>4. (Using(q) => Using(q)') /\ (Ending(q) => Ending(q)')
        BY <2>1 DEF Using, Ending
      <4> QED
        BY <2>1, <3>3, <4>1, <4>2, <4>3, <4>4
    <3>5. Overlap'
      BY <3>4 DEF Overlap
    <3> QED
      BY <2>4, <3>2, <3>5 DEF Store!TakeSnapshot, TheStore, TheSnapshot, TheBackup, Store!Next
  <2> QED
    BY <2>5, <2>6
<1>5. ASSUME NEW p \in Processes, HotCopied(p) \/ CloseCopied(p)
      PROVE  UNCHANGED <<TheStore, TheSnapshot, TheBackup>>
  <2>1. /\ temp' = temp \/ Finish
        /\ file' = file /\ backup' = backup
    BY <1>5 DEF HotCopied, CloseCopied
  <2>2. temp = None \/ temp \in Copy
    BY DEF FileInv, Files, FileTypeOK
  <2>3. \/ temp' = temp
        \/ temp # None /\ temp' # None /\ temp'.content = temp.content
    <3>1. temp \in Copy => [temp EXCEPT !.done = TRUE] \in Copy
                        /\ [temp EXCEPT !.done = TRUE].content = temp.content
      BY DEF Copy
    <3> QED
      BY <2>1, <2>2, <3>1, NoneIsNothing DEF Finish
  <2> QED
    BY <2>1, <2>3 DEF TheStore, TheSnapshot, TheBackup
<1>6. ASSUME NEW p \in Processes, HotRename(p) \/ CloseRename(p), temp' # temp
      PROVE  Store!Next
  <2>1. Copied(p) /\ Rename /\ file' = file
    BY <1>6 DEF HotRename, CloseRename, Copied
  <2>2. /\ temp # None /\ temp' = None /\ backup' = temp /\ temp \in Copy
        /\ temp.done \/ temp.content = Torn
    BY <1>6, <2>1, Renamed
  <2>3. /\ TheSnapshot = LogicalCopy(temp.content) /\ TheSnapshot' = None
        /\ TheBackup' = LogicalCopy(temp.content) /\ TheStore' = TheStore
    BY <2>1, <2>2 DEF TheStore, TheSnapshot, TheBackup
  <2>4. TheSnapshot # None
    <3>1. CASE temp.content = Torn
      BY <2>3, <3>1, FileAssumption DEF LogicalCopy
    <3>2. CASE temp.content # Torn
      <4>1. temp.content \in Content /\ WellFormed(temp.content)
        BY <2>2, <3>2 DEF Copy, FileInv, Files
      <4> QED
        BY <2>3, <3>2, <4>1, StoreThere DEF LogicalCopy
    <3> QED
      BY <3>1, <3>2
  <2>5. Store!Publish
    BY <2>3, <2>4 DEF Store!Publish, TheStore, TheSnapshot, TheBackup
  <2> QED
    BY <2>5 DEF Store!Next
<1>12. ASSUME NEW p \in Processes, NEW kind \in {"vspm", "retirexpub"}, Open(p, kind)
       PROVE  Store!Next \/ UNCHANGED <<TheStore, TheSnapshot, TheBackup>>
  <2>1. file' = file /\ backup' = backup /\ At(p, "down")
    BY <1>12 DEF Open
  <2>2. TheStore' = TheStore /\ TheBackup' = TheBackup
    BY <2>1 DEF TheStore, TheBackup
  <2>3. CASE temp' = temp
    BY <2>2, <2>3 DEF TheSnapshot, TheStore, TheBackup
  <2>4. CASE temp' # temp
    <3>1. PICK q \in Processes : At(q, "copying")
      BY <1>12, <2>4 DEF Open
    <3>2. temp # None /\ temp \in Copy /\ temp' = [temp EXCEPT !.content = Torn]
      BY <1>12, <2>4 DEF Open, Tear, FileInv, Files, FileTypeOK
    <3>3. temp' \in Copy /\ temp'.content = Torn
      BY <3>2 DEF Copy
    <3>4. TheSnapshot' = Torn
      BY <3>3, NoneIsNothing DEF TheSnapshot, LogicalCopy
    <3>5. q # p
      BY <2>1, <3>1 DEF At
    <3> DEFINE r == [kind |-> kind, pc |-> "open", version |-> file.version, hot |-> "waiting"]
    <3>6. proc' = [proc EXCEPT ![p] = r] /\ r.pc = "open"
      BY <1>12 DEF Open
    <3> HIDE DEF r
    <3>7. proc'[q] = proc[q] /\ proc'[p].pc = "open"
      BY <3>5, <3>6, ProcEntry
    <3>8. Ending(q)' /\ Using(p)'
      BY <3>1, <3>7 DEF Ending, Using, At
    <3>9. Overlap'
      BY <3>5, <3>8 DEF Overlap
    <3>10. TheSnapshot # None
      <4>1. temp.content \in Content /\ temp.content # Torn => WellFormed(temp.content)
        BY <3>2 DEF FileInv, Files
      <4>2. temp.content = Torn \/ temp.content \in Content
        BY <3>2 DEF Copy
      <4> QED
        BY <3>2, <4>1, <4>2, StoreThere, FileAssumption DEF TheSnapshot, LogicalCopy
    <3> QED
      BY <2>2, <3>4, <3>9, <3>10
         DEF Store!TearSnapshot, TheStore, TheSnapshot, TheBackup, Store!Next
  <2> QED
    BY <2>3, <2>4
\* What is left does nothing to the store.
<1>7. ASSUME \/ file' = file \/ (file = None /\ file' = Empty), temp' = temp, backup' = backup
      PROVE  UNCHANGED <<TheStore, TheSnapshot, TheBackup>>
  BY <1>7 DEF TheStore, TheSnapshot, TheBackup
<1>8. ASSUME NEW p \in Processes,
             \/ CreateDatabase(p) \/ OpenNew(p) \/ Initialize(p)
             \/ RunUpgrade(p) \/ Opened(p) \/ RetireXPub(p) \/ HotReturn(p) \/ Stop(p)
             \/ CloseDatabase(p) \/ Crash(p)
      PROVE  /\ temp' = temp /\ backup' = backup
             /\ \/ file' = file \/ (file = None /\ file' = Empty)
                \/ Initialize(p) \/ RunUpgrade(p) \/ RetireXPub(p)
  BY <1>8 DEF CreateDatabase, OpenNew, Initialize, RunUpgrade, Opened, RetireXPub,
              HotReturn, Stop, CloseDatabase, Crash
<1>9. ASSUME NEW p \in Processes, HotCopy(p) \/ CloseCopy(p) PROVE file' = file /\ backup' = backup
  BY <1>9 DEF HotCopy, CloseCopy
<1>10. ASSUME NEW p \in Processes, HotRename(p) \/ CloseRename(p), temp' = temp
       PROVE  file' = file /\ backup' = backup
  BY <1>10 DEF HotRename, CloseRename, Rename
<1>11. CASE UNCHANGED vars
  BY <1>7, <1>11 DEF vars
<1> QED
  BY <1>1, <1>2, <1>3, <1>4, <1>5, <1>6, <1>7, <1>8, <1>9, <1>10, <1>11, <1>12 DEF Next

\* vspm.db with its upgrades, backups, shutdowns and crashes implements the store.
THEOREM StoreCorrect == Spec => ImplementsStore
<1>1. Init => Store!Init
  BY DEF Init, Store!Init
<1>2. FileInv /\ [Next]_vars => [Store!Next]_(Store!vars)
  BY StoreStep DEF TheStore, TheSnapshot, TheBackup, Store!vars
<1> QED
  BY <1>1, <1>2, FileCorrect, PTL DEF Spec, ImplementsStore, Store!Spec
=============================================================================
