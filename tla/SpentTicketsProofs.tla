-------------------------- MODULE SpentTicketsProofs --------------------------
(***************************************************************************)
(* The scan for spent tickets, for any tickets, chain and network          *)
(* parameters: it is complete, its two slices stay parallel, no spend      *)
(* falls between two scans, and the outcomes saved are justified.          *)
(***************************************************************************)
EXTENDS SpentTickets, FiniteSetTheorems, SequenceTheorems, WellFoundedInduction, TLAPS

-----------------------------------------------------------------------------
(* The list of a scan.                                                     *)

\* A list of S has each ticket of S once, and so have the scripts made of it.
LEMMA ListIsSequence ==
    ASSUME NEW S \in SUBSET Tickets, NEW list \in Bijection(1 .. Cardinality(S), S)
    PROVE  /\ list \in Seq(Tickets) /\ DOMAIN list = 1 .. Len(list)
           /\ \A i \in DOMAIN list : list[i] \in S
           /\ \A i, j \in DOMAIN list : list[i] = list[j] => i = j
           /\ \A t \in S : \E i \in DOMAIN list : list[i] = t
           /\ [i \in DOMAIN list |-> ScriptOf[list[i]]] \in Seq(Scripts)
<1> DEFINE n == Cardinality(S)
<1>1. n \in Nat
  BY ScanAssumption, FS_Subset, FS_CardinalityType
<1>2. list \in [1 .. n -> S]
  BY DEF Bijection, Injection
<1>3. list \in [1 .. n -> Tickets]
  BY <1>2
<1>4. list \in Seq(Tickets) /\ DOMAIN list = 1 .. Len(list)
  BY <1>1, <1>3, SeqDef
<1>5. [i \in DOMAIN list |-> ScriptOf[list[i]]] \in [1 .. n -> Scripts]
  BY <1>3, ScanAssumption
<1>6. [i \in DOMAIN list |-> ScriptOf[list[i]]] \in Seq(Scripts)
  BY <1>1, <1>5, SeqDef
<1> QED
  BY <1>2, <1>4, <1>6 DEF Bijection, Injection, Surjection, IsInjective

\* What remains of a sequence after a removal.
LEMMA RemoveIsSequence ==
    ASSUME NEW S, NEW s \in Seq(S), NEW i \in 1 .. Len(s)
    PROVE  /\ nonOrderPreservingRemove(s, i) \in Seq(S)
           /\ Len(nonOrderPreservingRemove(s, i)) = Len(s) - 1
           /\ DOMAIN nonOrderPreservingRemove(s, i) = 1 .. Len(s) - 1
           /\ \A j \in 1 .. Len(s) - 1 :
                 nonOrderPreservingRemove(s, i)[j] = IF j = i THEN s[Len(s)] ELSE s[j]
<1>1. Len(s) \in Nat /\ Len(s) - 1 \in Nat
  OBVIOUS
<1>2. nonOrderPreservingRemove(s, i) \in [1 .. Len(s) - 1 -> S]
  BY DEF nonOrderPreservingRemove
<1>3. nonOrderPreservingRemove(s, i) \in Seq(S)
  BY <1>1, <1>2, SeqDef
<1> QED
  BY <1>1, <1>2, <1>3 DEF nonOrderPreservingRemove

\* A set of natural numbers has a least one.
LEMMA HasLeast ==
    ASSUME NEW T \in SUBSET Nat, T # {}
    PROVE  \E h \in T : \A g \in T : h <= g
<1>1. PICK h \in T : \A g \in T : ~ (<<g, h>> \in OpToRel(<, Nat))
  BY NatLessThanWellFounded, WFMin
<1>2. \A g \in T : g < h => <<g, h>> \in {ss \in Nat \X Nat : ss[1] < ss[2]}
  OBVIOUS
<1>3. OpToRel(<, Nat) = {ss \in Nat \X Nat : ss[1] < ss[2]}
  BY DEF OpToRel
<1>4. \A g \in T : ~ (g < h)
  BY <1>1, <1>2, <1>3
<1> QED
  BY <1>4

\* The least of the purchase heights that are stored.
LEMMA EarliestIsLeast ==
    ASSUME ScanTypeOK, NEW S \in SUBSET Tickets
    PROVE  /\ EarliestPurchaseHeight(S) \in Nat
           /\ \A t \in S : db[t].PurchaseHeight # 0 =>
                    EarliestPurchaseHeight(S) <= db[t].PurchaseHeight
<1> DEFINE heights == {db[t].PurchaseHeight : t \in S} \ {0}
<1>1. heights \subseteq Nat
  BY DEF ScanTypeOK, Record
<1>2. CASE heights = {}
  BY <1>2 DEF EarliestPurchaseHeight
<1>3. CASE heights # {}
  <2>2. \E h \in heights : \A g \in heights : h <= g
    BY <1>1, <1>3, HasLeast
  <2>3. EarliestPurchaseHeight(S) \in heights
        /\ \A g \in heights : EarliestPurchaseHeight(S) <= g
    BY <1>3, <2>2 DEF EarliestPurchaseHeight
  <2> QED
    BY <1>1, <2>3
<1> QED
  BY <1>2, <1>3

-----------------------------------------------------------------------------
(* Types, and the form of the chain and of a scan in each phase.           *)

\* Only the block at the greatest height is ever replaced.
ChainForm == Len(chain) <= best /\ best <= Len(chain) + MaxReorg

Phases ==
    /\ pc \in {"down", "heights", "idle"} => scan = NoScan
    /\ pc \in {"down", "heights"} => lastScanned = 0
    /\ pc \in {"scan", "block", "save"} =>
            /\ scan.kind \in {"revoked", "outcomes"}
            /\ 0 < scan.start /\ scan.start <= scan.end /\ scan.end <= best
            /\ scan.start <= scan.height
    /\ pc = "block" => scan.height <= scan.end /\ 0 < scan.i

HeightsStored == \A t \in Tickets : db[t].PurchaseHeight \in {0, PurchasedAt[t]}

TypeInv == ScanTypeOK /\ ChainForm /\ Phases /\ HeightsStored /\ ParallelSlices

\* The records a step may leave behind.
LEMMA ScanUpdates ==
    ASSUME NEW sc \in Scan
    PROVE  /\ \A n \in Nat : [sc EXCEPT !.height = n] \in Scan
           /\ \A n \in Nat : [sc EXCEPT !.i = n] \in Scan
           /\ \A found \in SUBSET Found : [sc EXCEPT !.spent = found] \in Scan
           /\ \A block \in SUBSET Spend, n \in Nat :
                    [sc EXCEPT !.block = block, !.i = n] \in Scan
           /\ \A list \in Seq(Tickets), list2 \in Seq(Scripts), found \in SUBSET Found :
                    [sc EXCEPT !.tickets = list, !.scripts = list2, !.spent = found] \in Scan
BY DEF Scan

\* The records of tickets a step may leave behind.
LEMMA RecordUpdates ==
    ASSUME NEW r \in Record
    PROVE  /\ \A n \in Nat : [r EXCEPT !.FeeConfirmed = TRUE, !.PurchaseHeight = n] \in Record
           /\ \A n \in Nat : [r EXCEPT !.PurchaseHeight = n] \in Record
           /\ \A o \in {"voted", "missed", "expired"} : [r EXCEPT !.Outcome = o] \in Record
BY DEF Record

\* The state has its form at first.
LEMMA InitType == Init => TypeInv
<1> SUFFICES ASSUME Init PROVE TypeInv
  OBVIOUS
<1>1. NoScan \in Scan
  BY DEF NoScan, Scan
<1>2. [PurchaseHeight |-> 0, FeeConfirmed |-> FALSE, Outcome |-> ""] \in Record
  BY DEF Record
<1>3. << >> \in Seq(SUBSET Spend) /\ Len(<< >>) = 0
  OBVIOUS
<1>4. chain \in Seq(SUBSET Spend) /\ Len(chain) = 0 /\ best = 0
  BY <1>3 DEF Init
<1>5. db \in [Tickets -> Record] /\ HeightsStored
  BY <1>2 DEF Init, HeightsStored
<1>6. ScanTypeOK
  <2>1. pc \in ScanState /\ fixing \subseteq Tickets /\ lastScanned \in 0 .. best /\ scan \in Scan
        /\ forks \in Nat /\ faults \in Nat /\ crashes \in Nat /\ mined \subseteq Found
        /\ late \subseteq Tickets
    <3>1. scan = NoScan /\ pc = "down" /\ fixing = {} /\ lastScanned = 0
          /\ forks = 0 /\ faults = 0 /\ crashes = 0 /\ mined = {} /\ late = {}
      BY DEF Init
    <3> QED
      BY <1>1, <1>4, <3>1 DEF ScanState
  <2> QED
    BY <1>4, <1>5, <2>1 DEF ScanTypeOK
<1>7. ParallelSlices
  <2>1. scan.tickets = << >> /\ scan.scripts = << >>
    BY DEF Init, NoScan
  <2> QED
    BY <2>1 DEF ParallelSlices
<1> QED
  <2>1. scan = NoScan /\ pc = "down" /\ lastScanned = 0
    BY DEF Init
  <2>2. ChainForm
    BY <1>4, ScanAssumption DEF ChainForm
  <2> QED
    BY <1>5, <1>6, <1>7, <2>1, <2>2 DEF TypeInv, Phases

\* A block is added at the height after the last one.
LEMMA MineType == ASSUME TypeInv, \E block \in SUBSET LegalSpends : Mine(block) PROVE TypeInv'
<1>1. PICK block \in SUBSET LegalSpends : Mine(block)
  OBVIOUS
<1>2. block \in SUBSET Spend
  BY DEF LegalSpends
<1>3. /\ chain' = Append(chain, block) /\ chain' \in Seq(SUBSET Spend)
      /\ Len(chain') = Len(chain) + 1 /\ Len(chain) \in Nat
      /\ best' \in Nat /\ best <= best' /\ Len(chain') <= best' /\ best' <= Len(chain') + MaxReorg
  BY <1>1, <1>2, ScanAssumption DEF Mine, TypeInv, ScanTypeOK, ChainForm
<1>4. UNCHANGED <<db, pc, fixing, lastScanned, scan, forks, faults, crashes, late>>
      /\ mined' \subseteq Found
  <2>1. Len(chain) + 1 \in Nat
    BY <1>3
  <2>2. \A s \in block : FoundAt(s, Len(chain) + 1) \in Found
    BY <1>2, <2>1 DEF Spend, Found, FoundAt
  <2> QED
    BY <1>1, <2>2 DEF Mine, TypeInv, ScanTypeOK
<1>5. ScanTypeOK'
  BY <1>3, <1>4 DEF TypeInv, ScanTypeOK
<1>6. ChainForm'
  BY <1>3 DEF ChainForm
<1>7. Phases'
  <2>1. best \in Nat /\ scan.end \in Nat
    BY DEF TypeInv, ScanTypeOK, Scan
  <2> QED
    BY <1>3, <1>4, <2>1 DEF TypeInv, Phases, NoScan
<1> QED
  BY <1>4, <1>5, <1>6, <1>7 DEF TypeInv, HeightsStored, ParallelSlices

\* Only the block at the greatest height is undone.
LEMMA UndoType == ASSUME TypeInv, Undo PROVE TypeInv'
<1>1. /\ chain' \in Seq(SUBSET Spend)
      /\ Len(chain') = Len(chain) - 1 /\ Len(chain) \in Nat /\ Len(chain) > 0
  <2>1. Len(chain) \in Nat /\ Len(chain) > 0 /\ chain \in Seq(SUBSET Spend)
    BY DEF Undo, TypeInv, ScanTypeOK
  <2>2. chain' = SubSeq(chain, 1, Len(chain) - 1)
    BY DEF Undo
  <2>3. \A h \in 1 .. Len(chain) - 1 : chain[h] \in SUBSET Spend
    BY <2>1
  <2> DEFINE n == Len(chain) - 1
  <2>5. n \in Int /\ 1 \in Int /\ n >= 0
    BY <2>1
  <2>6. /\ SubSeq(chain, 1, n) \in Seq(SUBSET Spend)
        /\ Len(SubSeq(chain, 1, n)) = IF 1 <= n THEN n - 1 + 1 ELSE 0
    BY <2>3, <2>5, SubSeqProperties
  <2>4. chain' \in Seq(SUBSET Spend) /\ Len(chain') = Len(chain) - 1
    <3>1. (IF 1 <= n THEN n - 1 + 1 ELSE 0) = n
      BY <2>5
    <3> QED
      BY <2>2, <2>6, <3>1
  <2> QED
    BY <2>1, <2>4
<1>2. UNCHANGED <<best, mined, db, pc, fixing, lastScanned, scan, faults, crashes, late>>
      /\ forks' \in Nat /\ Len(chain) + MaxReorg > best
  BY DEF Undo, TypeInv, ScanTypeOK
<1>3. ScanTypeOK'
  BY <1>1, <1>2 DEF TypeInv, ScanTypeOK
<1>4. ChainForm'
  BY <1>1, <1>2, ScanAssumption DEF ChainForm, TypeInv, ScanTypeOK
<1> QED
  BY <1>2, <1>3, <1>4 DEF TypeInv, Phases, HeightsStored, ParallelSlices, NoScan

\* A scan that starts.
LEMMA StartScanType ==
    ASSUME TypeInv, NEW kind \in {"revoked", "outcomes"}, NEW S \in SUBSET Tickets,
           NEW start \in Nat \ {0}, start <= Len(chain), StartScan(kind, S, start)
    PROVE  /\ scan' \in Scan
           /\ scan'.kind = kind /\ scan'.start = start /\ scan'.height = start
           /\ scan'.end = Len(chain) /\ scan'.toCheck = S /\ scan'.spent = {}
           /\ ParallelSlices'
           /\ scan'.tickets \in Bijection(1 .. Cardinality(S), S)
<1>1. PICK list \in Bijection(1 .. Cardinality(S), S) :
        scan' = [kind |-> kind, start |-> start, height |-> start, end |-> Len(chain),
                 block |-> {}, i |-> 0, toCheck |-> S, tickets |-> list,
                 scripts |-> [i \in DOMAIN list |-> ScriptOf[list[i]]], spent |-> {}]
  BY DEF StartScan
<1>2. list \in Seq(Tickets) /\ [i \in DOMAIN list |-> ScriptOf[list[i]]] \in Seq(Scripts)
  BY ListIsSequence
<1>3. Len(chain) \in Nat
  BY DEF TypeInv, ScanTypeOK
<1>4. Len([i \in DOMAIN list |-> ScriptOf[list[i]]]) = Len(list) /\ DOMAIN list = 1 .. Len(list)
  BY <1>2, ListIsSequence
<1> QED
  BY <1>1, <1>2, <1>3, <1>4 DEF Scan, ParallelSlices

\* The height the scan of setOutcomes starts at.
LEMMA ScanStartHeight ==
    ASSUME TypeInv, NEW S \in SUBSET Tickets
    PROVE  ScanStart(S) \in Nat \ {0} /\ EarliestPurchaseHeight(S) + TicketMaturity \in Nat \ {0}
<1>1. EarliestPurchaseHeight(S) \in Nat
  BY EarliestIsLeast DEF TypeInv
<1> QED
  BY <1>1, ScanAssumption DEF ScanStart, TypeInv, ScanTypeOK

\* What an older version may have stored is a record.
LEMMA OldRecordType ==
    ASSUME NEW height \in Nat, NEW outcome \in {"", "revoked"}
    PROVE  [PurchaseHeight |-> height, FeeConfirmed |-> TRUE, Outcome |-> outcome] \in Record
BY DEF Record

\* The older version, and a confirmed fee, store the height of the purchase or none.
LEMMA RecordsType ==
    ASSUME TypeInv, NEW t \in Tickets, OldVersion(t) \/ ConfirmFee(t) PROVE TypeInv'
<1>0. PurchasedAt[t] \in Nat
  BY ScanAssumption
<1> USE DEF TypeInv, ScanTypeOK, external
<1>1. db[t] \in Record
  OBVIOUS
<1>2. PICK r \in Record : db' = [db EXCEPT ![t] = r] /\ r.PurchaseHeight \in {0, PurchasedAt[t]}
  <2>1. CASE OldVersion(t)
    <3>1. ASSUME NEW height \in {0, PurchasedAt[t]}, NEW outcome \in {"", "revoked"},
                 db' = [db EXCEPT ![t] = [PurchaseHeight |-> height, FeeConfirmed |-> TRUE,
                                          Outcome |-> outcome]]
          PROVE  \E r \in Record : /\ db' = [db EXCEPT ![t] = r]
                                   /\ r.PurchaseHeight \in {0, PurchasedAt[t]}
      <4>1. [PurchaseHeight |-> height, FeeConfirmed |-> TRUE, Outcome |-> outcome] \in Record
        <5>1. CASE height = 0
          BY <5>1, OldRecordType
        <5>2. CASE height = PurchasedAt[t]
          <6>1. PurchasedAt[t] \in Nat
            BY <1>0
          <6> QED
            BY <5>2, <6>1, OldRecordType
        <5> QED
          BY <5>1, <5>2
      <4> QED
        BY <3>1, <4>1
    <3> QED
      BY <2>1, <3>1 DEF OldVersion
  <2>2. CASE ConfirmFee(t)
    <3>1. [db[t] EXCEPT !.FeeConfirmed = TRUE, !.PurchaseHeight = PurchasedAt[t]] \in Record
      BY <1>1, ScanAssumption DEF Record
    <3>2. db' = [db EXCEPT ![t] = [db[t] EXCEPT !.FeeConfirmed = TRUE,
                                               !.PurchaseHeight = PurchasedAt[t]]]
      BY <2>2 DEF ConfirmFee
    <3> QED
      BY <1>1, <3>1, <3>2 DEF Record
  <2> QED
    BY <2>1, <2>2
<1>3. UNCHANGED <<chain, best, mined, forks, pc, fixing, lastScanned, scan, faults, crashes>>
      /\ late' \subseteq Tickets
  BY DEF OldVersion, ConfirmFee
<1> QED
  BY <1>2, <1>3 DEF ChainForm, Phases, NoScan, HeightsStored, ParallelSlices

\* So does the integrity check.
LEMMA IntegrityType ==
    ASSUME TypeInv, StartIntegrityCheck \/ \E t \in Tickets : FixPurchaseHeight(t) PROVE TypeInv'
<1> USE DEF TypeInv, ScanTypeOK, external, ChainForm, Phases, NoScan, Fault, ScanState
<1>1. CASE StartIntegrityCheck
  BY <1>1 DEF StartIntegrityCheck, HeightsStored, ParallelSlices
<1>2. ASSUME NEW t \in Tickets, FixPurchaseHeight(t) PROVE TypeInv'
  <2> DEFINE r == [db[t] EXCEPT !.PurchaseHeight = PurchasedAt[t]]
  <2>1. r \in Record /\ r.PurchaseHeight = PurchasedAt[t]
    BY ScanAssumption DEF Record
  <2>2. db' = [db EXCEPT ![t] = r] \/ db' = db
    BY <1>2 DEF FixPurchaseHeight
  <2>3. db' \in [Tickets -> Record] /\ HeightsStored'
    BY <2>1, <2>2 DEF HeightsStored
  <2> QED
    BY <1>2, <2>3 DEF FixPurchaseHeight, ParallelSlices
<1> QED
  BY <1>1, <1>2

\* A scan of checkRevoked starts above block 0.
LEMMA CheckRevokedType == ASSUME TypeInv, CheckRevoked PROVE TypeInv'
<1> USE DEF TypeInv, ScanTypeOK, external, Fault, ScanState
<1> DEFINE start == EarliestPurchaseHeight(Revoked) + TicketMaturity
<1>1. Revoked \in SUBSET Tickets /\ start \in Nat \ {0}
  BY ScanStartHeight DEF Revoked
<1>2. UNCHANGED <<chain, best, mined, forks, db, fixing, lastScanned, crashes, late>> /\ pc = "heights"
  BY DEF CheckRevoked
<1>3. CASE Revoked # {} /\ start <= Len(chain) /\ StartScan("revoked", Revoked, start)
           /\ pc' = "scan" /\ UNCHANGED faults
  <2>1. StartScan("revoked", Revoked, start) /\ start <= Len(chain)
    BY <1>3
  <2>2. /\ scan' \in Scan
        /\ scan'.kind = "revoked" /\ scan'.start = start /\ scan'.height = start
        /\ scan'.end = Len(chain) /\ ParallelSlices'
    BY <1>1, <2>1, StartScanType
  <2> QED
    BY <1>1, <1>2, <1>3, <2>2 DEF ChainForm, Phases, HeightsStored
<1>4. CASE pc' = "idle" /\ UNCHANGED scan /\ faults' \in Nat
  BY <1>2, <1>4 DEF ChainForm, Phases, HeightsStored, ParallelSlices, NoScan
<1> QED
  BY <1>1, <1>2, <1>3, <1>4 DEF CheckRevoked

\* A scan of setOutcomes starts above block 0.
LEMMA SetOutcomesType == ASSUME TypeInv, SetOutcomes PROVE TypeInv'
<1> USE DEF TypeInv, ScanTypeOK, external, ScanState
<1>1. Votable \in SUBSET Tickets /\ ScanStart(Votable) \in Nat \ {0}
  BY ScanStartHeight DEF Votable
<1>2. /\ UNCHANGED <<chain, best, mined, forks, db, fixing, lastScanned, faults, crashes, late>>
      /\ pc = "idle" /\ pc' = "scan" /\ ScanStart(Votable) <= Len(chain)
      /\ StartScan("outcomes", Votable, ScanStart(Votable))
  BY DEF SetOutcomes
<1>3. /\ scan' \in Scan
      /\ scan'.kind = "outcomes" /\ scan'.start = ScanStart(Votable)
      /\ scan'.height = ScanStart(Votable) /\ scan'.end = Len(chain) /\ ParallelSlices'
  BY <1>1, <1>2, StartScanType
<1> QED
  BY <1>1, <1>2, <1>3 DEF ChainForm, Phases, HeightsStored

\* The steps of findSpentTickets.
LEMMA FailScanType == ASSUME TypeInv, FailScan PROVE TypeInv'
<1>1. NoScan \in Scan
  BY DEF NoScan, Scan
<1> QED
  BY <1>1 DEF FailScan, EndScan, Fault, TypeInv, ScanTypeOK, external, ChainForm, Phases,
      HeightsStored, ParallelSlices, NoScan, ScanState

\* All that a step within a scan has to leave as it is.
LEMMA ScanStepType ==
    ASSUME TypeInv, pc \in {"scan", "block"}, pc' \in {"scan", "block"},
           UNCHANGED <<chain, best, mined, forks, db, fixing, lastScanned, faults, crashes, late>>,
           scan' \in Scan, ParallelSlices',
           scan'.kind = scan.kind, scan'.start = scan.start, scan'.end = scan.end,
           scan'.start <= scan'.height,
           pc' = "block" => scan'.height <= scan'.end /\ 0 < scan'.i
    PROVE  TypeInv'
BY DEF TypeInv, ScanTypeOK, ChainForm, Phases, HeightsStored, ScanState

\* A skipped block only moves the height.
LEMMA SkipBlockType == ASSUME TypeInv, SkipBlock PROVE TypeInv'
<1>1. scan' = [scan EXCEPT !.height = @ + 1] /\ scan \in Scan
  BY DEF SkipBlock, TypeInv, ScanTypeOK
<1>2. scan'.height = scan.height + 1 /\ scan'.kind = scan.kind
      /\ scan'.start = scan.start /\ scan'.end = scan.end
      /\ scan'.tickets = scan.tickets /\ scan'.scripts = scan.scripts
      /\ scan.height \in Nat /\ scan.start \in Nat
  BY <1>1 DEF Scan
<1>3. scan' = [scan EXCEPT !.height = scan'.height] /\ scan'.height \in Nat
  BY <1>1, <1>2
<1>4. scan' \in Scan
  BY <1>1, <1>3, ScanUpdates
<1> QED
  BY <1>2, <1>4, ScanStepType DEF SkipBlock, external, TypeInv, Phases, ParallelSlices

\* The block at hand is one of the chain.
LEMMA GetBlockType == ASSUME TypeInv, GetBlock PROVE TypeInv'
<1>1. scan' = [scan EXCEPT !.block = chain[scan.height], !.i = 1] /\ scan \in Scan
  BY DEF GetBlock, TypeInv, ScanTypeOK
<1>2. scan.height \in Nat /\ scan.start \in Nat /\ 0 < scan.start /\ scan.start <= scan.height
  BY <1>1 DEF Scan, GetBlock, TypeInv, Phases
<1>3. chain[scan.height] \in SUBSET Spend
  BY <1>2 DEF GetBlock, TypeInv, ScanTypeOK
<1>4. scan' \in Scan /\ scan'.height = scan.height /\ scan'.kind = scan.kind
      /\ scan'.start = scan.start /\ scan'.end = scan.end /\ scan'.i = 1
      /\ scan'.tickets = scan.tickets /\ scan'.scripts = scan.scripts
  BY <1>1, <1>3 DEF Scan
<1> QED
  BY <1>2, <1>4, ScanStepType DEF GetBlock, external, TypeInv, ParallelSlices

\* The scan after a ticket has been found.
FoundOne(s) == [RemoveCurrent(scan) EXCEPT !.spent =
                    @ \union {[t |-> s.t, how |-> s.how, height |-> scan.height]}]

\* The same without the nested update, and it is a scan.
LEMMA FoundOneForm ==
    ASSUME TypeInv, pc = "block", scan.i <= Len(scan.tickets), NEW s \in scan.block
    PROVE  /\ FoundOne(s) = [scan EXCEPT
                !.tickets = nonOrderPreservingRemove(scan.tickets, scan.i),
                !.scripts = nonOrderPreservingRemove(scan.scripts, scan.i),
                !.spent = scan.spent \union
                            {[t |-> s.t, how |-> s.how, height |-> scan.height]}]
           /\ FoundOne(s) \in Scan
           /\ scan.i \in 1 .. Len(scan.tickets) /\ Len(scan.tickets) \in Nat
           /\ Len(scan.scripts) = Len(scan.tickets)
<1>1. scan \in Scan /\ scan.i \in Nat /\ scan.i > 0 /\ Len(scan.tickets) \in Nat
      /\ Len(scan.scripts) = Len(scan.tickets)
      /\ scan.tickets \in Seq(Tickets) /\ scan.scripts \in Seq(Scripts)
  BY DEF TypeInv, ScanTypeOK, Scan, Phases, ParallelSlices
<1>2. /\ nonOrderPreservingRemove(scan.tickets, scan.i) \in Seq(Tickets)
      /\ nonOrderPreservingRemove(scan.scripts, scan.i) \in Seq(Scripts)
  BY <1>1, RemoveIsSequence
<1>3. [t |-> s.t, how |-> s.how, height |-> scan.height] \in Found
  BY <1>1 DEF Scan, Spend, Found
<1>4. FoundOne(s) = [scan EXCEPT
                !.tickets = nonOrderPreservingRemove(scan.tickets, scan.i),
                !.scripts = nonOrderPreservingRemove(scan.scripts, scan.i),
                !.spent = scan.spent \union
                            {[t |-> s.t, how |-> s.how, height |-> scan.height]}]
  BY <1>1 DEF FoundOne, RemoveCurrent, Scan
<1>5. scan.spent \union {[t |-> s.t, how |-> s.how, height |-> scan.height]} \in SUBSET Found
  BY <1>1, <1>3 DEF Scan
<1>7. FoundOne(s) \in Scan
  <2> DEFINE tickets == nonOrderPreservingRemove(scan.tickets, scan.i)
             scripts == nonOrderPreservingRemove(scan.scripts, scan.i)
             found == scan.spent \union
                        {[t |-> s.t, how |-> s.how, height |-> scan.height]}
  <2>1. FoundOne(s) = [scan EXCEPT !.tickets = tickets, !.scripts = scripts, !.spent = found]
    BY <1>4
  <2>2. tickets \in Seq(Tickets) /\ scripts \in Seq(Scripts) /\ found \in SUBSET Found
    BY <1>2, <1>5
  <2> HIDE DEF tickets, scripts, found
  <2>3. [scan EXCEPT !.tickets = tickets, !.scripts = scripts, !.spent = found] \in Scan
    BY <1>1, <2>2, ScanUpdates
  <2> QED
    BY <2>1, <2>3
<1> QED
  BY <1>1, <1>4, <1>7

\* CheckTicket with the two outcomes spelled out.
LEMMA CheckTicketCases ==
    ASSUME TypeInv, CheckTicket
    PROVE  /\ pc = "block" /\ scan.i <= Len(scan.tickets)
           /\ UNCHANGED <<chain, best, mined, forks, db, pc, fixing, lastScanned, faults, crashes, late>>
           /\ \/ /\ \A s \in scan.block : s.t # scan.tickets[scan.i]
                 /\ scan' = [scan EXCEPT !.i = @ + 1]
              \/ \E s \in scan.block : s.t = scan.tickets[scan.i] /\ scan' = FoundOne(s)
<1>1. CASE \A s \in scan.block : s.t # scan.tickets[scan.i]
  BY <1>1 DEF CheckTicket, external
<1>2. CASE \E s \in scan.block : s.t = scan.tickets[scan.i]
  BY <1>2 DEF CheckTicket, external, FoundOne, FoundAt
<1> QED
  BY <1>1, <1>2

\* The two slices lose the same entry, and the same one takes its place.
LEMMA CheckTicketType == ASSUME TypeInv, CheckTicket PROVE TypeInv'
<1> USE CheckTicketCases
<1>1. CASE scan' = [scan EXCEPT !.i = @ + 1]
  <2>1. scan \in Scan
    BY DEF TypeInv, ScanTypeOK
  <2> DEFINE j == scan.i + 1
  <2>a. scan' = [scan EXCEPT !.i = j] /\ scan.i \in Nat /\ j \in Nat
    BY <1>1, <2>1 DEF Scan
  <2> HIDE DEF j
  <2>b. scan' \in Scan /\ scan'.height = scan.height /\ scan'.kind = scan.kind
        /\ scan'.start = scan.start /\ scan'.end = scan.end /\ scan'.i = j
        /\ scan'.tickets = scan.tickets /\ scan'.scripts = scan.scripts
    BY ONLY <2>a, <2>1 DEF Scan
  <2>2. scan' \in Scan /\ scan'.height = scan.height /\ scan'.kind = scan.kind
        /\ scan'.start = scan.start /\ scan'.end = scan.end /\ scan'.i = scan.i + 1
        /\ scan'.tickets = scan.tickets /\ scan'.scripts = scan.scripts /\ scan.i \in Nat
    BY <2>a, <2>b DEF j
  <2> QED
    BY <2>2, ScanStepType DEF TypeInv, Phases, ParallelSlices
<1>2. ASSUME NEW s \in scan.block, scan' = FoundOne(s) PROVE TypeInv'
  <2> DEFINE i == scan.i
  <2>1. scan \in Scan /\ scan.tickets \in Seq(Tickets) /\ scan.scripts \in Seq(Scripts)
    BY DEF TypeInv, ScanTypeOK, Scan
  <2>2. i \in 1 .. Len(scan.tickets) /\ Len(scan.scripts) = Len(scan.tickets)
        /\ Len(scan.tickets) \in Nat /\ scan' \in Scan
    BY <1>2, FoundOneForm
  <2>3. scan' = [scan EXCEPT
                !.tickets = nonOrderPreservingRemove(scan.tickets, i),
                !.scripts = nonOrderPreservingRemove(scan.scripts, i),
                !.spent = scan.spent \union
                            {[t |-> s.t, how |-> s.how, height |-> scan.height]}]
    BY <1>2, FoundOneForm
  <2>4. scan'.height = scan.height /\ scan'.kind = scan.kind
        /\ scan'.start = scan.start /\ scan'.end = scan.end /\ scan'.i = i
        /\ scan'.tickets = nonOrderPreservingRemove(scan.tickets, i)
        /\ scan'.scripts = nonOrderPreservingRemove(scan.scripts, i)
    BY <2>1, <2>3 DEF Scan
  <2>5. ParallelSlices'
    <3>1. \A j \in 1 .. Len(scan.tickets) : scan.scripts[j] = ScriptOf[scan.tickets[j]]
      BY <2>1 DEF TypeInv, ParallelSlices
    <3>2. /\ Len(scan'.tickets) = Len(scan.tickets) - 1
          /\ \A j \in 1 .. Len(scan.tickets) - 1 :
               scan'.tickets[j] = IF j = i THEN scan.tickets[Len(scan.tickets)] ELSE scan.tickets[j]
      <4>1. scan.tickets \in Seq(Tickets) /\ i \in 1 .. Len(scan.tickets)
        BY <2>1, <2>2
      <4>2. /\ Len(nonOrderPreservingRemove(scan.tickets, i)) = Len(scan.tickets) - 1
            /\ \A j \in 1 .. Len(scan.tickets) - 1 :
                  nonOrderPreservingRemove(scan.tickets, i)[j] =
                    IF j = i THEN scan.tickets[Len(scan.tickets)] ELSE scan.tickets[j]
        BY ONLY <4>1, RemoveIsSequence
      <4>3. scan'.tickets = nonOrderPreservingRemove(scan.tickets, i)
        BY <2>4
      <4> QED
        BY ONLY <4>2, <4>3
    <3>3. /\ Len(scan'.scripts) = Len(scan.scripts) - 1
          /\ \A j \in 1 .. Len(scan.scripts) - 1 :
               scan'.scripts[j] = IF j = i THEN scan.scripts[Len(scan.scripts)] ELSE scan.scripts[j]
      <4>1. scan.scripts \in Seq(Scripts) /\ i \in 1 .. Len(scan.scripts)
        BY <2>1, <2>2
      <4>2. /\ Len(nonOrderPreservingRemove(scan.scripts, i)) = Len(scan.scripts) - 1
            /\ \A j \in 1 .. Len(scan.scripts) - 1 :
                  nonOrderPreservingRemove(scan.scripts, i)[j] =
                    IF j = i THEN scan.scripts[Len(scan.scripts)] ELSE scan.scripts[j]
        BY ONLY <4>1, RemoveIsSequence
      <4>3. scan'.scripts = nonOrderPreservingRemove(scan.scripts, i)
        BY <2>4
      <4> QED
        BY ONLY <4>2, <4>3
    <3>4. DOMAIN scan'.tickets = 1 .. Len(scan.tickets) - 1
      <4>1. scan'.tickets \in Seq(Tickets)
        BY <2>2 DEF Scan
      <4> QED
        BY <3>2, <4>1
    <3>5. Len(scan'.scripts) = Len(scan'.tickets)
      BY <2>2, <3>2, <3>3
    <3>6. ASSUME NEW j \in 1 .. Len(scan.tickets) - 1
          PROVE  scan'.scripts[j] = ScriptOf[scan'.tickets[j]]
      <4>1. j \in 1 .. Len(scan.tickets) /\ Len(scan.tickets) \in 1 .. Len(scan.tickets)
            /\ j \in 1 .. Len(scan.scripts) - 1
        BY <2>2
      <4>2. /\ scan.scripts[j] = ScriptOf[scan.tickets[j]]
            /\ scan.scripts[Len(scan.tickets)] = ScriptOf[scan.tickets[Len(scan.tickets)]]
        BY <3>1, <4>1
      <4>3. CASE j = i
        BY <2>2, <3>2, <3>3, <4>1, <4>2, <4>3
      <4>4. CASE j # i
        BY <2>2, <3>2, <3>3, <4>1, <4>2, <4>4
      <4> QED
        BY <4>3, <4>4
    <3> QED
      BY <3>4, <3>5, <3>6 DEF ParallelSlices
  <2> QED
    BY <2>2, <2>4, <2>5, ScanStepType DEF TypeInv, Phases
<1> QED
  BY <1>1, <1>2

\* The next block only moves the height.
LEMMA NextBlockType == ASSUME TypeInv, NextBlock PROVE TypeInv'
<1>1. scan' = [scan EXCEPT !.height = IF AllFound THEN scan.end + 1 ELSE @ + 1] /\ scan \in Scan
  BY DEF NextBlock, TypeInv, ScanTypeOK
<1>2. scan'.height \in {scan.end + 1, scan.height + 1} /\ scan'.kind = scan.kind
      /\ scan'.start = scan.start /\ scan'.end = scan.end
      /\ scan'.tickets = scan.tickets /\ scan'.scripts = scan.scripts
      /\ scan.height \in Nat /\ scan.start \in Nat /\ scan.end \in Nat
  BY <1>1 DEF Scan
<1>3. scan' = [scan EXCEPT !.height = scan'.height] /\ scan'.height \in Nat
  BY <1>1, <1>2
<1>4. scan' \in Scan
  BY <1>1, <1>3, ScanUpdates
<1> QED
  BY <1>2, <1>4, ScanStepType DEF NextBlock, external, TypeInv, Phases, ParallelSlices

\* lastScannedBlock is the height of a block that was there.
LEMMA FinishScanType == ASSUME TypeInv, FinishScan PROVE TypeInv'
<1>1. scan.end \in 0 .. best
  BY DEF FinishScan, TypeInv, ScanTypeOK, Scan, Phases
<1> QED
  BY <1>1 DEF FinishScan, ScannedTo, external, TypeInv, ScanTypeOK, ChainForm, Phases,
      HeightsStored, ParallelSlices, ScanState

\* A saved outcome leaves the height of the purchase.
LEMMA SaveOutcomeType == ASSUME TypeInv, NEW s \in scan.spent, SaveOutcome(s) PROVE TypeInv'
<1> USE DEF TypeInv, ScanTypeOK
<1>1. scan \in Scan /\ s.t \in Tickets /\ db[s.t] \in Record
  BY DEF Scan, Found
<1>2. scan' = [scan EXCEPT !.spent = @ \ {s}]
  BY DEF SaveOutcome
<1>3. scan' \in Scan /\ scan'.height = scan.height /\ scan'.kind = scan.kind
      /\ scan'.start = scan.start /\ scan'.end = scan.end
      /\ scan'.tickets = scan.tickets /\ scan'.scripts = scan.scripts
  BY <1>1, <1>2 DEF Scan
<1>4. OutcomeOf(s) \in {"voted", "missed", "expired"}
  BY DEF OutcomeOf
<1>5. [db[s.t] EXCEPT !.Outcome = OutcomeOf(s)] \in Record
  BY <1>1, <1>4 DEF Record
<1>6. db' = db \/ db' = [db EXCEPT ![s.t] = [db[s.t] EXCEPT !.Outcome = OutcomeOf(s)]]
  BY DEF SaveOutcome
<1>7. db' \in [Tickets -> Record] /\ HeightsStored'
  <2> DEFINE r == [db[s.t] EXCEPT !.Outcome = OutcomeOf(s)]
  <2>1. r \in Record /\ r.PurchaseHeight = db[s.t].PurchaseHeight
    BY <1>1, <1>5 DEF Record
  <2>2. db' = db \/ db' = [db EXCEPT ![s.t] = r]
    BY <1>6
  <2> HIDE DEF r
  <2>3. db' \in [Tickets -> Record]
    BY <2>1, <2>2
  <2>4. \A t \in Tickets : db'[t].PurchaseHeight = db[t].PurchaseHeight
    BY <2>1, <2>2
  <2> QED
    BY <2>3, <2>4 DEF HeightsStored
<1> QED
  BY <1>3, <1>7 DEF SaveOutcome, external, ChainForm, Phases, ParallelSlices

\* No scan is left at the end of one, nor after a crash.
LEMMA EndType == ASSUME TypeInv, OutcomesSaved \/ Crash PROVE TypeInv'
<1>1. NoScan \in Scan
  BY DEF NoScan, Scan
<1>2. /\ UNCHANGED <<chain, best, mined, forks, db, faults>>
      /\ crashes' \in Nat /\ late' \subseteq Tickets /\ fixing' \subseteq Tickets
      /\ lastScanned' \in {0, lastScanned} /\ (pc' = "down" => lastScanned' = 0)
      /\ scan' = NoScan /\ pc' \in {"idle", "down"}
  BY DEF OutcomesSaved, Crash, EndScan, external, TypeInv, ScanTypeOK
<1>3. ParallelSlices'
  BY <1>2 DEF ParallelSlices, NoScan
<1>4. ScanTypeOK'
  BY <1>1, <1>2 DEF TypeInv, ScanTypeOK, ScanState
<1> QED
  BY <1>2, <1>3, <1>4 DEF TypeInv, ChainForm, Phases, HeightsStored

\* Every step keeps the state in its form.
LEMMA TypeStep == TypeInv /\ [Next]_vars => TypeInv'
<1> SUFFICES ASSUME TypeInv, [Next]_vars PROVE TypeInv'
  OBVIOUS
<1>1. CASE UNCHANGED vars
  BY <1>1 DEF vars, external, TypeInv, ScanTypeOK, ChainForm, Phases, HeightsStored,
      ParallelSlices, NoScan
<1>2. CASE Run
  BY <1>2, IntegrityType, CheckRevokedType, SetOutcomesType, FailScanType, SkipBlockType,
     GetBlockType, CheckTicketType, NextBlockType, FinishScanType, SaveOutcomeType, EndType
     DEF Run
<1> QED
  BY <1>1, <1>2, MineType, UndoType, RecordsType, EndType DEF Next

\* Every step keeps the state in its form.
THEOREM ScanTypeCorrect == Spec => []ScanTypeOK
<1>1. TypeInv => ScanTypeOK
  BY DEF TypeInv
<1> QED
  BY <1>1, InitType, TypeStep, PTL DEF Spec

\* The two slices stay parallel, for any number of tickets.
THEOREM SlicesParallel == Spec => []ParallelSlices
<1>1. TypeInv => ParallelSlices
  BY DEF TypeInv
<1> QED
  BY <1>1, InitType, TypeStep, PTL DEF Spec
-----------------------------------------------------------------------------
(* What a scan finds.                                                      *)

\* The transactions of the chain happened at heights at which they could.
ChainTrue ==
    \A h \in DOMAIN chain : \A s \in chain[h] : FoundAt(s, h) \in mined /\ Legal(s, h)

\* A ticket is spent once.
SpentOnce ==
    \A g, h \in DOMAIN chain : \A s \in chain[g], u \in chain[h] :
        s.t = u.t => g = h /\ s = u

\* The block at hand: one of the chain, unless it was the last and is undone.
BlockTrue ==
    pc = "block" =>
        /\ \A s \in scan.block : FoundAt(s, scan.height) \in mined /\ Legal(s, scan.height)
        /\ \A s, u \in scan.block : s.t = u.t => s = u
        /\ scan.height < scan.end => scan.block = chain[scan.height]

\* What a scan has found happened, and was the first that did in its range.
FoundTrue ==
    \A s \in scan.spent :
        /\ s \in mined
        /\ Legal(s, s.height)
        /\ scan.start <= s.height /\ s.height <= scan.end
        /\ s.height < scan.end => [t |-> s.t, how |-> s.how] \in chain[s.height]
        /\ \A h \in scan.start .. scan.end - 1 : h < s.height => ~ SpentAt(s.t, h)

\* A scan is for the tickets that need it, and starts early enough for them.
ScanFor ==
    pc \in {"scan", "block"} =>
        /\ scan.toCheck = IF scan.kind = "revoked" THEN Revoked ELSE Votable
        /\ IF scan.kind = "outcomes" /\ lastScanned # 0
           THEN scan.start = lastScanned
           ELSE \A t \in scan.toCheck : db[t].PurchaseHeight # 0 =>
                    scan.start <= PurchasedAt[t] + TicketMaturity

\* Each ticket of a scan is in its list or has been found, once.
Listed ==
    pc \in {"scan", "block"} =>
        /\ \A i \in DOMAIN scan.tickets : scan.tickets[i] \in scan.toCheck
        /\ \A i, j \in DOMAIN scan.tickets : scan.tickets[i] = scan.tickets[j] => i = j
        /\ \A s, u \in scan.spent : s.t = u.t => s = u
        /\ \A i \in DOMAIN scan.tickets, s \in scan.spent : s.t # scan.tickets[i]
        /\ \A t \in scan.toCheck : \/ \E i \in DOMAIN scan.tickets : scan.tickets[i] = t
                                   \/ \E s \in scan.spent : s.t = t

\* A ticket in the list is not spent in the blocks done with, nor, up to
\* scan.i, in the block at hand.
NotYet ==
    /\ pc \in {"scan", "block"} =>
        \A i \in DOMAIN scan.tickets : \A h \in scan.start .. scan.end - 1 :
            h < scan.height => ~ SpentAt(scan.tickets[i], h)
    /\ pc = "block" =>
        \A i \in DOMAIN scan.tickets : i < scan.i =>
            \A s \in scan.block : s.t # scan.tickets[i]

\* The revocations checkRevoked is about to save.
RevokedFound ==
    pc = "save" /\ scan.kind = "revoked" =>
        \A t \in Revoked : db[t].PurchaseHeight # 0 /\ RevokedBelow(t, scan.end) =>
            \E s \in scan.spent : s.t = t /\ s.how # "voted"

ScanInv ==
    TypeInv /\ ChainTrue /\ SpentOnce /\ BlockTrue /\ FoundTrue /\ ScanFor /\ Listed
    /\ NotYet /\ RevokedFound /\ NoneSkipped

\* Nothing is scanned at first.
LEMMA ScanInvInit == Init => ScanInv
<1> SUFFICES ASSUME Init PROVE ScanInv
  OBVIOUS
<1>1. /\ chain = << >> /\ pc = "down" /\ scan.spent = {}
      /\ \A t \in Tickets : db[t].PurchaseHeight = 0
  BY DEF Init, NoScan
<1>2. DOMAIN chain = {}
  BY <1>1
<1>3. \A t \in Tickets : db[t].FeeConfirmed = FALSE
  BY DEF Init
<1> QED
  BY <1>1, <1>2, <1>3, InitType DEF ScanInv, ChainTrue, SpentOnce, BlockTrue, FoundTrue,
      ScanFor, Listed, NotYet, RevokedFound, NoneSkipped, Votable

\* The heights of the chain.
LEMMA Heights ==
    ASSUME TypeInv
    PROVE  /\ DOMAIN chain = 1 .. Len(chain) /\ Len(chain) \in Nat /\ best \in Nat
           /\ \A h \in DOMAIN chain : chain[h] \subseteq Spend
           /\ \A h \in 1 .. best - 1 : h \in DOMAIN chain
           /\ lastScanned \in Nat /\ lastScanned <= best
<1>1. chain \in Seq(SUBSET Spend) /\ best \in Nat /\ lastScanned \in Nat /\ lastScanned <= best
  BY DEF TypeInv, ScanTypeOK
<1>2. DOMAIN chain = 1 .. Len(chain) /\ Len(chain) \in Nat
      /\ \A h \in DOMAIN chain : chain[h] \subseteq Spend
  BY <1>1
<1>3. best - 1 <= Len(chain)
  BY <1>1, <1>2, ScanAssumption DEF TypeInv, ChainForm
<1> QED
  BY <1>1, <1>2, <1>3

\* The fields of the scan.
LEMMA ScanFields ==
    ASSUME TypeInv
    PROVE  /\ scan.start \in Nat /\ scan.height \in Nat /\ scan.end \in Nat /\ scan.i \in Nat
           /\ scan.spent \subseteq Found /\ scan.toCheck \subseteq Tickets
           /\ scan.block \subseteq Spend
           /\ scan.tickets \in Seq(Tickets) /\ DOMAIN scan.tickets = 1 .. Len(scan.tickets)
           /\ Len(scan.tickets) \in Nat
           /\ \A i \in DOMAIN scan.tickets : scan.tickets[i] \in Tickets
           /\ scan.spent # {} => scan.end <= best
           /\ pc \in {"scan", "block", "save"} => scan.end <= best /\ 0 < scan.start
<1>1. scan \in Scan
  BY DEF TypeInv, ScanTypeOK
<1>2. pc \in {"down", "heights", "idle"} => scan.spent = {}
  BY DEF TypeInv, Phases, NoScan
<1>3. scan.tickets \in Seq(Tickets)
  BY <1>1 DEF Scan
<1>4. DOMAIN scan.tickets = 1 .. Len(scan.tickets) /\ Len(scan.tickets) \in Nat
      /\ \A i \in DOMAIN scan.tickets : scan.tickets[i] \in Tickets
  BY <1>3
<1>5. pc \in {"scan", "block", "save"} => scan.end <= best /\ 0 < scan.start
  BY DEF TypeInv, Phases
<1>6. pc \in ScanState
  BY DEF TypeInv, ScanTypeOK
<1> QED
  BY <1>1, <1>2, <1>3, <1>4, <1>5, <1>6 DEF Scan, ScanState

\* The blocks below the greatest height stay what they are.
LEMMA BlocksStay ==
    ASSUME TypeInv, (\E block \in SUBSET LegalSpends : Mine(block)) \/ Undo
    PROVE  /\ \A h \in 1 .. best - 1 :
                h \in DOMAIN chain /\ h \in DOMAIN chain' /\ chain'[h] = chain[h]
           /\ DOMAIN chain' = 1 .. Len(chain') /\ Len(chain') \in Nat
           /\ mined \subseteq mined'
           /\ UNCHANGED <<db, pc, lastScanned, scan, late>>
<1>0. chain \in Seq(SUBSET Spend) /\ DOMAIN chain = 1 .. Len(chain) /\ Len(chain) \in Nat
      /\ best \in Nat
  BY DEF TypeInv, ScanTypeOK
<1>1. CASE \E block \in SUBSET LegalSpends : Mine(block)
  <2>1. PICK block \in SUBSET LegalSpends : Mine(block)
    BY <1>1
  <2>2. chain' = Append(chain, block) /\ block \in SUBSET Spend
    BY <2>1 DEF Mine, LegalSpends
  <2>3. DOMAIN chain' = 1 .. Len(chain') /\ Len(chain') = Len(chain) + 1
        /\ \A h \in 1 .. Len(chain) : chain'[h] = chain[h]
    BY <1>0, <2>2
  <2> QED
    BY <1>0, <2>1, <2>3, Heights DEF Mine
<1>2. CASE Undo
  <2>1. chain' = SubSeq(chain, 1, Len(chain) - 1) /\ Len(chain) > 0
        /\ Len(chain) >= best
    BY <1>0, <1>2, ScanAssumption DEF Undo
  <2>2. /\ DOMAIN chain' = 1 .. Len(chain') /\ Len(chain') = Len(chain) - 1
        /\ \A h \in 1 .. Len(chain) - 1 : chain'[h] = chain[h]
    BY <1>0, <2>1
  <2> QED
    BY <1>0, <1>2, <2>1, <2>2 DEF Undo
<1> QED
  BY <1>1, <1>2

\* A spend that is mined is of a ticket not spent yet.
LEMMA MineChain ==
    ASSUME ScanInv, NEW block \in SUBSET LegalSpends, Mine(block)
    PROVE  ChainTrue' /\ SpentOnce'
<1> DEFINE n == Len(chain) + 1
<1>0. chain \in Seq(SUBSET Spend) /\ Len(chain) \in Nat /\ DOMAIN chain = 1 .. Len(chain)
  BY Heights DEF ScanInv, TypeInv, ScanTypeOK
<1>1. chain' = Append(chain, block) /\ block \in SUBSET Spend /\ mined' = mined \union {FoundAt(s, n) : s \in block}
      /\ \A s, u \in block : s.t = u.t => s = u
  BY DEF Mine, LegalSpends
<1>2. DOMAIN chain' = 1 .. n /\ chain'[n] = block /\ n \notin DOMAIN chain
      /\ \A h \in DOMAIN chain : h \in DOMAIN chain' /\ chain'[h] = chain[h]
  BY <1>0, <1>1
<1>3. \A h \in DOMAIN chain' : h \in DOMAIN chain \/ h = n
  BY <1>0, <1>2
<1>4. \A s \in block : Legal(s, n) /\ \A h \in DOMAIN chain : ~ SpentAt(s.t, h)
  BY <1>0 DEF LegalSpends, Unspent
<1>5. ChainTrue'
  <2> SUFFICES ASSUME NEW h \in DOMAIN chain', NEW s \in chain'[h]
               PROVE  FoundAt(s, h) \in mined' /\ Legal(s, h)
    BY DEF ChainTrue, Legal, FoundAt
  <2>1. CASE h \in DOMAIN chain
    BY <1>1, <1>2, <2>1 DEF ScanInv, ChainTrue
  <2>2. CASE h = n
    BY <1>1, <1>2, <1>4, <2>2
  <2> QED
    BY <1>3, <2>1, <2>2
<1>6. SpentOnce'
  <2> SUFFICES ASSUME NEW g \in DOMAIN chain', NEW h \in DOMAIN chain',
                      NEW s \in chain'[g], NEW u \in chain'[h], s.t = u.t
               PROVE  g = h /\ s = u
    BY DEF SpentOnce
  <2>1. CASE g \in DOMAIN chain /\ h \in DOMAIN chain
    BY <1>2, <2>1 DEF ScanInv, SpentOnce
  <2>2. CASE g = n /\ h \in DOMAIN chain
    BY <1>2, <1>4, <2>2 DEF SpentAt
  <2>3. CASE h = n /\ g \in DOMAIN chain
    BY <1>2, <1>4, <2>3 DEF SpentAt
  <2>4. CASE g = n /\ h = n
    BY <1>1, <1>2, <2>4
  <2> QED
    BY <1>3, <2>1, <2>2, <2>3, <2>4
<1> QED
  BY <1>5, <1>6

\* What is left of the chain is as true as it was.
LEMMA UndoChain ==
    ASSUME ScanInv, Undo
    PROVE  ChainTrue' /\ SpentOnce'
<1>0. chain \in Seq(SUBSET Spend) /\ Len(chain) \in Nat /\ DOMAIN chain = 1 .. Len(chain)
  BY Heights DEF ScanInv, TypeInv, ScanTypeOK
<1>1. chain' = SubSeq(chain, 1, Len(chain) - 1) /\ mined' = mined /\ Len(chain) > 0
  BY DEF Undo
<1>2. \A h \in DOMAIN chain' : h \in DOMAIN chain /\ chain'[h] = chain[h]
  BY <1>0, <1>1
<1>3. ChainTrue'
  BY <1>1, <1>2 DEF ScanInv, ChainTrue, Legal, FoundAt
<1>4. SpentOnce'
  BY <1>2 DEF ScanInv, SpentOnce
<1> QED
  BY <1>3, <1>4

\* What a scan has found, and what it has left, is not disturbed by the chain.
LEMMA ChainStep ==
    ASSUME ScanInv, (\E block \in SUBSET LegalSpends : Mine(block)) \/ Undo
    PROVE  ScanInv'
<1>1. TypeInv'
  BY MineType, UndoType DEF ScanInv
<1>2. ChainTrue' /\ SpentOnce'
  BY MineChain, UndoChain
<1>3. TypeInv
  BY DEF ScanInv
<1>4. /\ \A h \in 1 .. best - 1 :
                h \in DOMAIN chain /\ h \in DOMAIN chain' /\ chain'[h] = chain[h]
      /\ DOMAIN chain' = 1 .. Len(chain') /\ Len(chain') \in Nat
      /\ mined \subseteq mined'
      /\ UNCHANGED <<db, pc, lastScanned, scan, late>>
  BY <1>3, BlocksStay
<1>5. /\ DOMAIN chain = 1 .. Len(chain) /\ best \in Nat
      /\ lastScanned \in Nat /\ lastScanned <= best
  BY <1>3, Heights
<1>6. /\ scan.start \in Nat /\ scan.height \in Nat /\ scan.end \in Nat
      /\ scan.spent # {} => scan.end <= best
      /\ pc \in {"scan", "block", "save"} => scan.end <= best /\ 0 < scan.start
  BY <1>3, ScanFields
<1>7. \A h \in Nat : 0 < h /\ h < best =>
            /\ h \in DOMAIN chain /\ h \in DOMAIN chain' /\ chain'[h] = chain[h]
  BY <1>4, <1>5
<1>8. BlockTrue'
  <2>1. ASSUME pc = "block", scan.height < scan.end PROVE chain'[scan.height] = chain[scan.height]
    <3>1. scan.height \in Nat /\ 0 < scan.height /\ scan.height < best
      BY <1>3, <1>5, <1>6, <2>1 DEF TypeInv, Phases
    <3> QED
      BY <1>7, <3>1
  <2> QED
    BY <1>4, <2>1 DEF ScanInv, BlockTrue, Legal, FoundAt
<1>9. FoundTrue'
  <2> SUFFICES ASSUME NEW s \in scan.spent
               PROVE  /\ s \in mined'
                      /\ Legal(s, s.height)
                      /\ scan.start <= s.height /\ s.height <= scan.end
                      /\ s.height < scan.end => [t |-> s.t, how |-> s.how] \in chain'[s.height]
                      /\ \A h \in scan.start .. scan.end - 1 : h < s.height => ~ SpentAt(s.t, h)'
    BY <1>4 DEF FoundTrue, SpentAt, Legal
  <2>1. s.height \in Nat /\ s.t \in Tickets /\ scan.end <= best /\ 0 < scan.start
        /\ pc \in {"scan", "block", "save"}
    BY <1>3, ScanFields, <1>6 DEF Found, TypeInv, ScanTypeOK, ScanState, Phases, NoScan
  <2>2. /\ s \in mined
        /\ Legal(s, s.height)
        /\ scan.start <= s.height /\ s.height <= scan.end
        /\ s.height < scan.end => [t |-> s.t, how |-> s.how] \in chain[s.height]
        /\ \A h \in scan.start .. scan.end - 1 : h < s.height => ~ SpentAt(s.t, h)
    BY DEF ScanInv, FoundTrue
  <2>3. s.height < scan.end => chain'[s.height] = chain[s.height]
    <3>1. s.height < scan.end => 0 < s.height /\ s.height < best
      BY <1>5, <1>6, <2>1, <2>2
    <3> QED
      BY <1>7, <2>1, <3>1
  <2>4. ASSUME NEW h \in scan.start .. scan.end - 1, h < s.height PROVE ~ SpentAt(s.t, h)'
    <3>1. h \in Nat /\ 0 < h /\ h < best
      BY <1>5, <1>6, <2>1
    <3> QED
      BY <1>7, <2>2, <2>4, <3>1 DEF SpentAt
  <2> QED
    BY <1>4, <2>2, <2>3, <2>4
<1>10. ScanFor'
  BY <1>4 DEF ScanInv, ScanFor, Revoked, Votable
<1>11. Listed'
  BY <1>4 DEF ScanInv, Listed
<1>12. NotYet'
  <2>1. ASSUME pc \in {"scan", "block"}, NEW i \in DOMAIN scan.tickets,
               NEW h \in scan.start .. scan.end - 1, h < scan.height
        PROVE  ~ SpentAt(scan.tickets[i], h)'
    <3>1. h \in Nat /\ 0 < h /\ h < best
      BY <1>5, <1>6, <2>1
    <3>2. ~ SpentAt(scan.tickets[i], h)
      BY <2>1 DEF ScanInv, NotYet
    <3> QED
      BY <1>4, <1>7, <3>1, <3>2 DEF SpentAt
  <2>2. ASSUME pc = "block", NEW i \in DOMAIN scan.tickets, i < scan.i, NEW s \in scan.block
        PROVE  s.t # scan.tickets[i]
    BY <2>2 DEF ScanInv, NotYet
  <2> QED
    BY <1>4, <2>1, <2>2 DEF NotYet, SpentAt
<1>13. RevokedFound'
  <2> SUFFICES ASSUME pc = "save", scan.kind = "revoked", NEW t \in Revoked,
                      db[t].PurchaseHeight # 0, RevokedBelow(t, scan.end)'
               PROVE  \E s \in scan.spent : s.t = t /\ s.how # "voted"
    BY <1>4 DEF RevokedFound, Revoked, RevokedBelow
  <2>1. RevokedBelow(t, scan.end)
    BY <1>4, <1>5, <1>6, <1>7 DEF RevokedBelow
  <2> QED
    BY <2>1 DEF ScanInv, RevokedFound
<1>14. NoneSkipped'
  <2> SUFFICES ASSUME NEW t \in Votable, db[t].PurchaseHeight # 0, SpentBelow(t, lastScanned)'
               PROVE  \/ t \in late
                      \/ pc = "save" /\ scan.kind = "outcomes" /\ \E s \in scan.spent : s.t = t
    BY <1>4 DEF NoneSkipped, Votable, SpentBelow, SpentAt
  <2>1. t \in Tickets
    BY DEF Votable
  <2>2. SpentBelow(t, lastScanned)
    BY <1>4, <1>5, <1>7, <2>1 DEF SpentBelow, SpentAt
  <2> QED
    BY <2>2 DEF ScanInv, NoneSkipped
<1> QED
  BY <1>1, <1>2, <1>8, <1>9, <1>10, <1>11, <1>12, <1>13, <1>14 DEF ScanInv

\* What a step keeps that leaves no scan running.
LEMMA NoScanRuns ==
    ASSUME ScanInv, TypeInv', pc' \in {"down", "heights", "idle"}, UNCHANGED <<chain, mined>>
    PROVE  /\ ChainTrue' /\ SpentOnce' /\ BlockTrue' /\ FoundTrue' /\ ScanFor' /\ Listed'
           /\ NotYet' /\ RevokedFound'
<1>1. scan'.spent = {} /\ pc' \notin {"scan", "block", "save"}
  BY DEF TypeInv, Phases, NoScan
<1>2. ChainTrue' /\ SpentOnce'
  BY DEF ScanInv, ChainTrue, SpentOnce, Legal, FoundAt, FoundAt
<1> QED
  BY <1>1, <1>2 DEF BlockTrue, FoundTrue, ScanFor, Listed, NotYet, RevokedFound

\* Nothing is below block 0.
LEMMA NothingBelow ==
    ASSUME TypeInv', lastScanned' = 0
    PROVE  NoneSkipped'
<1>1. chain' \in Seq(SUBSET Spend)
  BY DEF TypeInv, ScanTypeOK
<1>2. \A t : ~ SpentBelow(t, lastScanned)'
  BY <1>1 DEF SpentBelow
<1> QED
  BY <1>2 DEF NoneSkipped

\* A scan has fewer tickets to wait for, and as many as before are late.
LEMMA FewerVotable ==
    ASSUME ScanInv, UNCHANGED <<chain, lastScanned, late>>, Votable' \subseteq Votable,
           \A t \in Votable' : db'[t].PurchaseHeight = db[t].PurchaseHeight,
           pc # "save"
    PROVE  NoneSkipped'
<1> SUFFICES ASSUME NEW t \in Votable', db'[t].PurchaseHeight # 0, SpentBelow(t, lastScanned)'
             PROVE  t \in late'
  BY DEF NoneSkipped
<1>1. SpentBelow(t, lastScanned)
  BY DEF SpentBelow, SpentAt
<1> QED
  BY <1>1 DEF ScanInv, NoneSkipped

\* A ticket that becomes votable is late, or not spent below the next scan.
LEMMA RecordsStep ==
    ASSUME ScanInv, NEW t \in Tickets, OldVersion(t) \/ ConfirmFee(t)
    PROVE  ScanInv'
<1>1. TypeInv' /\ TypeInv
  BY RecordsType DEF ScanInv
<1>2. pc' = pc /\ pc \in {"down", "idle"} /\ UNCHANGED <<chain, mined, lastScanned>>
  BY DEF OldVersion, ConfirmFee, external
<1>3. /\ ChainTrue' /\ SpentOnce' /\ BlockTrue' /\ FoundTrue' /\ ScanFor' /\ Listed'
      /\ NotYet' /\ RevokedFound'
  BY <1>1, <1>2, NoScanRuns
<1>4. NoneSkipped'
  <2>1. CASE OldVersion(t)
    <3>1. lastScanned' = 0
      BY <1>1, <1>2, <2>1 DEF OldVersion, TypeInv, Phases
    <3> QED
      BY <1>1, <3>1, NothingBelow
  <2>2. CASE ConfirmFee(t)
    <3> SUFFICES ASSUME NEW u \in Votable', db'[u].PurchaseHeight # 0,
                        SpentBelow(u, lastScanned)'
                 PROVE  u \in late'
      BY DEF NoneSkipped
    <3>1. SpentBelow(u, lastScanned) /\ u \in Tickets
      BY <1>2 DEF SpentBelow, SpentAt, Votable
    <3>2. CASE u = t
      BY <2>2, <3>1, <3>2 DEF ConfirmFee
    <3>3. CASE u # t
      <4>1. db'[u] = db[u] /\ late \subseteq late'
        <5>1. db \in [Tickets -> Record]
          BY <1>1 DEF TypeInv, ScanTypeOK
        <5>2. db' = [db EXCEPT ![t].FeeConfirmed = TRUE, ![t].PurchaseHeight = PurchasedAt[t]]
              /\ late' = IF SpentBelow(t, lastScanned) THEN late \union {t} ELSE late
          BY <2>2 DEF ConfirmFee
        <5>3. db'[u] = db[u]
          BY <3>1, <3>3, <5>1, <5>2
        <5> QED
          BY <5>2, <5>3
      <4>2. u \in Votable
        BY <3>1, <4>1 DEF Votable
      <4> QED
        BY <1>2, <3>1, <4>1, <4>2 DEF ScanInv, NoneSkipped
    <3> QED
      BY <3>2, <3>3
  <2> QED
    BY <2>1, <2>2
<1> QED
  BY <1>1, <1>3, <1>4 DEF ScanInv

\* No scan runs while purchase heights are fixed, and nothing was scanned.
LEMMA IntegrityStep ==
    ASSUME ScanInv, StartIntegrityCheck \/ \E t \in Tickets : FixPurchaseHeight(t)
    PROVE  ScanInv'
<1>1. TypeInv' /\ TypeInv
  BY IntegrityType DEF ScanInv
<1>2. /\ pc \in {"down", "heights"} /\ pc' \in {"heights", "idle"}
      /\ UNCHANGED <<chain, mined, lastScanned>>
  BY DEF StartIntegrityCheck, FixPurchaseHeight, external
<1>3. lastScanned' = 0
  BY <1>1, <1>2 DEF TypeInv, Phases
<1> QED
  BY <1>1, <1>2, <1>3, NoScanRuns, NothingBelow DEF ScanInv

\* The end of a scan, of an update, and of the process.
LEMMA EndStep ==
    ASSUME ScanInv, FailScan \/ OutcomesSaved \/ Crash
    PROVE  ScanInv'
<1>1. TypeInv' /\ TypeInv
  BY FailScanType, EndType DEF ScanInv
<1>2. pc' \in {"idle", "down"} /\ UNCHANGED <<chain, mined>>
  BY DEF FailScan, OutcomesSaved, Crash, EndScan, external
<1>3. NoneSkipped'
  <2>1. CASE Crash
    BY <1>1, <2>1, NothingBelow DEF Crash
  <2>2. CASE FailScan \/ OutcomesSaved
    <3>1. UNCHANGED <<chain, db, lastScanned, late>>
      BY <2>2 DEF FailScan, OutcomesSaved, external
    <3>2. pc # "save" \/ scan.spent = {}
      BY <2>2 DEF FailScan, OutcomesSaved
    <3> SUFFICES ASSUME NEW t \in Votable', db'[t].PurchaseHeight # 0,
                        SpentBelow(t, lastScanned)'
                 PROVE  t \in late'
      BY DEF NoneSkipped
    <3>3. t \in Votable /\ db[t].PurchaseHeight # 0 /\ SpentBelow(t, lastScanned)
      BY <3>1 DEF Votable, SpentBelow, SpentAt
    <3> QED
      BY <3>1, <3>2, <3>3 DEF ScanInv, NoneSkipped
  <2> QED
    BY <2>1, <2>2
<1> QED
  BY <1>1, <1>2, <1>3, NoScanRuns DEF ScanInv

\* A scan that starts has all its tickets in its list, and starts early enough.
LEMMA ScanStarts ==
    ASSUME ScanInv, TypeInv', NEW kind \in {"revoked", "outcomes"}, NEW S \in SUBSET Tickets,
           NEW start \in Nat \ {0}, start <= Len(chain), StartScan(kind, S, start),
           pc \in {"heights", "idle"}, pc' = "scan",
           UNCHANGED <<chain, best, mined, db, lastScanned, late>>,
           S = IF kind = "revoked" THEN Revoked ELSE Votable,
           start = IF kind = "outcomes" /\ lastScanned # 0 THEN lastScanned
                   ELSE EarliestPurchaseHeight(S) + TicketMaturity
    PROVE  ScanInv'
<1>1. /\ scan' \in Scan
      /\ scan'.kind = kind /\ scan'.start = start /\ scan'.height = start
      /\ scan'.end = Len(chain) /\ scan'.toCheck = S /\ scan'.spent = {}
      /\ scan'.tickets \in Bijection(1 .. Cardinality(S), S)
  BY StartScanType DEF ScanInv
<1> DEFINE list == scan'.tickets
<1>2. /\ \A i \in DOMAIN list : list[i] \in S
      /\ \A i, j \in DOMAIN list : list[i] = list[j] => i = j
      /\ \A t \in S : \E i \in DOMAIN list : list[i] = t
  <2>1. list \in Bijection(1 .. Cardinality(S), S)
    BY <1>1
  <2> HIDE DEF list
  <2> QED
    BY <2>1, ListIsSequence
<1>3. ChainTrue' /\ SpentOnce' /\ BlockTrue' /\ FoundTrue' /\ RevokedFound'
  BY <1>1 DEF ScanInv, ChainTrue, SpentOnce, Legal, FoundAt, BlockTrue, FoundTrue, RevokedFound
<1>4. ScanFor'
  <2>1. scan'.toCheck = IF scan'.kind = "revoked" THEN Revoked' ELSE Votable'
    BY <1>1 DEF Revoked, Votable
  <2>2. ASSUME ~ (kind = "outcomes" /\ lastScanned # 0), NEW t \in S, db[t].PurchaseHeight # 0
        PROVE  start <= PurchasedAt[t] + TicketMaturity
    <3>1. EarliestPurchaseHeight(S) <= db[t].PurchaseHeight /\ EarliestPurchaseHeight(S) \in Nat
      BY <2>2, EarliestIsLeast DEF ScanInv, TypeInv
    <3>2. db[t].PurchaseHeight = PurchasedAt[t] /\ PurchasedAt[t] \in Nat
      BY <2>2, ScanAssumption DEF ScanInv, TypeInv, HeightsStored
    <3> QED
      BY <2>2, <3>1, <3>2, ScanAssumption
  <2> QED
    BY <1>1, <2>1, <2>2 DEF ScanFor
<1>5. Listed'
  BY <1>1, <1>2 DEF Listed
<1>6. NotYet'
  <2>1. start \in Nat /\ scan'.end \in Nat
    BY <1>1 DEF Scan
  <2>2. \A h \in scan'.start .. scan'.end - 1 : ~ (h < scan'.height)
    BY <1>1, <2>1
  <2> QED
    BY <2>2 DEF NotYet
<1>7. NoneSkipped'
  <2>1. Votable' = Votable
    BY DEF Votable
  <2> QED
    BY <2>1, FewerVotable
<1> QED
  BY <1>3, <1>4, <1>5, <1>6, <1>7 DEF ScanInv

\* The two places a scan starts at.
LEMMA StartStep ==
    ASSUME ScanInv, CheckRevoked \/ SetOutcomes
    PROVE  ScanInv'
<1>1. TypeInv' /\ TypeInv
  BY CheckRevokedType, SetOutcomesType DEF ScanInv
<1>2. UNCHANGED <<chain, best, mined, db, lastScanned, late>>
  BY DEF CheckRevoked, SetOutcomes, external
<1>3. CASE SetOutcomes
  <2>1. /\ pc = "idle" /\ pc' = "scan" /\ ScanStart(Votable) <= Len(chain)
        /\ StartScan("outcomes", Votable, ScanStart(Votable))
    BY <1>3 DEF SetOutcomes
  <2>2. Votable \in SUBSET Tickets /\ ScanStart(Votable) \in Nat \ {0}
    BY <1>1, ScanStartHeight DEF Votable
  <2>3. ScanStart(Votable) = IF "outcomes" = "outcomes" /\ lastScanned # 0 THEN lastScanned
                             ELSE EarliestPurchaseHeight(Votable) + TicketMaturity
    BY DEF ScanStart
  <2> QED
    BY <1>1, <1>2, <2>1, <2>2, <2>3, ScanStarts
<1>4. CASE CheckRevoked
  <2> DEFINE start == EarliestPurchaseHeight(Revoked) + TicketMaturity
  <2>1. Revoked \in SUBSET Tickets /\ start \in Nat \ {0} /\ pc = "heights"
    BY <1>1, <1>4, ScanStartHeight DEF Revoked, CheckRevoked
  <2>2. CASE start <= Len(chain) /\ StartScan("revoked", Revoked, start) /\ pc' = "scan"
    <3> HIDE DEF start
    <3>1. start = IF "revoked" = "outcomes" /\ lastScanned # 0 THEN lastScanned
                  ELSE EarliestPurchaseHeight(Revoked) + TicketMaturity
      BY DEF start
    <3> QED
      BY <1>1, <1>2, <2>1, <2>2, <3>1, ScanStarts
  <2>3. CASE pc' = "idle"
    <3>1. lastScanned' = 0
      BY <1>1, <1>2, <2>1 DEF TypeInv, Phases
    <3> QED
      BY <1>1, <1>2, <2>3, <3>1, NoScanRuns, NothingBelow DEF ScanInv
  <2> QED
    BY <1>4, <2>2, <2>3 DEF CheckRevoked
<1> QED
  BY <1>3, <1>4

\* What a step within a scan keeps.
LEMMA WithinScan ==
    ASSUME ScanInv, TypeInv', pc \in {"scan", "block"}, pc' \in {"scan", "block"},
           UNCHANGED <<chain, best, mined, db, lastScanned, late>>,
           scan'.kind = scan.kind, scan'.start = scan.start, scan'.end = scan.end,
           scan'.toCheck = scan.toCheck
    PROVE  ChainTrue' /\ SpentOnce' /\ ScanFor' /\ RevokedFound' /\ NoneSkipped'
<1>1. Votable' = Votable /\ Revoked' = Revoked
  BY DEF Votable, Revoked
<1>2. NoneSkipped'
  BY <1>1, FewerVotable
<1>3. ScanFor'
  BY <1>1 DEF ScanInv, ScanFor
<1>4. ChainTrue' /\ SpentOnce'
  BY DEF ScanInv, ChainTrue, SpentOnce, Legal, FoundAt, FoundAt
<1>5. RevokedFound'
  BY DEF RevokedFound
<1> QED
  BY <1>2, <1>3, <1>4, <1>5

\* A scan that has found nothing new.
LEMMA SameFound ==
    ASSUME ScanInv, TypeInv', pc \in {"scan", "block"}, pc' \in {"scan", "block"},
           UNCHANGED <<chain, best, mined, db, lastScanned, late>>,
           scan'.kind = scan.kind, scan'.start = scan.start, scan'.end = scan.end,
           scan'.toCheck = scan.toCheck, scan'.tickets = scan.tickets,
           scan'.spent = scan.spent
    PROVE  FoundTrue' /\ Listed'
<1>1. Listed'
  BY DEF ScanInv, Listed
<1>2. FoundTrue'
  BY DEF ScanInv, FoundTrue, Legal, SpentAt
<1> QED
  BY <1>1, <1>2

\* A block that the filter does not match has no spend of a ticket in the list.
LEMMA SkipBlockStep == ASSUME ScanInv, SkipBlock PROVE ScanInv'
<1>1. TypeInv' /\ TypeInv
  BY SkipBlockType DEF ScanInv
<1>2. scan \in Scan /\ scan' = [scan EXCEPT !.height = @ + 1]
      /\ pc = "scan" /\ pc' = "scan" /\ ~ MustMatch(chain[scan.height])
      /\ UNCHANGED <<chain, best, mined, db, lastScanned, late>>
  BY <1>1 DEF SkipBlock, external, TypeInv, ScanTypeOK
<1>3. scan'.height = scan.height + 1 /\ scan'.kind = scan.kind /\ scan'.toCheck = scan.toCheck
      /\ scan'.start = scan.start /\ scan'.end = scan.end /\ scan'.spent = scan.spent
      /\ scan'.tickets = scan.tickets
  BY <1>2 DEF Scan
<1>4. scan.height \in Nat /\ scan.start \in Nat /\ scan.end \in Nat
  BY <1>1, ScanFields
<1>5. NotYet'
  <2> SUFFICES ASSUME NEW i \in DOMAIN scan.tickets, NEW h \in scan.start .. scan.end - 1,
                      h < scan.height + 1
               PROVE  ~ SpentAt(scan.tickets[i], h)
    BY <1>2, <1>3 DEF NotYet, SpentAt
  <2>1. CASE h < scan.height
    BY <1>2, <2>1 DEF ScanInv, NotYet
  <2>2. CASE h = scan.height
    <3>1. i \in DOMAIN scan.scripts /\ scan.scripts[i] = ScriptOf[scan.tickets[i]]
      <4>1. scan.scripts \in Seq(Scripts) /\ scan.tickets \in Seq(Tickets)
        BY <1>2 DEF Scan
      <4>2. DOMAIN scan.scripts = DOMAIN scan.tickets
        BY <1>1, <4>1 DEF TypeInv, ParallelSlices
      <4> QED
        BY <1>1, <4>2 DEF TypeInv, ParallelSlices
    <3> QED
      BY <1>2, <2>2, <3>1 DEF MustMatch, SpentAt
  <2> QED
    BY <1>4, <2>1, <2>2
<1>6. BlockTrue'
  BY <1>2 DEF BlockTrue
<1> QED
  BY <1>1, <1>2, <1>3, <1>5, <1>6, WithinScan, SameFound DEF ScanInv

\* The block at hand is as true as the chain it is from.
LEMMA GetBlockStep == ASSUME ScanInv, GetBlock PROVE ScanInv'
<1>1. TypeInv' /\ TypeInv
  BY GetBlockType DEF ScanInv
<1>2. scan \in Scan /\ scan' = [scan EXCEPT !.block = chain[scan.height], !.i = 1]
      /\ pc = "scan" /\ pc' = "block" /\ scan.height <= Len(chain)
      /\ UNCHANGED <<chain, best, mined, db, lastScanned, late>>
  BY <1>1 DEF GetBlock, external, TypeInv, ScanTypeOK
<1>3. scan'.height = scan.height /\ scan'.kind = scan.kind /\ scan'.toCheck = scan.toCheck
      /\ scan'.start = scan.start /\ scan'.end = scan.end /\ scan'.spent = scan.spent
      /\ scan'.tickets = scan.tickets /\ scan'.block = chain[scan.height] /\ scan'.i = 1
  BY <1>2 DEF Scan
<1>4. scan.height \in DOMAIN chain /\ DOMAIN scan.tickets = 1 .. Len(scan.tickets)
  BY <1>1, <1>2, Heights, ScanFields DEF TypeInv, Phases
<1>5. NotYet'
  <2>1. \A i \in DOMAIN scan.tickets : ~ (i < 1)
    BY <1>4
  <2>2. \A i \in DOMAIN scan.tickets : \A h \in scan.start .. scan.end - 1 :
            h < scan.height => ~ SpentAt(scan.tickets[i], h)
    BY <1>2 DEF ScanInv, NotYet
  <2> QED
    BY <1>2, <1>3, <2>1, <2>2 DEF NotYet, SpentAt
<1>6. BlockTrue'
  <2>1. \A s \in chain[scan.height] : FoundAt(s, scan.height) \in mined /\ Legal(s, scan.height)
    BY <1>4 DEF ScanInv, ChainTrue
  <2>2. \A s, u \in chain[scan.height] : s.t = u.t => s = u
    BY <1>4 DEF ScanInv, SpentOnce
  <2> QED
    BY <1>2, <1>3, <2>1, <2>2 DEF BlockTrue, Legal, FoundAt
<1> QED
  BY <1>1, <1>2, <1>3, <1>5, <1>6, WithinScan, SameFound DEF ScanInv

\* The block at hand is one of the chain: every ticket left passed it.
LEMMA NextBlockStep == ASSUME ScanInv, NextBlock PROVE ScanInv'
<1>1. TypeInv' /\ TypeInv
  BY NextBlockType DEF ScanInv
<1>2. scan \in Scan
      /\ scan' = [scan EXCEPT !.height = IF AllFound THEN scan.end + 1 ELSE @ + 1]
      /\ pc = "block" /\ pc' = "scan" /\ scan.i > Len(scan.tickets)
      /\ UNCHANGED <<chain, best, mined, db, lastScanned, late>>
  BY <1>1 DEF NextBlock, external, TypeInv, ScanTypeOK
<1>3. scan'.kind = scan.kind /\ scan'.toCheck = scan.toCheck
      /\ scan'.start = scan.start /\ scan'.end = scan.end /\ scan'.spent = scan.spent
      /\ scan'.tickets = scan.tickets
      /\ scan'.height = IF AllFound THEN scan.end + 1 ELSE scan.height + 1
  BY <1>2 DEF Scan
<1>4. scan.height \in Nat /\ scan.start \in Nat /\ scan.end \in Nat /\ scan.i \in Nat
      /\ DOMAIN scan.tickets = 1 .. Len(scan.tickets) /\ Len(scan.tickets) \in Nat
  BY <1>1, ScanFields
<1>5. NotYet'
  <2> SUFFICES ASSUME NEW i \in DOMAIN scan.tickets, NEW h \in scan.start .. scan.end - 1,
                      h < scan'.height
               PROVE  ~ SpentAt(scan.tickets[i], h)
    BY <1>2, <1>3 DEF NotYet, SpentAt
  <2>0. scan'.height = scan.height + 1
    <3>1. scan.tickets # << >>
      BY <1>4
    <3> QED
      BY <1>3, <3>1 DEF AllFound
  <2>1. CASE h < scan.height
    BY <1>2, <2>1 DEF ScanInv, NotYet
  <2>2. CASE h = scan.height
    <3>1. scan.block = chain[h]
      BY <1>2, <1>4, <2>2 DEF ScanInv, BlockTrue
    <3>2. i < scan.i
      BY <1>2, <1>4
    <3> QED
      BY <1>2, <3>1, <3>2 DEF ScanInv, NotYet, SpentAt
  <2> QED
    BY <1>4, <2>0, <2>1, <2>2
<1>6. BlockTrue'
  BY <1>2 DEF BlockTrue
<1> QED
  BY <1>1, <1>2, <1>3, <1>5, <1>6, WithinScan, SameFound DEF ScanInv

\* The next ticket, or one that is found: it is the only one that leaves the list.
LEMMA CheckTicketStep == ASSUME ScanInv, CheckTicket PROVE ScanInv'
<1>1. TypeInv' /\ TypeInv
  BY CheckTicketType DEF ScanInv
<1>2. /\ pc = "block" /\ pc' = "block" /\ scan.i <= Len(scan.tickets)
      /\ UNCHANGED <<chain, best, mined, db, lastScanned, late>>
      /\ scan \in Scan
  BY <1>1, CheckTicketCases DEF TypeInv, ScanTypeOK
<1>3. /\ scan.height \in Nat /\ scan.start \in Nat /\ scan.end \in Nat /\ scan.i \in Nat
      /\ DOMAIN scan.tickets = 1 .. Len(scan.tickets) /\ Len(scan.tickets) \in Nat
      /\ scan.start <= scan.height /\ scan.height <= scan.end /\ 0 < scan.i
  BY <1>1, <1>2, ScanFields DEF TypeInv, Phases
<1>4. CASE /\ \A s \in scan.block : s.t # scan.tickets[scan.i]
           /\ scan' = [scan EXCEPT !.i = @ + 1]
  <2>1. scan'.kind = scan.kind /\ scan'.toCheck = scan.toCheck
        /\ scan'.start = scan.start /\ scan'.end = scan.end /\ scan'.spent = scan.spent
        /\ scan'.tickets = scan.tickets /\ scan'.height = scan.height
        /\ scan'.block = scan.block /\ scan'.i = scan.i + 1
    BY <1>2, <1>4 DEF Scan
  <2>2. NotYet'
    <3>1. \A i \in DOMAIN scan.tickets : i < scan.i + 1 =>
              \A s \in scan.block : s.t # scan.tickets[i]
      <4> SUFFICES ASSUME NEW i \in DOMAIN scan.tickets, i < scan.i + 1, NEW s \in scan.block
                   PROVE  s.t # scan.tickets[i]
        OBVIOUS
      <4>1. CASE i < scan.i
        BY <1>2, <4>1 DEF ScanInv, NotYet
      <4>2. CASE i = scan.i
        BY <1>4, <4>2
      <4> QED
        BY <1>3, <4>1, <4>2
    <3>2. \A i \in DOMAIN scan.tickets : \A h \in scan.start .. scan.end - 1 :
              h < scan.height => ~ SpentAt(scan.tickets[i], h)
      BY <1>2 DEF ScanInv, NotYet
    <3> QED
      BY <1>2, <2>1, <3>1, <3>2 DEF NotYet, SpentAt
  <2>3. BlockTrue'
    BY <1>2, <2>1 DEF ScanInv, BlockTrue, Legal, FoundAt
  <2> QED
    BY <1>1, <1>2, <2>1, <2>2, <2>3, WithinScan, SameFound DEF ScanInv
<1>5. ASSUME NEW s \in scan.block, s.t = scan.tickets[scan.i], scan' = FoundOne(s)
      PROVE  ScanInv'
  <2> DEFINE new == [t |-> s.t, how |-> s.how, height |-> scan.height]
             n == Len(scan.tickets)
             list == nonOrderPreservingRemove(scan.tickets, scan.i)
  <2>1. scan' = [scan EXCEPT
                !.tickets = list,
                !.scripts = nonOrderPreservingRemove(scan.scripts, scan.i),
                !.spent = scan.spent \union {new}]
        /\ scan.i \in 1 .. n
    BY <1>1, <1>2, <1>5, FoundOneForm
  <2>2. /\ scan'.kind = scan.kind /\ scan'.toCheck = scan.toCheck
        /\ scan'.start = scan.start /\ scan'.end = scan.end
        /\ scan'.height = scan.height /\ scan'.block = scan.block /\ scan'.i = scan.i
        /\ scan'.tickets = list /\ scan'.spent = scan.spent \union {new}
    BY <1>2, <2>1 DEF Scan
  <2>3. scan.tickets \in Seq(Tickets)
    BY <1>2 DEF Scan
  <2>4. /\ DOMAIN list = 1 .. n - 1
        /\ \A j \in 1 .. n - 1 :
              list[j] = IF j = scan.i THEN scan.tickets[n] ELSE scan.tickets[j]
    BY <2>1, <2>3, RemoveIsSequence
  <2>5. new.t = s.t /\ new.how = s.how /\ new.height = scan.height
    OBVIOUS
  <2>6. /\ s \in Spend /\ [t |-> s.t, how |-> s.how] = s /\ [t |-> new.t, how |-> new.how] = s
        /\ FoundAt(s, scan.height) = new
    BY <1>1, ScanFields DEF Spend, FoundAt
  <2> HIDE DEF new, list
  <2>7. \A j \in DOMAIN list : \E k \in DOMAIN scan.tickets :
            /\ list[j] = scan.tickets[k] /\ k # scan.i
            /\ j < scan.i => k = j
    <3> SUFFICES ASSUME NEW j \in 1 .. n - 1
                 PROVE  \E k \in 1 .. n : /\ list[j] = scan.tickets[k] /\ k # scan.i
                                          /\ j < scan.i => k = j
      BY <1>3, <2>4
    <3>1. CASE j = scan.i
      <4>1. n \in 1 .. n /\ list[j] = scan.tickets[n] /\ n # scan.i /\ ~ (j < scan.i)
        BY <1>3, <2>4, <3>1
      <4> QED
        BY <4>1
    <3>2. CASE j # scan.i
      <4>1. j \in 1 .. n /\ list[j] = scan.tickets[j]
        BY <1>3, <2>4, <3>2
      <4> QED
        BY <3>2, <4>1
    <3> QED
      BY <3>1, <3>2
  <2>8. /\ \A i \in DOMAIN scan.tickets : scan.tickets[i] \in scan.toCheck
        /\ \A i, j \in DOMAIN scan.tickets : scan.tickets[i] = scan.tickets[j] => i = j
        /\ \A u, v \in scan.spent : u.t = v.t => u = v
        /\ \A i \in DOMAIN scan.tickets, u \in scan.spent : u.t # scan.tickets[i]
        /\ \A t \in scan.toCheck : \/ \E i \in DOMAIN scan.tickets : scan.tickets[i] = t
                                   \/ \E u \in scan.spent : u.t = t
    BY <1>2 DEF ScanInv, Listed
  <2>9. scan.i \in DOMAIN scan.tickets
    BY <1>3, <2>1
  <2>10. Listed'
    <3>1. \A j \in DOMAIN list : list[j] \in scan.toCheck
      BY <2>7, <2>8
    <3>2. ASSUME NEW i \in DOMAIN list, NEW j \in DOMAIN list, list[i] = list[j] PROVE i = j
      <4>1. i \in 1 .. n - 1 /\ j \in 1 .. n - 1 /\ n \in 1 .. n /\ i # n /\ j # n
        BY <1>3, <2>4
      <4>2. \A p, q \in 1 .. n : scan.tickets[p] = scan.tickets[q] => p = q
        BY <1>3, <2>8
      <4>3. i \in 1 .. n /\ j \in 1 .. n
        BY <1>3, <4>1
      <4>4. CASE i # scan.i /\ j # scan.i
        BY <2>4, <3>2, <4>1, <4>2, <4>3, <4>4
      <4>5. CASE i = scan.i /\ j # scan.i
        BY <2>4, <3>2, <4>1, <4>2, <4>3, <4>5
      <4>6. CASE i # scan.i /\ j = scan.i
        BY <2>4, <3>2, <4>1, <4>2, <4>3, <4>6
      <4> QED
        BY <4>4, <4>5, <4>6
    <3>3. ASSUME NEW u \in scan.spent \union {new}, NEW v \in scan.spent \union {new}, u.t = v.t
          PROVE  u = v
      BY <1>5, <2>5, <2>8, <2>9, <3>3
    <3>4. ASSUME NEW i \in DOMAIN list, NEW u \in scan.spent \union {new} PROVE u.t # list[i]
      BY <1>5, <2>5, <2>7, <2>8, <2>9
    <3>5. ASSUME NEW t \in scan.toCheck
          PROVE  \/ \E i \in DOMAIN list : list[i] = t
                 \/ \E u \in scan.spent \union {new} : u.t = t
      <4>1. CASE \E u \in scan.spent : u.t = t
        BY <4>1
      <4>2. ASSUME NEW i \in DOMAIN scan.tickets, scan.tickets[i] = t
            PROVE  \/ \E j \in DOMAIN list : list[j] = t
                   \/ \E u \in scan.spent \union {new} : u.t = t
        <5>1. CASE i = scan.i
          BY <1>5, <2>5, <4>2, <5>1
        <5>2. CASE i # scan.i /\ i < n
          <6>1. i \in 1 .. n - 1 /\ list[i] = t
            BY <1>3, <2>4, <4>2, <5>2
          <6> QED
            BY <2>4, <6>1
        <5>3. CASE i # scan.i /\ i = n
          <6>1. scan.i \in 1 .. n - 1 /\ list[scan.i] = t
            BY <1>3, <2>1, <2>4, <4>2, <5>3
          <6> QED
            BY <2>4, <6>1
        <5> QED
          BY <1>3, <5>1, <5>2, <5>3
      <4> QED
        BY <2>8, <4>1, <4>2
    <3> QED
      BY <2>2, <3>1, <3>2, <3>3, <3>4, <3>5 DEF Listed
  <2>11. \A h \in scan.start .. scan.end - 1 : h < scan.height =>
            \A i \in DOMAIN scan.tickets : ~ SpentAt(scan.tickets[i], h)
    BY <1>2 DEF ScanInv, NotYet
  <2>12. NotYet'
    <3>1. ASSUME NEW j \in DOMAIN list, NEW h \in scan.start .. scan.end - 1, h < scan.height
          PROVE  ~ SpentAt(list[j], h)
      BY <2>7, <2>11, <3>1 DEF SpentAt
    <3>2. ASSUME NEW j \in DOMAIN list, j < scan.i, NEW u \in scan.block
          PROVE  u.t # list[j]
      <4>1. j \in DOMAIN scan.tickets /\ list[j] = scan.tickets[j]
        BY <2>7, <3>2
      <4> QED
        BY <1>2, <3>2, <4>1 DEF ScanInv, NotYet
    <3> QED
      BY <1>2, <2>2, <3>1, <3>2 DEF NotYet, SpentAt
  <2>13. BlockTrue'
    BY <1>2, <2>2 DEF ScanInv, BlockTrue, Legal, FoundAt
  <2>14. FoundTrue'
    <3>1. /\ FoundAt(s, scan.height) \in mined /\ Legal(s, scan.height)
          /\ scan.height < scan.end => s \in chain[scan.height]
      BY <1>2 DEF ScanInv, BlockTrue
    <3>2. Legal(new, new.height)
      BY <2>5, <3>1 DEF Legal
    <3>3. \A h \in scan.start .. scan.end - 1 : h < new.height => ~ SpentAt(new.t, h)
      BY <1>5, <2>5, <2>9, <2>11 DEF SpentAt
    <3>4. ASSUME NEW u \in scan.spent \union {new}
          PROVE  /\ u \in mined
                 /\ Legal(u, u.height)
                 /\ scan.start <= u.height /\ u.height <= scan.end
                 /\ u.height < scan.end => [t |-> u.t, how |-> u.how] \in chain[u.height]
                 /\ \A h \in scan.start .. scan.end - 1 : h < u.height => ~ SpentAt(u.t, h)
      <4>1. CASE u \in scan.spent
        BY <4>1 DEF ScanInv, FoundTrue
      <4>2. CASE u = new
        BY <1>3, <2>5, <2>6, <3>1, <3>2, <3>3, <4>2
      <4> QED
        BY <4>1, <4>2
    <3> QED
      BY <1>2, <2>2, <3>4 DEF FoundTrue, Legal, SpentAt
  <2> QED
    BY <1>1, <1>2, <2>2, <2>10, <2>12, <2>13, <2>14, WithinScan DEF ScanInv
<1> QED
  BY <1>4, <1>5, CheckTicketCases, <1>1

\* All that is spent below the last block is among what was found, if the scan
\* started early enough, and if not, the ticket is late.
LEMMA FinishScanStep == ASSUME ScanInv, FinishScan PROVE ScanInv'
<1>1. TypeInv' /\ TypeInv
  BY FinishScanType DEF ScanInv
<1>2. /\ pc = "scan" /\ pc' = "save" /\ scan.height > scan.end
      /\ UNCHANGED <<chain, best, mined, db, scan, late>>
      /\ lastScanned' = IF scan.kind = "outcomes" THEN scan.end ELSE lastScanned
  BY DEF FinishScan, ScannedTo, external
<1>3. /\ scan.height \in Nat /\ scan.start \in Nat /\ scan.end \in Nat
      /\ 0 < scan.start /\ scan.end <= best /\ lastScanned \in Nat
      /\ DOMAIN chain = 1 .. Len(chain) /\ Len(chain) \in Nat
  BY <1>1, <1>2, ScanFields, Heights
<1>4. Votable' = Votable /\ Revoked' = Revoked
  BY <1>2 DEF Votable, Revoked
<1>5. ASSUME NEW t \in scan.toCheck, NEW h \in DOMAIN chain, h < scan.end, scan.start <= h,
             SpentAt(t, h)
      PROVE  \E s \in scan.spent : s.t = t /\ s.height <= h
  <2>1. h \in scan.start .. scan.end - 1 /\ h < scan.height /\ h \in Nat
    BY <1>2, <1>3, <1>5
  <2>2. \A i \in DOMAIN scan.tickets : scan.tickets[i] # t
    BY <1>2, <1>5, <2>1 DEF ScanInv, NotYet
  <2>3. PICK s \in scan.spent : s.t = t
    BY <1>2, <2>2 DEF ScanInv, Listed
  <2>4. ~ (h < s.height) /\ s.height \in Nat
    BY <1>1, <1>5, <2>1, <2>3, ScanFields DEF ScanInv, FoundTrue, Found
  <2> QED
    BY <2>1, <2>3, <2>4
<1>6. ASSUME NEW t \in scan.toCheck, db[t].PurchaseHeight # 0,
             scan.kind = "revoked" \/ lastScanned = 0,
             NEW h \in DOMAIN chain, SpentAt(t, h)
      PROVE  scan.start <= h
  <2>1. scan.start <= PurchasedAt[t] + TicketMaturity
    BY <1>2, <1>6 DEF ScanInv, ScanFor
  <2>2. t \in Tickets /\ PurchasedAt[t] \in Nat
    BY <1>1, ScanFields, ScanAssumption
  <2>3. PurchasedAt[t] + TicketMaturity < h
    BY <1>6 DEF ScanInv, ChainTrue, Legal, SpentAt
  <2> QED
    BY <1>3, <2>1, <2>2, <2>3, ScanAssumption
<1>7. RevokedFound'
  <2> SUFFICES ASSUME scan.kind = "revoked", NEW t \in Revoked, db[t].PurchaseHeight # 0,
                      RevokedBelow(t, scan.end)
               PROVE  \E s \in scan.spent : s.t = t /\ s.how # "voted"
    BY <1>2, <1>4 DEF RevokedFound, RevokedBelow
  <2>1. t \in scan.toCheck
    BY <1>2 DEF ScanInv, ScanFor
  <2>2. PICK h \in DOMAIN chain : h < scan.end /\ \E s \in chain[h] : s.t = t /\ s.how # "voted"
    BY <1>3 DEF RevokedBelow
  <2>3. PICK r \in chain[h] : r.t = t /\ r.how # "voted"
    BY <2>2
  <2>4. SpentAt(t, h)
    BY <2>3 DEF SpentAt
  <2>5. scan.start <= h
    BY <1>6, <2>1, <2>4
  <2>6. PICK s \in scan.spent : s.t = t /\ s.height <= h
    BY <1>5, <2>1, <2>2, <2>4, <2>5
  <2>7. s.height \in Nat /\ scan.start <= s.height
    BY <1>1, ScanFields DEF Found, ScanInv, FoundTrue
  <2>8. s.height < scan.end
    BY <1>3, <2>2, <2>6, <2>7
  <2>9. s.height \in DOMAIN chain /\ [t |-> s.t, how |-> s.how] \in chain[s.height]
    BY <1>3, <2>6, <2>7, <2>8 DEF ScanInv, FoundTrue
  <2>10. [t |-> s.t, how |-> s.how] = r
    BY <2>3, <2>6, <2>9 DEF ScanInv, SpentOnce
  <2> QED
    BY <2>3, <2>6, <2>10
<1>8. NoneSkipped'
  <2> SUFFICES ASSUME NEW t \in Votable, db[t].PurchaseHeight # 0, SpentBelow(t, lastScanned)'
               PROVE  \/ t \in late
                      \/ scan.kind = "outcomes" /\ \E s \in scan.spent : s.t = t
    BY <1>2, <1>4 DEF NoneSkipped
  <2>1. CASE scan.kind # "outcomes"
    <3>1. SpentBelow(t, lastScanned)
      BY <1>2, <2>1 DEF SpentBelow, SpentAt
    <3> QED
      BY <1>2, <3>1 DEF ScanInv, NoneSkipped
  <2>2. CASE scan.kind = "outcomes"
    <3>1. PICK h \in DOMAIN chain : h < scan.end /\ SpentAt(t, h)
      BY <1>2, <1>3, <2>2 DEF SpentBelow, SpentAt
    <3>2. t \in scan.toCheck
      BY <1>2, <2>2 DEF ScanInv, ScanFor
    <3>3. CASE scan.start <= h
      BY <1>5, <2>2, <3>1, <3>2, <3>3
    <3>4. CASE ~ (scan.start <= h)
      <4>1. lastScanned # 0
        BY <1>6, <3>1, <3>2, <3>4
      <4>2. scan.start = lastScanned
        BY <1>2, <2>2, <4>1 DEF ScanInv, ScanFor
      <4>3. SpentBelow(t, lastScanned)
        BY <1>3, <3>1, <3>4, <4>2 DEF SpentBelow
      <4> QED
        BY <1>2, <4>3 DEF ScanInv, NoneSkipped
    <3> QED
      BY <3>3, <3>4
  <2> QED
    BY <2>1, <2>2
<1>9. ChainTrue' /\ SpentOnce' /\ FoundTrue'
  BY <1>2 DEF ScanInv, ChainTrue, SpentOnce, FoundTrue, Legal, FoundAt, SpentAt
<1>10. BlockTrue' /\ ScanFor' /\ Listed' /\ NotYet'
  BY <1>2 DEF BlockTrue, ScanFor, Listed, NotYet
<1> QED
  BY <1>1, <1>7, <1>8, <1>9, <1>10 DEF ScanInv

\* The outcome is inferred from the height as it is from the transaction, unless
\* the ticket missed its vote at its expiry height.
LEMMA OutcomeInferred ==
    ASSUME ScanInv, NEW s \in scan.spent, db[s.t].PurchaseHeight # 0
    PROVE  \/ s.how = OutcomeOf(s)
           \/ /\ s.how = "missed" /\ OutcomeOf(s) = "expired"
              /\ s.height = ExpiryHeight(PurchasedAt[s.t])
<1>1. /\ s.t \in Tickets /\ s.how \in {"voted", "missed", "expired"} /\ s.height \in Nat
      /\ scan.end \in Nat
  BY ScanFields DEF Found, ScanInv
<1>2. db[s.t].PurchaseHeight = PurchasedAt[s.t]
  BY <1>1 DEF ScanInv, TypeInv, HeightsStored
<1>3. Legal(s, s.height)
  BY DEF ScanInv, FoundTrue
<1> DEFINE expiryHeight == ExpiryHeight(PurchasedAt[s.t])
<1>4. expiryHeight \in Nat
  BY <1>1, ScanAssumption DEF ExpiryHeight
<1>5. missed(s) <=> s.height < expiryHeight \/ s.height > expiryHeight + 1
  BY <1>2 DEF missed
<1>6. IF s.how = "expired" THEN s.height = expiryHeight ELSE s.height <= expiryHeight
  BY <1>3 DEF Legal
<1> HIDE DEF expiryHeight
<1>7. s.how = "missed" => OutcomeOf(s) = "missed" \/ s.height = expiryHeight
  BY <1>1, <1>4, <1>5, <1>6 DEF OutcomeOf
<1> QED
  BY <1>1, <1>4, <1>5, <1>6, <1>7 DEF OutcomeOf, expiryHeight

\* A saved outcome is not needed among what was found any more.
LEMMA SaveOutcomeStep == ASSUME ScanInv, NEW s \in scan.spent, SaveOutcome(s) PROVE ScanInv'
<1>1. TypeInv' /\ TypeInv
  BY SaveOutcomeType DEF ScanInv
<1>2. /\ pc = "save" /\ pc' = "save" /\ UNCHANGED <<chain, best, mined, lastScanned, late>>
      /\ db' = IF scan.kind = "revoked" /\ s.how = "voted"
               THEN db ELSE [db EXCEPT ![s.t].Outcome = OutcomeOf(s)]
      /\ scan \in Scan /\ scan' = [scan EXCEPT !.spent = @ \ {s}]
      /\ db \in [Tickets -> Record]
  BY <1>1 DEF SaveOutcome, external, TypeInv, ScanTypeOK
<1>3. scan'.kind = scan.kind /\ scan'.start = scan.start /\ scan'.end = scan.end
      /\ scan'.spent = scan.spent \ {s}
  BY <1>2 DEF Scan
<1>4. OutcomeOf(s) \in {"voted", "missed", "expired"}
  BY <1>1, ScanFields DEF OutcomeOf
<1>5. s.t \in Tickets
  BY <1>1, ScanFields DEF Found
<1>6. \A t \in Tickets : /\ db'[t].PurchaseHeight = db[t].PurchaseHeight
                         /\ db'[t].FeeConfirmed = db[t].FeeConfirmed
                         /\ db'[t].Outcome = db[t].Outcome \/ t = s.t
  BY <1>2, <1>5 DEF Record
<1>7. \/ scan.kind = "revoked" /\ s.how = "voted"
      \/ db'[s.t].Outcome = OutcomeOf(s)
  BY <1>2, <1>5 DEF Record
<1>8. Votable' \subseteq Votable /\ Revoked' \subseteq Revoked
  <2>1. \A t \in Tickets : db'[t].Outcome \in {"", "revoked"} => db'[t].Outcome = db[t].Outcome
    BY <1>2, <1>4, <1>6, <1>7
  <2> QED
    BY <1>6, <2>1 DEF Votable, Revoked
<1>9. RevokedFound'
  <2> SUFFICES ASSUME scan.kind = "revoked", NEW t \in Revoked', db'[t].PurchaseHeight # 0,
                      RevokedBelow(t, scan.end)
               PROVE  \E u \in scan.spent \ {s} : u.t = t /\ u.how # "voted"
    BY <1>2, <1>3 DEF RevokedFound, RevokedBelow
  <2>1. t \in Tickets /\ t \in Revoked /\ db[t].PurchaseHeight # 0
    BY <1>6, <1>8 DEF Revoked
  <2>2. PICK u \in scan.spent : u.t = t /\ u.how # "voted"
    BY <1>2, <2>1 DEF ScanInv, RevokedFound
  <2>3. u # s
    BY <1>4, <1>7, <2>2 DEF Revoked
  <2> QED
    BY <2>2, <2>3
<1>10. NoneSkipped'
  <2> SUFFICES ASSUME NEW t \in Votable', db'[t].PurchaseHeight # 0, SpentBelow(t, lastScanned)
               PROVE  \/ t \in late
                      \/ scan.kind = "outcomes" /\ \E u \in scan.spent \ {s} : u.t = t
    BY <1>2, <1>3 DEF NoneSkipped, SpentBelow, SpentAt
  <2>1. t \in Tickets /\ t \in Votable /\ db[t].PurchaseHeight # 0
    BY <1>6, <1>8 DEF Votable
  <2>2. ASSUME scan.kind = "outcomes", NEW u \in scan.spent, u.t = t PROVE u # s
    BY <1>4, <1>7, <2>2 DEF Votable
  <2> QED
    BY <2>1, <2>2 DEF ScanInv, NoneSkipped
<1>11. ChainTrue' /\ SpentOnce' /\ FoundTrue'
  BY <1>2, <1>3 DEF ScanInv, ChainTrue, SpentOnce, FoundTrue, Legal, FoundAt, SpentAt
<1>12. BlockTrue' /\ ScanFor' /\ Listed' /\ NotYet'
  BY <1>2 DEF BlockTrue, ScanFor, Listed, NotYet
<1> QED
  BY <1>1, <1>9, <1>10, <1>11, <1>12 DEF ScanInv

\* Every step keeps the invariant.
LEMMA ScanStep == ScanInv /\ [Next]_vars => ScanInv'
<1> SUFFICES ASSUME ScanInv, [Next]_vars PROVE ScanInv'
  OBVIOUS
<1>1. CASE UNCHANGED vars
  <2>1. TypeInv'
    BY <1>1, TypeStep DEF ScanInv
  <2>2. UNCHANGED <<chain, best, mined, db, pc, lastScanned, scan, late>>
    BY <1>1 DEF vars, external
  <2>3. Votable' = Votable /\ Revoked' = Revoked
    BY <2>2 DEF Votable, Revoked
  <2>4. ChainTrue' /\ SpentOnce' /\ BlockTrue' /\ FoundTrue'
    BY <2>2 DEF ScanInv, ChainTrue, SpentOnce, BlockTrue, FoundTrue, Legal, FoundAt, SpentAt
  <2>5. ScanFor' /\ Listed' /\ NotYet'
    BY <2>2, <2>3 DEF ScanInv, ScanFor, Listed, NotYet, SpentAt
  <2>6. RevokedFound' /\ NoneSkipped'
    BY <2>2, <2>3 DEF ScanInv, RevokedFound, NoneSkipped, SpentBelow, RevokedBelow, SpentAt
  <2> QED
    BY <2>1, <2>4, <2>5, <2>6 DEF ScanInv
<1>2. CASE Run
  BY <1>2, IntegrityStep, StartStep, EndStep, SkipBlockStep, GetBlockStep, CheckTicketStep,
     NextBlockStep, FinishScanStep, SaveOutcomeStep DEF Run
<1> QED
  BY <1>1, <1>2, ChainStep, RecordsStep, EndStep DEF Next

\* The scan finds every spend below the last block: each of its tickets has
\* been found, once, or is still looked for and not spent in what was scanned.
THEOREM ScanCompleteCorrect == Spec => []ScanComplete
<1>1. ScanInv => ScanComplete
  <2> SUFFICES ASSUME ScanInv, pc \in {"scan", "block"}, NEW t \in scan.toCheck
               PROVE  LET found == {s \in scan.spent : s.t = t}
                          places == {i \in DOMAIN scan.tickets : scan.tickets[i] = t}
                      IN  \/ places = {} /\ \E s \in found : found = {s}
                          \/ /\ found = {} /\ \E i \in places : places = {i}
                             /\ \A h \in scan.start .. scan.end - 1 :
                                  h < scan.height /\ h \in DOMAIN chain => ~ SpentAt(t, h)
    BY DEF ScanComplete
  <2> DEFINE found == {s \in scan.spent : s.t = t}
             places == {i \in DOMAIN scan.tickets : scan.tickets[i] = t}
  <2>1. ASSUME NEW i \in DOMAIN scan.tickets, scan.tickets[i] = t
        PROVE  /\ found = {} /\ places = {i}
               /\ \A h \in scan.start .. scan.end - 1 :
                      h < scan.height /\ h \in DOMAIN chain => ~ SpentAt(t, h)
    <3>1. found = {}
      BY <2>1 DEF ScanInv, Listed
    <3>2. places = {i}
      BY <2>1 DEF ScanInv, Listed
    <3> QED
      BY <2>1, <3>1, <3>2 DEF ScanInv, NotYet
  <2>2. ASSUME NEW s \in scan.spent, s.t = t
        PROVE  places = {} /\ found = {s}
    BY <2>2 DEF ScanInv, Listed
  <2>3. \/ \E i \in DOMAIN scan.tickets : scan.tickets[i] = t
        \/ \E s \in scan.spent : s.t = t
    BY DEF ScanInv, Listed
  <2>4. CASE \E i \in DOMAIN scan.tickets : scan.tickets[i] = t
    <3>1. PICK i \in DOMAIN scan.tickets : scan.tickets[i] = t
      BY <2>4
    <3>2. i \in places
      BY <3>1
    <3> QED
      BY <2>1, <3>1, <3>2
  <2>5. CASE \E s \in scan.spent : s.t = t
    <3>1. PICK s \in scan.spent : s.t = t
      BY <2>5
    <3>2. s \in found
      BY <3>1
    <3> QED
      BY <2>2, <3>1, <3>2
  <2> QED
    BY <2>3, <2>4, <2>5
<1> QED
  BY <1>1, ScanInvInit, ScanStep, PTL DEF Spec

\* No spend of a votable ticket falls between two scans.
THEOREM NoneSkippedCorrect == Spec => []NoneSkipped
<1>1. ScanInv => NoneSkipped
  BY DEF ScanInv
<1> QED
  BY <1>1, ScanInvInit, ScanStep, PTL DEF Spec

\* No ticket is left recorded as revoked whose revocation was scanned.
THEOREM RevokedReplacedCorrect == Spec => []RevokedReplaced
<1>1. ScanInv => RevokedReplaced
  BY DEF ScanInv, RevokedFound, RevokedReplaced
<1> QED
  BY <1>1, ScanInvInit, ScanStep, PTL DEF Spec

\* Every outcome saved, for a ticket whose purchase height is known, is what
\* happened to the ticket on the main chain, but that a ticket that missed its
\* vote at its expiry height is recorded as expired.
THEOREM OutcomeCorrect == Spec => OutcomeJustified
<1> DEFINE Justified(t) ==
        \E s \in mined :
            /\ s.t = t
            /\ \/ s.how = db'[t].Outcome
               \/ /\ s.how = "missed" /\ db'[t].Outcome = "expired"
                  /\ s.height = ExpiryHeight(PurchasedAt[t])
<1>1. ScanInv /\ [Next]_vars =>
        [\A t \in Tickets : pc = "save" /\ db[t].PurchaseHeight # 0
                           /\ db'[t].Outcome # db[t].Outcome => Justified(t)]_vars
  <2> SUFFICES ASSUME ScanInv, Next, NEW t \in Tickets, pc = "save",
                      db[t].PurchaseHeight # 0, db'[t].Outcome # db[t].Outcome
               PROVE  Justified(t)
    OBVIOUS
  <2>1. PICK s \in scan.spent : SaveOutcome(s)
    BY DEF Next, Run, Mine, Undo, OldVersion, ConfirmFee, StartIntegrityCheck,
           FixPurchaseHeight, CheckRevoked, SetOutcomes, FailScan, SkipBlock, GetBlock,
           CheckTicket, NextBlock, FinishScan, OutcomesSaved, Crash, external
  <2>2. db' = db \/ db' = [db EXCEPT ![s.t].Outcome = OutcomeOf(s)]
    BY <2>1 DEF SaveOutcome
  <2>3. db \in [Tickets -> Record]
    BY DEF ScanInv, TypeInv, ScanTypeOK
  <2>4. t = s.t /\ db'[t].Outcome = OutcomeOf(s)
    BY <2>2, <2>3 DEF Record
  <2>5. \/ s.how = OutcomeOf(s)
        \/ /\ s.how = "missed" /\ OutcomeOf(s) = "expired"
           /\ s.height = ExpiryHeight(PurchasedAt[s.t])
    BY <2>4, OutcomeInferred
  <2>6. s \in mined
    BY DEF ScanInv, FoundTrue
  <2> QED
    BY <2>4, <2>5, <2>6
<1> QED
  BY <1>1, ScanInvInit, ScanStep, PTL DEF Spec, OutcomeJustified
=============================================================================
