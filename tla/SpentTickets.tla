---------------------------- MODULE SpentTickets ----------------------------
(***************************************************************************)
(* How vspm finds out what became of the tickets it votes for, with block  *)
(* heights: findSpentTickets, which scans the chain for the transactions   *)
(* that spend tickets, setOutcomes, which runs it after every block and    *)
(* saves the outcomes, and the integrity check at the start, which repairs *)
(* records of older versions and uses the same scan.                       *)
(*                                                                         *)
(* All of it runs in the goroutine of Run, and every RPC call goes to a    *)
(* chain that grows, and whose best block may be replaced, in between.  No *)
(* other goroutine writes the fields kept here, except with a stale copy   *)
(* of the whole record; what that does is modelled in Vspm.                *)
(*                                                                         *)
(* DCP-0009 is active: a ticket that misses its vote is revoked in the     *)
(* block it should have voted in, and one that was never called in the     *)
(* block at its expiry height, where the last votes and misses are too.    *)
(***************************************************************************)
EXTENDS Naturals, Sequences, FiniteSets, Functions

CONSTANTS
    Tickets,         \* tickets of the database
    PurchasedAt,     \* height of the block with the purchase of each
    Scripts,         \* payment scripts of commitment addresses
    ScriptOf,        \* the one of each ticket; tickets may share it
    TicketMaturity,  \* of the network
    TicketExpiry,    \* of the network
    MaxReorg,        \* how many blocks a reorganization undoes, at most
    OldTickets,      \* tickets an older version may have recorded
    Fates,           \* bound: what may become of each ticket
    MaxHeight,       \* bound: height of the chain
    MaxForks,        \* bound: blocks undone
    MaxFaults,       \* bound: RPC calls that fail
    MaxCrashes       \* bound: crashes and shutdowns

ASSUME ScanAssumption ==
    /\ PurchasedAt \in [Tickets -> Nat \ {0}]
    /\ ScriptOf \in [Tickets -> Scripts]
    /\ IsFiniteSet(Tickets)
    /\ TicketMaturity \in Nat \ {0} /\ TicketExpiry \in Nat \ {0}
    /\ MaxReorg \in {0, 1}   \* lastScannedBlock is scanned again, no other
    /\ OldTickets \subseteq Tickets
    /\ Fates \in [Tickets -> SUBSET {"voted", "missed", "expired"}]

VARIABLES
    chain,       \* the main chain: what each block spends
    best,        \* its greatest height so far
    db,          \* the tickets
    pc,          \* the goroutine of Run
    fixing,      \* tickets left of GetMissingPurchaseHeight
    lastScanned, \* lastScannedBlock
    scan,        \* the local variables of findSpentTickets and its caller
    forks, faults, crashes,
    \* History.
    mined,       \* all that was ever spent in a block of the main chain, with heights
    late         \* tickets whose fee was confirmed when it was too late

external == <<chain, best, mined, forks>>
vars == <<external, db, pc, fixing, lastScanned, scan, faults, crashes, late>>

ExpiryHeight(purchase) == purchase + TicketMaturity + TicketExpiry

\* What a stake transaction does to a ticket.  The program sees whether it is
\* a vote; that it revokes a missed or an expired ticket is not in it.
Spend == [t : Tickets, how : {"voted", "missed", "expired"}]

\* PurchaseHeight, whether the fee is confirmed, and the outcome; "revoked" is
\* the outcome older versions stored.
Record == [PurchaseHeight : Nat, FeeConfirmed : BOOLEAN,
           Outcome : {"", "voted", "missed", "expired", "revoked"}]

\* A ticket found to be spent.
Found == [t : Tickets, how : {"voted", "missed", "expired"}, height : Nat]

FoundAt(s, h) == [t |-> s.t, how |-> s.how, height |-> h]

\* The local variables of findSpentTickets, and for whom it runs.
Scan == [kind : {"none", "revoked", "outcomes"}, start : Nat, height : Nat, end : Nat,
         block : SUBSET Spend, i : Nat, toCheck : SUBSET Tickets,
         tickets : Seq(Tickets), scripts : Seq(Scripts), spent : SUBSET Found]

NoScan == [kind |-> "none", start |-> 0, height |-> 0, end |-> 0, block |-> {}, i |-> 0,
           toCheck |-> {}, tickets |-> << >>, scripts |-> << >>, spent |-> {}]

Fault == faults < MaxFaults /\ faults' = faults + 1

-----------------------------------------------------------------------------
(* The chain                                                               *)

SpentAt(t, h) == \E s \in chain[h] : s.t = t

Unspent(t) == \A h \in 1 .. Len(chain) : ~ SpentAt(t, h)

SpentBelow(t, n) == \E h \in 1 .. Len(chain) : h < n /\ SpentAt(t, h)

RevokedBelow(t, n) ==
    \E h \in 1 .. Len(chain) : h < n /\ \E s \in chain[h] : s.t = t /\ s.how # "voted"

\* May a block at height h have the spend s?
Legal(s, h) ==
    /\ PurchasedAt[s.t] + TicketMaturity < h
    /\ IF s.how = "expired" THEN h = ExpiryHeight(PurchasedAt[s.t])
                            ELSE h <= ExpiryHeight(PurchasedAt[s.t])

LegalSpends ==
    {s \in Spend : Unspent(s.t) /\ s.how \in Fates[s.t] /\ Legal(s, Len(chain) + 1)}

Mine(block) ==
    LET h == Len(chain) + 1
    IN  /\ h <= MaxHeight
        /\ \A s1, s2 \in block : s1.t = s2.t => s1 = s2
        /\ \A t \in Tickets : h = ExpiryHeight(PurchasedAt[t]) /\ Unspent(t)
                                  => \E s \in block : s.t = t
        /\ chain' = Append(chain, block)
        /\ best' = IF h > best THEN h ELSE best
        /\ mined' = mined \union {FoundAt(s, h) : s \in block}
        /\ UNCHANGED <<db, pc, fixing, lastScanned, scan, forks, faults, crashes, late>>

\* The best block is undone, and another one will be mined.
Undo ==
    /\ forks < MaxForks /\ forks' = forks + 1
    /\ Len(chain) > 0 /\ Len(chain) + MaxReorg > best
    /\ chain' = SubSeq(chain, 1, Len(chain) - 1)
    /\ UNCHANGED <<best, mined, db, pc, fixing, lastScanned, scan, faults, crashes, late>>

-----------------------------------------------------------------------------
(* What else changes the records: the older version vspm was upgraded      *)
(* from, which might not store a purchase height and did not tell missed   *)
(* from expired, and addToWallets, in the goroutine of Run.                *)

\* requiredConfs is more than any reorganization undoes.
CanConfirm(t) == ~ db[t].FeeConfirmed /\ PurchasedAt[t] < Len(chain)

OldVersion(t) ==
    /\ pc = "down" /\ crashes = 0
    /\ t \in OldTickets /\ CanConfirm(t)
    /\ \E height \in {0, PurchasedAt[t]}, outcome \in {"", "revoked"} :
        /\ outcome = "revoked" => RevokedBelow(t, Len(chain) + 1)
        /\ db' = [db EXCEPT ![t] = [PurchaseHeight |-> height, FeeConfirmed |-> TRUE,
                                    Outcome |-> outcome]]
    /\ UNCHANGED <<external, pc, fixing, lastScanned, scan, faults, crashes, late>>

\* The purchase of t, and its fee, are confirmed: the ticket becomes votable.  It is late if a
\* spend of it is below the block the next scan starts at.
ConfirmFee(t) ==
    /\ pc = "idle" /\ CanConfirm(t)
    /\ db' = [db EXCEPT ![t].FeeConfirmed = TRUE, ![t].PurchaseHeight = PurchasedAt[t]]
    /\ late' = IF SpentBelow(t, lastScanned) THEN late \union {t} ELSE late
    /\ UNCHANGED <<external, pc, fixing, lastScanned, scan, faults, crashes>>

-----------------------------------------------------------------------------
(* findSpentTickets                                                        *)

\* Faulty variant: the latest one.
LatestPurchaseHeight(S) ==
    LET heights == {db[t].PurchaseHeight : t \in S} \ {0}
    IN  IF heights = {} THEN 0 ELSE CHOOSE h \in heights : \A g \in heights : g <= h

EarliestPurchaseHeight(S) ==
    LET heights == {db[t].PurchaseHeight : t \in S} \ {0}
    IN  IF heights = {} THEN 0 ELSE CHOOSE h \in heights : \A g \in heights : h <= g

\* Start at height start with the tickets of S, in the order of the database;
\* end is the height of the best block.
StartScan(kind, S, start) ==
    \E list \in Bijection(1 .. Cardinality(S), S) :
        scan' = [kind |-> kind, start |-> start, height |-> start, end |-> Len(chain),
                 block |-> {}, i |-> 0, toCheck |-> S, tickets |-> list,
                 scripts |-> [i \in DOMAIN list |-> ScriptOf[list[i]]], spent |-> {}]

\* MatchAny finds every block with a spend that pays one of the scripts; it may
\* find others.
MustMatch(block) ==
    \E s \in block, i \in DOMAIN scan.scripts : ScriptOf[s.t] = scan.scripts[i]

EndScan == pc' = "idle" /\ scan' = NoScan

\* Faulty variant: the blocks of a failed scan are not scanned again.
FailScanMovesOn ==
    /\ pc = "scan" /\ scan.height <= scan.end
    /\ \/ scan.height > Len(chain) /\ UNCHANGED faults
       \/ Fault
    /\ EndScan
    /\ lastScanned' = scan.end
    /\ UNCHANGED <<external, db, fixing, crashes, late>>

\* A call fails, or the block is not in the chain any more: nothing of what was
\* found is kept.
FailScan ==
    /\ pc = "scan" /\ scan.height <= scan.end
    /\ \/ scan.height > Len(chain) /\ UNCHANGED faults
       \/ Fault
    /\ EndScan
    /\ UNCHANGED <<external, db, fixing, lastScanned, crashes, late>>

SkipBlock ==
    /\ pc = "scan" /\ scan.height <= scan.end /\ scan.height <= Len(chain)
    /\ ~ MustMatch(chain[scan.height])
    /\ scan' = [scan EXCEPT !.height = @ + 1]
    /\ UNCHANGED <<external, db, pc, fixing, lastScanned, faults, crashes, late>>

\* The filter matches: get the block.
GetBlock ==
    /\ pc = "scan" /\ scan.height <= scan.end /\ scan.height <= Len(chain)
    /\ pc' = "block"
    /\ scan' = [scan EXCEPT !.block = chain[scan.height], !.i = 1]
    /\ UNCHANGED <<external, db, fixing, lastScanned, faults, crashes, late>>

nonOrderPreservingRemove(s, i) ==
    [j \in 1 .. Len(s) - 1 |-> IF j = i THEN s[Len(s)] ELSE s[j]]

\* Faulty variant: the script stays.
RemoveTicketOnly(sc) ==
    [sc EXCEPT !.tickets = nonOrderPreservingRemove(@, sc.i)]

RemoveCurrent(sc) ==
    [sc EXCEPT !.tickets = nonOrderPreservingRemove(@, sc.i),
               !.scripts = nonOrderPreservingRemove(@, sc.i)]

\* Is tickets[i] spent in the block?  After its removal another ticket is at i.
CheckTicket ==
    /\ pc = "block" /\ scan.i <= Len(scan.tickets)
    /\ LET spends == {s \in scan.block : s.t = scan.tickets[scan.i]}
       IN  \/ /\ spends = {}
              /\ scan' = [scan EXCEPT !.i = @ + 1]
           \/ \E s \in spends :
                scan' = [RemoveCurrent(scan) EXCEPT !.spent =
                    @ \union {FoundAt(s, scan.height)}]
    /\ UNCHANGED <<external, db, pc, fixing, lastScanned, faults, crashes, late>>

\* Faulty variant: the scan stops when it has found something.
AnyFound == scan.spent # {}

AllFound == scan.tickets = << >>

\* On to the next block, unless every ticket has been found.
NextBlock ==
    /\ pc = "block" /\ scan.i > Len(scan.tickets)
    /\ pc' = "scan"
    /\ scan' = [scan EXCEPT !.height = IF AllFound THEN scan.end + 1 ELSE @ + 1]
    /\ UNCHANGED <<external, db, fixing, lastScanned, faults, crashes, late>>

-----------------------------------------------------------------------------
(* checkDatabaseIntegrity, once, when vspm has started                     *)

Revoked == {t \in Tickets : db[t].Outcome = "revoked"}

\* Nothing else is checked when mond cannot be reached.
StartIntegrityCheck ==
    /\ pc = "down"
    /\ LET missing == {t \in Tickets : db[t].FeeConfirmed /\ db[t].PurchaseHeight = 0}
       IN  \/ fixing' = missing /\ pc' = "heights" /\ UNCHANGED faults
           \/ missing # {} /\ fixing' = {} /\ pc' = "idle" /\ Fault
    /\ UNCHANGED <<external, db, lastScanned, scan, crashes, late>>

\* checkPurchaseHeights: the height of the block the ticket is in.
FixPurchaseHeight(t) ==
    /\ pc = "heights" /\ t \in fixing
    /\ fixing' = fixing \ {t}
    /\ \/ db' = [db EXCEPT ![t].PurchaseHeight = PurchasedAt[t]] /\ UNCHANGED faults
       \/ UNCHANGED db /\ Fault
    /\ UNCHANGED <<external, pc, lastScanned, scan, crashes, late>>

\* checkRevoked: scan from the height at which the first of them matured.
CheckRevoked ==
    /\ pc = "heights" /\ fixing = {}
    /\ LET start == EarliestPurchaseHeight(Revoked) + TicketMaturity
       IN  \/ /\ Revoked # {} /\ start <= Len(chain)
              /\ StartScan("revoked", Revoked, start)
              /\ pc' = "scan" /\ UNCHANGED faults
           \/ /\ Revoked = {} \/ start > Len(chain)
              /\ pc' = "idle" /\ UNCHANGED <<scan, faults>>
           \/ Revoked # {} /\ pc' = "idle" /\ UNCHANGED scan /\ Fault
    /\ UNCHANGED <<external, db, fixing, lastScanned, crashes, late>>

-----------------------------------------------------------------------------
(* setOutcomes, in every update                                            *)

Votable == {t \in Tickets : db[t].FeeConfirmed /\ db[t].Outcome = ""}

\* Faulty variant: the last scanned block is not scanned again.
ScanStartAfter(S) ==
    IF lastScanned = 0 THEN EarliestPurchaseHeight(S) + TicketMaturity ELSE lastScanned + 1

\* The height at which the first votable ticket matured, or lastScannedBlock.
ScanStart(S) ==
    IF lastScanned = 0 THEN EarliestPurchaseHeight(S) + TicketMaturity ELSE lastScanned

\* Nothing is done when there is nothing to scan, or a call fails.
SetOutcomes ==
    /\ pc = "idle" /\ Votable # {} /\ ScanStart(Votable) <= Len(chain)
    /\ StartScan("outcomes", Votable, ScanStart(Votable))
    /\ pc' = "scan"
    /\ UNCHANGED <<external, db, fixing, lastScanned, faults, crashes, late>>

\* Faulty variant: where the loop ended.
LoopEnd == scan.height

ScannedTo == scan.end

\* lastScannedBlock moves on before any outcome is saved.
FinishScan ==
    /\ pc = "scan" /\ scan.height > scan.end
    /\ pc' = "save"
    /\ lastScanned' = IF scan.kind = "outcomes" THEN ScannedTo ELSE lastScanned
    /\ UNCHANGED <<external, db, fixing, scan, faults, crashes, late>>

\* Faulty variant: off by one.
missedAtExpiry(s) ==
    LET expiryHeight == ExpiryHeight(db[s.t].PurchaseHeight)
    IN  s.height <= expiryHeight \/ s.height > expiryHeight + 1

\* A revocation before the expiry height is of a missed ticket, at it or at the
\* next height probably not.
missed(s) ==
    LET expiryHeight == ExpiryHeight(db[s.t].PurchaseHeight)
    IN  s.height < expiryHeight \/ s.height > expiryHeight + 1

OutcomeOf(s) ==
    IF s.how = "voted" THEN "voted" ELSE IF missed(s) THEN "missed" ELSE "expired"

\* A vote for a ticket recorded as revoked is logged, and not saved.
SaveOutcome(s) ==
    /\ pc = "save" /\ s \in scan.spent
    /\ db' = IF scan.kind = "revoked" /\ s.how = "voted"
             THEN db ELSE [db EXCEPT ![s.t].Outcome = OutcomeOf(s)]
    /\ scan' = [scan EXCEPT !.spent = @ \ {s}]
    /\ UNCHANGED <<external, pc, fixing, lastScanned, faults, crashes, late>>

OutcomesSaved ==
    /\ pc = "save" /\ scan.spent = {}
    /\ EndScan
    /\ UNCHANGED <<external, db, fixing, lastScanned, faults, crashes, late>>

\* The process ends, and is started again later.
Crash ==
    /\ pc # "down" /\ crashes < MaxCrashes /\ crashes' = crashes + 1
    /\ pc' = "down" /\ fixing' = {} /\ lastScanned' = 0 /\ scan' = NoScan
    /\ late' = {}
    /\ UNCHANGED <<external, db, faults>>

-----------------------------------------------------------------------------
Init ==
    /\ chain = << >> /\ best = 0
    /\ db = [t \in Tickets |-> [PurchaseHeight |-> 0, FeeConfirmed |-> FALSE, Outcome |-> ""]]
    /\ pc = "down" /\ fixing = {} /\ lastScanned = 0 /\ scan = NoScan
    /\ forks = 0 /\ faults = 0 /\ crashes = 0
    /\ mined = {} /\ late = {}

Run ==
    \/ StartIntegrityCheck
    \/ \E t \in Tickets : FixPurchaseHeight(t)
    \/ CheckRevoked
    \/ SetOutcomes
    \/ FailScan \/ SkipBlock \/ GetBlock \/ CheckTicket \/ NextBlock \/ FinishScan
    \/ \E s \in scan.spent : SaveOutcome(s)
    \/ OutcomesSaved

Next ==
    \/ \E block \in SUBSET LegalSpends : Mine(block)
    \/ Undo
    \/ \E t \in Tickets : OldVersion(t) \/ ConfirmFee(t)
    \/ Run
    \/ Crash

Spec == Init /\ [][Next]_vars

-----------------------------------------------------------------------------
ScanState == {"down", "heights", "idle", "scan", "block", "save"}

\* The state has the form the operators assume.
ScanTypeOK ==
    /\ chain \in Seq(SUBSET Spend)
    /\ best \in Nat
    /\ db \in [Tickets -> Record]
    /\ pc \in ScanState
    /\ fixing \subseteq Tickets
    /\ lastScanned \in 0 .. best
    /\ scan \in Scan
    /\ forks \in Nat /\ faults \in Nat /\ crashes \in Nat
    /\ mined \subseteq Found
    /\ late \subseteq Tickets

\* tickets[i] and scripts[i] stay of the same ticket however many are removed
\* (the 1-to-1 mapping that nonOrderPreservingRemove promises).
ParallelSlices ==
    /\ Len(scan.scripts) = Len(scan.tickets)
    /\ \A i \in DOMAIN scan.tickets : scan.scripts[i] = ScriptOf[scan.tickets[i]]

\* Until its outcomes are saved, a scan has found, once, or still looks for,
\* once, each of its tickets, and it has found every ticket spent in a block
\* it is done with.  The last block may be replaced while it is scanned.
ScanComplete ==
    pc \in {"scan", "block"} =>
        \A t \in scan.toCheck :
            LET found == {s \in scan.spent : s.t = t}
                places == {i \in DOMAIN scan.tickets : scan.tickets[i] = t}
            IN  \/ places = {} /\ \E s \in found : found = {s}
                \/ /\ found = {} /\ \E i \in places : places = {i}
                   /\ \A h \in scan.start .. scan.end - 1 :
                        h < scan.height /\ h \in DOMAIN chain => ~ SpentAt(t, h)

\* No spend of a votable ticket falls between two scans: it is at or above
\* lastScannedBlock, or about to be saved.  The exceptions are the tickets
\* that became votable too late, and those whose purchase height is missing.
NoneSkipped ==
    \A t \in Votable :
        db[t].PurchaseHeight # 0 /\ SpentBelow(t, lastScanned) =>
            \/ t \in late
            \/ pc = "save" /\ scan.kind = "outcomes" /\ \E s \in scan.spent : s.t = t

\* The outcome recorded for a ticket with a purchase height is what a transaction
\* of the main chain did to the ticket, for a vote and for a missed ticket without
\* fail.  "expired", a guess from the heights (spentticket.go:31-35), may be
\* recorded of a missed ticket, but only of one revoked at its expiry height.
OutcomeJustified ==
    [][\A t \in Tickets :
        pc = "save" /\ db[t].PurchaseHeight # 0 /\ db'[t].Outcome # db[t].Outcome
        => \E s \in mined :
             /\ s.t = t
             /\ \/ s.how = db'[t].Outcome
                \/ /\ s.how = "missed" /\ db'[t].Outcome = "expired"
                   /\ s.height = ExpiryHeight(PurchasedAt[t])]_vars

\* When checkRevoked is done, no ticket recorded as revoked is left whose
\* revocation is below the best block and whose purchase height is known.
RevokedReplaced ==
    pc = "save" /\ scan.kind = "revoked" /\ scan.spent = {} =>
        \A t \in Revoked : db[t].PurchaseHeight # 0 => ~ RevokedBelow(t, scan.end)

-----------------------------------------------------------------------------
(* Liveness.  A block starts an update, and blocks keep arriving, those of *)
(* the model or others; RPC calls return.                                  *)

FairSpec == Spec /\ WF_vars(Run)

\* A ticket that was votable in time and is spent gets its outcome, whatever
\* calls fail, unless a reorganization undoes the spend.
SpentRecorded ==
    \A t \in Tickets :
        (t \in Votable \ late /\ db[t].PurchaseHeight # 0 /\ ~ Unspent(t))
            ~> (t \notin Votable \/ Unspent(t))
=============================================================================
