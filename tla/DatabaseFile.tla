---------------------------- MODULE DatabaseFile ----------------------------
(***************************************************************************)
(* The database file, with the formats older versions of vspm left in it:  *)
(* who opens it, the upgrades Open runs, the backups, and the end of a     *)
(* process, by shutdown or crash.                                          *)
(*                                                                         *)
(* bbolt locks the open file against other processes; a transaction is     *)
(* kept or undone as a whole, and a read transaction sees the state it     *)
(* began in.  vspm runs with goroutines that change the database, one that *)
(* writes backups, and the shutdown in the end.                            *)
(***************************************************************************)
EXTENDS Naturals

CONSTANTS
    Processes,       \* vspm and vspmadmin, started any number of times
    Tickets, SignKeys, XPubs,
    None,            \* no such file, no such entry, nobody
    Empty,           \* a file with no bucket in it
    Broken,          \* a backup that is not complete
    Torn,            \* what a copy may hold that two processes had a hand in
    Records,         \* ticket records that requests and the update loop save
    OldFiles,        \* what older versions may have left
    MaxCommits,      \* bound: transactions, upgrades apart
    MaxID,           \* bound: ID of an extended public key
    MaxIndex,        \* bound: address index
    MaxFaults,       \* bound: disk operations that fail
    MaxCrashes       \* bound: processes killed

VARIABLES
    file,    \* vspm.db: None, Empty or a Content
    temp,    \* the temporary file of a backup, with what is copied to it
    backup,  \* vspm.db-backup
    holder,  \* the process that has the file open
    proc,    \* the processes
    shared,  \* those not alone: since they closed the file another one had it open or was ending
    commits, faults, crashes

vars == <<file, temp, backup, holder, proc, shared, commits, faults, crashes>>

latestVersion == 5

XPubIDs == 0 .. MaxID

\* A ticket in the bucket of tickets, a JSON string or a bucket of its own; a
\* nil map of vote choices is stored as "null".
Ticket == [form : {"json", "bucket"}, FeeTxStatus : {"none", "confirmed"},
           FeeTxHex : {"", "hex"}, VoteChoices : {"null", "{}", "choices"},
           FeeAddressXPubID : {None} \union XPubIDs]

FeeXPub == [Key : XPubs, LastUsedIdx : Nat, Retired : BOOLEAN]

\* What the buckets of all versions hold; a key that is not there has None.
Content ==
    [version : Nat, privatekey : SignKeys, ticketbkt : [Tickets -> {None} \union Ticket],
     altsigbkt : {None} \union SUBSET Tickets, feeXPub : XPubs \union {None},
     lastaddressindex : Nat \union {None}, xpubbkt : [XPubIDs -> {None} \union FeeXPub]]

\* A copy of the file, in part or done.
Copy == [content : Content \union {Torn}, done : BOOLEAN]

\* The same as a Content, without what differs between versions.
LogicalContent ==
    [signKey : SignKeys,
     tickets : [Tickets -> {None} \union
                    [FeeTxStatus : {"none", "confirmed"}, FeeTxHex : {"", "hex"},
                     VoteChoices : {"{}", "choices"}, FeeAddressXPubID : {None} \union XPubIDs]],
     altSigs : SUBSET Tickets, xpubs : [XPubIDs -> {None} \union FeeXPub]]

Proc == [kind : {"vspm", "retirexpub", "createdatabase"},
         pc : {"down", "create", "created", "open", "retire", "running", "stopping",
               "copy", "copying", "rename"},
         version : Nat,   \* of the upgrades left to run
         hot : {"waiting", "copying", "rename", "returned"}]

Down == [kind |-> "vspm", pc |-> "down", version |-> 0, hot |-> "waiting"]

At(p, pc) == proc[p].pc = pc

Go(p, pc) == proc' = [proc EXCEPT ![p].pc = pc]

Hot(p, hot) == proc' = [proc EXCEPT ![p].hot = hot]

\* The process ends, and with it the lock.
Exit(p) ==
    /\ proc' = [proc EXCEPT ![p] = Down]
    /\ holder' = IF holder = p THEN None ELSE holder
    /\ shared' = shared \ {p}

Fault == faults < MaxFaults /\ faults' = faults + 1

\* A transaction, not of an upgrade, that leaves content c.
Update(c) ==
    /\ commits < MaxCommits /\ commits' = commits + 1
    /\ file' = c

-----------------------------------------------------------------------------
(* What Open does to a file of an older version                            *)

\* A nil map is read as an empty one.
bytesToStringMap(m) == IF m = "null" THEN "{}" ELSE m

DropOldFeeTx(r) ==
    IF r # None /\ r.FeeTxStatus = "confirmed" THEN [r EXCEPT !.FeeTxHex = ""] ELSE r

removeOldFeeTx(c) ==
    [c EXCEPT !.ticketbkt = [t \in Tickets |-> DropOldFeeTx(@[t])], !.version = 2]

MoveToBucket(r) ==
    IF r # None THEN [r EXCEPT !.form = "bucket", !.FeeAddressXPubID = 0] ELSE r

ticketBucket(c) ==
    [c EXCEPT !.ticketbkt = [t \in Tickets |-> MoveToBucket(@[t])], !.version = 3]

\* Faulty variant: the version stays.
altSignAddrUnversioned(c) == [c EXCEPT !.altsigbkt = {}]

altSignAddr(c) == [c EXCEPT !.altsigbkt = {}, !.version = 4]

NewXPub(x, idx) == [Key |-> x, LastUsedIdx |-> idx, Retired |-> FALSE]

\* Faulty variant: an xpub that was never used has no index.
storedIndexOrNil(c) == c.lastaddressindex

storedIndex(c) == IF c.lastaddressindex = None THEN 0 ELSE c.lastaddressindex

SetFirstXPub(r) == IF r # None THEN [r EXCEPT !.FeeAddressXPubID = 0] ELSE r

xPubBucket(c) ==
    [c EXCEPT !.feeXPub = None, !.lastaddressindex = None,
              !.xpubbkt[0] = NewXPub(c.feeXPub, storedIndex(c)),
              !.ticketbkt = [t \in Tickets |-> SetFirstXPub(@[t])],
              !.version = 5]

\* CreateBucket fails when there is one.
CanUpgrade(version, c) ==
    CASE version = 3 -> c.altsigbkt = None
      [] version = 4 -> c.feeXPub # None
      [] OTHER -> TRUE

Upgrade(version, c) ==
    CASE version = 1 -> removeOldFeeTx(c)
      [] version = 2 -> ticketBucket(c)
      [] version = 3 -> altSignAddr(c)
      [] version = 4 -> xPubBucket(c)

\* A file has the form that programs of its version read.
WellFormed(c) ==
    /\ c.version \in 1 .. latestVersion + 1
    /\ \A t \in Tickets :
        LET r == c.ticketbkt[t]
        IN  r # None => /\ r.form = IF c.version < 3 THEN "json" ELSE "bucket"
                        /\ IF c.version < 5 THEN r.FeeAddressXPubID \in {None, 0}
                           ELSE r.FeeAddressXPubID # None /\ c.xpubbkt[r.FeeAddressXPubID] # None
    /\ c.altsigbkt = None <=> c.version < 4
    /\ c.feeXPub = None <=> c.version >= 5
    /\ c.version >= 5 => c.lastaddressindex = None
    /\ IF c.version < 5 THEN \A i \in XPubIDs : c.xpubbkt[i] = None
       ELSE \E last \in XPubIDs : \A i \in XPubIDs :
                /\ c.xpubbkt[i] # None <=> i <= last
                /\ i <= last => (c.xpubbkt[i].Retired <=> i # last)

ASSUME FileAssumption ==
    /\ Records \subseteq Ticket /\ \A r \in Records : r.form = "bucket"
    /\ OldFiles \subseteq Content /\ \A c \in OldFiles : WellFormed(c)
    /\ {None, Empty, Torn} \intersect Content = {} /\ None # Empty
    /\ None \notin XPubs \union Nat \union Processes
    /\ \A altSigs \in SUBSET Tickets : altSigs # None
    /\ None \notin Ticket \union FeeXPub \union LogicalContent \union Copy \union {Torn}
    /\ MaxID \in Nat

-----------------------------------------------------------------------------
(* vspmadmin createdatabase                                                *)

\* It refuses when there is a file.
CreateDatabase(p) ==
    /\ At(p, "down") /\ file = None
    /\ proc' = [proc EXCEPT ![p].kind = "createdatabase", ![p].pc = "create"]
    /\ UNCHANGED <<file, temp, backup, holder, shared, commits, faults, crashes>>

\* bolt.Open makes a new file, unless another process has been faster.  It gives
\* up after a second when the file is locked.
OpenNew(p) ==
    /\ At(p, "create")
    /\ \/ /\ holder = None /\ holder' = p
          /\ file' = IF file = None THEN Empty ELSE file
          /\ Go(p, "created") /\ UNCHANGED shared
       \/ /\ holder # None
          /\ Exit(p)
          /\ UNCHANGED file
    /\ UNCHANGED <<temp, backup, commits, faults, crashes>>

NewContent(key, x) ==
    [version |-> latestVersion, privatekey |-> key, ticketbkt |-> [t \in Tickets |-> None],
     altsigbkt |-> {}, feeXPub |-> None, lastaddressindex |-> None,
     xpubbkt |-> [id \in XPubIDs |-> IF id = 0 THEN NewXPub(x, 0) ELSE None]]

\* Faulty variant: CreateBucketIfNotExists.
AnyFile == TRUE

NoBucketYet == file = Empty

\* One transaction, which fails when there is a bucket.
Initialize(p) ==
    /\ At(p, "created")
    /\ \/ /\ NoBucketYet
          /\ \E key \in SignKeys, x \in XPubs : Update(NewContent(key, x))
          /\ UNCHANGED faults
       \/ ~ NoBucketYet /\ UNCHANGED <<file, commits, faults>>
       \/ Fault /\ UNCHANGED <<file, commits>>
    /\ Exit(p)
    /\ UNCHANGED <<temp, backup, crashes>>

-----------------------------------------------------------------------------
(* Open, of vspm and of vspmadmin retirexpub                               *)

\* vspm has unlocked the file, and copies it.
Ending(p) == proc[p].pc \in {"copy", "copying", "rename"}

\* A copy of the file is Torn when the file may change while it is made.
Tear(copy) == IF copy = None THEN None ELSE [copy EXCEPT !.content = Torn]

\* The lock is all that keeps others away, so that the file may be opened while
\* a process that has unlocked it is still ending.  With an Empty file Version
\* panics, before anything is done.
Open(p, kind) ==
    /\ At(p, "down")
    /\ file \notin {None, Empty} /\ holder = None
    /\ holder' = p
    /\ proc' = [proc EXCEPT ![p] = [kind |-> kind, pc |-> "open", version |-> file.version,
                                    hot |-> "waiting"]]
    /\ shared' = shared \union {q \in Processes : Ending(q)}
    /\ temp' = IF \E q \in Processes : At(q, "copying") THEN Tear(temp) ELSE temp
    /\ UNCHANGED <<file, backup, commits, faults, crashes>>

\* The next of the upgrades, a transaction each; after an error the file is
\* closed.
RunUpgrade(p) ==
    /\ At(p, "open") /\ proc[p].version < latestVersion
    /\ \/ /\ CanUpgrade(proc[p].version, file)
          /\ file' = Upgrade(proc[p].version, file)
          /\ proc' = [proc EXCEPT ![p].version = @ + 1]
          /\ UNCHANGED <<holder, shared, faults>>
       \/ /\ IF CanUpgrade(proc[p].version, file) THEN Fault ELSE UNCHANGED faults
          /\ Exit(p) /\ UNCHANGED file
    /\ UNCHANGED <<temp, backup, commits, crashes>>

\* Faulty variant: a newer database is opened like any other.
AcceptAny(p) == TRUE

Understood(p) == proc[p].version = latestVersion

\* A database that is too new is closed again.
Opened(p) ==
    /\ At(p, "open") /\ proc[p].version >= latestVersion
    /\ IF Understood(p)
       THEN /\ Go(p, IF proc[p].kind = "vspm" THEN "running" ELSE "retire")
            /\ UNCHANGED <<holder, shared>>
       ELSE Exit(p)
    /\ UNCHANGED <<file, temp, backup, commits, faults, crashes>>

-----------------------------------------------------------------------------
(* Transactions                                                            *)

\* The key with the highest ID.
Active(id) == file.xpubbkt[id] # None /\ \A i \in XPubIDs : i > id => file.xpubbkt[i] = None

Used(x) == \E id \in XPubIDs : file.xpubbkt[id] # None /\ file.xpubbkt[id].Key = x

\* A key that was never used before replaces the active one; the process ends
\* without closing the file.
RetireXPub(p) ==
    /\ At(p, "retire")
    /\ \/ \E x \in XPubs, id \in XPubIDs :
            /\ Active(id) /\ id < MaxID
            /\ ~ Used(x)
            /\ Update([file EXCEPT !.xpubbkt = [@ EXCEPT ![id].Retired = TRUE,
                                                         ![id + 1] = NewXPub(x, 0)]])
            /\ UNCHANGED faults
       \/ (\E x \in XPubs : Used(x)) /\ UNCHANGED <<file, commits, faults>>
       \/ Fault /\ UNCHANGED <<file, commits>>
    /\ Exit(p)
    /\ UNCHANGED <<temp, backup, crashes>>

\* A handler may go on after the web server has been shut down for 10 seconds,
\* until the database is closed.
Serving(p) == proc[p].pc \in {"running", "stopping"}

\* InsertNewTicket, with the active key, and UpdateTicket.
PutTicket ==
    \E t \in Tickets, id \in XPubIDs, r \in Records :
        /\ IF file.ticketbkt[t] = None THEN Active(id)
                                       ELSE id = file.ticketbkt[t].FeeAddressXPubID
        /\ Update([file EXCEPT !.ticketbkt[t] = [r EXCEPT !.FeeAddressXPubID = id]])

DeleteTicket ==
    \E t \in Tickets : file.ticketbkt[t] # None /\ Update([file EXCEPT !.ticketbkt[t] = None])

InsertAltSignAddr ==
    \E t \in Tickets \ file.altsigbkt :
        Update([file EXCEPT !.altsigbkt = @ \union {t}])

SetLastAddressIndex ==
    \E id \in XPubIDs, idx \in 0 .. MaxIndex :
        Active(id) /\ Update([file EXCEPT !.xpubbkt[id].LastUsedIdx = idx])

Write(p) ==
    /\ Serving(p)
    /\ PutTicket \/ DeleteTicket \/ InsertAltSignAddr \/ SetLastAddressIndex
    /\ UNCHANGED <<temp, backup, holder, shared, proc, faults, crashes>>

-----------------------------------------------------------------------------
(* WriteHotBackupFile, in a goroutine of vspm                              *)

\* The file is open in p.
Using(p) == proc[p].pc \in {"open", "retire", "running", "stopping"}

\* A copy of p is in the temporary file.
Copying(p) ==
    \/ proc[p].pc \in {"copying", "rename"}
    \/ Serving(p) /\ proc[p].hot \in {"copying", "rename"}

\* backupMtx is of one process: another one may write the same temporary file,
\* and may have the file open that p, ending, copies without the lock.
Disturbed(p) == \E q \in Processes \ {p} : Copying(q) \/ (Ending(p) /\ Using(q))

\* Faulty variant: a file that is there is not overwritten.
TempOnce(p) ==
    IF temp # None THEN temp
    ELSE [content |-> IF Disturbed(p) THEN Torn ELSE file, done |-> FALSE]

\* The temporary file, when p begins to copy.
NewTemp(p) == [content |-> IF Disturbed(p) THEN Torn ELSE file, done |-> FALSE]

\* Another process may have renamed it.
Finish == temp' = IF temp = None THEN None ELSE [temp EXCEPT !.done = TRUE]

\* The copy is made in a read transaction.
HotCopy(p) ==
    /\ Serving(p) /\ proc[p].hot = "waiting"
    /\ temp' = NewTemp(p)
    /\ Hot(p, "copying")
    /\ UNCHANGED <<file, backup, holder, shared, commits, faults, crashes>>

HotCopied(p) ==
    /\ Serving(p) /\ proc[p].hot = "copying"
    /\ \/ Finish /\ Hot(p, "rename") /\ UNCHANGED faults
       \/ Fault /\ Hot(p, "waiting") /\ UNCHANGED temp
    /\ UNCHANGED <<file, backup, holder, shared, commits, crashes>>

Rename ==
    \/ temp # None /\ backup' = temp /\ temp' = None /\ UNCHANGED faults
    \/ temp = None /\ UNCHANGED <<temp, backup, faults>>
    \/ Fault /\ UNCHANGED <<temp, backup>>

HotRename(p) ==
    /\ Serving(p) /\ proc[p].hot = "rename"
    /\ Rename
    /\ Hot(p, "waiting")
    /\ UNCHANGED <<file, holder, shared, commits, crashes>>

-----------------------------------------------------------------------------
(* The end of vspm                                                         *)

\* The context is cancelled.
Stop(p) ==
    /\ At(p, "running")
    /\ Go(p, "stopping")
    /\ UNCHANGED <<file, temp, backup, holder, shared, commits, faults, crashes>>

HotReturn(p) ==
    /\ At(p, "stopping") /\ proc[p].hot = "waiting"
    /\ Hot(p, "returned")
    /\ UNCHANGED <<file, temp, backup, holder, shared, commits, faults, crashes>>

\* The goroutines have returned (wg.Wait): Close ends the open transactions,
\* lets no other begin, and unlocks the file.  After an error there is no copy.
CloseDatabase(p) ==
    /\ At(p, "stopping") /\ proc[p].hot = "returned"
    /\ \/ /\ Go(p, "copy") /\ holder' = None /\ UNCHANGED faults
          /\ shared' = IF \E q \in Processes : Ending(q) THEN shared \union {p} ELSE shared
       \/ Fault /\ Exit(p)
    /\ UNCHANGED <<file, temp, backup, commits, crashes>>

\* A temporary file left by a crash is written from its start and not truncated,
\* which is the same: a bbolt file does not shrink.
CloseCopy(p) ==
    /\ At(p, "copy")
    /\ \/ temp' = NewTemp(p) /\ Go(p, "copying") /\ UNCHANGED <<holder, shared, faults>>
       \/ Fault /\ Exit(p) /\ UNCHANGED temp
    /\ UNCHANGED <<file, backup, commits, crashes>>

CloseCopied(p) ==
    /\ At(p, "copying")
    /\ \/ Finish /\ Go(p, "rename") /\ UNCHANGED <<holder, shared, faults>>
       \/ Fault /\ Exit(p) /\ UNCHANGED temp
    /\ UNCHANGED <<file, backup, commits, crashes>>

CloseRename(p) ==
    /\ At(p, "rename")
    /\ Rename
    /\ Exit(p)
    /\ UNCHANGED <<file, commits, crashes>>

Crash(p) ==
    /\ ~ At(p, "down") /\ crashes < MaxCrashes /\ crashes' = crashes + 1
    /\ Exit(p)
    /\ UNCHANGED <<file, temp, backup, commits, faults>>

-----------------------------------------------------------------------------
Init ==
    /\ file \in {None} \union OldFiles
    /\ temp = None /\ backup = None /\ holder = None /\ shared = {}
    /\ proc = [p \in Processes |-> Down]
    /\ commits = 0 /\ faults = 0 /\ crashes = 0

Next ==
    \E p \in Processes :
        \/ CreateDatabase(p)
        \/ \E kind \in {"vspm", "retirexpub"} : Open(p, kind)
        \/ OpenNew(p) \/ Initialize(p) \/ RunUpgrade(p) \/ Opened(p) \/ RetireXPub(p)
        \/ Write(p) \/ HotCopy(p) \/ HotCopied(p) \/ HotRename(p)
        \/ Stop(p) \/ HotReturn(p) \/ CloseDatabase(p)
        \/ CloseCopy(p) \/ CloseCopied(p) \/ CloseRename(p)
        \/ Crash(p)

Spec == Init /\ [][Next]_vars

-----------------------------------------------------------------------------
FileTypeOK ==
    /\ file \in {None, Empty} \/ file \in Content
    /\ \A copy \in {temp, backup} :
        copy = None \/ copy \in Copy
    /\ holder \in Processes \union {None}
    /\ proc \in [Processes -> Proc] /\ shared \subseteq Processes
    /\ commits \in Nat /\ faults \in Nat /\ crashes \in Nat

\* Whatever version a file comes from, and wherever upgrades were interrupted,
\* it has at all times the form that its version says; and transactions run on
\* the latest version only.
OpenedIsLatest ==
    /\ file \notin {None, Empty} => WellFormed(file)
    /\ \A p \in Processes :
        proc[p].pc \in {"retire", "running", "stopping"} =>
            file \notin {None, Empty} /\ file.version = latestVersion

\* The backup that vspm writes when it ends has all that was ever stored, if
\* from the moment it closes the file no other process opens it or is ending
\* too: "Ensure the database backup file is up-to-date." (database.go:247)
ShutdownBackupCurrent ==
    [][\A p \in Processes \ shared :
        At(p, "rename") /\ backup' # backup => backup' = [content |-> file, done |-> TRUE]]_vars

-----------------------------------------------------------------------------
(* The content, whatever the version.                                      *)

LogicalTicket(r, version) ==
    IF r = None THEN None
    ELSE [FeeTxStatus |-> r.FeeTxStatus,
          FeeTxHex |-> IF version = 1 /\ r.FeeTxStatus = "confirmed" THEN "" ELSE r.FeeTxHex,
          VoteChoices |-> bytesToStringMap(r.VoteChoices),
          FeeAddressXPubID |-> IF version < 5 THEN 0 ELSE r.FeeAddressXPubID]

LogicalXPubs(c) ==
    IF c.version >= 5 THEN c.xpubbkt
    ELSE [c.xpubbkt EXCEPT ![0] =
            NewXPub(c.feeXPub, IF c.lastaddressindex = None THEN 0 ELSE c.lastaddressindex)]

Logical(c) ==
    [signKey |-> c.privatekey,
     tickets |-> [t \in Tickets |-> LogicalTicket(c.ticketbkt[t], c.version)],
     altSigs |-> IF c.altsigbkt = None THEN {} ELSE c.altsigbkt,
     xpubs |-> LogicalXPubs(c)]

\* A process that is ending and another one that has the file open, or ends.
Overlap ==
    \E p \in Processes : \E q \in Processes \ {p} : Ending(p) /\ (Using(q) \/ Ending(q))

LogicalCopy(c) == IF c = Torn THEN Torn ELSE Logical(c)

Store == INSTANCE VspStore WITH
    Nothing <- None,
    store <- IF file \in {None, Empty} THEN None ELSE Logical(file),
    snapshot <- IF temp = None THEN None ELSE LogicalCopy(temp.content),
    backup <- IF backup = None THEN None
              ELSE IF backup.done \/ backup.content = Torn THEN LogicalCopy(backup.content)
              ELSE Broken,
    overlap <- Overlap

\* However processes, upgrades, backups and crashes come together: the store
\* is created once, only transactions change it, and the backup is always a
\* whole copy, and never older than the one before, but for copies that were
\* begun, or not done, when one process was ending and another at work.
ImplementsStore == Store!Spec

-----------------------------------------------------------------------------
(* Liveness.  A process that was started goes on until the file has the    *)
(* latest version or it ends, and vspm is started again.                   *)

FairSpec ==
    /\ Spec
    /\ \A p \in Processes : WF_vars(OpenNew(p) \/ Initialize(p) \/ RunUpgrade(p))
    /\ WF_vars(\E p \in Processes : Open(p, "vspm"))

OldVersion == file \notin {None, Empty} /\ file.version < latestVersion

\* A database of an older version comes to be one of the latest, wherever the
\* upgrades are interrupted.
Upgraded == OldVersion ~> ~ OldVersion
=============================================================================
