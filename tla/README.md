# A TLA+ development for vspm, the Monetarium Voting Service Provider

This directory holds TLA+ models of the VSP server in this repository, TLC
configurations that check them on small instances, and proofs checked by TLAPS
of what holds for every size.  Every definition is translated from the Go code
of this commit.

## The system

`vspm` lets the owner of a ticket leave the voting to the provider's wallets.
A client registers a ticket (`/feeaddress`), hands over a signed fee
transaction and the voting key (`/payfee`), and may change its vote choices
(`/setvotechoices`) or set an alternate signing address
(`/setaltsignaddr`).  The server holds the fee until the ticket has 6
confirmations, sends it, waits for its 6 confirmations, adds the ticket to the
voting wallets, and records in the end how the ticket was spent.

### Components

**Ticket database** (`database/ticket.go`, `votechange.go`, `altsignaddr.go`).
State: one bbolt bucket of records per ticket, one of vote change records, one
of alternate signing addresses; all of it survives a crash.  Operations: insert
(fails if present), update (writes *every* field, fails if absent), delete,
lists by a filter, save a vote change (the record with the lowest key makes
room at the limit).  Each is one transaction; nothing spans two of them.
*Correct if* what is in a record is true of its ticket, however writes of
concurrent readers-then-writers interleave.

**Update loop** (`internal/vspm/update.go`, `spentticket.go`, `vspm.go`).
State: `lastScannedBlock` in memory and the list a phase works from.  On every
block: confirm or remove unconfirmed tickets, send pending fees, add tickets
with a confirmed fee to the wallets, look for spent tickets.  Calls mond and
the wallets, between the read of a record and its save.  *Correct if* nothing
is sent or added too early, nothing that was paid is left aside, and a save
from an old list does no damage.

**Wallet consistency check** (`internal/vspm/walletconsistency.go`).  In the
same goroutine, on a ticker: adds missing tickets to the wallets and corrects
vote choices.  *Correct if* whatever goes wrong in the other two ways to get to
a wallet is repaired.

**Client API** (`internal/webapi/getfeeaddress.go`, `payfee.go`,
`setvotechoices.go`, `setaltsignaddr.go`, `middleware.go`, `helpers.go`).
State: per request, the copy of the record `vspAuth` read.  Requests run
concurrently with each other and with the goroutine above, with no lock but the
one of the address generator.  *Correct if* no fee address is shared, no answer
given to a client is contradicted later, and older requests do not win over
newer ones.

**Fee address generator and xpub bucket** (`internal/webapi/addressgenerator.go`,
`database/feexpub.go`, `cmd/vspmadmin`).  State: a counter in memory, and in
the database the last index of every key.  The counter is moved on first, the
index stored afterwards, in two transactions.  *Correct if* no address is
handed out twice, and every address can be found again from the database,
across restarts and replaced keys.

**RPC clients** (`rpc/`).  One connection to mond and one to each wallet,
shared by all goroutines, dialled again when it is found broken.  The one to
mond is subscribed to blocks when it is new.  *Correct if* no connection leaks,
and notifications arrive.

**Request middleware** (`internal/webapi/middleware.go`).  `broadcastTicket`
makes mond know a ticket, and its parent, before a handler asks about it; while
mond lacks the parent's inputs it holds one of 16 slots and tries again every
second.  State: the semaphore, shared by all requests, and the one connection
a request keeps for all its calls.  *Correct if* no slot is lost whatever fails,
no handler runs for a ticket mond does not know, and nothing else is broadcast.

**Scan for spent tickets and integrity check** (`internal/vspm/spentticket.go`,
`databaseintegrity.go`).  State: `lastScannedBlock`, and the local variables of
a scan: two parallel slices that shrink as tickets are found.  The integrity
check, at the start, repairs records of older versions with the same scan.
*Correct if* no spend is missed by a scan or between two, and what is recorded
is what the chain did to the ticket.

**Database file** (`database/database.go`, `upgrade*.go`, `encoding.go`, with
`cmd/vspm` and `cmd/vspmadmin`).  State: `vspm.db` in one of five versions, a
temporary file, the backup, and the lock bbolt holds on the open file.  Open
runs the upgrades, one transaction each; a ticker and the shutdown replace the
backup.  *Correct if* neither upgrades nor crashes change what is stored, and
the backup is always whole and never older than the one before.

**Other parts**: read-only endpoints, admin pages and page cache
(`internal/webapi/admin.go`, `cache.go`); client library (`client/`); tools
(`cmd/vote-validator`, `cmd/v3tool`); configuration.  PROJECT.json lists all of
them, with what is done about each.

### How they interact

    clients --> Client API --+--> ticket database <--+-- update loop (each block)
                  |   |      |                       |   consistency check (ticker)
                  |   |   address generator          |        |    |
                  |   +------> mond client <---------+--------+    |
                  +----------> wallet clients <--------------------+

Everything meets in the ticket database.  The two threads of concern are the
goroutine of `Run` and the request handlers; each reads a whole record, talks
to mond or a wallet, and writes the whole record back.

### What is hard

* Whole records are saved from copies that are older than RPC calls
  (`update.go:106`, `middleware.go:429`, `walletconsistency.go:170`).
* A ticket is removed while other threads hold copies (`update.go:82`).
* A fee is sent by either of two threads, and failures in between leave a
  status only the other one, or nobody, picks up (`payfee.go:251`,
  `update.go:182`, `207`).
* Three ways lead to a wallet, each from a copy of its own.
* Answers are signed and sent before what they promise is stored
  (`setaltsignaddr.go:102`), or before what later checks rely on is
  (`setvotechoices.go:67`).
* State in memory lags or leads the database across crashes
  (`update.go:286`, `getfeeaddress.go:36`).
* `Close` reads the shared client without the mutex `dial` takes
  (`rpc/client.go:71`).
* Two slices are shortened by swapping in their last elements while an index
  runs over them (`spentticket.go:173`), the scan that does so fails half-way or
  has its last block replaced (`:125`), and the outcome is inferred from heights
  (`:38`).
* A slot of the semaphore has to be given back on every path of a request that
  fails (`middleware.go:325`).
* The upgrades may be interrupted between any two (`upgrades.go:88`), and a backup
  is copied while transactions go on (`database.go:61`), the last time after the lock
  on the file has been let go of (`:232`).

PROJECT.json lists every hazard at its line, with the properties that would
catch it going wrong.

## Modules

| module | stands for | state |
|---|---|---|
| `VspDatabase` | the ticket, vote change and alternate address buckets: one operator per transaction, from an old bucket to a new one | none: pure operators |
| `VspState` | the shared state, and the environment: chain as mond reports it, wallets, clock, faults | all variables of `Vspm` |
| `Updater` | the goroutine of `Run`: update and consistency check | `upd`, `scan` |
| `WebAPI` | the request handlers | `req` (one record per slot) |
| `Vspm` | the composition, crashes, fairness and all properties; implements `VotingService` | |
| `VotingService` | abstract: what clients and the network see of a VSP | `issued`, `acked`, `sent`, `holds`, and of the chain `final`, `paid` |
| `VoteChangeLog` | the keys of the vote change bucket, where `VspDatabase` has a sequence | none: pure operators |
| `MCVspm` | instances of `Vspm` for TLC | |
| `FreshAddresses` | abstract: addresses are handed out, none twice | `handed` |
| `FeeAddresses` | generator and xpub bucket; implements `FreshAddresses` | `xpubs`, `addrGen`, `call` |
| `RpcConnect` | dialling, checking, subscribing and closing of one shared connection | `client`, `open`, `subscribed`, `th` |
| `BroadcastTicket` | requests in `broadcastTicket`, each with its connection; extends `RpcConnect` | `req`, `slots`, `mond` |
| `SpentTickets` | the scan with heights, `setOutcomes`, the integrity check, over a chain with reorganizations | `db`, `lastScanned`, `scan`, `chain` |
| `VspStore` | abstract: a store created once and changed by transactions, a backup that is a snapshot of it | `store`, `snapshot`, `backup` |
| `DatabaseFile` | processes that create, upgrade, change, back up and close the file; implements `VspStore` | `file`, `temp`, `backup`, `holder`, `proc` |
| `MCFeeAddresses`, `MCBroadcast`, `MCSpentTickets`, `MCDatabaseFile` | instances for TLC | |
| `VspmTypeProofs`, `VspmSafetyProofs`, `VspmServiceProofs`, `VoteChangeLogProofs`, `FeeAddressesProofs`, `BroadcastTicketProofs`, `SpentTicketsProofs`, `DatabaseFileProofs` | theorems and their proofs | |

The modules answer different questions at different grains.  `Vspm` has the
races between requests and the goroutine of `Run`, and takes from the others only
what they show: fresh addresses, a broadcast that succeeds or not, a scan that
finds what was spent in the blocks it covers, transactions that are kept across
crashes, a sequence of vote change records.

### How state and actions correspond to the code

*Records.*  `db[t]` is the record of ticket `t`, or `Absent`.  Fields keep the
names of `database.Ticket`.  A fee address is the index it was derived with; a
fee expiration is the last value of `clock` at which it is valid; `FeeTxHex`
says whether the hex is there; vote choices are the timestamp of the request
that made them, 0 for an empty map, so "older" can be said of choices.  The
key and policy fields are left out: they are saved and overwritten with the rest.

*Steps.*  A step of the update loop or of a handler ends at each RPC call and
at each database transaction; an RPC answer and the branch taken on it are one
step, the save that follows is another.  A request that is refused for what its
record says, before any further call, ends in the step that reads the record
(`AnsweredEarly`).  `upd.list` is the slice a phase got
from the database, an entry turns `Absent` when the loop is done with it;
`upd.cur` is the ticket in hand.  `req[q].rec` is the `database.Ticket` in the
request's context.

*One step in the model, several in the code*, because nothing in between
touches what they read:
- `NewFeeAddress` derives an address and stores its index, under `addrMtx`.
  `FeeAddresses` has both halves, with other requests, failures and crashes in
  between, and implements `FreshAddresses`, whose one step `NewFeeAddress` is.  That
  no address is used twice is therefore claimed of `FeeAddresses` (`AddressesFresh`)
  and not of `Vspm`, where it is an assumption.
- `SetOutcomes` reads the votable tickets and scans the blocks.  A request that
  saves during the scan is overwritten by `SaveOutcome` exactly like one that
  saves after it, only the update loop makes tickets votable, and blocks that
  arrive meanwhile are above the `endHeight` the scan returns.
- `AddMissingTickets` and `CheckChoices` handle one wallet in a step: they work
  from one `TicketInfo` answer and one list.  A request may come between two
  wallets, not between two tickets of one wallet.
- `Receive` broadcasts an unknown ticket and reads its record; the calls and
  retries of the broadcast are in `BroadcastTicket`.

*The service* (`VotingService`).  From outside, a VSP gives out addresses, signs for
fees, sends them, and votes; the chain confirms purchases and fees.  `issued`,
`acked` and `sent` are the history variables of `Vspm`, `holds` the tickets its
wallets have.  A step of `Vspm` that touches none of this, in particular every save
of a stale copy, is a stutter.  That an acknowledged fee is *stored* is not part of
it, since it is not so (finding 1).

*The vote change bucket* (`VoteChangeLog`).  The code looks for the smallest and the
largest key, deletes the smallest at the limit, and writes under the largest
plus one.  `StoreVoteChange` does that, `Stored` is the bucket whose keys are
those of a sequence from some first key on, and `KeysInOrder` says that the former
makes the latter of what `SaveVoteChange` of `VspDatabase` makes of the sequence.
It does so as long as keys last: after `MaxKey`, 2^32 - 1 in the code, the next key
would be 0 and be the first to be deleted, a case the code does not handle, and
which takes that many vote changes of one ticket.

*The scan* (`SpentTickets`).  `pc` is where the goroutine of `Run` is, `scan` has
the local variables of `findSpentTickets` under their names.  Each RPC call is a
step: a filter that does not match (`SkipBlock`), a block (`GetBlock`), and, over
the block in memory, one step per index (`CheckTicket`).  A block is the set
of stake transactions in it; a filter that matches without need is `GetBlock`
when `MustMatch` is false.  How a ticket was spent is known to the model and not
to the program, which sees a vote or a revocation; `Legal` says at which heights
the network allows each: a ticket expires in the block at its expiry height, and
votes or misses up to that block.  So a miss in this very block looks like an
expiry, and `OutcomeJustified` allows the program to take it for one.  `mined` is all that was ever in the main chain, `late`
the tickets of the finding `outcome`: both are history and nothing reads them.

*The file* (`DatabaseFile`).  A bbolt transaction is one step, kept or, with
`Fault`, undone.  A copy is a step that begins it and a step that ends it, with
all that others do in between.  In `Close` it is made after bbolt's lock has been let
go of (`database.go:232`, `:266`), so another process may open and change the file
before and during it; and the mutex of the temporary file is of one process.  The
content of a copy that another process has a hand in is `Torn`: nothing is
assumed of it.  `shared` has the processes that were overlapped in this way since
they closed the file.  A content has the keys of all versions, those that
are absent are `None`; `WellFormed` is what a version has, `Logical` what a
content means whatever its version.  Each upgrade is an operator from a content
to a content, named after its file.

*Requests of the middleware* (`BroadcastTicket`).  `req[t].pc` is the call a
request is about to make, `left` the attempts of the loop.  mond accepts a
transaction when it knows all inputs, and reports an orphan otherwise; the
network may bring, mine and drop transactions at any time.  What follows the
code closely here is odd: an orphan error is to be checked with
`getrawtransaction`, but that is given the hex in place of the hash
(`rpc/mond.go:209`) and never succeeds, so an orphan stays one.

*Environment.*  A transaction moves up (`mempool`, `mined`, `final` at 6
confirmations) and, below 6, down again.  `SpendTicket` is a vote, a miss or
an expiry, `PublishFee` a client that publishes the fee itself.  A fault is
an RPC call that fails although the server could answer; mond refusing a fee
transaction needs no fault.

*Crash* is a crash or a shutdown followed by a start: `upd`, `scan`, `req` are
lost, at any step.

Names ending in words such as `Replacing`, `Reset` or `Inverted` are
faulty variants next to the definition they vary: they are not used by the
specifications and are there to show that a property notices the fault.

## Runs

| run | question | bounds | states |
|---|---|---|---|
| `pipeline` | Does a ticket get from nothing to its vote with every record true, the fee held back, nothing removed that is confirmed, whose fee was sent, or that is on a wallet, nothing resurrected, as `VotingService` says? | 1 ticket, 2 concurrent requests of `/feeaddress` and `/payfee`, 1 expiry | 1.62 M |
| `votes` | Do concurrent `/setvotechoices`, the update loop and a wallet without the agenda keep records true and the newest change record, and do the keys keep the records in order? | 1 ticket, 2 requests, 2 timestamps, 2 change records kept, keys up to 3, from a mature ticket | 1.29 M |
| `registration` | Does a second registration leave the record of the first alone, even one about to be removed, and are stored alternate addresses final? | 1 ticket, 3 requests, 2 alternate addresses, 2 fee addresses, 1 crash | 198 k |
| `liveness` | Is a received fee handled, does a votable ticket reach every wallet, are wallets corrected? | 1 ticket, 2 wallets, 1 request, 1 fault, 1 crash | 128 k |
| `fee_addresses` | Does the generator implement `FreshAddresses`? Can every address be recovered, do retired keys stay? | 3 keys, 2 requests, index up to 8, one key with a run of invalid children | 172 k |
| `broadcast` | Are slots and connections counted right, does a request pass only with its ticket known, does the ticker repair the connection? | `Run` and 2 requests, 2 connections, a ticket with parent and grandparent, 1 slot, 2 attempts, 1 fault | 260 k |
| `spent_tickets` | Is every spend found, whatever fails, and recorded as what it was? | 2 tickets of different height and script, 6 blocks, expiry after 2, 1 block replaced, 1 fault, 1 restart, records of older versions | 765 k |
| `database_file` | Do upgrades, backups, shutdowns and crashes implement the store? | 2 processes, 1 ticket, 2 keys, files of versions 1 to 6, 2 transactions, 1 fault, 1 crash | 1.05 M |
| `lost_fee`, `fee_error`, `outcome`, `blocks_notified` | Findings, see below | | |

Deadlock is checked except in two runs.  In `spent_tickets` the chain has
`MaxHeight` blocks, after which nothing is left to do.  In `database_file` the
system really stops: a crash in `CreateNew` between the creation of the file and
its first transaction leaves a file no command can go on with (`Open` panics,
`createdatabase` refuses since it exists).  In the others the environment or
a request can always do something, so a deadlock would be a missing case of the
model.

*Why the bounds are enough.*  The races of the code are between one reader
that holds a copy and one writer that saves in between; two request slots and
the update loop give three such threads, so a save from a copy twice overtaken
happens.  One ticket suffices where records of different tickets do not meet,
and two are there where they do: `lastScannedBlock` (`outcome`).  In `registration`
the third request is the one that takes the place of another after a removal, and
the second address the one of the registration that comes too late.  One crash is
enough because a crash resets all volatile state; it is in `liveness`, where what
survives it has to be picked up again, and not in `pipeline`, where it would only
multiply the states.  For everything that is proved, crashes included, the bounds
do not matter.

In `spent_tickets` one ticket matures while the other is scanned for, expires and
is revoked within the 6 blocks, and the other may miss its vote in the very block at
its expiry height; a scan covers up to 4 blocks and has both tickets
in its slices in either order.  In `broadcast` one slot makes the second request
find the semaphore full, two attempts make a request wait twice.  In
`database_file` 6 is a version the program does not know, two processes try to
hold the file at once, one ends while the other opens the file, and a transaction
can fall before, into and after a copy.

*`MaxReorg`* is 1 in `spent_tickets`, and the proofs allow 0 or 1.  That is not
a bound but a limit of the code: the next scan starts at `lastScannedBlock`, the one
block it scans again (`update.go:307`).  With 2, `ScanComplete` and `NoneSkipped`
fail, and a spend in a replaced block below the last is passed over.

*What is not claimed of the backup in `Close`*: the code releases bbolt's lock, then
copies (`database.go:232`, `:266`).  `docs/deployment.md:195` says that no other
process can open the file while vspd runs, but a `vspmadmin retirexpub` that is
waiting for the lock gets it right then, and so does a vspm that is started again.
`DatabaseFile` lets them.  `ShutdownBackupCurrent` is about the processes nobody has
overlapped (`Processes \ shared`), and `VspStore` allows a torn snapshot while
`overlap` holds, and at no other time.  `shared` is set by the other process when it
opens the file, or by `CloseDatabase` when another one is still ending, and is never
a guard of a step.

*`InitPaid`*, the initial states of `votes`, `liveness`, `fee_error` and `outcome`, is
the state after Receive, NewFeeAddress, InsertTicket, Receive, PayFee and
RecordVoteChange of every ticket from `Init`; it spares the runs the registration,
which `pipeline` checks.  Its parameter is the level of the purchases: `"mined"`,
and in `votes` `"live"`, which MineTicket leads to, so that the run is spent on vote
changes and not on confirmations.

*`NewestChangeKept`* depends on a bound the code does not state: the record
that makes room is the one with the lowest key, and if more requests than
`MaxVoteChangeRecords` (10 in vspm) are in flight for one ticket, having all passed the
timestamp check, the newest can be the one to go.  In the run there are 2
requests and 2 records, the largest number for which it holds.  It also depends on
/payfee being answered first: that handler stores a record too (`payfee.go:300`), whose
timestamp is compared to no other record's, so a fee payment that is retried often
enough with older timestamps could push the newest record out.  The run has only
/setvotechoices requests, after the fee was received.  `FewInFlight` and `FeeFirst`
say both, and the theorem has them as hypotheses; they are assumptions on clients,
and nothing in the code enforces them.

## Fairness

Assumed, in `Vspm!Fairness`:
* The goroutine of `Run` goes on (`WF_vars(Update)`, `WF_vars(ConsistencyCheck)`):
  RPC calls and transactions return.
* It starts an update, and a check, again and again (`SF_vars`): blocks keep
  coming, the ticker keeps firing, and `select` picks at random among the
  channels that are ready.
* A request that was received goes on.

Nothing is assumed of clients, of when they call, of miners, of votes, or of
which RPC calls fail; `MaxFaults` and `MaxCrashes` say that at some time they
stop.  In `RpcConnect` and `BroadcastTicket` calls return, a goroutine that waits
for the mutex gets it (Go's mutex hands over to starving waiters), and the
goroutines in `Background` call `Client` again and again: that of `Run`, at each tick,
and that of the page cache (`webapi.go:175-190`, `cache.go:95`), every minute.  Neither
has the recovery requests have.  Nothing is assumed of when requests come, nor of
the network.  That blocks keep *being notified* is an assumption
of `Vspm` which the finding `blocks_notified` shows can fail.

In `SpentTickets` the goroutine of `Run` goes on, weakly: calls return, and blocks
or the ticker start another update.  In `DatabaseFile` a process that creates
or upgrades the file goes on, which is all `Upgraded` needs, and vspm is started
again after a crash by whatever runs it; transactions, backups and a stop are
forced by nothing.

`TickerRepairs` is stated for behaviours in which, from some time on, no two goroutines
set up or close a connection at the same moment (`Alone`); they may all go on to call
`Client`.  Without that, two goroutines whose checks keep failing can close each other's
new connection for ever: `Close` looks up the client anew instead of closing
the connection it was called for (`rpc/client.go:71-80`).  The same reading
without the mutex allows a nil dereference, the step `Panic`, which ends a request, or
from a background goroutine the process.

## Proofs

TLAPS proves, for any number of tickets, fees, wallets, slots, blocks, processes,
faults, crashes and addresses, from the named assumptions of the modules
(`DatabaseAssumption`, `AbsentAssumption`, `StateAssumption`, `WalletAssumption`,
`KeyAssumption`, `AddressAssumption`, `StoppedAssumption`, `ConnectAssumption`,
`BroadcastAssumption`, `ScanAssumption`, `FileAssumption`), every invariant and
every action property the runs check, and the refinements:

* `TypeCorrect`: `Spec => []TypeOK`.  `TypeOK` is not inductive: an action
  that saves `upd.list[upd.cur]` or `req[q].rec` needs it to be a record.
  `TypeInv` adds which control states have one.
* `RecordsCorrect`, `HeldBackCorrect`, `PaidCorrect`: `RecordsGenuine`,
  `FeeHeldBack` and `PaidBeforeVoting`, from `SafeInv`.  The argument: what a
  record claims (confirmed, sent, fee confirmed, outcome) is a fact that, once
  true, stays true (`Grows`: purchases with 6 confirmations stay, confirmed
  fees stay, spends stay, sets of issued addresses and sent fees grow).  So a
  copy however old claims nothing false, and saving it is harmless in this
  sense.  What remains is that each *new* claim is true when it is made, which
  needs what a thread has learnt but not saved yet: `UpdaterKnows` (at
  `feeFinal` the fee is final, at `feeSent` it was sent, pending fees are of
  confirmed tickets, ...) and `RequestKnows` (at `send` the ticket is confirmed,
  ...).
* `RemovedCorrect`: `NoResurrection`, an action property, from `SafeInv`: only
  `InsertTicket` brings a record back, and only one with no fee.
* `UnpaidRemoved` and `HeldCorrect`: `RemovedUnpaid` and `HeldInDatabase`, from
  `KeepInv`.  The removal of a ticket rests on an answer of mond that may be out of
  date when it happens, and neither property is inductive.  `Doomed` says what
  the answer shows and no request undoes before the removal: no copy of the
  record says confirmed, but one about to be inserted, which `InsertNewTicket`
  refuses while the old one is there; and no fee of the ticket was sent.
  `UnknownIsDoomed` has it at the answer, from `Genuine` and `FeeHeldBack`;
  `ServeDoomed` keeps it, for a request saves the `Confirmed` it read (`Saves`,
  `Copies`), sends a fee only if it is set, and is given an address above those
  of all fees sent.  A ticket on a wallet has a fee that was sent, so it is not
  the one removed.
* `AltSignAddrCorrect`: `AltSignAddrSetOnce`, from `RegistrationInv`: the address a
  request is about to store has been acknowledged.
* `ServiceCorrect`: `Vspm` implements `VotingService`.  `SeenStep` sorts the steps
  of `Vspm` by the one thing each changes of what is seen; a lemma for each action
  of `VotingService` shows that the change is that action.  `ServiceInv` has what
  they need: `SafeInv`, for a fee is sent of a final ticket and a ticket given to
  wallets is paid; `AddressesUnique`, a lemma here, for the address a request derives is new;
  and that a fee in the network pays an address given out.
* `NewestChangeCorrect`: `NewestChangeKept`, whenever `FewInFlight` and `FeeFirst` hold
  (see the bounds).  At any time each change recorded after the newest one is of a
  request that passed the timestamp check before the newest was recorded.
  `VoteOrder` says that those still in flight, with those that got recorded since,
  are too few to fill the bucket.
* `KeysCorrect`: `KeysInOrder`, for any limit and width of the keys.  With
  contiguous keys, the search for the smallest and the largest finds the ends, and
  writing one key further and deleting the first leaves the keys contiguous.
* `FreshCorrect`: `FeeAddresses` implements `FreshAddresses`.
  `RecoverableCorrect`, `RetiredCorrect`, `AddressTypeCorrect`: the other
  properties of the generator.  `AddressInv` relates the three places the
  index is kept: IDs of the bucket are 0 .. n and only the highest is active and
  keys are not used twice (`BucketInv`); the generator has the active key and
  is never behind its stored index (`GeneratorInv`); at most one request is
  between deriving and storing, with an index above all stored ones
  (`CallInv`).
* `OneOpenCorrect`: `OneOpenConnection`.  `DialInv` says that only the one
  goroutine in `dial` may set the field, and that it is nil and nothing is open
  meanwhile.

* `BroadcastTypeCorrect`, `SlotsCorrect`, `OneOpenBroadcast`, `PassedCorrect`,
  `SentCorrect`: the safety properties of `BroadcastTicket`, from `BroadcastInv`,
  which has `ConnectInv` of the connection and, for each request, `RequestOK`: it
  holds its goroutine at the connection, and what it sends as a parent is one.
  `HandlerStep` reduces the five steps of a request to the five ways it can move,
  and `WaitingChanges` counts those who wait across each.
* `ScanTypeCorrect`, `SlicesParallel`, from `TypeInv`: which phase has which part of
  a scan, and that the chain changes at its last height only.
* `ScanCompleteCorrect`, `NoneSkippedCorrect`, `RevokedReplacedCorrect`,
  `OutcomeCorrect`, from `ScanInv`.  `Listed` and `NotYet` are the loop invariants
  of `findSpentTickets`: a ticket of the scan is in the list or found, once, and
  one in the list is not spent in the blocks done with, nor, below the index,
  passed by in the block at hand; the ticket swapped in comes from above the
  index, so it is not passed by either.  `FoundTrue` says that a spend found is
  the first in the range and still in the chain below its last block
  (`BlocksStay`); `ScanFor` that a scan starts where the last one ended, or where
  the first ticket matured.  `OutcomeCorrect` is `OutcomeJustified`: by the arithmetic of
  `missed`, a revocation anywhere but at the expiry height is told right, and one at
  that height is called expired.
* `StoreCorrect`: `DatabaseFile` implements `VspStore`; `FileTypeCorrect`,
  `OpenedCorrect`, `ShutdownCorrect`.  `FileInv` is `Files`, the form of the three
  files, with `Knows(p)`, what each process may rely on at its step: it has the
  lock, the version it read is that of the file, the temporary file has what it
  copied, unless another process overlaps, and `shared` has whoever is not alone.  `UpgradeWellFormed` and
  `UpgradeLogical` are the two facts about each upgrade: it makes a file of the next
  version, with the same content.

Only model-checked: the liveness properties (`ReceivedFeeHandled`,
`VotableOnWallets`, `WalletsAgree`, `SlotReleased`, `TickerRepairs`,
`SpentRecorded`, `Upgraded`), which are out of reach of the prover.  The findings
are counterexamples of TLC.

## Findings

1. `lost_fee`: a fee that was acknowledged is undone by the update loop's stale
   save of the same record; status `none` no longer means that no fee has been
   received.
2. `fee_error`: a failing lookup of a broadcast fee is recorded as a failed
   broadcast, and no phase looks at it again.
3. `outcome`: one `lastScannedBlock` for all tickets; a ticket spent below
   it before it is votable in the database gets no outcome until a restart.
4. `blocks_notified`: after an error answer to `notifyblocks` the connection is
   kept and reused, unsubscribed, and the ticker that should repair it finds
   it alive.

Each quotes the sentence of the repository it contradicts in PROJECT.json.

What was read in the code while it was modelled, and has no run of its own:
* Accepted vote choices are replaced by older ones when the update loop saves an
  older copy (`update.go:106`), the root of `lost_fee`.
* Two concurrent `/setaltsignaddr` requests for one ticket are both told, with a
  signature, that their address was set; one is stored (`setaltsignaddr.go:102`;
  `docs/api.md:77`).
* `SendRawTransaction` asks for a transaction it could not send by its hex in
  place of its hash (`rpc/mond.go:209`), so the answer never says that mond
  has it.  `BroadcastTicket` has the step as it is.
* A crash in `CreateNew` leaves a file no command accepts (`database.go:98`);
  `DatabaseFile` has the step.
* `Close` releases the lock before it copies (`database.go:232`), so that the backup may
  lack what another process stores meanwhile, or be torn; `DatabaseFile` has the
  overlap.
* The consistency check undoes vote choices accepted since it read its list, if a
  wallet lacks an agenda (`walletconsistency.go:170`); `Vspm` has the step.
* A ticket that misses its vote in the block at its expiry height is recorded as
  expired (`spentticket.go:38`).  The comment there does not name the case, and says that
  precision is not needed.
* Upgrades 2 and 3 change buckets while `ForEach` iterates over them
  (`upgrade_v2.go`, `upgrade_v3.go`), which bbolt leaves undefined.  In the models
  the iteration sees every ticket once.

## Not modelled

* Signatures, hashing, transactions' scripts, the amount of a fee: a request
  that fails a check is `Refuse`, which is always possible.  Treasury and tspend policies
  travel with the vote choices and are not repaired by the consistency check
  (the code has a TODO for it).
* In `Vspm`, reorganizations of 6 blocks or more, and any that undoes a vote: the code
  treats 6 confirmations as final.  In `SpentTickets`, those of more than one
  block, see above.
* In `Vspm`, heights: the scan finds what was spent in the blocks it covers, and
  whether a revoked ticket is recorded as missed or expired is left open.
  `SpentTickets` has both.
* Wall-clock expiry beyond "before or after".
* The notification channel (`rpc/notifs.go`): an update may start whenever the
  goroutine is idle, which covers any number of queued blocks.
* Read-only endpoints, the admin pages and the page cache (`cache.go`): they change
  no state but statistics that nothing else reads.
* Sessions, CSRF tokens, rate limits, HTML, logging, recovery of a handler's
  panic, flags and configuration.
* The client library (`client/`): it signs a request, sends it once, and checks
  the signature of the response; it has no state between calls.
* `vote-validator` and `v3tool`: diagnostic programs that only read.

## Plan

Done, in this order: database and update loop, API handlers, composition and
crashes, properties, type proof, safety proof, registration proof, generator
with its abstract specification and proofs, RPC connection with its proof, the
scan with heights and the integrity check, the database file with its abstract
specification, the middleware over the connection, the proofs of these three, the
service as an abstract specification of the composition with its proof, the order of
vote changes, the keys of their bucket with their proofs, the proof of what is removed, and
processes that overlap at the database file.

Left:
1. The notification channel, between the connection of `RpcConnect` and the
   goroutine of `Run`.
2. The treasury and tspend policies as a second kind of choices, of which the
   consistency check repairs none.
3. As theorems: that a step of the update loop changes only the record at hand, and
   that the store of `DatabaseFile` holds what `Vspm` assumes of its database.

## Running

    tlc -workers 2 -config MCPipeline.cfg MCVspm.tla
    tlapm VspmSafetyProofs.tla

Runs of `MCVspm`: `MCPipeline`, `MCVotes`, `MCRegistration`, `MCLiveness`,
`MCLostFee`, `MCFeeError` and `MCOutcome`.  `MCFeeAddresses`, `MCBroadcast`,
`MCSpentTickets` and `MCDatabaseFile` each have a `.cfg` of their name;
`MCBlocksNotified.cfg` is for `RpcConnect`.
