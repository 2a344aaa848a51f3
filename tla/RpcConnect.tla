----------------------------- MODULE RpcConnect -----------------------------
(***************************************************************************)
(* The connection to mond that all goroutines share (rpc/client.go), and   *)
(* how Client sets up a new one (rpc/mond.go).                             *)
(*                                                                         *)
(* dial runs under a mutex and hands out the connection there is, or makes *)
(* a new one; its caller then checks mond and subscribes to blocks outside *)
(* the mutex, and closes the connection when a check fails.  Close reads   *)
(* the client field without the mutex, each time anew.  The connections to *)
(* the wallets are the same without a subscription.                        *)
(*                                                                         *)
(* Bounds: MaxFaults connections that break or calls that fail, and        *)
(* MaxNotifyErrors calls of notifyblocks that mond answers with an error.  *)
(***************************************************************************)
EXTENDS Naturals

CONSTANTS
    Threads,         \* goroutines that call Client
    Background,      \* among them those that do so for ever, without recovery: that
                     \* of Run, with the mond ticker, and that of the page cache
    Conns,           \* connections; a closed one nobody refers to is used again
    None,            \* nil
    MaxFaults,
    MaxNotifyErrors

ASSUME ConnectAssumption ==
    /\ Background \subseteq Threads
    /\ None \notin Conns

VARIABLES
    client,       \* the client field
    open,         \* connections that are not Done
    subscribed,   \* connections mond sends block notifications to
    th,           \* what each goroutine is doing, and with which connection
    faults,
    notifyErrors

vars == <<client, open, subscribed, th, faults, notifyErrors>>

Idle == [pc |-> "idle", conn |-> None]

Init ==
    /\ client = None
    /\ open = {}
    /\ subscribed = {}
    /\ th = [t \in Threads |-> Idle]
    /\ faults = 0
    /\ notifyErrors = 0

At(t, pc) == th[t].pc = pc

Go(t, pc) == th' = [th EXCEPT ![t].pc = pc]

Finish(t) == th' = [th EXCEPT ![t] = Idle]

Fault == faults < MaxFaults /\ faults' = faults + 1

-----------------------------------------------------------------------------
(* dial                                                                    *)

\* Faulty variants: dial does not take the mutex, does not ask for Done.
AlwaysFree == TRUE

MutexFree == \A t \in Threads : ~ At(t, "dial")

NotNil == client # None

Alive == client \in open   \* not nil, and not Done

Reuse(t) ==
    /\ At(t, "idle") /\ MutexFree
    /\ Alive
    /\ th' = [th EXCEPT ![t] = [pc |-> "use", conn |-> client]]
    /\ UNCHANGED <<client, open, subscribed, faults, notifyErrors>>

StartDial(t) ==
    /\ At(t, "idle") /\ MutexFree
    /\ ~ Alive
    /\ client' = None
    /\ Go(t, "dial")
    /\ UNCHANGED <<open, subscribed, faults, notifyErrors>>

DialSucceeds(t) ==
    /\ At(t, "dial")
    /\ \E c \in Conns \ open :
        /\ \A u \in Threads : th[u].conn # c
        /\ client' = c
        /\ open' = open \union {c}
        /\ subscribed' = subscribed \ {c}
        /\ th' = [th EXCEPT ![t] = [pc |-> "check", conn |-> c]]
    /\ UNCHANGED <<faults, notifyErrors>>

DialFails(t) ==
    /\ At(t, "dial")
    /\ Fault
    /\ client' = None
    /\ Finish(t)
    /\ UNCHANGED <<open, subscribed, notifyErrors>>

-----------------------------------------------------------------------------
(* Client, for a new connection                                            *)

\* Version, network, transaction index: any answer may be the wrong one.
CheckMond(t) ==
    /\ At(t, "check")
    /\ \/ th[t].conn \in open /\ Go(t, "subscribe") /\ UNCHANGED faults
       \/ th[t].conn \notin open /\ Go(t, "close") /\ UNCHANGED faults
       \/ th[t].conn \in open /\ Go(t, "close") /\ Fault
    /\ UNCHANGED <<client, open, subscribed, notifyErrors>>

\* If NotifyBlocks fails the connection is not closed.
NotifyBlocks(t) ==
    /\ At(t, "subscribe")
    /\ \/ /\ th[t].conn \in open
          /\ subscribed' = subscribed \union {th[t].conn}
          /\ Go(t, "use")
          /\ UNCHANGED notifyErrors
       \/ /\ th[t].conn \notin open
          /\ Finish(t)
          /\ UNCHANGED <<subscribed, notifyErrors>>
       \/ /\ notifyErrors < MaxNotifyErrors
          /\ notifyErrors' = notifyErrors + 1
          /\ Finish(t)
          /\ UNCHANGED subscribed
    /\ UNCHANGED <<client, open, faults>>

\* The caller is done with the connection, which it never closes.
Release(t) ==
    /\ At(t, "use")
    /\ Finish(t)
    /\ UNCHANGED <<client, open, subscribed, faults, notifyErrors>>

-----------------------------------------------------------------------------
(* Close, after a failed check: of whatever connection is the client now.  *)

\* The field has become nil since the last look.  The panic ends a request, or
\* in a background goroutine the process, which is started again.
Panic(t) ==
    /\ client = None
    /\ IF t \in Background
       THEN /\ th' = [u \in Threads |-> Idle]
            /\ open' = {}
       ELSE Finish(t) /\ UNCHANGED open
    /\ UNCHANGED client

CloseIfAny(t) ==
    /\ At(t, "close")
    /\ IF client = None THEN Finish(t) ELSE Go(t, "closeAsk")
    /\ UNCHANGED <<client, open, subscribed, faults, notifyErrors>>

CloseUnlessDone(t) ==
    /\ At(t, "closeAsk")
    /\ \/ Panic(t)
       \/ /\ client # None
          /\ IF Alive THEN Go(t, "closeNow") ELSE Finish(t)
          /\ UNCHANGED <<client, open>>
    /\ UNCHANGED <<subscribed, faults, notifyErrors>>

CloseNow(t) ==
    /\ At(t, "closeNow")
    /\ \/ Panic(t)
       \/ /\ client # None
          /\ open' = open \ {client}
          /\ Finish(t)
          /\ UNCHANGED client
    /\ UNCHANGED <<subscribed, faults, notifyErrors>>

-----------------------------------------------------------------------------
\* mond stops, or the network fails.
Break(c) ==
    /\ c \in open
    /\ Fault
    /\ open' = open \ {c}
    /\ UNCHANGED <<client, subscribed, th, notifyErrors>>

Dial(t) == StartDial(t) \/ DialSucceeds(t) \/ DialFails(t)

SetUp(t) == CheckMond(t) \/ NotifyBlocks(t) \/ Release(t)

Close(t) == CloseIfAny(t) \/ CloseUnlessDone(t) \/ CloseNow(t)

Client(t) == Reuse(t) \/ Dial(t) \/ SetUp(t) \/ Close(t)

Next ==
    \/ \E t \in Threads : Client(t)
    \/ \E c \in Conns : Break(c)

Spec == Init /\ [][Next]_vars

\* Calls return and the mutex is not kept from a goroutine that waits for it.
\* The background goroutines are sure to call Client again: the ticker of Run
\* fires, and the page cache is updated, every minute (webapi.go:175-190).
Fairness ==
    /\ \A t \in Threads : WF_vars(~ At(t, "idle") /\ Client(t))
    /\ \A t \in Background : SF_vars(Reuse(t) \/ StartDial(t))

FairSpec == Spec /\ Fairness

-----------------------------------------------------------------------------
ThreadState == {"idle", "dial", "check", "subscribe", "use",
                "close", "closeAsk", "closeNow"}

ConnectTypeOK ==
    /\ client \in Conns \union {None}
    /\ open \subseteq Conns
    /\ subscribed \subseteq Conns
    /\ th \in [Threads -> [pc : ThreadState, conn : Conns \union {None}]]
    /\ faults \in Nat /\ notifyErrors \in Nat

\* However dialling, checks that fail, breaking connections and Close without
\* the mutex come together, there is never a connection open besides the one in
\* the client field: none is leaked, and no block is notified twice.
OneOpenConnection == open \subseteq {client}

Subscribed == \E c \in open : c = client /\ c \in subscribed

\* No two goroutines set up or close a connection at the same time.
Alone ==
    \A t, u \in Threads :
        th[t].pc \notin {"idle", "use"} /\ th[u].pc \notin {"idle", "use"} => t = u

\* "Ensure mond client is connected so notifications are received"
\* (vspm.go:110): mond comes to be connected and subscribed again and again,
\* whoever connects to it.  Two goroutines that dial and close at the same time
\* may close each other's connections for as long as both do, so in the end that
\* must not happen any more.
TickerRepairs == <>[]Alone => []<>Subscribed

\* The same comment, unconditionally: violated by an error that notifyblocks is
\* answered with, after which the connection is kept and never subscribed.
BlocksNotified == []<>Subscribed
=============================================================================
