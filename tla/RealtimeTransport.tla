------------------------- MODULE RealtimeTransport --------------------------
(***************************************************************************)
(* One API process of several: its subscription to the shared channel      *)
(* (realtime.transport.js), what the service makes of it                   *)
(* (realtime.service.js), and the browsers' event streams that depend on   *)
(* both (realtime.controller.js).                                          *)
(*                                                                         *)
(* JavaScript runs one continuation at a time, so a step is what runs      *)
(* between two awaits.  A call of subscribe is a member of Subs; it lives  *)
(* on after stop and after its deadline until the network lets go of it.   *)
(* The provider, the network and the peers that publish are the            *)
(* environment: they may be slow, refuse, end a stream, or fail to cancel. *)
(***************************************************************************)
EXTENDS Integers, FiniteSets

CONSTANTS
    Subs,           \* names for calls of subscribe, used again when settled
    NoSub,          \* no subscription
    Poison,         \* the barrier that never settles
    Browsers,
    ClientOf,       \* the address a browser comes from
    MaxTotal,       \* env.REALTIME_SSE_MAX_CONNECTIONS
    MaxPerClient,   \* env.REALTIME_SSE_MAX_CONNECTIONS_PER_IP
    MaxStarts,      \* bound: how often the transport is started
    MaxFaults       \* bound: how often the provider or the network fails

ASSUME BoundsAssumption ==
    /\ {MaxTotal, MaxPerClient, MaxStarts, MaxFaults} \subseteq Nat
    /\ IsFiniteSet(Browsers)
    /\ NoSub \notin Subs /\ Poison \notin Subs /\ NoSub # Poison

VARIABLES
    sub,            \* each call of subscribe, and the upstream request it made
    running,
    gen,            \* generation: one more at every start and every stop
    timer,          \* reconnectTimer is set
    barrier,        \* subscriptionBarrier: what a new start waits for
    poisoned,       \* a cancellation failed (poisonedSubscriptionBarrier)
    stopping,       \* stop is waiting for the cancellation and the barrier
    starting,       \* start: "no", waiting for "stop", or for a "barrier"
    awaited,        \* the barrier that start read
    shared,         \* sharedTransportConnected: new event streams are accepted
    everConnected,  \* hasConnectedBefore
    conn,           \* each browser's event stream
    stale,          \* open streams that have missed an event so far
    draining,       \* realtimeDraining
    faults          \* failures so far

startVars   == <<starting, awaited>>
serviceVars == <<shared, everConnected>>
browserVars == <<conn, stale, draining>>
vars == <<sub, running, gen, timer, barrier, poisoned, stopping, startVars,
          serviceVars, browserVars, faults>>

-----------------------------------------------------------------------------
\* pc    "idle" or which await of subscribe is pending: the "fetch", an error
\*       "body", a "read" before or after the acknowledgement ("acked"), or
\*       the cancellation of the stream ("closing")
\* up    the physical request: "asked", subscribed at the provider ("live"),
\*       ended by it ("broken"), being cancelled, or "stuck": it refused to be
\* armed the connection deadline is running;  late: it has passed
\* slow  the provider will not answer before the deadline
\* inbox a message of the channel is on its way to this process
Idle == [pc |-> "idle", gen |-> 0, up |-> "none", armed |-> FALSE,
         late |-> FALSE, slow |-> FALSE, inbox |-> FALSE]

SubRows == [pc : {"idle", "fetch", "body", "read", "acked", "closing"}, gen : Nat,
            up : {"none", "asked", "live", "broken", "cancelling", "stuck"},
            armed : BOOLEAN, late : BOOLEAN, slow : BOOLEAN, inbox : BOOLEAN]

Reading(t) == sub[t].pc \in {"read", "acked"}
Current(t) == running /\ sub[t].gen = gen
Busy(t)    == sub[t].pc # "idle" \/ sub[t].up # "none"
Open       == {b \in Browsers : conn[b] = "open"}

Init ==
    /\ sub = [t \in Subs |-> Idle]
    /\ running = FALSE /\ gen = 0 /\ timer = FALSE
    /\ barrier = NoSub /\ poisoned = FALSE
    /\ stopping = FALSE /\ starting = "no" /\ awaited = NoSub
    /\ shared = FALSE /\ everConnected = FALSE
    /\ conn = [b \in Browsers |-> "closed"] /\ stale = {} /\ draining = FALSE
    /\ faults = 0

\* Something goes wrong on the network or at the provider.
Fault == faults < MaxFaults /\ faults' = faults + 1

-----------------------------------------------------------------------------
(* Beginning and ending a subscription.                                    *)

\* beginSubscription: subscribe runs up to its fetch, and is the barrier.
Begin(g) ==
    \E t \in Subs :
        /\ ~Busy(t)
        /\ sub' = [sub EXCEPT ![t] = [Idle EXCEPT !.pc = "fetch", !.gen = g,
                                                  !.up = "asked", !.armed = TRUE]]
        /\ barrier' = t

\* Mutant: after its deadline a subscription is given up for good.
NoSecondTry(t) == timer \/ (Current(t) /\ ~poisoned /\ ~sub[t].late)

\* scheduleReconnect
Reconnecting(t) == timer \/ (Current(t) /\ ~poisoned)

\* Mutant: the end of a connection is not reported.
StillConnected(t) == shared

\* reportFailure
ConnectedWithout(t) == shared /\ ~Current(t)

\* subscribe returns: it no longer is the barrier, and if it still belongs to
\* the transport that runs, a reconnection is scheduled.  A cancellation that
\* nobody waits for any more stays behind in row.
Retire(t, row) ==
    /\ sub' = [sub EXCEPT ![t] = [row EXCEPT !.pc = "idle", !.armed = FALSE, !.late = FALSE,
                                             !.slow = FALSE, !.inbox = FALSE]]
    /\ barrier' = IF barrier = t THEN NoSub ELSE barrier
    /\ timer' = Reconnecting(t)
    /\ shared' = ConnectedWithout(t)
    /\ UNCHANGED everConnected

Ended(t) == [sub[t] EXCEPT !.up = "none"]

\* retainPoisonedSubscriptionBarrier
PoisonBarrier ==
    /\ poisoned' = TRUE
    /\ barrier' = Poison
    /\ shared' = FALSE

FireReconnect ==
    /\ timer
    /\ timer' = FALSE
    /\ Begin(gen)
    /\ UNCHANGED <<running, gen, poisoned, stopping, startVars, serviceVars,
                   browserVars, faults>>

-----------------------------------------------------------------------------
(* start and stop.                                                         *)

Launch ==
    /\ running' = TRUE /\ gen' = gen + 1
    /\ starting' = "no" /\ awaited' = NoSub
    /\ Begin(gen + 1)
    /\ UNCHANGED <<timer, poisoned, stopping, serviceVars, browserVars, faults>>

AwaitBarrier ==
    /\ starting' = "barrier" /\ awaited' = barrier
    /\ UNCHANGED <<sub, running, gen, timer, barrier, poisoned, stopping,
                   serviceVars, browserVars, faults>>

StartCalled ==
    /\ ~running /\ starting = "no" /\ gen < 2 * MaxStarts
    /\ \/ ~stopping /\ barrier = NoSub /\ Launch
       \/ ~stopping /\ barrier # NoSub /\ AwaitBarrier
       \/ /\ stopping /\ starting' = "stop"
          /\ UNCHANGED <<sub, running, gen, timer, barrier, poisoned, stopping,
                         awaited, serviceVars, browserVars, faults>>

StartAfterStop ==
    /\ starting = "stop" /\ ~stopping
    /\ \/ barrier = NoSub /\ Launch
       \/ barrier # NoSub /\ AwaitBarrier

\* The subscription that start waited for has settled, and the barrier is no
\* longer the one start read.
StartAfterBarrier ==
    /\ starting = "barrier"
    /\ awaited \in Subs /\ sub[awaited].pc = "idle" /\ barrier # awaited
    /\ Launch

\* It has not settled within its bound: the transport stays stopped.
StartGivesUp ==
    /\ starting = "barrier"
    /\ starting' = "no" /\ awaited' = NoSub /\ shared' = FALSE
    /\ UNCHANGED <<sub, running, gen, timer, barrier, poisoned, stopping,
                   everConnected, browserVars, faults>>

\* stop up to its first await: the deadline is cleared, the request aborted
\* and its stream cancelled.  An abort may end the stream at once, and the
\* cancellation of a stream that failed is itself a failure.
Released(t) == [sub[t] EXCEPT !.armed = FALSE, !.inbox = FALSE,
                              !.up = IF Reading(t) THEN "cancelling" ELSE @]

StopCalled ==
    /\ running
    /\ running' = FALSE /\ gen' = gen + 1 /\ timer' = FALSE /\ stopping' = TRUE
    /\ \/ /\ sub' = [t \in Subs |-> IF Busy(t) /\ Current(t) THEN Released(t) ELSE sub[t]]
          /\ UNCHANGED <<barrier, poisoned, shared>>
       \/ \E t \in Subs :
             /\ Current(t) /\ Reading(t)
             /\ sub' = [sub EXCEPT ![t] = [Released(t) EXCEPT !.up = "none"]]
             /\ PoisonBarrier
    /\ UNCHANGED <<startVars, everConnected, browserVars, faults>>

\* Its bounded waits are over, one way or the other.
StopReturns ==
    /\ stopping
    /\ stopping' = FALSE /\ shared' = FALSE
    /\ UNCHANGED <<sub, running, gen, timer, barrier, poisoned, startVars,
                   everConnected, browserVars, faults>>

-----------------------------------------------------------------------------
(* subscribe and consumeStream.                                            *)

Unchanging == UNCHANGED <<running, gen, poisoned, stopping, startVars, browserVars>>

\* The provider answers.  A response that comes too late, or to a transport
\* stopped meanwhile, is cancelled; an error's body is read to its end.
FetchAnswers(t) ==
    /\ sub[t].pc = "fetch" /\ (sub[t].slow => ~sub[t].armed)
    /\ \/ /\ sub[t].late \/ ~Current(t)
          /\ sub' = [sub EXCEPT ![t].pc = "closing", ![t].up = "cancelling"]
          /\ UNCHANGED faults
       \/ /\ ~sub[t].late /\ Current(t)
          /\ \/ sub' = [sub EXCEPT ![t].pc = "read", ![t].up = "live"] /\ UNCHANGED faults
             \/ sub' = [sub EXCEPT ![t].pc = "body"] /\ Fault
    /\ UNCHANGED <<timer, barrier, serviceVars>> /\ Unchanging

\* It cannot be reached, or the fetch honours the abort.
FetchFails(t) ==
    /\ sub[t].pc = "fetch"
    /\ IF sub[t].armed THEN Fault ELSE UNCHANGED faults
    /\ Retire(t, Ended(t))
    /\ Unchanging

BodyRead(t) ==
    /\ sub[t].pc = "body" /\ (sub[t].slow => ~sub[t].armed)
    /\ Retire(t, Ended(t))
    /\ UNCHANGED faults /\ Unchanging

GoesSlow(t) ==
    /\ sub[t].armed /\ ~sub[t].slow /\ Fault
    /\ sub' = [sub EXCEPT ![t].slow = TRUE]
    /\ UNCHANGED <<timer, barrier, serviceVars>> /\ Unchanging

\* Mutant: the deadline ends the wait for the fetch as well.
ImpatientDeadline(t) ==
    /\ sub[t].armed /\ sub[t].slow
    /\ Retire(t, sub[t])
    /\ UNCHANGED faults /\ Unchanging

\* The connection deadline passes.  A fetch or a body goes on being awaited; a
\* stream is cancelled, unless the abort has ended it.
DeadlinePasses(t) ==
    LET row == [sub[t] EXCEPT !.armed = FALSE, !.late = TRUE]
    IN  /\ sub[t].armed /\ sub[t].slow
        /\ \/ /\ sub[t].pc \in {"fetch", "body"}
              /\ sub' = [sub EXCEPT ![t] = row]
              /\ UNCHANGED <<timer, barrier, serviceVars>>
           \/ /\ sub[t].pc = "read"
              /\ sub' = [sub EXCEPT ![t] = [row EXCEPT !.pc = "closing",
                                                       !.up = "cancelling",
                                                       !.inbox = FALSE]]
              /\ UNCHANGED <<timer, barrier, serviceVars>>
           \/ sub[t].pc = "read" /\ Retire(t, [row EXCEPT !.up = "none"])
        /\ UNCHANGED faults /\ Unchanging

\* reportStatus(true) and handleTransportStatus: after an interruption the
\* browsers are told to read everything again.
Acknowledged(t) ==
    /\ sub[t].pc = "read" /\ Current(t) /\ ~sub[t].slow /\ sub[t].up = "live"
    /\ sub' = [sub EXCEPT ![t].pc = "acked", ![t].armed = FALSE]
    /\ shared' = TRUE /\ everConnected' = TRUE
    /\ stale' = IF everConnected /\ ~shared THEN {} ELSE stale
    /\ UNCHANGED <<running, gen, timer, barrier, poisoned, stopping, startVars,
                   conn, draining, faults>>

\* A frame of the channel: every open stream gets the event.
MessageArrives(t) ==
    /\ Reading(t) /\ Current(t) /\ sub[t].inbox
    /\ sub' = [sub EXCEPT ![t].inbox = FALSE]
    /\ stale' = {}
    /\ UNCHANGED <<running, gen, timer, barrier, poisoned, stopping, startVars,
                   serviceVars, conn, draining, faults>>

\* The provider drops the subscription, with what it had sent or without.
StreamBreaks(t) ==
    /\ sub[t].up = "live" /\ Fault
    /\ \E left \in {FALSE, sub[t].inbox} :
          sub' = [sub EXCEPT ![t].up = "broken", ![t].inbox = left]
    /\ UNCHANGED <<timer, barrier, serviceVars>> /\ Unchanging

\* The next read finds the end of the stream, or its failure.
StreamEnds(t) ==
    /\ Reading(t) /\ Current(t) /\ sub[t].up = "broken" /\ ~sub[t].inbox
    /\ Retire(t, Ended(t))
    /\ UNCHANGED faults /\ Unchanging

\* After stop has cancelled the stream, the pending read returns.  With the
\* acknowledgement seen, subscribe waits for the cancellation; without it, the
\* error path asks for a cancellation again, which forgets the one under way.
ReadStops(t) ==
    /\ Reading(t) /\ ~Current(t)
    /\ \/ /\ sub[t].pc = "acked" /\ sub[t].up = "cancelling"
          /\ sub' = [sub EXCEPT ![t].pc = "closing"]
          /\ UNCHANGED <<timer, barrier, serviceVars>>
       \/ /\ sub[t].pc = "read" \/ sub[t].up # "cancelling"
          /\ Retire(t, sub[t])
    /\ UNCHANGED faults /\ Unchanging

CancelEnds(t) ==
    /\ sub[t].up = "cancelling"
    /\ sub' = [sub EXCEPT ![t].up = "none"]
    /\ UNCHANGED <<timer, barrier, serviceVars, faults>> /\ Unchanging

CancelFails(t) ==
    /\ sub[t].up = "cancelling" /\ Fault
    /\ sub' = [sub EXCEPT ![t].up = "stuck"]
    /\ PoisonBarrier
    /\ UNCHANGED <<running, gen, timer, stopping, startVars, everConnected, browserVars>>

CloseReturns(t) ==
    /\ sub[t].pc = "closing" /\ sub[t].up # "cancelling"
    /\ Retire(t, sub[t])
    /\ UNCHANGED faults /\ Unchanging

-----------------------------------------------------------------------------
(* Browsers and peers.                                                     *)

UnchangedTransport == UNCHANGED <<sub, running, gen, timer, barrier, poisoned,
                                  stopping, startVars, serviceVars, faults>>

\* getRealtimeEvents up to the first await.
Connect(b) ==
    /\ conn[b] = "closed" /\ ~draining /\ shared
    /\ conn' = [conn EXCEPT ![b] = "authorizing"]
    /\ UNCHANGED <<stale, draining>> /\ UnchangedTransport

\* openRealtimeConnection
Room(b) ==
    /\ Cardinality(Open) < MaxTotal
    /\ Cardinality({c \in Open : ClientOf[c] = ClientOf[b]}) < MaxPerClient

\* Mutant: what was checked before the authorisation is not checked again.
TrustingAuthorized(b) ==
    /\ conn[b] = "authorizing"
    /\ conn' = [conn EXCEPT ![b] = "open"]
    /\ UNCHANGED <<stale, draining>> /\ UnchangedTransport

\* The rest of it, once the topics are authorised.  A stream begins with the
\* advice to read everything.
Authorized(b) ==
    /\ conn[b] = "authorizing"
    /\ conn' = [conn EXCEPT ![b] = IF ~draining /\ shared /\ Room(b) THEN "open" ELSE "closed"]
    /\ UNCHANGED <<stale, draining>> /\ UnchangedTransport

\* Mutant: the stream stays subscribed to the event bus.
LingeringLeave(b) ==
    /\ conn[b] # "closed"
    /\ conn' = [conn EXCEPT ![b] = "closed"]
    /\ UNCHANGED <<stale, draining>> /\ UnchangedTransport

\* The browser leaves, a write to it fails, or its topics are refused.
Leave(b) ==
    /\ conn[b] # "closed"
    /\ conn' = [conn EXCEPT ![b] = "closed"]
    /\ stale' = stale \ {b}
    /\ UNCHANGED draining /\ UnchangedTransport

\* Shutdown, before it stops the transport.
DrainRealtimeConnections ==
    /\ ~draining
    /\ draining' = TRUE
    /\ conn' = [b \in Browsers |-> "closed"]
    /\ stale' = {}
    /\ UnchangedTransport

\* Another process publishes: what is subscribed at the provider is sent it.
PeerPublishes ==
    /\ stale' = Open
    /\ sub' = [t \in Subs |-> [sub[t] EXCEPT !.inbox = @ \/ sub[t].up = "live"]]
    /\ UNCHANGED <<running, gen, timer, barrier, poisoned, stopping, startVars,
                   serviceVars, conn, draining, faults>>

-----------------------------------------------------------------------------
Subscription(t) ==
    \/ FetchAnswers(t) \/ FetchFails(t) \/ BodyRead(t) \/ GoesSlow(t)
    \/ DeadlinePasses(t) \/ Acknowledged(t) \/ MessageArrives(t)
    \/ StreamBreaks(t) \/ StreamEnds(t) \/ ReadStops(t)
    \/ CancelEnds(t) \/ CancelFails(t) \/ CloseReturns(t)

Lifecycle ==
    \/ StartCalled \/ StartAfterStop \/ StartAfterBarrier \/ StartGivesUp
    \/ StopCalled \/ StopReturns \/ FireReconnect

Next ==
    \/ Lifecycle
    \/ \E t \in Subs : Subscription(t)
    \/ \E b \in Browsers : Connect(b) \/ Authorized(b) \/ Leave(b)
    \/ DrainRealtimeConnections
    \/ PeerPublishes

\* Timers fire and promises that have settled continue.  Of the provider and
\* the network: a request that is not slow is answered, one that was aborted
\* settles, a stream that ended is read to its end, a cancellation settles.
Fairness ==
    /\ WF_vars(FireReconnect)
    /\ \A t \in Subs :
          /\ WF_vars(FetchAnswers(t) \/ FetchFails(t))
          /\ WF_vars(BodyRead(t))
          /\ WF_vars(DeadlinePasses(t))
          /\ WF_vars(Acknowledged(t))
          /\ WF_vars(MessageArrives(t) \/ StreamEnds(t))
          /\ WF_vars(CancelEnds(t) \/ CancelFails(t))
          /\ WF_vars(CloseReturns(t))

Spec == Init /\ [][Next]_vars
FairSpec == Spec /\ Fairness

-----------------------------------------------------------------------------
(* Properties.                                                             *)

\* Types; and only open streams are counted among those that missed an event:
\* a closed one has left the event bus.
TypeOK ==
    /\ sub \in [Subs -> SubRows]
    /\ {running, timer, poisoned, stopping, shared, everConnected, draining} \subseteq BOOLEAN
    /\ gen \in Nat /\ faults \in Nat
    /\ barrier \in Subs \cup {NoSub, Poison}
    /\ awaited \in Subs \cup {NoSub, Poison}
    /\ starting \in {"no", "stop", "barrier"}
    /\ conn \in [Browsers -> {"closed", "authorizing", "open"}]
    /\ stale \subseteq Open

\* A reconnection never overlaps the upstream request it replaces, whatever
\* deadlines pass, aborts are ignored and cancellations hang in between.
ReconnectNeverOverlaps ==
    \A t, u \in Subs :
        t # u /\ sub[t].up # "none" /\ sub[u].up # "none" => sub[t].gen # sub[u].gen

\* An open stream that has missed an event is going to hear of it: the event
\* is on its way, or the transport is not connected, so that it reconciles
\* when it is again.
NothingMissed ==
    stale # {} =>
        \A t \in Subs : sub[t].pc = "acked" /\ Current(t) /\ sub[t].up = "live" => sub[t].inbox

\* Streams are admitted within the limits, and none outlives the drain, however
\* long its authorisation takes.
StreamsAdmitted ==
    /\ draining => Open = {}
    /\ Cardinality(Open) <= MaxTotal
    /\ \A b \in Browsers : Cardinality({c \in Open : ClientOf[c] = ClientOf[b]}) <= MaxPerClient

\* Unless it is stopped, or a cancellation has failed, a transport without a
\* connection gets one.
Reconnects == running /\ ~poisoned ~> shared \/ ~running \/ poisoned
=============================================================================
