----------------------- MODULE RealtimeTransportProofs -----------------------
(***************************************************************************)
(* Theorems about RealtimeTransport, for any number of subscriptions and   *)
(* browsers, any limits, and any number of starts and failures.            *)
(***************************************************************************)
EXTENDS RealtimeTransport, FiniteSetTheorems, TLAPS

-----------------------------------------------------------------------------
(* Types.                                                                  *)

LEMMA IdleTyped == Idle \in SubRows
  BY DEF Idle, SubRows

LEMMA BeginTyped ==
    ASSUME TypeOK, NEW g \in Nat, Begin(g)
    PROVE  sub' \in [Subs -> SubRows] /\ barrier' \in Subs
  <1>1. PICK t \in Subs :
          /\ sub' = [sub EXCEPT ![t] = [Idle EXCEPT !.pc = "fetch", !.gen = g,
                                                    !.up = "asked", !.armed = TRUE]]
          /\ barrier' = t
    BY DEF Begin
  <1>2. [Idle EXCEPT !.pc = "fetch", !.gen = g, !.up = "asked", !.armed = TRUE] \in SubRows
    BY DEF Idle, SubRows
  <1> QED BY <1>1, <1>2 DEF TypeOK

LEMMA RetireTyped ==
    ASSUME TypeOK, NEW t \in Subs, NEW row \in SubRows, Retire(t, row)
    PROVE  /\ sub' \in [Subs -> SubRows]
           /\ barrier' \in Subs \cup {NoSub, Poison}
           /\ timer' \in BOOLEAN /\ shared' \in BOOLEAN /\ everConnected' \in BOOLEAN
  BY DEF Retire, TypeOK, SubRows, Reconnecting, ConnectedWithout, Current

LEMMA LaunchTyped ==
    ASSUME TypeOK, Launch PROVE TypeOK'
  <1>1. gen + 1 \in Nat
    BY DEF TypeOK
  <1>2. sub' \in [Subs -> SubRows] /\ barrier' \in Subs
    BY <1>1, BeginTyped DEF Launch
  <1> QED BY <1>1, <1>2 DEF Launch, TypeOK, serviceVars, browserVars, Open

LEMMA AwaitTyped ==
    ASSUME TypeOK, AwaitBarrier PROVE TypeOK'
  BY DEF AwaitBarrier, TypeOK, serviceVars, browserVars, Open

LEMMA TypesKept == TypeOK /\ [Next]_vars => TypeOK'
  <1> SUFFICES ASSUME TypeOK, [Next]_vars PROVE TypeOK'
    OBVIOUS
  <1> USE DEF Unchanging, Fault, startVars, serviceVars, browserVars
  <1>1. CASE StartCalled
    BY <1>1, LaunchTyped, AwaitTyped DEF StartCalled, TypeOK, Open
  <1>2. CASE StartAfterStop
    BY <1>2, LaunchTyped, AwaitTyped DEF StartAfterStop
  <1>3. CASE StartAfterBarrier
    BY <1>3, LaunchTyped DEF StartAfterBarrier
  <1>4. CASE StartGivesUp
    BY <1>4 DEF StartGivesUp, TypeOK, Open
  <1>5. CASE StopCalled
    <2>1. ASSUME NEW t \in Subs
          PROVE  Released(t) \in SubRows /\ [Released(t) EXCEPT !.up = "none"] \in SubRows
      <3>1. sub[t] \in SubRows
        BY DEF TypeOK
      <3> QED BY <3>1 DEF Released, SubRows
    <2>2. sub' \in [Subs -> SubRows]
      BY <1>5, <2>1 DEF StopCalled, TypeOK
    <2>3. gen' \in Nat
      BY <1>5 DEF StopCalled, TypeOK
    <2>4. {poisoned', shared'} \subseteq BOOLEAN /\ barrier' \in Subs \cup {NoSub, Poison}
      BY <1>5 DEF StopCalled, PoisonBarrier, TypeOK
    <2> QED BY <1>5, <2>2, <2>3, <2>4 DEF StopCalled, TypeOK, Open
  <1>6. CASE StopReturns
    BY <1>6 DEF StopReturns, TypeOK, Open
  <1>7. CASE FireReconnect
    BY <1>7, BeginTyped DEF FireReconnect, TypeOK, Open
  <1>8. ASSUME NEW t \in Subs, Subscription(t) PROVE TypeOK'
    <2>1. sub[t] \in SubRows /\ Ended(t) \in SubRows
      BY DEF TypeOK, SubRows, Ended
    <2>2. CASE FetchAnswers(t)
      <3>1. sub' \in [Subs -> SubRows]
        BY <2>2 DEF FetchAnswers, TypeOK, SubRows
      <3> QED BY <2>2, <3>1 DEF FetchAnswers, TypeOK, Open
    <2>3. CASE FetchFails(t)
      BY <2>1, <2>3, RetireTyped DEF FetchFails, TypeOK, Open
    <2>4. CASE BodyRead(t)
      BY <2>1, <2>4, RetireTyped DEF BodyRead, TypeOK, Open
    <2>5. CASE GoesSlow(t)
      <3>1. [sub[t] EXCEPT !.slow = TRUE] \in SubRows
        BY <2>1 DEF SubRows
      <3>2. sub' \in [Subs -> SubRows]
        BY <2>5, <3>1 DEF GoesSlow, TypeOK
      <3> QED BY <2>5, <3>2 DEF GoesSlow, TypeOK, Open
    <2>6. CASE DeadlinePasses(t)
      <3> DEFINE row == [sub[t] EXCEPT !.armed = FALSE, !.late = TRUE]
                 closing == [row EXCEPT !.pc = "closing", !.up = "cancelling", !.inbox = FALSE]
                 gone == [row EXCEPT !.up = "none"]
      <3>1. row \in SubRows /\ closing \in SubRows /\ gone \in SubRows
        BY <2>1 DEF SubRows
      <3>2. CASE Retire(t, gone)
        BY <2>6, <3>1, <3>2, RetireTyped DEF DeadlinePasses, TypeOK, Open
      <3>3. CASE ~Retire(t, gone)
        <4>1. sub' \in [Subs -> SubRows]
          BY <2>6, <3>1, <3>3 DEF DeadlinePasses, TypeOK
        <4> QED BY <2>6, <3>3, <4>1 DEF DeadlinePasses, TypeOK, Open
      <3> QED BY <3>2, <3>3
    <2>7. CASE Acknowledged(t)
      <3>1. [sub[t] EXCEPT !.pc = "acked", !.armed = FALSE] \in SubRows
        BY <2>1 DEF SubRows
      <3>2. sub' \in [Subs -> SubRows]
        BY <2>7, <3>1 DEF Acknowledged, TypeOK
      <3> QED BY <2>7, <3>2 DEF Acknowledged, TypeOK, Open
    <2>8. CASE MessageArrives(t)
      <3>1. sub' \in [Subs -> SubRows]
        BY <2>8 DEF MessageArrives, TypeOK, SubRows
      <3> QED BY <2>8, <3>1 DEF MessageArrives, TypeOK, Open
    <2>9. CASE StreamBreaks(t)
      <3>1. \A left \in {FALSE, sub[t].inbox} :
              [sub[t] EXCEPT !.up = "broken", !.inbox = left] \in SubRows
        BY <2>1 DEF SubRows
      <3>2. sub' \in [Subs -> SubRows]
        BY <2>9, <3>1 DEF StreamBreaks, TypeOK
      <3> QED BY <2>9, <3>2 DEF StreamBreaks, TypeOK, Open
    <2>10. CASE StreamEnds(t)
      BY <2>1, <2>10, RetireTyped DEF StreamEnds, TypeOK, Open
    <2>11. CASE ReadStops(t)
      <3>1. CASE Retire(t, sub[t])
        BY <2>1, <2>11, <3>1, RetireTyped DEF ReadStops, TypeOK, Open
      <3>2. CASE ~Retire(t, sub[t])
        <4>1. sub' \in [Subs -> SubRows]
          BY <2>11, <3>2 DEF ReadStops, TypeOK, SubRows
        <4> QED BY <2>11, <3>2, <4>1 DEF ReadStops, TypeOK, Open
      <3> QED BY <3>1, <3>2
    <2>12. CASE CancelEnds(t)
      <3>1. sub' \in [Subs -> SubRows]
        BY <2>12 DEF CancelEnds, TypeOK, SubRows
      <3> QED BY <2>12, <3>1 DEF CancelEnds, TypeOK, Open
    <2>13. CASE CancelFails(t)
      <3>1. sub' \in [Subs -> SubRows]
        BY <2>13 DEF CancelFails, TypeOK, SubRows
      <3>2. faults' \in Nat
        BY <2>13 DEF CancelFails, TypeOK
      <3>3. poisoned' \in BOOLEAN /\ shared' \in BOOLEAN /\ barrier' \in {NoSub, Poison}
        BY <2>13 DEF CancelFails, PoisonBarrier
      <3> QED BY <2>13, <3>1, <3>2, <3>3 DEF CancelFails, TypeOK, Open
    <2>14. CASE CloseReturns(t)
      BY <2>1, <2>14, RetireTyped DEF CloseReturns, TypeOK, Open
    <2> QED BY <1>8, <2>2, <2>3, <2>4, <2>5, <2>6, <2>7, <2>8, <2>9, <2>10, <2>11,
               <2>12, <2>13, <2>14 DEF Subscription
  <1>9. ASSUME NEW b \in Browsers, Connect(b) \/ Authorized(b) \/ Leave(b) PROVE TypeOK'
    <2>1. CASE Connect(b)
      BY <2>1 DEF Connect, UnchangedTransport, TypeOK, Open
    <2>2. CASE Authorized(b)
      BY <2>2 DEF Authorized, UnchangedTransport, TypeOK, Open
    <2>3. CASE Leave(b)
      BY <2>3 DEF Leave, UnchangedTransport, TypeOK, Open
    <2> QED BY <1>9, <2>1, <2>2, <2>3
  <1>10. CASE DrainRealtimeConnections
    BY <1>10 DEF DrainRealtimeConnections, UnchangedTransport, TypeOK, Open
  <1>11. CASE PeerPublishes
    <2>1. sub' \in [Subs -> SubRows]
      BY <1>11 DEF PeerPublishes, TypeOK, SubRows
    <2> QED BY <1>11, <2>1 DEF PeerPublishes, TypeOK, Open
  <1>12. CASE UNCHANGED vars
    BY <1>12 DEF vars, TypeOK, Open
  <1> QED BY <1>1, <1>2, <1>3, <1>4, <1>5, <1>6, <1>7, <1>8, <1>9, <1>10, <1>11, <1>12
          DEF Next, Lifecycle

LEMMA InitTyped == Init => TypeOK
  <1> SUFFICES ASSUME Init PROVE TypeOK
    OBVIOUS
  <1>1. sub \in [Subs -> SubRows] /\ conn \in [Browsers -> {"closed", "authorizing", "open"}]
    BY IdleTyped DEF Init
  <1>2. {running, timer, poisoned, stopping, shared, everConnected, draining} \subseteq BOOLEAN
    BY DEF Init
  <1> QED BY <1>1, <1>2 DEF Init, TypeOK, Open

\* The rows keep their types, and only open streams are counted among those
\* that missed an event.
THEOREM TypesHold == Spec => []TypeOK
  <1> QED BY InitTyped, TypesKept, PTL DEF Spec

-----------------------------------------------------------------------------
(* The inductive invariant.                                                *)

Unconnected == {"fetch", "body", "read", "closing"}

\* No two calls of subscribe are of one generation, none is of a later one than
\* the transport's, and while a reconnection is scheduled none is of that.
Apart ==
    /\ \A t \in Subs : Busy(t) => sub[t].gen <= gen
    /\ \A t, u \in Subs : t # u /\ Busy(t) /\ Busy(u) => sub[t].gen # sub[u].gen
    /\ timer => running /\ \A t \in Subs : Busy(t) => sub[t].gen # gen

\* A call that waits for its cancellation has no other request; one that cannot
\* be cancelled has left its barrier.
Cancelled ==
    \A t \in Subs : /\ sub[t].pc = "closing" => sub[t].up \in {"none", "cancelling", "stuck"}
                    /\ sub[t].up = "stuck" => poisoned

\* A transport that starts or stops does not run, and one that waits for a
\* barrier is not stopping.
Phases ==
    /\ starting # "no" \/ stopping => ~running
    /\ starting = "barrier" => ~stopping

\* The service takes the transport for connected only after an acknowledgement.
Reported ==
    /\ \A t \in Subs : Current(t) /\ sub[t].pc \in Unconnected => ~shared
    /\ timer \/ (~running /\ ~stopping) => ~shared
    /\ shared \/ Open # {} => everConnected

IInv == TypeOK /\ Apart /\ Cancelled /\ Phases /\ Reported

LEMMA InitIInv == Init => IInv
  <1> SUFFICES ASSUME Init PROVE IInv
    OBVIOUS
  <1>1. \A t \in Subs : sub[t].pc = "idle" /\ sub[t].up = "none"
    BY DEF Init, Idle
  <1>2. TypeOK
    BY InitTyped
  <1>3. Apart
    BY <1>1 DEF Init, Apart, Busy
  <1>4. Cancelled
    BY <1>1 DEF Cancelled
  <1>5. Phases /\ Reported
    BY DEF Init, Phases, Reported, Open
  <1> QED BY <1>2, <1>3, <1>4, <1>5 DEF IInv

\* What a step of one call of subscribe comes to.
Continues(t) ==
    /\ UNCHANGED <<running, gen, stopping, starting, conn>>
    /\ \A u \in Subs \ {t} : sub'[u] = sub[u]
    /\ (Busy(t)' => Busy(t)) /\ sub'[t].gen = sub[t].gen
    /\ sub'[t].pc = "closing" => sub'[t].up \in {"none", "cancelling", "stuck"}
    /\ (poisoned => poisoned') /\ (sub'[t].up = "stuck" => poisoned')
    /\ timer' => timer \/ (Current(t) /\ Busy(t) /\ ~Busy(t)' /\ ~shared')
    /\ shared' => \/ /\ shared
                     /\ Current(t) /\ sub'[t].pc \in Unconnected => sub[t].pc \in Unconnected
                  \/ Current(t) /\ Busy(t) /\ sub'[t].pc = "acked" /\ ~timer' /\ everConnected'
    /\ everConnected => everConnected'

LEMMA RetireContinues ==
    ASSUME IInv, NEW t \in Subs, NEW row \in SubRows, Retire(t, row), Busy(t),
           row.gen = sub[t].gen, row.up = "none" \/ ~Current(t) \/ poisoned,
           row.up = "stuck" => poisoned,
           UNCHANGED <<running, gen, poisoned, stopping, startVars, browserVars>>
    PROVE  Continues(t)
  <1>1. sub' = [sub EXCEPT ![t] = sub'[t]] /\ sub'[t] =
            [row EXCEPT !.pc = "idle", !.armed = FALSE, !.late = FALSE, !.slow = FALSE,
                        !.inbox = FALSE]
    BY DEF Retire, IInv, TypeOK
  <1>2. sub'[t].pc = "idle" /\ sub'[t].gen = row.gen /\ sub'[t].up = row.up
    BY <1>1 DEF SubRows
  <1>3. \A u \in Subs \ {t} : sub'[u] = sub[u]
    BY <1>1 DEF IInv, TypeOK
  <1>4. timer' => timer \/ (Current(t) /\ ~Busy(t)' /\ ~shared')
    BY <1>2 DEF Retire, Reconnecting, ConnectedWithout, Busy
  <1> QED BY <1>2, <1>3, <1>4
          DEF Retire, ConnectedWithout, Continues, startVars, browserVars, Unconnected

LEMMA SubscriptionContinues ==
    ASSUME IInv, NEW t \in Subs, Subscription(t)
    PROVE  Continues(t)
  <1> USE DEF Unchanging, Fault, startVars, serviceVars, browserVars
  <1>1. /\ sub \in [Subs -> SubRows] /\ sub[t] \in SubRows
        /\ Ended(t) \in SubRows /\ Ended(t).gen = sub[t].gen /\ Ended(t).up = "none"
    BY DEF IInv, TypeOK, SubRows, Ended
  <1>2. /\ sub[t].pc = "closing" => sub[t].up \in {"none", "cancelling", "stuck"}
        /\ sub[t].up = "stuck" => poisoned
    BY DEF IInv, Cancelled
  <1>3. CASE FetchAnswers(t)
    BY <1>1, <1>2, <1>3 DEF FetchAnswers, Continues, SubRows, Busy, Unconnected
  <1>4. CASE FetchFails(t)
    BY <1>1, <1>4, RetireContinues DEF FetchFails, Busy
  <1>5. CASE BodyRead(t)
    BY <1>1, <1>5, RetireContinues DEF BodyRead, Busy
  <1>6. CASE GoesSlow(t)
    BY <1>1, <1>2, <1>6 DEF GoesSlow, Continues, SubRows, Busy
  <1>7. CASE DeadlinePasses(t)
    <2> DEFINE row == [sub[t] EXCEPT !.armed = FALSE, !.late = TRUE]
               gone == [row EXCEPT !.up = "none"]
    <2>1. gone \in SubRows /\ gone.gen = sub[t].gen /\ gone.up = "none"
      BY <1>1 DEF SubRows
    <2>2. CASE sub[t].pc = "read" /\ Retire(t, gone)
      BY <1>7, <2>1, <2>2, RetireContinues DEF DeadlinePasses, Busy
    <2>3. CASE ~(sub[t].pc = "read" /\ Retire(t, gone))
      <3>1. row \in SubRows /\ row.gen = sub[t].gen /\ row.up = sub[t].up /\ row.pc = sub[t].pc
        BY <1>1 DEF SubRows
      <3>2. \/ sub' = [sub EXCEPT ![t] = row] /\ sub[t].pc # "closing"
            \/ /\ sub[t].pc = "read"
               /\ sub' = [sub EXCEPT ![t] = [row EXCEPT !.pc = "closing", !.up = "cancelling",
                                                        !.inbox = FALSE]]
        BY <1>7, <2>3 DEF DeadlinePasses
      <3>3. UNCHANGED <<timer, shared, everConnected>>
        BY <1>7, <2>3 DEF DeadlinePasses
      <3>4. UNCHANGED <<running, gen, stopping, starting, conn, poisoned>>
        BY <1>7 DEF DeadlinePasses
      <3>5. /\ \A u \in Subs \ {t} : sub'[u] = sub[u]
            /\ sub'[t].gen = sub[t].gen /\ (Busy(t)' => Busy(t))
            /\ sub'[t].pc = "closing" => sub'[t].up = "cancelling"
            /\ sub'[t].up = "stuck" => sub[t].up = "stuck"
            /\ sub'[t].pc \in Unconnected => sub[t].pc \in Unconnected
        <4>1. CASE sub' = [sub EXCEPT ![t] = row] /\ sub[t].pc # "closing"
          BY <1>1, <3>1, <4>1 DEF Busy
        <4>2. CASE sub[t].pc = "read" /\ sub' = [sub EXCEPT ![t] = [row EXCEPT !.pc = "closing",
                                                     !.up = "cancelling", !.inbox = FALSE]]
          BY <1>1, <3>1, <4>2 DEF Busy, SubRows, Unconnected
        <4> QED BY <3>2, <4>1, <4>2
      <3> QED BY <1>2, <3>3, <3>4, <3>5 DEF Continues
    <2> QED BY <2>2, <2>3
  <1>8. CASE Acknowledged(t)
    <2>1. ~timer
      BY <1>8 DEF Acknowledged, Current, Busy, IInv, Apart
    <2> QED BY <1>1, <1>2, <1>8, <2>1 DEF Acknowledged, Continues, SubRows, Busy
  <1>9. CASE MessageArrives(t)
    BY <1>1, <1>2, <1>9 DEF MessageArrives, Continues, SubRows, Busy
  <1>10. CASE StreamBreaks(t)
    BY <1>1, <1>2, <1>10 DEF StreamBreaks, Continues, SubRows, Busy
  <1>11. CASE StreamEnds(t)
    BY <1>1, <1>11, RetireContinues DEF StreamEnds, Busy, Reading
  <1>12. CASE ReadStops(t)
    <2>1. CASE Retire(t, sub[t])
      BY <1>1, <1>2, <1>12, <2>1, RetireContinues DEF ReadStops, Reading, Busy
    <2>2. CASE ~Retire(t, sub[t])
      BY <1>1, <1>2, <1>12, <2>2 DEF ReadStops, Reading, Continues, SubRows, Busy
    <2> QED BY <2>1, <2>2
  <1>13. CASE CancelEnds(t)
    BY <1>1, <1>2, <1>13 DEF CancelEnds, Continues, SubRows, Busy
  <1>14. CASE CancelFails(t)
    BY <1>1, <1>2, <1>14 DEF CancelFails, PoisonBarrier, Continues, SubRows, Busy
  <1>15. CASE CloseReturns(t)
    BY <1>1, <1>2, <1>15, RetireContinues DEF CloseReturns, Busy
  <1> QED BY <1>3, <1>4, <1>5, <1>6, <1>7, <1>8, <1>9, <1>10, <1>11, <1>12, <1>13,
             <1>14, <1>15 DEF Subscription

\* The invariant is kept by the steps of the calls of subscribe,
LEMMA SubscriptionKeeps ==
    ASSUME IInv, TypeOK', NEW t \in Subs, Continues(t)
    PROVE  IInv'
  <1>1. gen \in Nat /\ \A u \in Subs : sub[u].gen \in Nat
    BY DEF IInv, TypeOK, SubRows
  <1>2. \A u \in Subs : (Busy(u)' => Busy(u)) /\ sub'[u].gen = sub[u].gen
    BY DEF Continues, Busy
  <1>3. Apart'
    <2>1. timer' => running /\ \A u \in Subs : Busy(u)' => sub[u].gen # gen
      BY <1>1, <1>2 DEF IInv, Apart, Continues, Current
    <2> QED BY <1>1, <1>2, <2>1 DEF IInv, Apart, Continues
  <1>4. Cancelled'
    BY DEF IInv, Cancelled, Continues
  <1>5. Phases'
    BY DEF IInv, Phases, Continues
  <1>6. Reported'
    <2>1. \A u \in Subs : Current(u)' <=> Current(u)
      BY <1>2 DEF Current, Continues
    <2>2. \A u \in Subs : Current(u) /\ sub'[u].pc \in Unconnected => ~shared'
      <3> SUFFICES ASSUME NEW u \in Subs, Current(u), sub'[u].pc \in Unconnected, shared'
                   PROVE  FALSE
        OBVIOUS
      <3>1. CASE u = t
        BY <3>1 DEF Continues, IInv, Reported, Unconnected
      <3>2. CASE u # t
        <4>1. sub'[u] = sub[u] /\ Busy(u)
          BY <3>2 DEF Continues, Busy, Unconnected
        <4>2. ~(Current(t) /\ Busy(t))
          BY <3>2, <4>1 DEF IInv, Apart, Current
        <4> QED BY <4>1, <4>2 DEF Continues, IInv, Reported
      <3> QED BY <3>1, <3>2
    <2>3. timer' \/ (~running /\ ~stopping) => ~shared'
      BY DEF Continues, IInv, Reported, Current
    <2>4. shared' \/ Open # {} => everConnected'
      BY DEF Continues, IInv, Reported
    <2> QED BY <2>1, <2>2, <2>3, <2>4 DEF Reported, Continues, Open
  <1> QED BY <1>3, <1>4, <1>5, <1>6 DEF IInv

\* by the beginning of a new one,
LEMMA BeginKeeps ==
    ASSUME IInv, TypeOK', NEW g \in {gen, gen + 1}, Begin(g), gen' = g, running',
           \A t \in Subs : Busy(t) => sub[t].gen # g, ~timer', ~shared,
           starting' = "no", ~stopping, UNCHANGED <<poisoned, stopping, serviceVars, conn>>
    PROVE  IInv'
  <1>1. gen \in Nat /\ \A u \in Subs : sub[u].gen \in Nat
    BY DEF IInv, TypeOK, SubRows
  <1>2. PICK t \in Subs :
          /\ sub'[t].pc = "fetch" /\ sub'[t].gen = g /\ sub'[t].up = "asked"
          /\ \A u \in Subs \ {t} : sub'[u] = sub[u]
    BY DEF Begin, Idle, IInv, TypeOK
  <1>3. \A u \in Subs \ {t} : Busy(u)' <=> Busy(u)
    BY <1>2 DEF Busy
  <1>4. Apart'
    BY <1>1, <1>2, <1>3 DEF IInv, Apart
  <1>5. Cancelled'
    BY <1>2 DEF IInv, Cancelled
  <1>6. Phases' /\ Reported'
    BY DEF IInv, Phases, Reported, serviceVars, Open
  <1> QED BY <1>4, <1>5, <1>6 DEF IInv

LEMMA LaunchKeeps ==
    ASSUME IInv, TypeOK', ~running, ~stopping, Launch
    PROVE  IInv'
  <1>1. gen \in Nat /\ \A u \in Subs : sub[u].gen \in Nat
    BY DEF IInv, TypeOK, SubRows
  <1>2. \A t \in Subs : Busy(t) => sub[t].gen # gen + 1
    BY <1>1 DEF IInv, Apart
  <1>3. ~timer /\ ~shared
    BY DEF IInv, Apart, Reported
  <1> QED BY <1>2, <1>3, BeginKeeps DEF Launch, browserVars

LEMMA AwaitKeeps ==
    ASSUME IInv, TypeOK', ~running, ~stopping, AwaitBarrier
    PROVE  IInv'
  BY DEF AwaitBarrier, serviceVars, browserVars, IInv, Apart, Cancelled, Phases, Reported,
         Busy, Current, Open

\* by start, stop and the timer,
LEMMA LifecycleKeeps ==
    ASSUME IInv, TypeOK', Lifecycle
    PROVE  IInv'
  <1> USE DEF startVars, serviceVars, browserVars
  <1>1. gen \in Nat /\ \A u \in Subs : sub[u].gen \in Nat
    BY DEF IInv, TypeOK, SubRows
  <1>2. CASE StartCalled
    <2>1. CASE ~stopping
      BY <1>2, <2>1, LaunchKeeps, AwaitKeeps DEF StartCalled
    <2>2. CASE stopping
      BY <1>2, <2>2 DEF StartCalled, IInv, Apart, Cancelled, Phases, Reported, Busy, Current, Open
    <2> QED BY <2>1, <2>2
  <1>3. CASE StartAfterStop
    BY <1>3, LaunchKeeps, AwaitKeeps DEF StartAfterStop, IInv, Phases
  <1>4. CASE StartAfterBarrier
    BY <1>4, LaunchKeeps DEF StartAfterBarrier, IInv, Phases
  <1>5. CASE StartGivesUp
    BY <1>5 DEF StartGivesUp, IInv, Apart, Cancelled, Phases, Reported, Busy, Current, Open
  <1>6. CASE StopReturns
    BY <1>6 DEF StopReturns, IInv, Apart, Cancelled, Phases, Reported, Busy, Current, Open
  <1>7. CASE FireReconnect
    <2>1. running /\ ~shared /\ \A t \in Subs : Busy(t) => sub[t].gen # gen
      BY <1>7 DEF FireReconnect, IInv, Apart, Reported
    <2>2. starting = "no" /\ ~stopping
      BY <2>1 DEF IInv, Phases, TypeOK
    <2> QED BY <1>7, <2>1, <2>2, BeginKeeps DEF FireReconnect
  <1>8. CASE StopCalled
    <2>1. \A t \in Subs : /\ (Busy(t)' => Busy(t)) /\ sub'[t].gen = sub[t].gen
                          /\ sub'[t].pc = sub[t].pc
                          /\ sub'[t].up \in {sub[t].up, "cancelling", "none"}
      <3>1. \A t \in Subs :
              /\ Released(t).pc = sub[t].pc /\ Released(t).gen = sub[t].gen
              /\ Released(t).up \in {sub[t].up, "cancelling"}
              /\ Released(t).up = "cancelling" => Reading(t) \/ sub[t].up = "cancelling"
        <4> TAKE t \in Subs
        <4>1. sub[t] \in SubRows
          BY DEF IInv, TypeOK
        <4> QED BY <4>1 DEF Released, SubRows
      <3>2. CASE sub' = [t \in Subs |-> IF Busy(t) /\ Current(t) THEN Released(t) ELSE sub[t]]
        BY <3>1, <3>2 DEF Busy
      <3>3. CASE \E s \in Subs : /\ Current(s) /\ Reading(s)
                                 /\ sub' = [sub EXCEPT ![s] = [Released(s) EXCEPT !.up = "none"]]
        <4>1. PICK s \in Subs :
                /\ Reading(s)
                /\ sub' = [sub EXCEPT ![s] = [Released(s) EXCEPT !.up = "none"]]
          BY <3>3
        <4>2. Released(s) \in SubRows
          <5>1. sub[s] \in SubRows
            BY DEF IInv, TypeOK
          <5> QED BY <5>1 DEF Released, SubRows
        <4>3. /\ sub'[s].pc = sub[s].pc /\ sub'[s].gen = sub[s].gen /\ sub'[s].up = "none"
              /\ \A t \in Subs \ {s} : sub'[t] = sub[t]
          BY <3>1, <4>1, <4>2 DEF IInv, TypeOK, SubRows
        <4> QED BY <4>1, <4>3 DEF Busy, Reading
      <3> QED BY <1>8, <3>2, <3>3 DEF StopCalled
    <2>2. (poisoned => poisoned') /\ (shared' => shared)
      BY <1>8 DEF StopCalled, PoisonBarrier
    <2>3. running /\ starting = "no" /\ ~running' /\ gen' = gen + 1 /\ ~timer' /\ stopping'
      BY <1>8 DEF StopCalled, IInv, Phases, TypeOK
    <2>4. starting' = "no" /\ UNCHANGED <<everConnected, conn>>
      BY <1>8, <2>3 DEF StopCalled
    <2>5. Apart'
      BY <1>1, <2>1, <2>3 DEF IInv, Apart
    <2>6. Cancelled'
      BY <2>1, <2>2 DEF IInv, Cancelled
    <2>7. Phases' /\ Reported'
      BY <2>2, <2>3, <2>4 DEF IInv, Phases, Reported, Current, Open
    <2> QED BY <2>5, <2>6, <2>7 DEF IInv
  <1> QED BY <1>2, <1>3, <1>4, <1>5, <1>6, <1>7, <1>8 DEF Lifecycle

\* and by what the browsers and the peers do.
LEMMA OthersKeep ==
    ASSUME IInv, TypeOK',
           \/ \E b \in Browsers : Connect(b) \/ Authorized(b) \/ Leave(b)
           \/ DrainRealtimeConnections \/ PeerPublishes \/ UNCHANGED vars
    PROVE  IInv'
  <1> USE DEF startVars, serviceVars, browserVars
  <1>1. /\ UNCHANGED <<running, gen, timer, poisoned, stopping, starting, serviceVars>>
        /\ \A t \in Subs : /\ sub'[t].pc = sub[t].pc /\ sub'[t].gen = sub[t].gen
                            /\ sub'[t].up = sub[t].up
    BY DEF Connect, Authorized, Leave, DrainRealtimeConnections, PeerPublishes, vars,
           UnchangedTransport, IInv, TypeOK, SubRows
  <1>2. Open' # {} => everConnected
    <2>1. Open' \subseteq Open \/ shared
      BY DEF Connect, Authorized, Leave, DrainRealtimeConnections, PeerPublishes, vars,
             Open, IInv, TypeOK
    <2> QED BY <2>1 DEF IInv, Reported
  <1> QED BY <1>1, <1>2 DEF IInv, Apart, Cancelled, Phases, Reported, Busy, Current

LEMMA IInvKept == IInv /\ [Next]_vars => IInv'
  <1> SUFFICES ASSUME IInv, [Next]_vars PROVE IInv'
    OBVIOUS
  <1>1. TypeOK'
    BY TypesKept DEF IInv
  <1>2. ASSUME NEW t \in Subs, Subscription(t) PROVE IInv'
    BY <1>1, <1>2, SubscriptionContinues, SubscriptionKeeps
  <1> QED BY <1>1, <1>2, LifecycleKeeps, OthersKeep DEF Next

\* The strengthening, with the types.
THEOREM InvariantHolds == Spec => []IInv
  BY InitIInv, IInvKept, PTL DEF Spec

\* However late a call of subscribe settles, the one that replaces it within the
\* same run of the transport begins after it.
THEOREM ReconnectsNeverOverlap == Spec => []ReconnectNeverOverlaps
  <1>1. IInv => ReconnectNeverOverlaps
    BY DEF IInv, Apart, Busy, ReconnectNeverOverlaps
  <1> QED BY <1>1, InvariantHolds, PTL

-----------------------------------------------------------------------------
(* Events.                                                                 *)

Live(t) == sub[t].pc = "acked" /\ Current(t) /\ sub[t].up = "live"

\* Nothing is missed in a step that subscribes nobody and takes no message.
Carries ==
    /\ stale' \subseteq stale
    /\ \A t \in Subs : Live(t)' => Live(t) /\ (sub[t].inbox => sub'[t].inbox)

LEMMA RetireCarries ==
    ASSUME IInv, NEW t \in Subs, NEW row \in SubRows, Retire(t, row),
           UNCHANGED <<running, gen, browserVars>>
    PROVE  Carries
  <1>1. sub'[t].pc = "idle" /\ \A u \in Subs \ {t} : sub'[u] = sub[u]
    BY DEF Retire, IInv, TypeOK, SubRows
  <1> QED BY <1>1 DEF Carries, Live, Current, browserVars

LEMMA BeginCarries ==
    ASSUME IInv, NEW g, Begin(g), gen' = g, UNCHANGED browserVars,
           (g = gen /\ UNCHANGED running) \/ g = gen + 1
    PROVE  Carries
  <1>1. gen \in Nat /\ \A u \in Subs : sub[u].gen \in Nat
    BY DEF IInv, TypeOK, SubRows
  <1>2. PICK t \in Subs : sub'[t].pc = "fetch" /\ \A u \in Subs \ {t} : sub'[u] = sub[u]
    BY DEF Begin, Idle, IInv, TypeOK
  <1>3. \A u \in Subs : Live(u)' => u # t /\ sub'[u] = sub[u] /\ g = gen
    <2> SUFFICES ASSUME NEW u \in Subs, Live(u)' PROVE u # t /\ sub'[u] = sub[u] /\ g = gen
      OBVIOUS
    <2>1. u # t /\ sub'[u] = sub[u]
      BY <1>2 DEF Live
    <2>2. sub[u].gen <= gen /\ sub[u].gen = g
      BY <2>1 DEF Live, Current, IInv, Apart, Busy
    <2> QED BY <1>1, <2>1, <2>2
  <1>4. \A u \in Subs : Live(u)' => Live(u)
    <2> SUFFICES ASSUME NEW u \in Subs, Live(u)' PROVE Live(u)
      OBVIOUS
    <2>1. g = gen /\ sub'[u] = sub[u]
      BY <1>3
    <2>2. running' = running
      BY <1>1, <2>1
    <2> QED BY <2>1, <2>2 DEF Live, Current
  <1>5. stale' = stale
    BY DEF browserVars
  <1>6. \A u \in Subs : Live(u)' => (sub[u].inbox => sub'[u].inbox)
    BY <1>3
  <1> QED BY <1>4, <1>5, <1>6 DEF Carries

LEMMA LifecycleCarries ==
    ASSUME IInv, Lifecycle
    PROVE  Carries
  <1> USE DEF startVars, serviceVars, browserVars
  <1>1. CASE FireReconnect
    BY <1>1, BeginCarries DEF FireReconnect
  <1>2. CASE Launch
    BY <1>2, BeginCarries DEF Launch
  <1>3. CASE StopCalled
    BY <1>3 DEF StopCalled, Carries, Live, Current
  <1>4. CASE ~FireReconnect /\ ~Launch /\ ~StopCalled
    <2>1. UNCHANGED <<sub, running, gen, stale>>
      BY <1>4 DEF Lifecycle, StartCalled, StartAfterStop, StartAfterBarrier, StartGivesUp,
                  StopReturns, AwaitBarrier
    <2> QED BY <2>1 DEF Carries, Live, Current
  <1> QED BY <1>1, <1>2, <1>3, <1>4

LEMMA SubscriptionCarries ==
    ASSUME IInv, NEW t \in Subs, Subscription(t), ~Acknowledged(t), ~MessageArrives(t)
    PROVE  Carries
  <1> USE DEF Unchanging, startVars, serviceVars, browserVars
  <1>1. /\ sub \in [Subs -> SubRows] /\ sub[t] \in SubRows /\ Ended(t) \in SubRows
    BY DEF IInv, TypeOK, SubRows, Ended
  <1>2. UNCHANGED <<running, gen, stale>>
    BY DEF Subscription, FetchAnswers, FetchFails, BodyRead, GoesSlow, DeadlinePasses,
           StreamBreaks, StreamEnds, ReadStops, CancelEnds, CancelFails, CloseReturns
  <1>3. CASE \E row \in SubRows : Retire(t, row)
    BY <1>2, <1>3, RetireCarries
       DEF Subscription, FetchAnswers, FetchFails, BodyRead, GoesSlow, DeadlinePasses,
           StreamBreaks, StreamEnds, ReadStops, CancelEnds, CancelFails, CloseReturns
  <1>4. CASE ~\E row \in SubRows : Retire(t, row)
    <2>1. [[sub[t] EXCEPT !.armed = FALSE, !.late = TRUE] EXCEPT !.up = "none"] \in SubRows
      BY <1>1 DEF SubRows
    <2>2. /\ \A u \in Subs \ {t} : sub'[u] = sub[u]
          /\ sub'[t].pc = "acked" /\ sub'[t].up = "live" =>
               /\ sub[t].pc = "acked" /\ sub[t].up = "live"
               /\ sub'[t].gen = sub[t].gen /\ sub'[t].inbox = sub[t].inbox
      <3>1. CASE FetchAnswers(t)
        BY <1>1, <3>1 DEF FetchAnswers, SubRows
      <3>2. CASE FetchFails(t) \/ BodyRead(t) \/ StreamEnds(t) \/ CloseReturns(t)
        BY <1>1, <1>4, <3>2 DEF FetchFails, BodyRead, StreamEnds, CloseReturns
      <3>3. CASE GoesSlow(t)
        BY <1>1, <3>3 DEF GoesSlow, SubRows
      <3>4. CASE DeadlinePasses(t)
        <4> DEFINE row == [sub[t] EXCEPT !.armed = FALSE, !.late = TRUE]
                   closing == [row EXCEPT !.pc = "closing", !.up = "cancelling", !.inbox = FALSE]
        <4>1. /\ row.pc = sub[t].pc /\ row.up = sub[t].up /\ row.gen = sub[t].gen
              /\ row.inbox = sub[t].inbox /\ closing.pc = "closing"
          BY <1>1 DEF SubRows
        <4> HIDE DEF row, closing
        <4>2. sub' = [sub EXCEPT ![t] = row] \/ sub' = [sub EXCEPT ![t] = closing]
          BY <1>4, <2>1, <3>4 DEF DeadlinePasses, row, closing
        <4> QED BY <1>1, <4>1, <4>2
      <3>5. CASE StreamBreaks(t)
        BY <1>1, <3>5 DEF StreamBreaks, SubRows
      <3>6. CASE ReadStops(t)
        BY <1>1, <1>4, <3>6 DEF ReadStops, SubRows
      <3>7. CASE CancelEnds(t)
        BY <1>1, <3>7 DEF CancelEnds, SubRows
      <3>8. CASE CancelFails(t)
        BY <1>1, <3>8 DEF CancelFails, SubRows
      <3> QED BY <3>1, <3>2, <3>3, <3>4, <3>5, <3>6, <3>7, <3>8 DEF Subscription
    <2> QED BY <1>2, <2>2 DEF Carries, Live, Current
  <1> QED BY <1>3, <1>4

LEMMA MissedKept == IInv /\ NothingMissed /\ [Next]_vars => NothingMissed'
  <1> SUFFICES ASSUME IInv, NothingMissed, [Next]_vars PROVE NothingMissed'
    OBVIOUS
  <1> USE DEF startVars, serviceVars, browserVars
  <1>1. CASE Carries
    BY <1>1 DEF Carries, Live, NothingMissed
  <1>2. ASSUME NEW t \in Subs, Acknowledged(t) PROVE NothingMissed'
    <2>1. ~shared /\ Busy(t) /\ Current(t)
      BY <1>2 DEF Acknowledged, IInv, Reported, Unconnected, Busy
    <2>2. stale' = {}
      <3>1. CASE everConnected
        BY <1>2, <2>1, <3>1 DEF Acknowledged
      <3>2. CASE ~everConnected
        BY <1>2, <3>2 DEF Acknowledged, IInv, TypeOK, Reported
      <3> QED BY <3>1, <3>2
    <2> QED BY <2>2 DEF NothingMissed
  <1>3. ASSUME NEW t \in Subs, MessageArrives(t) PROVE NothingMissed'
    BY <1>3 DEF MessageArrives, NothingMissed
  <1>4. CASE PeerPublishes
    <2>1. \A t \in Subs : sub'[t].up = sub[t].up /\ (sub[t].up = "live" => sub'[t].inbox)
      BY <1>4 DEF PeerPublishes, IInv, TypeOK, SubRows
    <2> QED BY <2>1 DEF NothingMissed
  <1>5. CASE Lifecycle
    BY <1>1, <1>5, LifecycleCarries
  <1>6. ASSUME NEW t \in Subs, Subscription(t) PROVE NothingMissed'
    <2>1. CASE ~Acknowledged(t) /\ ~MessageArrives(t)
      BY <1>1, <1>6, <2>1, SubscriptionCarries
    <2> QED BY <1>2, <1>3, <2>1
  <1>7. CASE \/ \E b \in Browsers : Connect(b) \/ Authorized(b) \/ Leave(b)
             \/ DrainRealtimeConnections \/ UNCHANGED vars
    <2>1. UNCHANGED <<sub, running, gen>> /\ stale' \subseteq stale
      BY <1>7 DEF Connect, Authorized, Leave, DrainRealtimeConnections, vars,
                  UnchangedTransport
    <2> QED BY <1>1, <2>1 DEF Carries, Live, Current
  <1> QED BY <1>4, <1>5, <1>6, <1>7 DEF Next

\* While the transport is connected, what an open stream has not been given is on
\* its way; when it is not, the streams are told to reconcile once it is again.
THEOREM NothingIsMissed == Spec => []NothingMissed
  <1>1. Init => NothingMissed
    BY DEF Init, NothingMissed
  <1> QED BY <1>1, InvariantHolds, MissedKept, PTL DEF Spec

-----------------------------------------------------------------------------
(* Streams.                                                                *)

\* The open streams of b's address.
Beside(b) == {c \in Open : ClientOf[c] = ClientOf[b]}

LEMMA OpenFinite == /\ IsFiniteSet(Open) /\ Cardinality(Open) \in Nat
                    /\ \A b \in Browsers : /\ IsFiniteSet(Beside(b))
                                           /\ Cardinality(Beside(b)) \in Nat
  <1>1. \A S \in SUBSET Browsers : IsFiniteSet(S) /\ Cardinality(S) \in Nat
    BY BoundsAssumption, FS_Subset, FS_CardinalityType DEF BoundsAssumption
  <1> QED BY <1>1 DEF Open, Beside

\* Fewer streams are still few enough.
LEMMA FewerAdmitted ==
    ASSUME StreamsAdmitted, Open' \subseteq Open, draining' => Open' = {}
    PROVE  StreamsAdmitted'
  <1>1. \A S, T : IsFiniteSet(T) /\ S \subseteq T =>
                  /\ Cardinality(S) \in Nat /\ Cardinality(T) \in Nat
                  /\ Cardinality(S) <= Cardinality(T)
    BY FS_Subset, FS_CardinalityType
  <1>2. {MaxTotal, MaxPerClient} \subseteq Nat
    BY BoundsAssumption DEF BoundsAssumption
  <1>3. Cardinality(Open') <= MaxTotal
    BY <1>1, <1>2, OpenFinite DEF StreamsAdmitted
  <1>4. ASSUME NEW b \in Browsers
        PROVE  Cardinality({c \in Open' : ClientOf[c] = ClientOf[b]}) <= MaxPerClient
    <2> DEFINE fewer == {c \in Open' : ClientOf[c] = ClientOf[b]}
    <2>1. fewer \subseteq Beside(b)
      BY DEF Beside
    <2>2. Cardinality(Beside(b)) <= MaxPerClient
      BY DEF StreamsAdmitted, Beside
    <2> HIDE DEF fewer
    <2>3. Cardinality(fewer) <= MaxPerClient
      BY <1>1, <1>2, <2>1, <2>2, OpenFinite
    <2> QED BY <2>3 DEF fewer
  <1> QED BY <1>3, <1>4 DEF StreamsAdmitted

\* One more is admitted only where there is room.
LEMMA OneMoreAdmitted ==
    ASSUME StreamsAdmitted, NEW b \in Browsers, b \notin Open, Room(b),
           Open' = Open \union {b}, ~draining'
    PROVE  StreamsAdmitted'
  <1>1. \A S : IsFiniteSet(S) /\ b \notin S =>
            Cardinality(S \union {b}) = Cardinality(S) + 1
    BY FS_AddElement
  <1>2. {MaxTotal, MaxPerClient} \subseteq Nat
    BY BoundsAssumption DEF BoundsAssumption
  <1>3. Cardinality(Open') <= MaxTotal
    BY <1>1, <1>2, OpenFinite DEF Room
  <1>4. ASSUME NEW d \in Browsers
        PROVE  Cardinality({c \in Open' : ClientOf[c] = ClientOf[d]}) <= MaxPerClient
    <2> DEFINE more == {c \in Open' : ClientOf[c] = ClientOf[d]}
    <2>1. CASE ClientOf[d] = ClientOf[b]
      <3>1. more = Beside(b) \union {b} /\ b \notin Beside(b)
        BY <2>1 DEF Beside, Open
      <3>2. Cardinality(Beside(b)) < MaxPerClient
        BY DEF Room, Beside
      <3> HIDE DEF more
      <3>3. Cardinality(more) <= MaxPerClient
        BY <1>1, <1>2, <3>1, <3>2, OpenFinite
      <3> QED BY <3>3 DEF more
    <2>2. CASE ClientOf[d] # ClientOf[b]
      <3>1. more = Beside(d)
        BY <2>2 DEF Beside
      <3> QED BY <3>1 DEF StreamsAdmitted, Beside
    <2> QED BY <2>1, <2>2
  <1> QED BY <1>3, <1>4 DEF StreamsAdmitted

LEMMA AdmittedKept == TypeOK /\ StreamsAdmitted /\ [Next]_vars => StreamsAdmitted'
  <1> SUFFICES ASSUME TypeOK, StreamsAdmitted, [Next]_vars PROVE StreamsAdmitted'
    OBVIOUS
  <1> USE DEF startVars, serviceVars, browserVars
  <1>1. CASE UNCHANGED <<conn, draining>>
    BY <1>1, FewerAdmitted DEF StreamsAdmitted, Open
  <1>2. ASSUME NEW b \in Browsers, Connect(b) \/ Leave(b) PROVE StreamsAdmitted'
    BY <1>2, FewerAdmitted DEF Connect, Leave, StreamsAdmitted, Open, TypeOK
  <1>3. ASSUME NEW b \in Browsers, Authorized(b) PROVE StreamsAdmitted'
    <2>1. b \notin Open
      BY <1>3 DEF Authorized, Open
    <2>2. CASE ~draining /\ shared /\ Room(b)
      <3>1. Open' = Open \union {b} /\ ~draining'
        BY <1>3, <2>2 DEF Authorized, Open, TypeOK
      <3> QED BY <2>1, <2>2, <3>1, OneMoreAdmitted
    <2>3. CASE ~(~draining /\ shared /\ Room(b))
      <3>1. Open' = Open /\ draining' = draining
        BY <1>3, <2>3 DEF Authorized, Open, TypeOK
      <3> QED BY <3>1, FewerAdmitted DEF StreamsAdmitted
    <2> QED BY <2>2, <2>3
  <1>4. CASE DrainRealtimeConnections
    <2>1. Open' = {}
      BY <1>4 DEF DrainRealtimeConnections, Open
    <2> QED BY <2>1, FewerAdmitted
  <1>5. CASE Lifecycle
    BY <1>1, <1>5 DEF Lifecycle, StartCalled, StartAfterStop, StartAfterBarrier, StartGivesUp,
                      StopCalled, StopReturns, FireReconnect, Launch, AwaitBarrier
  <1>6. ASSUME NEW t \in Subs, Subscription(t) PROVE StreamsAdmitted'
    BY <1>1, <1>6
       DEF Subscription, FetchAnswers, FetchFails, BodyRead, GoesSlow, DeadlinePasses,
           Acknowledged, MessageArrives, StreamBreaks, StreamEnds, ReadStops, CancelEnds,
           CancelFails, CloseReturns, Unchanging
  <1>7. CASE PeerPublishes \/ UNCHANGED vars
    BY <1>1, <1>7 DEF PeerPublishes, vars
  <1> QED BY <1>2, <1>3, <1>4, <1>5, <1>6, <1>7 DEF Next

\* Streams stay within the limits, in all and of one address, and none is open
\* once the process drains.
THEOREM StreamsAreAdmitted == Spec => []StreamsAdmitted
  <1>1. Init => StreamsAdmitted
    <2> SUFFICES ASSUME Init PROVE StreamsAdmitted
      OBVIOUS
    <2>1. Open = {} /\ \A b \in Browsers : {c \in Open : ClientOf[c] = ClientOf[b]} = {}
      BY DEF Init, Open
    <2>2. {MaxTotal, MaxPerClient} \subseteq Nat
      BY BoundsAssumption DEF BoundsAssumption
    <2> QED BY <2>1, <2>2, FS_EmptySet DEF StreamsAdmitted
  <1> QED BY <1>1, TypesHold, AdmittedKept, PTL DEF Spec
=============================================================================
