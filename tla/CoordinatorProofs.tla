------------------------- MODULE CoordinatorProofs -------------------------
(* What holds of the coordinator for every capability of the bridge, every    *)
(* delay and every number of polls. The safety invariants are not inductive   *)
(* one by one: what ties the phases of set-up, reconnect and shutdown to the  *)
(* transport (Phases) carries them all.                                       *)
EXTENDS Coordinator, TLAPS

\* What each phase knows of the transport, and who is waiting for one to close.
Phases ==
    /\ setup = "opening" =>
          /\ attempt = "idle" /\ retryTimers = 0 /\ shutdown = "no"
          /\ wire = "none" /\ ~lost /\ avail
    /\ ShuttingDown => setup = "done"
    /\ attempt = "opening" => wire = "none" /\ ~lost
    /\ attempt = "discarding" => ShuttingDown
    /\ wire = "closing" => attempt = "closing" \/ ShuttingDown
    /\ listening => wire \in {"up", "cut"}
    /\ lost => wire # "up"
    /\ shutdown = "closing" => wire = "closing"
    /\ shutdown = "done" /\ wire = "up" => attempt = "priming"

\* LiveLinkIsAvailable from the first open on, not only once set-up is done.
AvailableFromTheStart ==
    ~ShuttingDown /\ Connected /\ ~Reconnecting => avail

IInv ==
    /\ TypeOK
    /\ Phases
    /\ AvailableFromTheStart
    /\ NoStackedReconnects
    /\ RetryNeverLost
    /\ SafetyPollNeverLost
    /\ ShutdownQuiet


\* The coordinator starts with every variable in its type.
LEMMA TypeInit == Init => TypeOK
<1> SUFFICES ASSUME Init PROVE TypeOK
  OBVIOUS
<1> USE DelayAssumption, BoundAssumption
    DEF Init, DelayAssumption, BoundAssumption
<1>1. polls \in [PollSlots -> {"none", "asked", "answered"}]
  OBVIOUS
<1>2. delay \in InitialDelay..MaxDelay
  OBVIOUS
<1>3. tails \in 0..MaxTails
  OBVIOUS
<1> QED
  BY <1>1, <1>2, <1>3 DEF TypeOK

\* No step leaves the types: the backoff in particular stays within its bounds.
LEMMA TypeNext == ASSUME TypeOK, [Next]_vars PROVE TypeOK'
<1> USE DelayAssumption, BoundAssumption, SystemAssumption
<1> USE DEF DelayAssumption, BoundAssumption, SystemAssumption, TypeOK,
            ShuttingDown, Reconnecting, Connected, Writer,
            link, timers, phases, jobs
<1>1. CASE SetupOpens
  BY <1>1 DEF SetupOpens, TransportOpens, ArmPoll
<1>2. CASE SetupFails
  BY <1>2 DEF SetupFails
<1>3. CASE SetupPrimed
  <2>1. CASE ClockSync /\ Connected
    BY <1>3, <2>1 DEF SetupPrimed, AfterPrime, ArmPoll
  <2>2. CASE ~(ClockSync /\ Connected)
    BY <1>3, <2>2 DEF SetupPrimed, AfterPrime, ArmPoll
  <2> QED
    BY <2>1, <2>2
<1>4. CASE SetupClockSet
  BY <1>4 DEF SetupClockSet, ArmPoll
<1>5. CASE PortGoes
  BY <1>5 DEF PortGoes
<1>6. CASE PortReturns
  BY <1>6 DEF PortReturns
<1>7. CASE ReaderNotices
  <2>t. retryTimers' \in Nat
    BY <1>7 DEF ReaderNotices, ScheduleReconnect
  <2>1. CASE ShuttingDown \/ Reconnecting \/ retryTimers > 0
    BY <1>7, <2>1, <2>t DEF ReaderNotices, ScheduleReconnect
  <2>2. CASE ~(ShuttingDown \/ Reconnecting \/ retryTimers > 0)
    BY <1>7, <2>2, <2>t DEF ReaderNotices, ScheduleReconnect
  <2> QED
    BY <2>1, <2>2
<1>8. CASE PushEvent
  BY <1>8 DEF PushEvent
<1>9. CASE RetryFires
  <2>t. retryTimers' \in Nat
    BY <1>9 DEF RetryFires
  <2>1. CASE ShuttingDown
    BY <1>9, <2>1, <2>t DEF RetryFires, TearDown, StartClosing
  <2>2. CASE ~ShuttingDown /\ Writer
    BY <1>9, <2>2, <2>t DEF RetryFires, TearDown, StartClosing
  <2>3. CASE ~ShuttingDown /\ ~Writer
    BY <1>9, <2>3, <2>t DEF RetryFires, TearDown, StartClosing
  <2> QED
    BY <2>1, <2>2, <2>3
<1>10. CASE TransportClosed
  BY <1>10 DEF TransportClosed
<1>11. CASE AttemptOpens
  <2>1. CASE Bulk
    BY <1>11, <2>1
       DEF AttemptOpens, AttemptEnds, MustDiscard, AfterSuccess, ResumePolling,
           ArmPoll, TransportOpens, StartClosing
  <2>2. CASE ~Bulk /\ ShuttingDown
    BY <1>11, <2>2
       DEF AttemptOpens, AttemptEnds, MustDiscard, AfterSuccess, ResumePolling,
           ArmPoll, TransportOpens, StartClosing
  <2>3. CASE ~Bulk /\ ~ShuttingDown
    BY <1>11, <2>3
       DEF AttemptOpens, AttemptEnds, MustDiscard, AfterSuccess, ResumePolling,
           ArmPoll, TransportOpens, StartClosing
  <2> QED
    BY <2>1, <2>2, <2>3
<1>12. CASE AttemptFails
  <2>1. CASE ShuttingDown
    BY <1>12, <2>1
       DEF AttemptFails, AttemptEnds, MustDiscard, ScheduleReconnect, NextDelay
  <2>2. CASE ~ShuttingDown
    BY <1>12, <2>2
       DEF AttemptFails, AttemptEnds, MustDiscard, ScheduleReconnect, NextDelay
  <2> QED
    BY <2>1, <2>2
<1>13. CASE AttemptPrimed
  <2>1. CASE ShuttingDown /\ Connected
    BY <1>13, <2>1
       DEF AttemptPrimed, AttemptEnds, LinkAfter, MustDiscard, AfterSuccess,
           ResumePolling, ArmPoll, StartClosing, ScheduleReconnect, NextDelay,
           ReleaseLock
  <2>2. CASE ShuttingDown /\ ~Connected
    BY <1>13, <2>2
       DEF AttemptPrimed, AttemptEnds, LinkAfter, MustDiscard, AfterSuccess,
           ResumePolling, ArmPoll, StartClosing, ScheduleReconnect, NextDelay,
           ReleaseLock
  <2>3. CASE ~ShuttingDown /\ Connected /\ ClockSync
    BY <1>13, <2>3
       DEF AttemptPrimed, AttemptEnds, LinkAfter, MustDiscard, AfterSuccess,
           ResumePolling, ArmPoll, StartClosing, ScheduleReconnect, NextDelay,
           ReleaseLock
  <2>4. CASE ~ShuttingDown /\ Connected /\ ~ClockSync
    BY <1>13, <2>4
       DEF AttemptPrimed, AttemptEnds, LinkAfter, MustDiscard, AfterSuccess,
           ResumePolling, ArmPoll, StartClosing, ScheduleReconnect, NextDelay,
           ReleaseLock
  <2>5. CASE ~ShuttingDown /\ ~Connected
    BY <1>13, <2>5
       DEF AttemptPrimed, AttemptEnds, LinkAfter, MustDiscard, AfterSuccess,
           ResumePolling, ArmPoll, StartClosing, ScheduleReconnect, NextDelay,
           ReleaseLock
  <2> QED
    BY <2>1, <2>2, <2>3, <2>4, <2>5
<1>14. CASE ClockSet
  BY <1>14 DEF ClockSet, ArmPoll
<1>15. ASSUME NEW p \in PollSlots, PollFires(p) PROVE TypeOK'
  <2>1. CASE Writer
    <3>1. polls' \in [PollSlots -> {"none", "asked", "answered"}]
      BY <1>15, <2>1 DEF PollFires
    <3>2. pollTimer' \in BOOLEAN
      BY <1>15, <2>1 DEF PollFires
    <3> QED
      BY <1>15, <3>1, <3>2 DEF PollFires
  <2>2. CASE ~Writer
    BY <1>15, <2>2 DEF PollFires, ArmPoll
  <2> QED
    BY <2>1, <2>2
<1>16. ASSUME NEW p \in PollSlots, PollAnswered(p) PROVE TypeOK'
  BY <1>16 DEF PollAnswered
<1>17. ASSUME NEW p \in PollSlots, PollFails(p) PROVE TypeOK'
  BY <1>17 DEF PollFails, ArmPoll, ReleaseLock
<1>18. ASSUME NEW p \in PollSlots, PollMerges(p) PROVE TypeOK'
  BY <1>18 DEF PollMerges, ArmPoll, ReleaseLock
<1>19. CASE SceneCalled
  BY <1>19 DEF SceneCalled
<1>20. CASE SceneWritten
  BY <1>20 DEF SceneWritten
<1>21. CASE SceneFails
  BY <1>21 DEF SceneFails
<1>22. CASE ShutdownStarts
  BY <1>22 DEF ShutdownStarts, StartClosing
<1>23. CASE UNCHANGED vars
  BY <1>23 DEF vars
<1> QED
  BY <1>1, <1>2, <1>3, <1>4, <1>5, <1>6, <1>7, <1>8, <1>9, <1>10, <1>11, <1>12,
     <1>13, <1>14, <1>15, <1>16, <1>17, <1>18, <1>19, <1>20, <1>21, <1>22,
     <1>23
     DEF Next, Setup, Attempt, Poll, Scene

\* Every state has its types: the backoff in particular stays within its
\* bounds, however many attempts fail.
THEOREM TypeCorrect == Spec => []TypeOK
<1>1. TypeOK /\ [Next]_vars => TypeOK'
  BY TypeNext
<1> QED
  BY TypeInit, <1>1, PTL DEF Spec

-----------------------------------------------------------------------------
\* The coordinator starts in the invariant.
LEMMA InvInit == Init => IInv
BY TypeInit DEF Init, IInv, Phases, AvailableFromTheStart, NoStackedReconnects,
   RetryNeverLost, SafetyPollNeverLost, ShutdownQuiet, ShuttingDown, Connected,
   Writer, Reconnecting

\* Every step keeps the invariant.
LEMMA InvNext == ASSUME IInv, [Next]_vars PROVE IInv'
<1> DEFINE Rest == Phases /\ AvailableFromTheStart /\ NoStackedReconnects
                   /\ RetryNeverLost /\ SafetyPollNeverLost /\ ShutdownQuiet
<1>t. TypeOK /\ TypeOK'
  BY TypeNext DEF IInv
<1> SUFFICES Rest'
  BY <1>t DEF IInv
<1> USE SystemAssumption
<1> USE DEF SystemAssumption, IInv, TypeOK, Phases, AvailableFromTheStart, NoStackedReconnects,
            RetryNeverLost, SafetyPollNeverLost, ShutdownQuiet, ShuttingDown,
            Connected, Writer, Reconnecting, link, timers, phases, jobs
<1>1. CASE SetupOpens
  BY <1>1, <1>t DEF SetupOpens, TransportOpens, ArmPoll
<1>2. CASE SetupFails
  BY <1>2, <1>t DEF SetupFails
<1>3. CASE SetupPrimed
  <2>1. CASE ClockSync /\ Connected
    BY <1>3, <2>1, <1>t DEF SetupPrimed, AfterPrime, ArmPoll
  <2>2. CASE ~(ClockSync /\ Connected)
    BY <1>3, <2>2, <1>t DEF SetupPrimed, AfterPrime, ArmPoll
  <2> QED
    BY <2>1, <2>2
<1>4. CASE SetupClockSet
  BY <1>4, <1>t DEF SetupClockSet, ArmPoll
<1>5. CASE PortGoes
  BY <1>5, <1>t DEF PortGoes
<1>6. CASE PortReturns
  BY <1>6, <1>t DEF PortReturns
<1>7. CASE ReaderNotices
  <2>1. CASE ShuttingDown \/ Reconnecting \/ retryTimers > 0
    BY <1>7, <2>1, <1>t DEF ReaderNotices, ScheduleReconnect
  <2>2. CASE ~(ShuttingDown \/ Reconnecting \/ retryTimers > 0)
    BY <1>7, <2>2, <1>t DEF ReaderNotices, ScheduleReconnect
  <2> QED
    BY <2>1, <2>2
<1>8. CASE PushEvent
  BY <1>8, <1>t DEF PushEvent
<1>9. CASE RetryFires
  <2>1. CASE ShuttingDown
    BY <1>9, <2>1, <1>t DEF RetryFires, TearDown, StartClosing
  <2>2. CASE ~ShuttingDown /\ Writer
    BY <1>9, <2>2, <1>t DEF RetryFires, TearDown, StartClosing
  <2>3. CASE ~ShuttingDown /\ ~Writer
    BY <1>9, <2>3, <1>t DEF RetryFires, TearDown, StartClosing
  <2> QED
    BY <2>1, <2>2, <2>3
<1>10. CASE TransportClosed
  BY <1>10, <1>t DEF TransportClosed
<1>11. CASE AttemptOpens
  <2>1. CASE Bulk
    BY <1>11, <2>1, <1>t
       DEF AttemptOpens, AttemptEnds, MustDiscard, AfterSuccess, ResumePolling,
           ArmPoll, TransportOpens, StartClosing
  <2>2. CASE ~Bulk /\ ShuttingDown
    BY <1>11, <2>2, <1>t
       DEF AttemptOpens, AttemptEnds, MustDiscard, AfterSuccess, ResumePolling,
           ArmPoll, TransportOpens, StartClosing
  <2>3. CASE ~Bulk /\ ~ShuttingDown
    BY <1>11, <2>3, <1>t
       DEF AttemptOpens, AttemptEnds, MustDiscard, AfterSuccess, ResumePolling,
           ArmPoll, TransportOpens, StartClosing
  <2> QED
    BY <2>1, <2>2, <2>3
<1>12. CASE AttemptFails
  <2>1. CASE ShuttingDown
    BY <1>12, <2>1, <1>t
       DEF AttemptFails, AttemptEnds, MustDiscard, ScheduleReconnect, NextDelay
  <2>2. CASE ~ShuttingDown
    <3>1. Phases'
      BY <1>12, <2>2, <1>t
         DEF AttemptFails, AttemptEnds, MustDiscard, ScheduleReconnect
    <3>2. AvailableFromTheStart'
      BY <1>12, <2>2, <1>t
         DEF AttemptFails, AttemptEnds, MustDiscard, ScheduleReconnect
    <3>3. NoStackedReconnects'
      <4>1. retryTimers = 0
        BY <1>12 DEF AttemptFails
      <4>2. attempt' = "idle" /\ retryTimers' = 1
        BY <1>12, <2>2, <4>1
           DEF AttemptFails, AttemptEnds, MustDiscard, ScheduleReconnect
      <4> QED
        BY <4>2
    <3>4. RetryNeverLost'
      BY <1>12, <2>2, <1>t
         DEF AttemptFails, AttemptEnds, MustDiscard, ScheduleReconnect
    <3>5. SafetyPollNeverLost'
      BY <1>12, <2>2, <1>t
         DEF AttemptFails, AttemptEnds, MustDiscard, ScheduleReconnect
    <3>6. ShutdownQuiet'
      BY <1>12, <2>2, <1>t
         DEF AttemptFails, AttemptEnds, MustDiscard, ScheduleReconnect
    <3> QED
      BY <3>1, <3>2, <3>3, <3>4, <3>5, <3>6
  <2> QED
    BY <2>1, <2>2
<1>13. CASE AttemptPrimed
  <2>1. CASE ShuttingDown /\ Connected
    BY <1>13, <2>1, <1>t
       DEF AttemptPrimed, AttemptEnds, LinkAfter, MustDiscard, AfterSuccess,
           ResumePolling, ArmPoll, StartClosing, ScheduleReconnect, NextDelay,
           ReleaseLock
  <2>2. CASE ShuttingDown /\ ~Connected
    BY <1>13, <2>2, <1>t
       DEF AttemptPrimed, AttemptEnds, LinkAfter, MustDiscard, AfterSuccess,
           ResumePolling, ArmPoll, StartClosing, ScheduleReconnect, NextDelay,
           ReleaseLock
  <2>3. CASE ~ShuttingDown /\ Connected /\ ClockSync
    BY <1>13, <2>3, <1>t
       DEF AttemptPrimed, AttemptEnds, LinkAfter, MustDiscard, AfterSuccess,
           ResumePolling, ArmPoll, StartClosing, ScheduleReconnect, NextDelay,
           ReleaseLock
  <2>4. CASE ~ShuttingDown /\ Connected /\ ~ClockSync
    BY <1>13, <2>4, <1>t
       DEF AttemptPrimed, AttemptEnds, LinkAfter, MustDiscard, AfterSuccess,
           ResumePolling, ArmPoll, StartClosing, ScheduleReconnect, NextDelay,
           ReleaseLock
  <2>5. CASE ~ShuttingDown /\ ~Connected
    <3>1. Phases'
      BY <1>13, <2>5, <1>t
         DEF AttemptPrimed, AttemptEnds, LinkAfter, MustDiscard,
             ScheduleReconnect, ReleaseLock
    <3>2. AvailableFromTheStart'
      BY <1>13, <2>5, <1>t
         DEF AttemptPrimed, AttemptEnds, LinkAfter, MustDiscard,
             ScheduleReconnect, ReleaseLock
    <3>3. NoStackedReconnects'
      <4>1. retryTimers = 0
        BY <1>13 DEF AttemptPrimed
      <4>2. attempt' = "idle" /\ retryTimers' = 1
        BY <1>13, <2>5, <4>1
           DEF AttemptPrimed, AttemptEnds, LinkAfter, MustDiscard,
               ScheduleReconnect
      <4> QED
        BY <4>2
    <3>4. RetryNeverLost'
      BY <1>13, <2>5, <1>t
         DEF AttemptPrimed, AttemptEnds, LinkAfter, MustDiscard,
             ScheduleReconnect, ReleaseLock
    <3>5. SafetyPollNeverLost'
      BY <1>13, <2>5, <1>t
         DEF AttemptPrimed, AttemptEnds, LinkAfter, MustDiscard,
             ScheduleReconnect, ReleaseLock
    <3>6. ShutdownQuiet'
      BY <1>13, <2>5, <1>t
         DEF AttemptPrimed, AttemptEnds, LinkAfter, MustDiscard,
             ScheduleReconnect, ReleaseLock
    <3> QED
      BY <3>1, <3>2, <3>3, <3>4, <3>5, <3>6
  <2> QED
    BY <2>1, <2>2, <2>3, <2>4, <2>5
<1>14. CASE ClockSet
  BY <1>14, <1>t DEF ClockSet, ArmPoll
<1>15. ASSUME NEW p \in PollSlots, PollFires(p) PROVE Rest'
  BY <1>15, <1>t DEF PollFires, ArmPoll
<1>16. ASSUME NEW p \in PollSlots, PollAnswered(p) PROVE Rest'
  BY <1>16, <1>t DEF PollAnswered
<1>17. ASSUME NEW p \in PollSlots, PollFails(p) PROVE Rest'
  BY <1>17, <1>t DEF PollFails, ArmPoll, ReleaseLock
<1>18. ASSUME NEW p \in PollSlots, PollMerges(p) PROVE Rest'
  BY <1>18, <1>t DEF PollMerges, ArmPoll, ReleaseLock
<1>19. CASE SceneCalled
  BY <1>19, <1>t DEF SceneCalled
<1>20. CASE SceneWritten
  BY <1>20, <1>t DEF SceneWritten
<1>21. CASE SceneFails
  BY <1>21, <1>t DEF SceneFails
<1>22. CASE ShutdownStarts
  BY <1>22, <1>t DEF ShutdownStarts, StartClosing
<1>23. CASE UNCHANGED vars
  BY <1>23, <1>t DEF vars
<1> QED
  BY <1>1, <1>2, <1>3, <1>4, <1>5, <1>6, <1>7, <1>8, <1>9, <1>10, <1>11, <1>12,
     <1>13, <1>14, <1>15, <1>16, <1>17, <1>18, <1>19, <1>20, <1>21, <1>22,
     <1>23
     DEF Next, Setup, Attempt, Poll, Scene

\* The invariant holds in every reachable state.
THEOREM Invariant == Spec => []IInv
<1>1. IInv /\ [Next]_vars => IInv'
  BY InvNext
<1> QED
  BY InvInit, <1>1, PTL DEF Spec

-----------------------------------------------------------------------------
\* However drops, failed attempts and timers fall, there is one reconnect at a
\* time: _schedule_reconnect's guards suffice.
THEOREM OneReconnect == Spec => []NoStackedReconnects
<1>1. IInv => NoStackedReconnects
  BY DEF IInv
<1> QED
  BY Invariant, <1>1, PTL

\* A coordinator that lost its connection always has a retry ahead of it.
THEOREM ReconnectLoopSurvives == Spec => []RetryNeverLost
<1>1. IInv => RetryNeverLost
  BY DEF IInv
<1> QED
  BY Invariant, <1>1, PTL

\* A connected coordinator always has a safety poll ahead of it or running.
THEOREM SafetyPollSurvives == Spec => []SafetyPollNeverLost
<1>1. IInv => SafetyPollNeverLost
  BY DEF IInv
<1> QED
  BY Invariant, <1>1, PTL

\* After async_shutdown began no timer is armed.
THEOREM ShutdownIsQuiet == Spec => []ShutdownQuiet
<1>1. IInv => ShutdownQuiet
  BY DEF IInv
<1> QED
  BY Invariant, <1>1, PTL

\* After a shutdown only the attempt that opened a connection can hold it open.
THEOREM ShutdownCloses == Spec => []NothingLeftOpen
<1>1. IInv => NothingLeftOpen
  BY DEF IInv, Phases, NothingLeftOpen
<1> QED
  BY Invariant, <1>1, PTL

\* With the link up and no attempt under way the entities are available.
THEOREM LiveLinkAvailable == Spec => []LiveLinkIsAvailable
<1>1. IInv => LiveLinkIsAvailable
  BY DEF IInv, AvailableFromTheStart, LiveLinkIsAvailable
<1> QED
  BY Invariant, <1>1, PTL

\* Every connect() finds the earlier transport closed.
THEOREM TransportsAreClosed == Spec => NoTransportForgotten
<1>1. ASSUME IInv, [Next]_vars, wire # "up", wire' = "up" PROVE wire = "none"
  <2> USE <1>1 DEF IInv, TypeOK, Phases, link, phases, timers, jobs
  <2>1. CASE SetupOpens
    BY <2>1 DEF SetupOpens
  <2>2. CASE AttemptOpens
    BY <2>2 DEF AttemptOpens
  <2>3. CASE RetryFires
    BY <2>3 DEF RetryFires, TearDown, StartClosing
  <2>4. CASE AttemptPrimed
    BY <2>4 DEF AttemptPrimed, LinkAfter, StartClosing
  <2>5. CASE ShutdownStarts
    BY <2>5 DEF ShutdownStarts, StartClosing
  <2>6. CASE PortGoes \/ TransportClosed
    BY <2>6 DEF PortGoes, TransportClosed
  <2>7. CASE wire' = wire
    BY <2>7
  <2> QED
    BY <2>1, <2>2, <2>3, <2>4, <2>5, <2>6, <2>7
       DEF Next, vars, Setup, Attempt, Poll, Scene, SetupFails, SetupPrimed,
           SetupClockSet, PortReturns, ReaderNotices, PushEvent, AttemptFails,
           ClockSet, PollFires, PollAnswered, PollFails, PollMerges,
           SceneCalled, SceneWritten, SceneFails
<1>2. IInv /\ [Next]_vars => [wire # "up" /\ wire' = "up" => wire = "none"]_vars
  BY <1>1
<1> QED
  BY Invariant, <1>2, PTL DEF Spec, NoTransportForgotten

-----------------------------------------------------------------------------
(* The coordinator implements PortUse.                                       *)

\* What the mapping needs beside IInv: nothing runs after a set-up that failed,
\* and no reconnect is due while a transport is open.
OpenOnce ==
    /\ setup = "failed" => wire = "none" /\ attempt = "idle" /\ retryTimers = 0
    /\ wire = "up" => retryTimers = 0

\* A reconnect is only ever scheduled without a connection, and every connect()
\* finds the timer gone.
LEMMA OpenOnceNext == ASSUME IInv, OpenOnce, [Next]_vars PROVE OpenOnce'
<1> USE DEF IInv, TypeOK, OpenOnce, Phases, NoStackedReconnects, ShuttingDown, Reconnecting,
            Connected, Writer, link, timers, phases, jobs
<1>1. CASE SetupOpens
  BY <1>1 DEF SetupOpens, TransportOpens
<1>2. CASE SetupFails
  BY <1>2 DEF SetupFails
<1>3. CASE ReaderNotices
  BY <1>3 DEF ReaderNotices, ScheduleReconnect
<1>4. CASE RetryFires
  BY <1>4 DEF RetryFires, TearDown, StartClosing
<1>5. CASE TransportClosed
  BY <1>5 DEF TransportClosed
<1>6. CASE AttemptOpens
  BY <1>6 DEF AttemptOpens, AttemptEnds, MustDiscard, AfterSuccess, TransportOpens,
              StartClosing
<1>7. CASE AttemptFails
  BY <1>7 DEF AttemptFails, AttemptEnds, MustDiscard, ScheduleReconnect
<1>8. CASE AttemptPrimed
  <2>1. CASE ShuttingDown
    BY <1>8, <2>1 DEF AttemptPrimed, AttemptEnds, LinkAfter, MustDiscard, StartClosing
  <2>2. CASE ~ShuttingDown /\ Connected
    BY <1>8, <2>2 DEF AttemptPrimed, AttemptEnds, LinkAfter, MustDiscard, AfterSuccess
  <2>3. CASE ~ShuttingDown /\ ~Connected
    BY <1>8, <2>3 DEF AttemptPrimed, AttemptEnds, LinkAfter, MustDiscard
  <2> QED
    BY <2>1, <2>2, <2>3
<1>9. CASE ShutdownStarts
  BY <1>9 DEF ShutdownStarts, StartClosing
<1>10. CASE PortGoes
  BY <1>10 DEF PortGoes
<1>11. CASE UNCHANGED <<wire, setup, attempt, retryTimers>>
  BY <1>11
<1>12. CASE SetupPrimed \/ SetupClockSet
  BY <1>12 DEF SetupPrimed, AfterPrime, SetupClockSet
<1> QED
  BY <1>1, <1>2, <1>3, <1>4, <1>5, <1>6, <1>7, <1>8, <1>9, <1>10, <1>11, <1>12
     DEF Next, vars, Setup, Attempt, Poll, Scene, PortReturns, PushEvent, ClockSet,
         PollFires, PollAnswered, PollFails, PollMerges, SceneCalled, SceneWritten,
         SceneFails

Use(w, k, told) == [wire |-> w, work |-> k, told |-> told]

\* A connect() that opens the port leaves it primed, in use or, after a shutdown,
\* about to close; one that fails leaves no transport.
LEMMA MayOpen ==
    ASSUME NEW told \in BOOLEAN, NEW u, u = Use("none", "opening", told)
    PROVE  /\ Use("up", "priming", told) \in PortUser!Steps(u)
           /\ Use(IF told THEN "closing" ELSE "up", "idle", told) \in PortUser!Steps(u)
           /\ Use("none", "idle", told) \in PortUser!Steps(u)
           /\ Use("none", "failed", told) \in PortUser!Steps(u)
<1>0. u.wire = "none" /\ u.work = "opening"
  BY DEF Use
<1>1. PICK o : o = [u EXCEPT !.wire = "up"]
  OBVIOUS
<1>2. o = Use("up", "opening", told)
  BY <1>1 DEF Use
<1>3. o.wire = "up" /\ o.told = told /\ [o EXCEPT !.work = "priming"] = Use("up", "priming", told)
  BY <1>2 DEF Use
<1>4. PICK v : v = IF told THEN "closing" ELSE "up"
  OBVIOUS
<1>5. v \in IF o.told THEN PortUser!Discards(o.wire) ELSE {o.wire}
  BY <1>3, <1>4 DEF PortUser!Discards
<1>6. [o EXCEPT !.work = "idle", !.wire = v] = Use(v, "idle", told)
  <2>1. PICK i : i = [o EXCEPT !.work = "idle"]
    OBVIOUS
  <2>2. i = Use("up", "idle", told)
    BY <1>2, <2>1 DEF Use
  <2>3. [i EXCEPT !.wire = v] = Use(v, "idle", told)
    BY <2>2 DEF Use
  <2> QED
    BY <2>1, <2>3
<1>7. Use(v, "idle", told) \in PortUser!Ended(o)
  BY <1>5, <1>6 DEF PortUser!Ended
<1>8. /\ Use("up", "priming", told) \in PortUser!Opens(u)
      /\ Use(v, "idle", told) \in PortUser!Opens(u)
  BY <1>0, <1>1, <1>3, <1>7 DEF PortUser!Opens
<1>9. /\ [u EXCEPT !.work = "idle"] = Use("none", "idle", told)
      /\ [u EXCEPT !.work = "failed"] = Use("none", "failed", told)
  BY DEF Use
<1>10. /\ Use("none", "idle", told) \in PortUser!Fails(u)
       /\ Use("none", "failed", told) \in PortUser!Fails(u)
  BY <1>0, <1>9 DEF PortUser!Fails
<1> QED
  BY <1>4, <1>8, <1>10 DEF PortUser!Steps

\* The cable goes.
LEMMA MayDrop ==
    ASSUME NEW k, NEW told, NEW u, u = Use("up", k, told)
    PROVE  Use("cut", k, told) \in PortUser!Steps(u)
<1>1. u.wire = "up" /\ [u EXCEPT !.wire = "cut"] = Use("cut", k, told)
  BY DEF Use
<1>2. Use("cut", k, told) \in PortUser!Dropped(u)
  BY <1>1 DEF PortUser!Dropped
<1> QED
  BY <1>2 DEF PortUser!Steps

\* The reconnect timer fires: what the lost transport left is cleared first.
LEMMA MayRetry ==
    ASSUME NEW u, NEW no, no = FALSE
    PROVE  /\ u = Use("none", "idle", no) => Use("none", "opening", no) \in PortUser!Steps(u)
           /\ u = Use("cut", "idle", no)
                 => Use("closing", "clearing", no) \in PortUser!Steps(u)
<1>1. ASSUME u = Use("none", "idle", no)
      PROVE  Use("none", "opening", no) \in PortUser!Retries(u)
  <2>1. /\ u.wire = "none" /\ u.work = "idle" /\ u.told = no
        /\ [u EXCEPT !.work = "opening"] = Use("none", "opening", no)
    BY <1>1 DEF Use
  <2> QED
    BY <2>1 DEF PortUser!Retries
<1>2. ASSUME u = Use("cut", "idle", no)
      PROVE  Use("closing", "clearing", no) \in PortUser!Retries(u)
  <2>1. u.wire = "cut" /\ u.work = "idle" /\ u.told = no
    BY <1>2 DEF Use
  <2>2. PICK v : v = [u EXCEPT !.work = "clearing"]
    OBVIOUS
  <2>3. v = Use("cut", "clearing", no)
    BY <1>2, <2>2 DEF Use
  <2>4. [v EXCEPT !.wire = "closing"] = Use("closing", "clearing", no)
    BY <2>3 DEF Use
  <2> QED
    BY <2>1, <2>2, <2>4 DEF PortUser!Retries
<1> QED
  BY <1>1, <1>2 DEF PortUser!Steps

\* wait_closed returns, to an attempt that waits for it and to others.
LEMMA MayClose ==
    ASSUME NEW k, NEW told, NEW u, u = Use("closing", k, told)
    PROVE  Use("none", IF k = "clearing" THEN "opening" ELSE k, told) \in PortUser!Steps(u)
<1>1. PICK y : y = IF k = "clearing" THEN "opening" ELSE k
  OBVIOUS
<1>2. u.wire = "closing" /\ u.work = k
  BY DEF Use
<1>3. PICK v : v = [u EXCEPT !.wire = "none"]
  OBVIOUS
<1>4. v = Use("none", k, told) /\ v.work = k
  BY <1>3 DEF Use
<1>5. [v EXCEPT !.work = y] = Use("none", y, told)
  BY <1>4 DEF Use
<1>6. Use("none", y, told) \in PortUser!Closed(u)
  BY <1>1, <1>2, <1>3, <1>4, <1>5 DEF PortUser!Closed
<1> QED
  BY <1>1, <1>6 DEF PortUser!Steps

\* What async_shutdown makes of a transport.
Shut(w, x) == x = IF w \in {"up", "cut"} THEN "closing" ELSE w

\* async_shutdown.
LEMMA MayBeTold ==
    ASSUME NEW w, NEW k, NEW no \in BOOLEAN, ~no, NEW yes \in BOOLEAN, yes,
           NEW u, u = Use(w, k, no), NEW x, Shut(w, x)
    PROVE  Use(x, k, yes) \in PortUser!Steps(u)
<1>1. u.wire = w /\ u.told = no
  BY DEF Use
<1>2. PICK v : v = [u EXCEPT !.told = yes]
  OBVIOUS
<1>3. v = Use(w, k, yes) /\ v.wire = w
  BY <1>2 DEF Use
<1>4. [v EXCEPT !.wire = x] = Use(x, k, yes)
  BY ONLY <1>3 DEF Use
<1>5. Use(x, k, yes) \in PortUser!Told(u)
  BY <1>1, <1>2, <1>3, <1>4 DEF PortUser!Told, Shut
<1> QED
  BY <1>5 DEF PortUser!Steps

\* An attempt ends, and discards what it opened after a shutdown.
LEMMA MayEnd ==
    ASSUME NEW w, NEW told, NEW u, u = Use(w, "priming", told),
           NEW v \in IF told THEN PortUser!Discards(w) ELSE {w}
    PROVE  Use(v, "idle", told) \in PortUser!Steps(u)
<1>1. u.wire = w /\ u.work = "priming" /\ u.told = told
  BY DEF Use
<1>2. PICK i : i = [u EXCEPT !.work = "idle"]
  OBVIOUS
<1>3. i = Use(w, "idle", told)
  BY <1>2 DEF Use
<1>4. [i EXCEPT !.wire = v] = Use(v, "idle", told)
  BY <1>3 DEF Use
<1>5. Use(v, "idle", told) \in PortUser!Primed(u)
  BY <1>1, <1>2, <1>4 DEF PortUser!Primed, PortUser!Ended
<1> QED
  BY <1>5 DEF PortUser!Steps

\* The coordinator as PortUse sees it.
Seen == Use(wire, PortWork, ShuttingDown)

\* Each step is one of PortUse, or none.
LEMMA StepsUsePort ==
    ASSUME IInv, OpenOnce, [Next]_vars
    PROVE  Seen' \in PortUser!Steps(Seen) \/ Seen' = Seen
<1>b. ShuttingDown \in BOOLEAN
  BY DEF ShuttingDown
<1> USE DEF IInv, TypeOK, OpenOnce, Phases, NoStackedReconnects, ShutdownQuiet,
            ShuttingDown, Connected, Writer, link, timers, phases, jobs, Seen, PortWork
<1>1. CASE SetupOpens
  <2>1. Seen = Use("none", "opening", FALSE)
    BY <1>1 DEF SetupOpens
  <2>2. Seen' = Use("up", "idle", FALSE)
    BY <1>1 DEF SetupOpens, TransportOpens
  <2> QED
    BY ONLY <2>1, <2>2, MayOpen
<1>2. CASE SetupFails
  <2>1. Seen = Use("none", "opening", FALSE) /\ Seen' = Use("none", "failed", FALSE)
    BY <1>2 DEF SetupFails
  <2> QED
    BY ONLY <2>1, MayOpen
<1>3. CASE PortGoes
  <2>1. PortWork' = PortWork /\ ShuttingDown' = ShuttingDown
    BY <1>3 DEF PortGoes
  <2>2. CASE wire = "up"
    <3>1. wire' = "cut"
      BY <1>3, <2>2 DEF PortGoes
    <3>2. Seen = Use("up", PortWork, ShuttingDown) /\ Seen' = Use("cut", PortWork, ShuttingDown)
      BY ONLY <2>1, <2>2, <3>1 DEF Seen
    <3> QED
      BY ONLY <1>b, <3>2, MayDrop
  <2>3. CASE wire # "up"
    BY <1>3, <2>1, <2>3 DEF PortGoes
  <2> QED
    BY <2>2, <2>3
<1>4. CASE RetryFires
  <2>1. ~ShuttingDown /\ setup \notin {"opening", "failed"} /\ attempt = "idle"
    BY <1>4 DEF RetryFires
  <2>2. wire \in {"none", "cut"}
    BY <1>4, <2>1 DEF RetryFires
  <2>3. CASE wire = "none"
    <3>1. Seen = Use("none", "idle", FALSE) /\ Seen' = Use("none", "opening", FALSE)
      BY <1>4, <2>1, <2>3 DEF RetryFires, TearDown
    <3> QED
      BY ONLY <3>1, MayRetry
  <2>4. CASE wire = "cut"
    <3>1. Seen = Use("cut", "idle", FALSE) /\ Seen' = Use("closing", "clearing", FALSE)
      BY <1>4, <2>1, <2>4 DEF RetryFires, TearDown, StartClosing
    <3> QED
      BY ONLY <3>1, MayRetry
  <2> QED
    BY <2>2, <2>3, <2>4
<1>5. CASE TransportClosed
  <2>1. wire = "closing" /\ wire' = "none" /\ ShuttingDown' = ShuttingDown
    BY <1>5 DEF TransportClosed
  <2>2. PortWork' = IF PortWork = "clearing" THEN "opening" ELSE PortWork
    BY <1>5 DEF TransportClosed
  <2>3. /\ Seen = Use("closing", PortWork, ShuttingDown)
        /\ Seen' = Use("none", IF PortWork = "clearing" THEN "opening" ELSE PortWork, ShuttingDown)
    BY ONLY <2>1, <2>2 DEF Seen
  <2> QED
    BY ONLY <1>b, <2>3, MayClose
<1>6. CASE AttemptOpens
  <2>1. Seen = Use("none", "opening", ShuttingDown)
    BY <1>6 DEF AttemptOpens
  <2>2. CASE Bulk
    <3>1. Seen' = Use("up", "priming", ShuttingDown)
      BY <1>6, <2>2 DEF AttemptOpens, TransportOpens
    <3> QED
      BY ONLY <1>b, <2>1, <3>1, MayOpen
  <2>3. CASE ~Bulk
    <3>1. Seen' = Use(IF ShuttingDown THEN "closing" ELSE "up", "idle", ShuttingDown)
      BY <1>6, <2>3 DEF AttemptOpens, AttemptEnds, MustDiscard, TransportOpens, StartClosing
    <3> QED
      BY ONLY <1>b, <2>1, <3>1, MayOpen
  <2> QED
    BY <2>2, <2>3
<1>7. CASE AttemptFails
  <2>1. Seen = Use("none", "opening", ShuttingDown) /\ Seen' = Use("none", "idle", ShuttingDown)
    BY <1>7 DEF AttemptFails, AttemptEnds, MustDiscard
  <2> QED
    BY ONLY <1>b, <2>1, MayOpen
<1>8. CASE AttemptPrimed
  <2>1. Seen = Use(wire, "priming", ShuttingDown)
    BY <1>8 DEF AttemptPrimed
  <2>2. Seen' = Use(wire', "idle", ShuttingDown)
    BY <1>8 DEF AttemptPrimed, AttemptEnds, MustDiscard
  <2>3. wire' = IF ShuttingDown /\ Connected THEN "closing" ELSE wire
    BY <1>8 DEF AttemptPrimed, LinkAfter, MustDiscard, StartClosing
  <2>4. wire' \in IF ShuttingDown THEN PortUser!Discards(wire) ELSE {wire}
    BY <2>3 DEF PortUser!Discards
  <2> QED
    BY ONLY <1>b, <2>1, <2>2, <2>4, MayEnd
<1>9. CASE ShutdownStarts
  <2>1. PortWork' = PortWork /\ ShuttingDown = FALSE /\ ShuttingDown' = TRUE
    BY <1>9 DEF ShutdownStarts
  <2>2. Shut(wire, wire')
    BY <1>9 DEF ShutdownStarts, StartClosing, Shut
  <2>3. PICK no \in BOOLEAN, yes \in BOOLEAN : ~no /\ yes
    OBVIOUS
  <2>4. Seen = Use(wire, PortWork, no) /\ Seen' = Use(wire', PortWork, yes)
    BY ONLY <2>1, <2>3 DEF Seen
  <2>5. Use(wire', PortWork, yes) \in PortUser!Steps(Seen)
    BY ONLY <2>2, <2>3, <2>4, MayBeTold
  <2> QED
    BY ONLY <2>4, <2>5
<1>10. CASE UNCHANGED <<wire, setup, attempt, shutdown>>
  BY <1>10
<1>11. CASE SetupPrimed \/ SetupClockSet
  BY <1>11 DEF SetupPrimed, AfterPrime, SetupClockSet
<1> QED
  BY <1>1, <1>2, <1>3, <1>4, <1>5, <1>6, <1>7, <1>8, <1>9, <1>10, <1>11
     DEF Next, vars, Setup, Attempt, Poll, Scene, PortReturns, ReaderNotices, PushEvent,
         ClockSet, PollFires, PollAnswered, PollFails, PollMerges, SceneCalled,
         SceneWritten, SceneFails

\* A coordinator uses the port as PortUse promises, which is all that EntryLifecycle
\* takes of it: the initial states are those of PortUse, and so is every step. That
\* includes what an attempt does that was under way at the shutdown: it may open
\* the port, and closes what it opened unless the link is lost again.
THEOREM ImplementsPortUse == Spec => UsesPort
<1>1. Init => OpenOnce
  BY DEF Init, OpenOnce
<1>2. Init => PortUser!Init
  BY DEF Init, PortUser!Init, PortUser!Fresh, PortWork, ShuttingDown
<1>3. IInv /\ OpenOnce /\ [Next]_vars => OpenOnce'
  BY OpenOnceNext
<1>4. IInv /\ OpenOnce /\ [Next]_vars
        => [PortUser!Next]_[wire |-> wire, work |-> PortWork, told |-> ShuttingDown]
  BY StepsUsePort DEF PortUser!Next, Seen, Use
<1> QED
  BY Invariant, <1>1, <1>2, <1>3, <1>4, PTL DEF Spec, UsesPort, PortUser!Spec
=============================================================================
