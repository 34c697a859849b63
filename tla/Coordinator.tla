---------------------------- MODULE Coordinator ----------------------------
(* The coordinator of one config entry (coordinator.py): set-up, the safety  *)
(* poll, scene commands, the reconnect loop with its backoff, and shutdown,   *)
(* over the connection that protocol/_base.py keeps.                          *)
(*                                                                            *)
(* asyncio runs one coroutine at a time, so an action is what a coroutine     *)
(* does between two awaits. What SerialProtocol models in detail is coarse    *)
(* here: a request that is out may be answered while the reader listens, and  *)
(* may fail at any time.                                                      *)
EXTENDS Naturals

CONSTANTS
    Bulk,           \* supports_bulk_query: Elegance TRUE, JetStream FALSE
    ClockSync,      \* supports_clock and the option sync_clock_on_connect
    PollOn,         \* the poll interval option is not 0
    ScenePush,      \* supports_scene_push: Elegance FALSE, JetStream TRUE
    InitialDelay,   \* RECONNECT_INITIAL_DELAY
    MaxDelay,       \* RECONNECT_MAX_DELAY
    CloseWithData,  \* external: a transport may hand over its last bytes and
                    \* its close in one go
    PollSlots,      \* bound: safety polls that run at once
    MaxTails        \* bound: reconnects still setting the clock

ASSUME SystemAssumption ==
    /\ {Bulk, ClockSync, PollOn, ScenePush, CloseWithData} \subseteq BOOLEAN
    /\ ClockSync => Bulk            \* only Elegance has a clock
ASSUME DelayAssumption ==
    /\ InitialDelay \in Nat \ {0}
    /\ MaxDelay \in Nat
    /\ InitialDelay <= MaxDelay
ASSUME BoundAssumption == MaxTails \in Nat

VARIABLES
    port,           \* external: can the serial port be opened?
    wire,           \* the transport behind _writer; "none" is _writer = None
    listening,      \* the reader task is running
    lost,           \* _lost
    setup,          \* where async_init stands
    attempt,        \* where _try_reconnect stands
    retryTimers,    \* reconnect timers armed
    delay,          \* _reconnect_delay
    pollTimer,      \* the safety poll's timer is armed
    polls,          \* the safety polls that are running
    tails,          \* reconnects done but for the clock and the poll
    command,        \* a scene command that met a held transmit lock
    avail,          \* last_update_success
    shutdown        \* where async_shutdown stands

link    == <<wire, listening, lost>>
timers  == <<retryTimers, delay, pollTimer>>
phases  == <<setup, attempt, shutdown>>
jobs    == <<polls, tails, command>>
vars    == <<port, link, phases, timers, jobs, avail>>

TypeOK ==
    /\ port \in {"ok", "gone"}
    /\ wire \in {"none", "up", "cut", "closing"}
    /\ listening \in BOOLEAN
    /\ lost \in BOOLEAN
    /\ setup \in {"opening", "priming", "clock", "done", "failed"}
    /\ attempt \in {"idle", "closing", "opening", "priming", "discarding"}
    /\ retryTimers \in Nat
    /\ delay \in InitialDelay..MaxDelay
    /\ pollTimer \in BOOLEAN
    /\ polls \in [PollSlots -> {"none", "asked", "answered"}]
    /\ tails \in 0..MaxTails
    /\ command \in {"none", "queued", "next"}
    /\ avail \in BOOLEAN
    /\ shutdown \in {"no", "closing", "done"}

Init ==
    /\ port \in {"ok", "gone"}
    /\ wire = "none" /\ listening = FALSE /\ lost = FALSE
    /\ setup = "opening"
    /\ attempt = "idle" /\ retryTimers = 0 /\ delay = InitialDelay
    /\ pollTimer = FALSE /\ polls = [p \in PollSlots |-> "none"]
    /\ tails = 0 /\ command = "none"
    /\ avail = TRUE                     \* DataUpdateCoordinator starts so
    /\ shutdown = "no"

ShuttingDown == shutdown # "no"                     \* _shutting_down
Reconnecting == attempt \in {"closing", "opening", "priming"}  \* _reconnecting
Writer       == wire # "none"
Connected    == Writer /\ ~lost                     \* the property `connected`

-----------------------------------------------------------------------------
(* The helpers that arm and cancel the timers.                               *)

\* _schedule_safety_poll cancels the old timer and arms one, if it may.
ArmPollAlways == pollTimer' = (Bulk /\ PollOn)              \* mutant
ArmPoll == pollTimer' = (~ShuttingDown /\ Bulk /\ PollOn)

\* _schedule_reconnect, with `busy` the value of _reconnecting.
ScheduleReconnectLate(busy) ==                               \* mutant
    retryTimers' = IF ShuttingDown \/ Reconnecting \/ retryTimers > 0
                   THEN retryTimers ELSE retryTimers + 1
ScheduleReconnectUnguarded(busy) ==                          \* mutant
    retryTimers' = IF ShuttingDown THEN retryTimers ELSE retryTimers + 1
ScheduleReconnect(busy) ==
    retryTimers' = IF ShuttingDown \/ busy \/ retryTimers > 0
                   THEN retryTimers ELSE retryTimers + 1

NextDelayUncapped(d) == d * 2                                \* mutant
NextDelay(d) == IF d * 2 < MaxDelay THEN d * 2 ELSE MaxDelay

\* A request ends and releases the transmit lock to the one queued behind it.
ReleaseLock == command' = IF command = "queued" THEN "next" ELSE command

\* The first half of disconnect(), up to the await of wait_closed.
StartClosing == wire' = "closing" /\ listening' = FALSE /\ UNCHANGED lost

\* connect(): _lost is reset before the transport is awaited.
TransportOpens == wire' = "up" /\ listening' = TRUE /\ UNCHANGED lost

-----------------------------------------------------------------------------
(* async_init.                                                               *)

\* What async_init does once _prime_loads returned.
AfterPrime ==
    IF ClockSync /\ Connected
    THEN setup' = "clock" /\ UNCHANGED pollTimer
    ELSE setup' = "done" /\ ArmPoll

SetupOpens ==
    /\ setup = "opening" /\ port = "ok"
    /\ TransportOpens
    /\ IF Bulk THEN setup' = "priming" /\ UNCHANGED pollTimer
               ELSE setup' = "done" /\ ArmPoll
    /\ UNCHANGED <<port, attempt, retryTimers, delay, jobs, avail, shutdown>>

\* connect() raised: async_setup_entry turns it into ConfigEntryNotReady.
SetupFails ==
    /\ setup = "opening" /\ port = "gone"
    /\ setup' = "failed"
    /\ UNCHANGED <<port, link, attempt, timers, jobs, avail, shutdown>>

SetupPrimed ==
    /\ setup = "priming"
    /\ AfterPrime
    /\ UNCHANGED <<port, link, attempt, retryTimers, delay, jobs, avail, shutdown>>

SetupClockSet ==
    /\ setup = "clock"
    /\ setup' = "done"
    /\ ArmPoll
    /\ UNCHANGED <<port, link, attempt, retryTimers, delay, jobs, avail, shutdown>>

-----------------------------------------------------------------------------
(* The link: a drop, the reader's report of it, push events.                 *)

\* External: the cable or the bridge goes, and comes back. A short hiccup is
\* one followed by the other.
PortGoes ==
    /\ port = "ok"
    /\ port' = "gone"
    /\ wire' = IF wire = "up" THEN "cut" ELSE wire
    /\ UNCHANGED <<listening, lost, phases, timers, jobs, avail>>

PortReturns ==
    /\ port = "gone"
    /\ port' = "ok"
    /\ UNCHANGED <<link, phases, timers, jobs, avail>>

\* _reader_loop meets the error: _notify_disconnect and, in the same step,
\* _on_disconnect.
ReaderNotices ==
    /\ listening /\ wire = "cut"
    /\ CloseWithData \/ \A p \in PollSlots : polls[p] # "answered"
    /\ listening' = FALSE
    /\ lost' = TRUE
    /\ pollTimer' = FALSE
    /\ avail' = FALSE
    /\ ScheduleReconnect(Reconnecting)
    /\ UNCHANGED <<port, wire, phases, delay, jobs>>

\* _on_load_event, _on_switch_event, _on_scene_event: each ends in
\* async_set_updated_data, which sets last_update_success.
PushEvent ==
    /\ listening
    /\ avail' = TRUE
    /\ UNCHANGED <<port, link, phases, timers, jobs>>

-----------------------------------------------------------------------------
(* _try_reconnect.                                                           *)

\* disconnect() waits for a transport to close; connect() follows at once when
\* there is none.
SkipTearDown ==                                              \* mutant
    attempt' = "opening" /\ lost' = FALSE /\ UNCHANGED <<wire, listening>>
TearDown ==
    IF Writer
    THEN attempt' = "closing" /\ StartClosing
    ELSE attempt' = "opening" /\ lost' = FALSE /\ UNCHANGED <<wire, listening>>

\* The timer fires. One attempt is all the model can hold; NoStackedReconnects
\* is what shows that no second one comes. A command that is ready to run does
\* so long before a timer of seconds.
RetryFires ==
    /\ retryTimers > 0 /\ attempt = "idle"
    /\ command # "next"
    /\ retryTimers' = retryTimers - 1
    /\ IF ShuttingDown THEN UNCHANGED <<attempt, link>> ELSE TearDown
    /\ UNCHANGED <<port, setup, delay, pollTimer, jobs, avail, shutdown>>

\* wait_closed returns to everyone who awaits it; the writer is forgotten, and
\* an attempt goes on to connect().
TransportClosed ==
    /\ wire = "closing"
    /\ wire' = "none"
    /\ attempt' = CASE attempt = "closing"    -> "opening"
                    [] attempt = "discarding" -> "idle"
                    [] OTHER                  -> attempt
    /\ lost' = (lost /\ attempt # "closing")
    /\ shutdown' = IF shutdown = "closing" THEN "done" ELSE shutdown
    /\ UNCHANGED <<port, listening, setup, timers, jobs, avail>>

\* A reconnect succeeded: up to the write of the clock, or, without a clock to
\* set, to the end.
ForgetPolling == UNCHANGED <<pollTimer, tails>>              \* mutant
ResumePolling ==
    IF ClockSync THEN tails' = tails + 1 /\ UNCHANGED pollTimer
                 ELSE ArmPoll /\ UNCHANGED tails

AfterSuccessUnseen ==                                        \* mutant
    delay' = InitialDelay /\ UNCHANGED avail /\ ResumePolling
AfterSuccess ==
    delay' = InitialDelay /\ avail' = TRUE /\ ResumePolling

\* The entry was unloaded while the attempt opened a connection.
NeverDiscard(success) == FALSE                               \* mutant
MustDiscard(success) == ShuttingDown /\ success

\* From the `finally` of _try_reconnect to its next await or its end; LinkAfter
\* is what that does to the link.
AttemptEnds(success) ==
    /\ attempt' = IF MustDiscard(success) THEN "discarding" ELSE "idle"
    /\ IF ShuttingDown
       THEN UNCHANGED <<timers, tails, avail>>
       ELSE IF success
       THEN AfterSuccess /\ UNCHANGED retryTimers
       ELSE /\ delay' = NextDelay(delay)
            /\ ScheduleReconnect(FALSE)
            /\ UNCHANGED <<pollTimer, tails, avail>>

LinkAfter(success) ==
    IF MustDiscard(success) THEN StartClosing ELSE UNCHANGED link

\* A push-only bridge is not primed: the attempt ends as the transport opens.
AttemptOpens ==
    /\ attempt = "opening" /\ port = "ok"
    /\ IF Bulk
       THEN /\ attempt' = "priming"
            /\ TransportOpens
            /\ UNCHANGED <<timers, tails, avail>>
       ELSE /\ AttemptEnds(TRUE)
            /\ IF MustDiscard(TRUE) THEN StartClosing ELSE TransportOpens
    /\ UNCHANGED <<port, setup, polls, command, shutdown>>

\* connect() raised. The writer is still None.
AttemptFails ==
    /\ attempt = "opening" /\ port = "gone"
    /\ AttemptEnds(FALSE)
    /\ UNCHANGED link
    /\ UNCHANGED <<port, setup, polls, command, shutdown>>

\* _prime_loads returned: answered, timed out or failed, it never raises.
AttemptPrimed ==
    /\ attempt = "priming"
    /\ ClockSync => tails < MaxTails
    /\ AttemptEnds(Connected)
    /\ LinkAfter(Connected)
    /\ ReleaseLock
    /\ UNCHANGED <<port, setup, polls, shutdown>>

\* The clock was set, or the write failed.
ClockSet ==
    /\ tails > 0
    /\ tails' = tails - 1
    /\ IF ShuttingDown \/ ~Connected THEN UNCHANGED pollTimer ELSE ArmPoll
    /\ UNCHANGED <<port, link, phases, retryTimers, delay, polls, command, avail>>

-----------------------------------------------------------------------------
(* _safety_poll.                                                             *)

\* Without a writer the request is refused at once, and the poll armed again.
PollFires(p) ==
    /\ pollTimer /\ polls[p] = "none"
    /\ IF Writer
       THEN pollTimer' = FALSE /\ polls' = [polls EXCEPT ![p] = "asked"]
       ELSE ArmPoll /\ UNCHANGED polls
    /\ UNCHANGED <<port, link, phases, retryTimers, delay, tails, command, avail>>

\* The reader fulfils the request; the poll has yet to resume.
PollAnswered(p) ==
    /\ polls[p] = "asked" /\ listening
    /\ polls' = [polls EXCEPT ![p] = "answered"]
    /\ UNCHANGED <<port, link, phases, timers, tails, command, avail>>

\* Time-out, a lost connection, a writer gone while waiting for the lock, or
\* an answer that does not parse.
PollFails(p) ==
    /\ polls[p] = "asked"
    /\ polls' = [polls EXCEPT ![p] = "none"]
    /\ ArmPoll /\ ReleaseLock
    /\ UNCHANGED <<port, link, phases, retryTimers, delay, tails, avail>>

\* The answer is merged; when it changed a load (`dirty`) listeners are told.
PollMerges(p) ==
    /\ polls[p] = "answered"
    /\ polls' = [polls EXCEPT ![p] = "none"]
    /\ \E dirty \in BOOLEAN : avail' = (avail \/ dirty)
    /\ ArmPoll /\ ReleaseLock
    /\ UNCHANGED <<port, link, phases, retryTimers, delay, tails>>

-----------------------------------------------------------------------------
(* activate_scene and deactivate_scene on a bridge that does not push scenes. *)

\* Home Assistant calls a service only on an available entity. With the lock
\* free the command is written, or raises, within the call: an entity that was
\* available stays so. Behind a request that holds the lock it has to wait.
SceneCalled ==
    /\ ~ScenePush
    /\ setup = "done" /\ ~ShuttingDown /\ avail
    /\ Writer
    /\ command = "none"
    /\ attempt = "priming" \/ \E p \in PollSlots : polls[p] # "none"
    /\ command' = "queued"
    /\ UNCHANGED <<port, link, phases, timers, polls, tails, avail>>

\* The write goes out, or a transport that is half gone swallows it: either
\* way the commanded state is published.
SceneWritten ==
    /\ command = "next" /\ Writer
    /\ command' = "none"
    /\ avail' = TRUE
    /\ UNCHANGED <<port, link, phases, timers, polls, tails>>

\* The write raises, or there is nothing to write to.
SceneFails ==
    /\ command = "next" /\ wire # "up"
    /\ command' = "none"
    /\ UNCHANGED <<port, link, phases, timers, polls, tails, avail>>

-----------------------------------------------------------------------------
(* async_shutdown, from async_unload_entry: the entry had been set up.       *)

ShutdownStarts ==
    /\ setup = "done" /\ shutdown = "no"
    /\ pollTimer' = FALSE
    /\ retryTimers' = 0
    /\ IF Writer
       THEN shutdown' = "closing" /\ StartClosing
       ELSE shutdown' = "done" /\ UNCHANGED link
    /\ UNCHANGED <<port, setup, attempt, delay, jobs, avail>>

-----------------------------------------------------------------------------
Setup    == SetupOpens \/ SetupFails \/ SetupPrimed \/ SetupClockSet
Attempt  == AttemptOpens \/ AttemptFails \/ AttemptPrimed
Poll(p)  == PollAnswered(p) \/ PollFails(p) \/ PollMerges(p)
Scene    == SceneWritten \/ SceneFails

Next ==
    \/ Setup
    \/ PortGoes \/ PortReturns
    \/ ReaderNotices \/ PushEvent
    \/ RetryFires \/ TransportClosed \/ Attempt \/ ClockSet
    \/ \E p \in PollSlots : PollFires(p) \/ Poll(p)
    \/ SceneCalled \/ Scene
    \/ ShutdownStarts

(* Timers fire, requests end (at the latest by their time-out), a transport   *)
(* opens or fails to, closes, and reports its loss. Nothing is assumed of the *)
(* cable, of events, of commands given, or of an unload. The reconnect timer   *)
(* is strongly fair: commands that become ready again and again do not stop   *)
(* the clock.                                                                 *)
Fairness ==
    /\ WF_vars(Setup) /\ WF_vars(ReaderNotices)
    /\ SF_vars(RetryFires) /\ WF_vars(TransportClosed)
    /\ WF_vars(Attempt) /\ WF_vars(ClockSet)
    /\ \A p \in PollSlots : WF_vars(PollFires(p)) /\ WF_vars(Poll(p))
    /\ WF_vars(Scene)

Spec     == Init /\ [][Next]_vars
FairSpec == Spec /\ Fairness

-----------------------------------------------------------------------------
(* Safety.                                                                   *)

\* At most one reconnect is on its way: a timer or an attempt, never two of
\* either, however many drops and failed attempts there were
\* (_schedule_reconnect's guards).
NoStackedReconnects ==
    retryTimers + (IF attempt = "idle" THEN 0 ELSE 1) <= 1

\* The reconnect loop is never lost: a coordinator without a connection has a
\* timer armed or an attempt under way, whatever dropped while an attempt held
\* _reconnecting (_on_disconnect and the tail of _try_reconnect).
RetryNeverLost ==
    setup \notin {"opening", "failed"} /\ ~ShuttingDown /\ ~Connected
        => retryTimers > 0 \/ attempt # "idle"

\* Nor is the safety poll: while the link is up and nobody is reconnecting, it
\* is armed or running, though every drop cancels it.
SafetyPollNeverLost ==
    /\ Bulk /\ PollOn
    /\ setup = "done" /\ ~ShuttingDown /\ Connected
    /\ attempt = "idle" /\ tails = 0
    => pollTimer \/ \E p \in PollSlots : polls[p] # "none"

\* A torn-down coordinator arms nothing: not from a poll, a reconnect or a
\* clock write that was out when async_shutdown began.
ShutdownQuiet ==
    ShuttingDown => ~pollTimer /\ retryTimers = 0

\* After shutdown no connection outlives the attempt that may have opened it.
NothingLeftOpen ==
    shutdown = "done" /\ attempt = "idle" => wire # "up"

\* Entities are never left unavailable on a live link.
LiveLinkIsAvailable ==
    setup = "done" /\ ~ShuttingDown /\ Connected /\ ~Reconnecting => avail

\* connect() never replaces a transport that was not closed: that one would
\* stay open with nobody to close it.
NoTransportForgotten ==
    [][wire # "up" /\ wire' = "up" => wire = "none"]_vars

\* The coordinator as those see it who want the port next.
PortWork ==
    CASE setup = "failed"                          -> "failed"
      [] setup = "opening" \/ attempt = "opening"  -> "opening"
      [] attempt = "closing"                       -> "clearing"
      [] attempt = "priming"                       -> "priming"
      [] OTHER                                     -> "idle"
PortUser == INSTANCE PortUse
    WITH use <- [wire |-> wire, work |-> PortWork, told |-> ShuttingDown]

\* The coordinator uses the port as PortUse promises: it opens it only where no
\* transport of its own is left, and fires no attempt after it was told to shut
\* down. An attempt that is under way then may still open the port (NotReopened
\* is not kept), and closes what it opened, unless it lost the link again.
UsesPort == PortUser!Spec

(* Liveness, under FairSpec.                                                 *)

\* Once the port stays openable the coordinator is connected for good, and its
\* entities are available.
Recovers ==
    <>[](port = "ok") =>
        <>[](ShuttingDown \/ setup = "failed" \/ (wire = "up" /\ listening /\ avail))

\* A shutdown ends, and everything that was running then ends with it.
ShutdownCompletes ==
    ShuttingDown ~> [](/\ shutdown = "done" /\ attempt = "idle" /\ wire # "up"
                       /\ \A p \in PollSlots : polls[p] = "none")

(* What a comment, a test or the change log says and the code does not keep. *)

\* CHANGELOG.md: "When the link drops, entities now go unavailable [...] instead
\* of showing stale state forever."
NoStaleStateForever ==
    <>[](port = "gone") => <>[](~avail \/ ShuttingDown \/ setup = "failed")

\* tests/test_coordinator.py: "If the entry unloads while a reconnect is
\* mid-attempt, it must not re-open the link [...]." The weakest reading: an
\* attempt that at the unload has yet to be rid of the lost transport, and so has
\* not begun to connect, leaves the port closed. (_try_reconnect goes from
\* disconnect() to connect() without a look at _shutting_down.)
NotReopened ==
    [](ShuttingDown /\ attempt = "closing" => [](wire # "up"))

=============================================================================
