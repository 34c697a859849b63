--------------------------- MODULE SerialProtocol ---------------------------
(* Requests over the serial line (protocol/_base.py): callers of _send and    *)
(* _sendrecv, the transmit lock, the one pending future, the reader task, and *)
(* a bridge that answers late or never.                                       *)
(*                                                                            *)
(* An action is what a coroutine does between two awaits. drain() does not    *)
(* await below the transport's high-water mark, so writing is part of the     *)
(* step that takes the lock. The lock is asyncio.Lock: first come, first      *)
(* served, and a release leaves it free until the next in line has run.       *)
EXTENDS Naturals, Sequences

CONSTANTS
    Callers,    \* the tasks that use the protocol
    Keys,       \* what can be asked for: a load's level, the load bitmap, ...
    Nobody,     \* the transmit lock is free
    MaxDue      \* bound: requests the bridge still owes a reply to

ASSUME NameAssumption == Nobody \notin Callers /\ {"send", "none"} \cap Keys = {}

VARIABLES
    system,     \* the subclass: the kind of bridge
    pc,         \* where each caller stands
    wants,      \* the key it asks for, or "send" for a command without a reply
    lock,       \* the holder of _lock
    waiters,    \* those waiting for _lock, in order
    fut,        \* the future in _pending; "none" is _pending = None
    answer,     \* the reply that fulfilled it
    due,        \* external: the replies the bridge owes, oldest first. A reply is
                \* fresh while the request it answers is the pending one
    wire,       \* the transport behind _writer; "none" is _writer = None
    listening,  \* the reader task is running
    lost        \* _lost

callers == <<pc, wants>>
locking == <<lock, waiters>>
link    == <<system, wire, listening, lost>>
vars    == <<callers, locking, fut, answer, due, link>>

\* A reply of a JetStream bridge names its key, and the matcher asks for it; and
\* only there inter_command_delay is more than 0.
Keyed   == system = "jetstream"
Delayed == system = "jetstream"

Reply == [key : Keys, fresh : BOOLEAN]

TypeOK ==
    /\ system \in {"elegance", "jetstream"}
    /\ pc \in [Callers -> {"idle", "queued", "asking", "pausing"}]
    /\ wants \in [Callers -> Keys \cup {"send", "none"}]
    /\ lock \in Callers \cup {Nobody}
    /\ waiters \in Seq(Callers)
    /\ fut \in {"none", "waiting", "reply", "error", "cancelled"}
    /\ answer \in Reply \cup {Nobody}
    /\ due \in Seq(Reply)
    /\ wire \in {"none", "up", "cut", "closing"}
    /\ listening \in BOOLEAN
    /\ lost \in BOOLEAN

Init ==
    /\ system \in {"elegance", "jetstream"}
    /\ pc = [c \in Callers |-> "idle"]
    /\ wants = [c \in Callers |-> "none"]
    /\ lock = Nobody /\ waiters = <<>>
    /\ fut = "none" /\ answer = Nobody /\ due = <<>>
    /\ wire = "none" /\ listening = FALSE /\ lost = FALSE

-----------------------------------------------------------------------------
(* The callers.                                                              *)

\* The caller `c`, asking for `w`, is done at once: its lock is free again.
Returns(c) ==
    /\ pc' = [pc EXCEPT ![c] = "idle"]
    /\ wants' = [wants EXCEPT ![c] = "none"]
    /\ lock' = Nobody
    /\ UNCHANGED <<fut, answer, due>>

\* `c` holds the lock and has written a command that has no reply.
Sends(c) ==
    IF Delayed
    THEN /\ pc' = [pc EXCEPT ![c] = "pausing"]
         /\ wants' = [wants EXCEPT ![c] = "send"]
         /\ lock' = c
         /\ UNCHANGED <<fut, answer, due>>
    ELSE Returns(c)

\* `c` holds the lock, has put its future into _pending and written its
\* request, which the bridge may or may not answer some day.
Asks(c, w) ==
    /\ pc' = [pc EXCEPT ![c] = "asking"]
    /\ wants' = [wants EXCEPT ![c] = w]
    /\ lock' = c
    /\ fut' = "waiting"
    /\ answer' = Nobody
    /\ \/ wire = "up" /\ Len(due) < MaxDue
          /\ due' = Append(due, [key |-> w, fresh |-> TRUE])
       \/ UNCHANGED due

\* The body of `async with self._lock`, up to its first await. A lost transport
\* may swallow what is written to it; without one the write raises.
Begins(c, w) ==
    \/ wire # "none" /\ w = "send" /\ Sends(c)
    \/ wire # "none" /\ w # "send" /\ Asks(c, w)
    \/ wire # "up" /\ Returns(c)

\* _send and _sendrecv; without a writer they raise before they reach the lock.
CallsUnlocked(c, w) ==                                       \* mutant
    /\ pc[c] = "idle" /\ wire # "none"
    /\ Begins(c, w)
    /\ UNCHANGED <<waiters, link>>
Calls(c, w) ==
    /\ pc[c] = "idle" /\ wire # "none"
    /\ IF lock = Nobody /\ waiters = <<>>
       THEN Begins(c, w) /\ UNCHANGED waiters
       ELSE /\ pc' = [pc EXCEPT ![c] = "queued"]
            /\ wants' = [wants EXCEPT ![c] = w]
            /\ waiters' = Append(waiters, c)
            /\ UNCHANGED <<lock, fut, answer, due>>
    /\ UNCHANGED link

TakesLock(c) ==
    /\ lock = Nobody /\ waiters # <<>> /\ Head(waiters) = c
    /\ waiters' = Tail(waiters)
    /\ Begins(c, wants[c])
    /\ UNCHANGED link

\* wait_for runs out. The future is cancelled, or, when it was fulfilled in the
\* same turn of the event loop, its result is dropped.
TimesOut(c) ==
    /\ pc[c] = "asking" /\ fut # "cancelled"
    /\ fut' = "cancelled"
    /\ UNCHANGED <<callers, locking, answer, due, link>>

\* The `finally` of _sendrecv and the release of the lock. What the bridge still
\* owes to this request no longer has a request it belongs to.
Abandons == due' = [i \in DOMAIN due |-> [due[i] EXCEPT !.fresh = FALSE]]
EndsPending(c) ==                                            \* mutant
    Returns(c)
EndsLocked(c) ==                                             \* mutant
    /\ pc' = [pc EXCEPT ![c] = "idle"]
    /\ wants' = [wants EXCEPT ![c] = "none"]
    /\ fut' = "none" /\ answer' = Nobody
    /\ Abandons
    /\ UNCHANGED lock
Ends(c) ==
    /\ pc' = [pc EXCEPT ![c] = "idle"]
    /\ wants' = [wants EXCEPT ![c] = "none"]
    /\ lock' = Nobody
    /\ fut' = "none" /\ answer' = Nobody
    /\ Abandons

\* The future is done: pause before the next command, or raise.
Resumes(c) ==
    /\ pc[c] = "asking" /\ fut # "waiting"
    /\ IF fut = "reply" /\ Delayed
       THEN /\ pc' = [pc EXCEPT ![c] = "pausing"]
            /\ UNCHANGED <<wants, lock, fut, answer, due>>
       ELSE Ends(c)
    /\ UNCHANGED <<waiters, link>>

PauseEnds(c) ==
    /\ pc[c] = "pausing"
    /\ Ends(c)
    /\ UNCHANGED <<waiters, link>>

-----------------------------------------------------------------------------
(* The reader task.                                                          *)

\* The matcher: any line that is not an event on Elegance, the line that names
\* the key asked for on JetStream.
MatchesAny(r) == TRUE                                        \* mutant
Matches(r) == Keyed => r.key = wants[lock]

\* _try_fulfill.
TryFulfillDone(r) ==                                         \* mutant
    IF fut # "none" /\ Matches(r)
    THEN fut' = "reply" /\ answer' = r
    ELSE UNCHANGED <<fut, answer>>
TryFulfill(r) ==
    IF fut = "waiting" /\ Matches(r)
    THEN fut' = "reply" /\ answer' = r
    ELSE UNCHANGED <<fut, answer>>

\* _dispatch of a reply.
ReplyArrives ==
    /\ listening /\ due # <<>>
    /\ TryFulfill(Head(due))
    /\ due' = Tail(due)
    /\ UNCHANGED <<callers, locking, link>>

\* _dispatch of an event. On JetStream it looks like the reply for its key, and
\* tells the value of the moment; on Elegance it never fulfils a request.
EventArrives(k) ==
    /\ listening /\ Keyed
    /\ TryFulfill([key |-> k, fresh |-> TRUE])
    /\ UNCHANGED <<callers, locking, due, link>>

\* External: a reply that never comes, or is lost on the way.
ReplyLost ==
    /\ due # <<>>
    /\ due' = Tail(due)
    /\ UNCHANGED <<callers, locking, fut, answer, link>>

\* _reader_loop meets the end of the stream: _notify_disconnect.
ReaderNotices ==
    /\ listening /\ wire = "cut"
    /\ listening' = FALSE
    /\ lost' = TRUE
    /\ fut' = IF fut = "waiting" THEN "error" ELSE fut
    /\ UNCHANGED <<callers, locking, answer, due, system, wire>>

-----------------------------------------------------------------------------
(* connect() and disconnect(), and the cable. The pending future and the lock *)
(* are not touched: a request may outlive the connection it was sent on.      *)

Connects ==
    /\ wire = "none"
    /\ wire' = "up" /\ listening' = TRUE /\ lost' = FALSE
    /\ UNCHANGED <<callers, locking, fut, answer, due, system>>

LinkCut ==
    /\ wire = "up"
    /\ wire' = "cut"
    /\ UNCHANGED <<callers, locking, fut, answer, due, system, listening, lost>>

Disconnects ==
    /\ wire \in {"up", "cut"}
    /\ wire' = "closing" /\ listening' = FALSE
    /\ UNCHANGED <<callers, locking, fut, answer, due, system, lost>>

Closed ==
    /\ wire = "closing"
    /\ wire' = "none"
    /\ UNCHANGED <<callers, locking, fut, answer, due, system, listening, lost>>

-----------------------------------------------------------------------------
Step(c) == TakesLock(c) \/ Resumes(c) \/ PauseEnds(c)

Next ==
    \/ \E c \in Callers :
          \/ \E w \in Keys \cup {"send"} : Calls(c, w)
          \/ TimesOut(c) \/ Step(c)
    \/ ReplyArrives \/ ReplyLost \/ \E k \in Keys : EventArrives(k)
    \/ ReaderNotices
    \/ Connects \/ LinkCut \/ Disconnects \/ Closed

\* A task that is ready runs, and COMMAND_TIMEOUT runs out. No reply, and no
\* report of a lost link, is counted on.
Fairness == \A c \in Callers : WF_vars(Step(c)) /\ WF_vars(TimesOut(c))

Spec     == Init /\ [][Next]_vars
FairSpec == Spec /\ Fairness

-----------------------------------------------------------------------------
(* Safety.                                                                   *)

\* The lock's holder, those in line for it and the one pending future agree:
\* nobody holds the lock twice, waits twice, or is forgotten in the line, and a
\* future is pending exactly while a holder of the lock has a reply to come.
LockDiscipline ==
    /\ \A c \in Callers :
          /\ pc[c] \in {"asking", "pausing"} <=> lock = c
          /\ pc[c] = "queued" <=> \E i \in DOMAIN waiters : waiters[i] = c
    /\ \A i, j \in DOMAIN waiters : waiters[i] = waiters[j] => i = j
    /\ fut # "none" <=> lock # Nobody /\ wants[lock] # "send"

\* Of all the bridge still owes, at most the last is for the request that is
\* out now: the lock keeps a second request off the line, and what an abandoned
\* one left behind comes before it.
OneReplyIsOwn ==
    \A i \in DOMAIN due :
        due[i].fresh => /\ i = Len(due)
                        /\ fut # "none"
                        /\ due[i].key = wants[lock]

\* On JetStream a reply is never taken for that of another device or another query,
\* however late it comes (the matchers of jetstream.py).
RightDevice ==
    Keyed /\ answer # Nobody => lock # Nobody /\ answer.key = wants[lock]

\* The line as those outside see it: its head holds the lock, or is about to.
Queue   == IF lock = Nobody THEN waiters ELSE <<lock>> \o waiters
Outcome == CASE fut = "reply" -> "reply"
             [] fut \in {"error", "cancelled"} -> "error"
             [] OTHER -> "open"
Line    == INSTANCE RequestLine WITH line <- Queue, outcome <- Outcome

\* The callers are served as one line: first come, first served, and only the
\* head of the line is ever answered (the lock and the one pending future).
ServedInLine == Line!Spec

(* Liveness, under FairSpec.                                                 *)

\* Every call comes back, whatever happens to the bridge, the link and the
\* other callers: no one waits for the transmit lock for ever.
EveryCallReturns ==
    \A c \in Callers : pc[c] # "idle" ~> pc[c] = "idle"

=============================================================================
