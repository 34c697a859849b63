----------------------------- MODULE LoadState -----------------------------
(* What Home Assistant shows of the loads (coordinator.py): push events, the  *)
(* bulk query that primes the state of an Elegance bridge, and the safety     *)
(* poll, over one serial stream that keeps its order.                         *)
(*                                                                            *)
(* The reader handles every line that is in its buffer before a coroutine     *)
(* whose request it has fulfilled gets to run.                                *)
EXTENDS Naturals, Sequences

CONSTANTS
    Loads,      \* the loads of the bridge
    Levels,     \* the levels they are set to, of 0..99
    Full,       \* the level shown of a load that is on at an unknown level: 99
    Pushing,    \* the loads programmed for spontaneous output
    MaxLine,    \* bound: lines on their way
    MaxOwed     \* bound: bulk queries the bridge has yet to answer

ASSUME LevelAssumption ==
    Full \in Nat \ {0} /\ {0, Full} \subseteq Levels /\ Levels \subseteq 0..Full
ASSUME PushingAssumption == Pushing \subseteq Loads
ASSUME BoundAssumption == MaxOwed \in Nat

VARIABLES
    bridge,     \* external: the levels of the loads
    up,         \* external: the link
    owed,       \* external: bulk queries to answer
    line,       \* lines on their way: pushes and answers to bulk queries
    query,      \* the bulk query that is out, by whom it is made
    answered,   \* its future is fulfilled, its caller has yet to resume ...
    got,        \* ... with these loads on
    data,       \* coordinator.data["loads"]
    stale,      \* ghost: loads whose state may have changed unseen
    guessed,    \* ghost: loads that are on, at a level that was not reported
    overtaken   \* ghost: loads pushed since the query was answered

outside == <<bridge, up>>
stream  == <<owed, line>>
request == <<query, answered, got>>
ghosts  == <<stale, guessed, overtaken>>
vars    == <<outside, stream, request, data, ghosts>>

Push == [kind : {"push"}, load : Loads, level : Levels]
Bulk == [kind : {"bulk"}, on : SUBSET Loads]

TypeOK ==
    /\ bridge \in [Loads -> Levels]
    /\ up \in BOOLEAN
    /\ owed \in 0..MaxOwed
    /\ line \in Seq(Push \cup Bulk)
    /\ query \in {"none", "prime", "poll"}
    /\ answered \in BOOLEAN
    /\ got \subseteq Loads
    /\ data \in [Loads -> [on : BOOLEAN, level : Levels]]
    /\ stale \subseteq Loads
    /\ guessed \subseteq Loads
    /\ overtaken \subseteq Loads

\* A load that is not in `data` reads as one that is off.
Init ==
    /\ bridge \in [Loads -> Levels]
    /\ up = FALSE
    /\ owed = 0 /\ line = <<>>
    /\ query = "none" /\ answered = FALSE /\ got = {}
    /\ data = [l \in Loads |-> [on |-> FALSE, level |-> 0]]
    /\ stale = Loads /\ guessed = {} /\ overtaken = {}

BridgeOn == {l \in Loads : bridge[l] > 0}
ShownOn  == {l \in Loads : data[l].on}

-----------------------------------------------------------------------------
(* The bridge and the link.                                                  *)

\* External: the bridge puts the level of a load on the line.
Reports(l, v) ==
    /\ Len(line) < MaxLine
    /\ line' = Append(line, [kind |-> "push", load |-> l, level |-> v])

\* External: a load is switched or dimmed, at a keypad or by a command.
Changes(l, v) ==
    /\ v # bridge[l]
    /\ bridge' = [bridge EXCEPT ![l] = v]
    /\ IF up /\ l \in Pushing THEN Reports(l, v) ELSE UNCHANGED line
    /\ UNCHANGED <<up, owed, request, data, ghosts>>

\* External: DIP switch 5 lets the bridge report every load, again and again.
Repeats(l) ==
    /\ up /\ l \in Pushing
    /\ Reports(l, bridge[l])
    /\ UNCHANGED <<outside, owed, request, data, ghosts>>

\* External: the answer to ^G is what the bridge knows when it writes it.
Answers ==
    /\ owed > 0 /\ Len(line) < MaxLine
    /\ owed' = owed - 1
    /\ line' = Append(line, [kind |-> "bulk", on |-> BridgeOn])
    /\ UNCHANGED <<outside, request, data, ghosts>>

\* External: the link goes, and what was on its way with it. The request that
\* waits fails; one that was fulfilled has its answer.
Drops ==
    /\ up
    /\ up' = FALSE
    /\ owed' = 0 /\ line' = <<>>
    /\ query' = IF answered THEN query ELSE "none"
    /\ stale' = Loads
    /\ UNCHANGED <<bridge, answered, got, data, guessed, overtaken>>

-----------------------------------------------------------------------------
(* The coordinator.                                                          *)

\* A bulk query is written: by _prime_loads or by _safety_poll.
Asks(who) ==
    /\ query = "none" /\ owed < MaxOwed
    /\ query' = who
    /\ owed' = owed + 1
    /\ UNCHANGED <<bridge, line, answered, got, data, ghosts>>

\* async_init and _try_reconnect: connect, then prime.
Connects ==
    /\ ~up
    /\ up' = TRUE
    /\ Asks("prime")

Polls == up /\ Asks("poll") /\ UNCHANGED up

\* _on_load_event.
Pushed(v, cur) == [on |-> v > 0, level |-> v]

PushArrives ==
    /\ line # <<>> /\ Head(line).kind = "push"
    /\ LET l == Head(line).load
           v == Head(line).level
       IN  /\ data' = [data EXCEPT ![l] = Pushed(v, data[l])]
           /\ stale' = stale \ {l}
           /\ guessed' = guessed \ {l}
           /\ overtaken' = IF answered THEN overtaken \cup {l} ELSE overtaken
    /\ line' = Tail(line)
    /\ UNCHANGED <<outside, owed, request>>

\* Any answer fulfils the query that is out, one that is late as well.
BulkArrives ==
    /\ line # <<>> /\ Head(line).kind = "bulk"
    /\ IF query # "none" /\ ~answered
       THEN answered' = TRUE /\ got' = Head(line).on /\ overtaken' = {}
       ELSE UNCHANGED <<answered, got, overtaken>>
    /\ line' = Tail(line)
    /\ UNCHANGED <<outside, owed, query, data, stale, guessed>>

Forgets == query' = "none" /\ answered' = FALSE /\ got' = {} /\ overtaken' = {}

\* COMMAND_TIMEOUT, or an answer that does not parse: nothing is merged.
TimesOut ==
    /\ query # "none"
    /\ Forgets
    /\ UNCHANGED <<outside, stream, data, stale, guessed>>

\* What the else branch of _prime_loads makes of a load.
PrimedKeepsLevel(on, cur) == [cur EXCEPT !.on = on]          \* mutant
Primed(on, cur) == [on |-> on, level |-> IF on THEN Full ELSE 0]

\* What _safety_poll makes of a load.
PolledAlways(on, cur) == [on |-> on, level |-> IF on THEN Full ELSE 0] \* mutant
PolledOnlyOn(on, cur) ==                                     \* mutant
    IF on /\ ~cur.on THEN [on |-> TRUE, level |-> Full] ELSE cur
Polled(on, cur) ==
    IF on = cur.on THEN cur
    ELSE [on |-> on, level |-> IF ~on THEN 0
                               ELSE IF cur.level = 0 THEN Full ELSE cur.level]

\* The caller resumes and merges the answer. It was right when it was written,
\* so what it tells of a load that was pushed after it is out of date.
Merges ==
    /\ answered
    /\ data' = [l \in Loads |-> IF query = "prime"
                                THEN Primed(l \in got, data[l])
                                ELSE Polled(l \in got, data[l])]
    /\ stale' = (IF up THEN {} ELSE stale)
                    \cup {l \in overtaken : data[l].on # (l \in got)}
    /\ guessed' = {l \in got : query = "prime" \/ ~data[l].on
                                  \/ l \in stale \cup guessed}
    /\ Forgets
    /\ UNCHANGED <<outside, stream>>

-----------------------------------------------------------------------------
Next ==
    \/ \E l \in Loads : (\E v \in Levels : Changes(l, v)) \/ Repeats(l)
    \/ Answers \/ Drops
    \/ Connects \/ Polls
    \/ PushArrives \/ BulkArrives \/ TimesOut \/ Merges

\* The reader reads, and a caller whose request is fulfilled resumes.
Fairness == WF_vars(PushArrives \/ BulkArrives) /\ WF_vars(Merges)

Spec     == Init /\ [][Next]_vars
FairSpec == Spec /\ Fairness

-----------------------------------------------------------------------------
(* Safety.                                                                   *)

\* A load is shown on exactly when its level is not 0, however pushes, primes
\* and polls follow each other (light.py reads the two apart).
OnMatchesLevel == \A l \in Loads : data[l].on <=> data[l].level > 0

\* A load that reports its changes is shown as it is once its reports are in:
\* on or off, and, unless the level had to be guessed, at its level. What can
\* spoil this is a lost link, until the next bulk answer, and an answer that is
\* merged after a newer report; no poll, prime or late answer does otherwise.
ShownAsReported ==
    \A l \in Pushing \ stale :
        /\ up
        /\ \A i \in DOMAIN line : line[i].kind = "push" => line[i].load # l
        => /\ data[l].on <=> bridge[l] > 0
           /\ l \notin guessed => data[l].level = bridge[l]

(* Liveness, under FairSpec.                                                 *)

\* The safety net: on a link that stays, once nothing changes, polls that are
\* answered bring what is shown of every load to what it is, of those that do
\* not report their changes too.
PollsRepair ==
    <>[][up' /\ UNCHANGED bridge]_vars /\ []<><<Merges>>_vars
        => <>[](ShownOn = BridgeOn)

=============================================================================
