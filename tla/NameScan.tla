------------------------------ MODULE NameScan ------------------------------
(* The device name scan of the config flow (config_flow.py,                   *)
(* protocol/jetstream.py): a connection of its own, one ^N for every slot, a   *)
(* short time-out for each, over the requests of SerialProtocol. A slot that   *)
(* is not configured is silent, and so is a link that went.                    *)
EXTENDS SerialProtocol

CONSTANTS
    Scanner,    \* the task that scans, alone on its connection
    Slots,      \* the device numbers that are probed, in order
    Configured, \* external: those that the bridge has a device at
    Blank       \* external: those of them that it has no name for

ASSUME ScanAssumption ==
    /\ Callers = {Scanner}
    /\ Slots \in Seq(Keys) /\ Slots # <<>>
    /\ \A i, j \in DOMAIN Slots : Slots[i] = Slots[j] => i = j
    /\ Configured \subseteq {Slots[i] : i \in DOMAIN Slots} /\ Blank \subseteq Configured

VARIABLES
    stage,      \* where _scan_jetstream_names stands
    at,         \* the slot whose turn it is
    found,      \* the names found: each slot with the slot that answered
    silent      \* ghost: the slots whose probe ended without an answer

scan     == <<stage, at, found, silent>>
scanVars == <<vars, scan>>

ScanInit ==
    /\ Init
    /\ system = "jetstream"
    /\ stage = "out" /\ at = 1 /\ found = {} /\ silent = {}

\* The task goes on without an await: nothing happens in between.
BetweenProbes == stage = "probing" /\ pc[Scanner] = "idle"
Leaving       == stage \in {"aborting", "finishing"}
Running       == BetweenProbes \/ (Leaving /\ wire # "closing")

-----------------------------------------------------------------------------
\* The import form is submitted with the scan ticked, perhaps once more.
StartsScan ==
    /\ stage \in {"out", "names", "failed"}
    /\ stage' = "opening"
    /\ at' = 1 /\ found' = {} /\ silent' = {}
    /\ UNCHANGED vars

\* connect() within its ten seconds, or not: disconnect() finds no writer then.
ScanConnects ==
    /\ stage = "opening"
    /\ Connects
    /\ stage' = "probing"
    /\ UNCHANGED <<at, found, silent>>

OpenFails ==
    /\ stage = "opening"
    /\ stage' = "failed"
    /\ UNCHANGED <<vars, at, found, silent>>

\* get_device_name up to the wait for its answer. A slot that is not configured
\* never answers; a write that raises ends the scan.
Probes ==
    /\ BetweenProbes
    /\ Calls(Scanner, Slots[at]) /\ lock' = Scanner
    /\ due' # due => Slots[at] \in Configured
    /\ UNCHANGED scan

ProbeRaises ==
    /\ BetweenProbes /\ wire = "cut"
    /\ stage' = "aborting"
    /\ UNCHANGED <<vars, at, found, silent>>

\* The request is over: the look at _lost, the name, and on to the next slot.
TakesLost(answered) ==                                       \* mutant
    /\ found' = IF answered /\ Slots[at] \notin Blank
                THEN found \cup {<<Slots[at], answer.key>>} ELSE found
    /\ at' = at + 1
    /\ stage' = IF at = Len(Slots) THEN "finishing" ELSE "probing"
Takes(answered) ==
    IF lost
    THEN stage' = "aborting" /\ UNCHANGED <<at, found>>
    ELSE /\ found' = IF answered /\ Slots[at] \notin Blank
                     THEN found \cup {<<Slots[at], answer.key>>} ELSE found
         /\ at' = at + 1
         /\ stage' = IF at = Len(Slots) THEN "finishing" ELSE "probing"

ProbeFails ==
    /\ Resumes(Scanner) /\ pc'[Scanner] = "idle"
    /\ Takes(FALSE)
    /\ silent' = silent \cup {Slots[at]}

ProbeAnswered == Resumes(Scanner) /\ pc'[Scanner] # "idle" /\ UNCHANGED scan

ProbePaused ==
    /\ PauseEnds(Scanner)
    /\ Takes(TRUE)
    /\ UNCHANGED silent

\* The `finally`: disconnect(), and the end of the scan.
EndsOpen ==                                                  \* mutant
    /\ Leaving /\ wire # "closing"
    /\ stage' = IF stage = "finishing" THEN "names" ELSE "failed"
    /\ UNCHANGED <<vars, at, found, silent>>
HangsUp ==
    /\ Leaving
    /\ Disconnects
    /\ UNCHANGED scan

Finishes ==
    /\ Closed
    /\ stage' = IF stage = "finishing" THEN "names" ELSE "failed"
    /\ UNCHANGED <<at, found, silent>>

-----------------------------------------------------------------------------
Goes   == Probes \/ ProbeRaises \/ HangsUp
EndsProbe  == ProbeFails \/ ProbeAnswered \/ ProbePaused
Meets  == ReplyArrives \/ ReplyLost \/ ReaderNotices \/ LinkCut
Waits  ==
    \/ StartsScan \/ ScanConnects \/ OpenFails
    \/ EndsProbe \/ Finishes
    \/ (TimesOut(Scanner) \/ Meets) /\ UNCHANGED scan

ScanNext == IF Running THEN Goes ELSE Waits

\* Tasks that are ready run, time-outs run out, the port opens in time or fails
\* to, and closes. No reply and no report of a lost link is counted on.
ScanFairness ==
    /\ WF_scanVars(Running /\ Goes)
    /\ WF_scanVars(~Running /\ (ScanConnects \/ OpenFails))
    /\ WF_scanVars(~Running /\ EndsProbe)
    /\ WF_scanVars(~Running /\ TimesOut(Scanner) /\ UNCHANGED scan)
    /\ WF_scanVars(~Running /\ Finishes)

ScanSpec == ScanInit /\ [][ScanNext]_scanVars /\ ScanFairness

-----------------------------------------------------------------------------
(* Safety.                                                                   *)

\* A scan that succeeds has every name, each for its own slot, but for those
\* whose answer did not come in time; and it never is the rest of a scan whose
\* link was lost on the way (scan_device_names: "rather than mistaking every
\* post-disconnect probe for an unconfigured slot").
ScanIsWhole ==
    stage = "names" =>
        /\ ~lost
        /\ found = {<<s, s>> : s \in (Configured \ Blank) \ silent}

(* Liveness, under ScanSpec.                                                 *)

\* Every scan ends with the port closed again, ready for the entry that is set
\* up next, whatever the bridge and the link do.
ScanEnds == stage = "opening" ~> stage \in {"names", "failed"} /\ wire = "none"

=============================================================================
