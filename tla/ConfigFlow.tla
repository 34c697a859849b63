----------------------------- MODULE ConfigFlow -----------------------------
(* The config flow and the options flow (config_flow.py): the dialogs in      *)
(* which users set up bridges, several at a time, and what of it ends up in   *)
(* the config entries. Home Assistant runs the flows and keeps the entries; a *)
(* flow awaits something only while it scans a bridge for device names.       *)
EXTENDS Integers, ImportText

CONSTANTS
    Flows,          \* dialogs at a time: where one ended another may begin
    Ports,          \* names of serial ports
    Forms,          \* what users submit in the import step
    Finds,          \* the sets of devices that scans find
    PollIntervals,  \* what users choose in the options
    Limits          \* _SYSTEM_LIMITS

Systems == {"elegance", "jetstream"}
Format  == [elegance |-> "elg", jetstream |-> "jts"]

ASSUME FormsAssumption ==
    \A fm \in Forms :
        /\ IsText(fm.text)
        /\ fm.loads \subseteq Int /\ fm.scenes \subseteq Int /\ fm.switches \subseteq Int
        /\ fm.numeric \in BOOLEAN /\ fm.scan \in BOOLEAN
ASSUME FindsAssumption == \A s \in Finds : s \subseteq Int
ASSUME LimitsAssumption ==
    Limits \in [Systems -> [load : Nat, scene : Nat, switch : Nat]]
ASSUME PollAssumption == PollIntervals \subseteq Nat

VARIABLES
    step,       \* the step each flow is in, "created" when it made an entry
    uid,        \* its unique id: the system and the port as the flow keeps it
    form,       \* the form of the import step it is working on, or made of
    found,      \* ghost: what the scan for that form found
    stored,     \* _data and _options; those of the entry once it is created
    error       \* the error that the import step shows

vars == <<step, uid, form, found, stored, error>>

NoForm ==
    [text |-> NoText, loads |-> {}, scenes |-> {}, switches |-> {},
     numeric |-> TRUE, scan |-> FALSE]
NoUid == [system |-> "none", port |-> <<"none", "plain">>]

\* Of names only who gave them matters: <<id, "text">> or <<id, "scan">>.
\* Options that were never set read as their defaults.
Nothing ==
    [loads |-> {}, disabled |-> {}, scenes |-> {}, switches |-> {}, buttons |-> {},
     loadNames |-> {}, sceneNames |-> {}, switchNames |-> {}, relays |-> {},
     poll |-> 300, clock |-> FALSE]

Steps  == {"user", "import", "scanning", "created"}
Errors == {"none", "import_failed", "scan_failed", "ids_out_of_range"}
Uids   == [system : Systems, port : Ports \X {"plain", "padded"}]

\* What an entry says of loads it says of its loads.
DataOK(d) ==
    /\ d = [x \in DOMAIN Nothing |-> d[x]]
    /\ d.loads \subseteq Int
    /\ d.disabled \subseteq d.loads /\ d.relays \subseteq d.loads
    /\ d.loadNames \subseteq d.loads \X {"text", "scan"}
    /\ d.poll \in PollIntervals \cup {300} /\ d.clock \in BOOLEAN

TypeOK ==
    /\ step \in [Flows -> Steps]
    /\ \A f \in Flows :
        /\ uid[f] \in IF step[f] = "user" THEN {NoUid} ELSE Uids
        /\ form[f] \in IF step[f] \in {"scanning", "created"} THEN Forms ELSE {NoForm}
        /\ found[f] \in Finds \cup {{}}
        /\ error[f] \in Errors
        /\ DataOK(stored[f])

Init ==
    /\ step = [f \in Flows |-> "user"]
    /\ uid = [f \in Flows |-> NoUid]
    /\ form = [f \in Flows |-> NoForm]
    /\ found = [f \in Flows |-> {}]
    /\ stored = [f \in Flows |-> Nothing]
    /\ error = [f \in Flows |-> "none"]

System(f) == uid[f].system

-----------------------------------------------------------------------------
\* async_step_user. What users type may be padded.

\* mutant: the port is taken as it was typed
StripNothing(port) == port

Strip(port) == <<port[1], "plain">>

\* External: async_set_unique_id and _abort_if_unique_id_configured end a flow
\* for a bridge that has an entry, or another flow under way.
Free(id) == \A g \in Flows : uid[g] # id

Identifies(f, s, port) ==
    LET id == [system |-> s, port |-> Strip(port)] IN
    /\ step[f] = "user"
    /\ Free(id)
    /\ uid' = [uid EXCEPT ![f] = id]
    /\ step' = [step EXCEPT ![f] = "import"]
    /\ UNCHANGED <<form, found, stored, error>>

-----------------------------------------------------------------------------
\* async_step_import: what a form amounts to.

\* ValueError: a text of another format, or without a load and a scene in it,
\* or an id that is no number.
Unreadable(s, fm) ==
    \/ fm.text.format \notin {"none", Format[s]}
    \/ fm.text.format # "none" /\ fm.text.loads = {} /\ fm.text.scenes = {}
    \/ ~fm.numeric

\* A .elg lists all slots; only those that are named or referenced are used.
TextLoads(s, t) ==
    IF s = "elegance" THEN t.named \cup (t.referenced \cap t.loads) ELSE t.loads

\* Buttons are named after their device.
SwitchNames(s, t) ==
    IF s = "elegance" THEN t.switches ELSE {b \in t.buttons : b[1] \in t.named}

LoadNames(s, t, scanned) ==
    ((TextLoads(s, t) \cap t.named) \ scanned) \X {"text"} \cup scanned \X {"scan"}

Result(s, fm, scanned) ==
    LET t == fm.text IN
    [loads       |-> TextLoads(s, t) \cup fm.loads \cup scanned,
     disabled    |-> IF s = "elegance" THEN (TextLoads(s, t) \ t.named) \ fm.loads ELSE {},
     scenes      |-> t.scenes \cup fm.scenes,
     switches    |-> IF s = "elegance" THEN t.switches \cup fm.switches ELSE fm.switches,
     buttons     |-> IF s = "elegance" THEN {} ELSE t.buttons \cup (fm.switches \X {1}),
     loadNames   |-> LoadNames(s, t, scanned),
     sceneNames  |-> t.namedScenes,
     switchNames |-> SwitchNames(s, t),
     relays      |-> t.relays \cap TextLoads(s, t)]

\* mutant: without the lower bound
CheckRangeAbove(ids, limit) == \A i \in ids : i <= limit

CheckRange(ids, limit) == \A i \in ids : 1 <= i /\ i <= limit

IdsInRange(s, r) ==
    /\ CheckRange(r.loads, Limits[s].load)
    /\ CheckRange(r.scenes, Limits[s].scene)
    /\ CheckRange(r.switches, Limits[s].switch)

\* The second check, of the devices that have buttons.
ButtonsInRange(s, r) == CheckRange({b[1] : b \in r.buttons}, Limits[s].switch)

\* What is empty is not stored, and what was there would stay.
Kept(new, old) == IF new = {} THEN old ELSE new

StoresIds(d, r) ==
    [d EXCEPT !.loads = r.loads, !.disabled = Kept(r.disabled, @), !.scenes = r.scenes]

StoresAll(d, s, r) ==
    [StoresIds(d, r) EXCEPT
        !.switches = IF s = "elegance" THEN r.switches ELSE @,
        !.buttons = IF s = "elegance" THEN @ ELSE r.buttons,
        !.loadNames = Kept(r.loadNames, @), !.sceneNames = Kept(r.sceneNames, @),
        !.switchNames = Kept(r.switchNames, @), !.relays = Kept(r.relays, @)]

\* mutant: everything is stored before it is checked
RejectedAfterStoring(d, s, r) == StoresAll(d, s, r)

\* What the flow holds when a check failed: the second one comes after the ids.
Rejected(d, s, r) == IF IdsInRange(s, r) THEN StoresIds(d, r) ELSE d

-----------------------------------------------------------------------------
\* async_step_import: its outcomes.

ShowsError(f, e) ==
    /\ step' = [step EXCEPT ![f] = "import"]
    /\ error' = [error EXCEPT ![f] = e]
    /\ form' = [form EXCEPT ![f] = NoForm]
    /\ found' = [found EXCEPT ![f] = {}]
    /\ UNCHANGED uid

Creates(f, fm, scanned) ==
    LET r == Result(System(f), fm, scanned) IN
    /\ IdsInRange(System(f), r) /\ ButtonsInRange(System(f), r)
    /\ stored' = [stored EXCEPT ![f] = StoresAll(@, System(f), r)]
    /\ step' = [step EXCEPT ![f] = "created"]
    /\ form' = [form EXCEPT ![f] = fm]
    /\ found' = [found EXCEPT ![f] = scanned]
    /\ error' = [error EXCEPT ![f] = "none"]
    /\ UNCHANGED uid

Rejects(f, fm, scanned) ==
    LET r == Result(System(f), fm, scanned) IN
    /\ ~(IdsInRange(System(f), r) /\ ButtonsInRange(System(f), r))
    /\ stored' = [stored EXCEPT ![f] = Rejected(@, System(f), r)]
    /\ ShowsError(f, "ids_out_of_range")

Completes(f, fm, scanned) == Creates(f, fm, scanned) \/ Rejects(f, fm, scanned)

Fails(f, fm) ==
    /\ Unreadable(System(f), fm)
    /\ ShowsError(f, "import_failed")
    /\ UNCHANGED stored

\* Only the form of a JetStream bridge offers the scan.
Scans(f, fm) == fm.scan /\ System(f) = "jetstream"

StartsScan(f, fm) ==
    /\ ~Unreadable(System(f), fm) /\ Scans(f, fm)
    /\ step' = [step EXCEPT ![f] = "scanning"]
    /\ form' = [form EXCEPT ![f] = fm]
    /\ UNCHANGED <<uid, found, stored, error>>

Submits(f, fm) ==
    /\ step[f] = "import"
    /\ \/ Fails(f, fm)
       \/ StartsScan(f, fm)
       \/ ~Unreadable(System(f), fm) /\ ~Scans(f, fm) /\ Completes(f, fm, {})

ScanEnds(f, scanned) ==
    /\ step[f] = "scanning"
    /\ Completes(f, form[f], scanned)

\* The bridge cannot be reached, or the link drops.
ScanFails(f) ==
    /\ step[f] = "scanning"
    /\ ShowsError(f, "scan_failed")
    /\ UNCHANGED stored

\* External: the user closes the dialog, and the result of a scan is dropped;
\* or deletes the entry. Another flow starts with nothing.
Ends(f) ==
    /\ step[f] # "user"
    /\ step' = [step EXCEPT ![f] = "user"]
    /\ uid' = [uid EXCEPT ![f] = NoUid]
    /\ form' = [form EXCEPT ![f] = NoForm]
    /\ found' = [found EXCEPT ![f] = {}]
    /\ stored' = [stored EXCEPT ![f] = Nothing]
    /\ error' = [error EXCEPT ![f] = "none"]

-----------------------------------------------------------------------------
\* async_step_init of the options flow of an entry.

\* mutant: the options are replaced by what the dialog shows
MergedAlone(d, s, poll, clock) ==
    [d EXCEPT !.poll = poll, !.clock = clock, !.relays = {}, !.loadNames = {},
              !.sceneNames = {}, !.switchNames = {}]

\* Merged with what the options hold; the clock is for Elegance only.
Merged(d, s, poll, clock) ==
    [d EXCEPT !.poll = poll, !.clock = IF s = "elegance" THEN clock ELSE @]

EditsOptions(f, poll, clock) ==
    /\ step[f] = "created"
    /\ stored' = [stored EXCEPT ![f] = Merged(@, System(f), poll, clock)]
    /\ UNCHANGED <<step, uid, form, found, error>>

Next ==
    \E f \in Flows :
        \/ \E s \in Systems, port \in Ports \X {"plain", "padded"} : Identifies(f, s, port)
        \/ \E fm \in Forms : Submits(f, fm)
        \/ \E scanned \in Finds : ScanEnds(f, scanned)
        \/ ScanFails(f)
        \/ Ends(f)
        \/ \E poll \in PollIntervals, clock \in BOOLEAN : EditsOptions(f, poll, clock)

Spec == Init /\ [][Next]_vars

-----------------------------------------------------------------------------
Created(f) == step[f] = "created"

\* Every id of an entry, wherever it came from, is one the bridge has (the
\* checks of the import step come after typed, parsed and scanned ids met).
WithinLimits(s, d) ==
    /\ d.loads \subseteq 1..Limits[s].load
    /\ d.scenes \subseteq 1..Limits[s].scene
    /\ d.switches \subseteq 1..Limits[s].switch
    /\ d.buttons \subseteq (1..Limits[s].switch) \X (1..3)

InRange == \A f \in Flows : Created(f) => WithinLimits(System(f), stored[f])

\* Loads that the text has for its own sake: all of a .jts, and of a .elg those
\* that are named or referenced.
Uses(s, t, i) == s = "jetstream" \/ i \in t.named \/ i \in t.referenced

\* What an entry d says when it says what a form and the scan for it say, no less
\* and no more: typed loads are enabled, unnamed ones of a .elg are not; a scan
\* has the last word on a name.
Says(s, fm, scanned, d) ==
    LET t == fm.text IN
    /\ d.loads = {i \in t.loads : Uses(s, t, i)} \cup fm.loads \cup scanned
    /\ d.disabled = {i \in d.loads \ (t.named \cup fm.loads) : s = "elegance"}
    /\ d.loadNames = {n \in d.loads \X {"text", "scan"} :
                        IF n[2] = "scan" THEN n[1] \in scanned
                        ELSE n[1] \in t.named \ scanned}
    /\ d.relays = {i \in t.relays : Uses(s, t, i)}
    /\ d.scenes = t.scenes \cup fm.scenes
    /\ d.sceneNames = t.namedScenes
    /\ s = "elegance" =>
        /\ d.switches = t.switches \cup fm.switches
        /\ d.switchNames = t.switches
        /\ d.buttons = {}
    /\ s = "jetstream" =>
        /\ d.buttons = t.buttons \cup {<<i, 1>> : i \in fm.switches}
        /\ d.switchNames = {b \in t.buttons : b[1] \in t.named}
        /\ d.switches = {}
        /\ ~d.clock

\* An entry says what its last form and scan say: nothing of the forms that were
\* rejected before stays in the flow, and no edit of the options loses any.
EntryIsLastForm ==
    \A f \in Flows : Created(f) => Says(System(f), form[f], found[f], stored[f])

\* No two entries for one system on one port, however its name was typed, and
\* whatever the order in which two dialogs for it go on (async_step_user).
OneEntryPerBridge ==
    \A f, g \in Flows :
        /\ Created(f) /\ Created(g) /\ System(f) = System(g)
        /\ uid[f].port[1] = uid[g].port[1]
        => f = g
=============================================================================
