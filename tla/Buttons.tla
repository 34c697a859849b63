------------------------------ MODULE Buttons ------------------------------
(* The buttons and the scenes of one bridge, both ways: what is pressed on    *)
(* the wall arrives as a line, changes what is shown and runs automations     *)
(* (coordinator.py, device_trigger.py); what is switched in Home Assistant     *)
(* becomes one command or, for a press, two (switch.py, protocol/).           *)
(*                                                                            *)
(* A command waits for the transmit lock; SerialProtocol has the lock.        *)
EXTENDS Naturals, Sequences

CONSTANTS
    Wall,           \* external: the buttons there are, <<idx, button>>, by system
    SwitchIds,      \* CONF_SWITCH_IDS of an Elegance entry
    LoadIds,        \* CONF_LOAD_IDS of a JetStream entry
    ButtonIds,      \* CONF_BUTTON_IDS of a JetStream entry
    Scenes,
    DeviceIds,      \* ids that the device registry may give the bridge
    NoDevice,
    Tasks,          \* bound: service calls under way at once, by system
    MaxLine         \* bound: lines on their way from the bridge

Systems == {"elegance", "jetstream"}
Touches == {"tap", "press", "release", "odd"}

ASSUME WallAssumption ==
    /\ Wall \in [Systems -> SUBSET (Nat \X Nat)]
    /\ Wall["elegance"] \subseteq Nat \X {0} /\ Wall["jetstream"] \subseteq Nat \X (1..3)
    /\ SwitchIds \subseteq Nat /\ LoadIds \subseteq Nat
    /\ ButtonIds \subseteq Nat \X (1..3)
ASSUME DeviceAssumption == NoDevice \notin DeviceIds

VARIABLES
    system,     \* CONF_SYSTEM_TYPE of the entry
    link,       \* the connection: "up" or "down"
    line,       \* the lines on their way from the bridge
    wall,       \* external: each button: held "down", "up" again, or "tapped", which
                \* is up as well, pressed and released in one
    lit,        \* external: the scenes that are on
    switches,   \* data["switches"]; an absent one is off
    scenes,     \* data["scenes"], likewise
    missed,     \* ghost: buttons and scenes that changed without a word to us
    device,     \* external: the bridge in the device registry
    automations,\* the device triggers that automations are attached to
    heard,      \* ghost: the button event handled in this step, or none
    ran,        \* ghost: the automations that it ran
    task,       \* what each service call is at
    held        \* external: how the bridge has each switch of an entity

house   == <<wall, lit>>
shown   == <<switches, scenes, missed>>
calls   == <<task, held>>
vars    == <<system, link, line, house, shown, device, automations, heard, ran, calls>>

Keys    == Wall[system]
Idle    == <<"idle">>
Nothing == [key |-> <<0, 0>>, action |-> "none"]

\* A scene is told from a button by its length.
SceneKey(s) == <<s>>

TypeOK ==
    /\ system \in Systems /\ link \in {"up", "down"}
    /\ wall \in [Keys -> {"up", "down", "tapped"}] /\ lit \in [Scenes -> BOOLEAN]
    /\ switches \in [Keys -> BOOLEAN] /\ scenes \in [Scenes -> BOOLEAN]
    /\ missed \subseteq Keys \cup {SceneKey(s) : s \in Scenes}
    /\ device \in DeviceIds \cup {NoDevice}
    /\ held \in [SwitchIds -> {"no", "held", "stuck"}]

Init ==
    /\ system \in Systems
    /\ link = "up" /\ line = <<>>
    /\ wall = [k \in Keys |-> "up"] /\ lit = [s \in Scenes |-> FALSE]
    /\ switches = [k \in Keys |-> FALSE] /\ scenes = lit
    /\ missed = {}
    /\ device \in DeviceIds \cup {NoDevice}
    /\ automations = {} /\ heard = Nothing /\ ran = {}
    /\ task = [t \in Tasks[system] |-> Idle]
    /\ held = [i \in SwitchIds |-> "no"]

Quiet == heard' = Nothing /\ ran' = {}

-----------------------------------------------------------------------------
(* Device triggers.                                                          *)

SubtypeOfDevice(idx, button) == <<"device", idx>>            \* mutant
Subtype(idx, button) == <<"device", idx, "button", button>>

\* `of` is a ghost: the button that somebody means who picks this trigger.
Trigger(d, action, idx, button) ==
    [device |-> d, type |-> action, subtype |-> Subtype(idx, button), of |-> <<idx, button>>]

\* async_get_triggers of the bridge's device.
Listed ==
    IF device = NoDevice THEN {}
    ELSE IF system = "jetstream"
    THEN {Trigger(device, a, idx, button) :
             a \in {"tap", "press", "release"},
             idx \in LoadIds \cup {p[1] : p \in ButtonIds}, button \in 1..3}
    ELSE {Trigger(device, a, idx, 0) : a \in {"press", "release"}, idx \in SwitchIds}

\* async_attach_trigger: somebody makes automations, one for each of them.
Attaches ==
    /\ ~ Listed \subseteq automations
    /\ automations' = automations \cup Listed
    /\ Quiet
    /\ UNCHANGED <<system, link, line, house, shown, device, calls>>

\* External: the bridge is registered with its first entity, or anew, with another
\* id. Automations keep the id that they were made with.
Registers(d) ==
    /\ d # device
    /\ device' = d
    /\ Quiet
    /\ UNCHANGED <<system, link, line, house, shown, automations, calls>>

-----------------------------------------------------------------------------
(* The wall.                                                                 *)

Key(l)   == IF l.of = "scene" THEN SceneKey(l.idx) ELSE <<l.idx, l.button>>
Pushes(l) == line' = Append(line, l) /\ UNCHANGED missed

\* Somebody touches a button: P and R, or ACT with its action. A letter that
\* nobody knows ("odd") may come, too.
Reports(k, a) ==
    IF link = "up"
    THEN /\ Len(line) < MaxLine
         /\ Pushes([of |-> "button", idx |-> k[1], button |-> k[2], action |-> a])
    ELSE missed' = missed \cup {k} /\ UNCHANGED line

\* How a touch leaves the button, and a letter that says nothing.
Leaves(a, before) ==
    CASE a = "press" -> "down" [] a = "release" -> "up" [] a = "tap" -> "tapped"
      [] OTHER -> before

Touched(k, a) ==
    /\ a \in IF system = "jetstream" THEN Touches ELSE {"press", "release"}
    /\ wall' = [wall EXCEPT ![k] = Leaves(a, @)]
    /\ Reports(k, a)
    /\ Quiet
    /\ UNCHANGED <<system, link, lit, switches, scenes, device, automations, calls>>

\* A scene goes on or off. Only JetStream says so.
Tells(s, on) ==
    IF system = "jetstream" /\ link = "up"
    THEN /\ Len(line) < MaxLine
         /\ Pushes([of |-> "scene", idx |-> s, action |-> on])
    ELSE missed' = missed \cup {SceneKey(s)} /\ UNCHANGED line

SceneTurns(s, on) ==
    /\ lit[s] # on
    /\ lit' = [lit EXCEPT ![s] = on]
    /\ Tells(s, on)
    /\ Quiet
    /\ UNCHANGED <<system, link, wall, switches, scenes, device, automations, calls>>

-----------------------------------------------------------------------------
(* The reader: _dispatch, and the callbacks of the coordinator.              *)

\* _on_switch_event. What was missed of a button before is past with its next.
StateKeyOfIdx(l) == <<l.idx, 1>>                             \* mutant
StateKey(l) == <<l.idx, l.button>>
SwitchEvent(l) ==
    IF l.action = "odd" THEN UNCHANGED <<switches, missed>>
    ELSE /\ switches' = [switches EXCEPT ![StateKey(l)] = l.action # "release"]
         /\ missed' = missed \ {Key(l)}

\* _fire_button_event, and the automations whose trigger it matches.
FiredAnywhere(l) ==                                          \* mutant
    {t \in automations : t.type = l.action /\ t.subtype = Subtype(l.idx, l.button)}
Fired(l) ==
    IF device = NoDevice THEN {}
    ELSE {t \in automations :
             t.device = device /\ t.type = l.action /\ t.subtype = Subtype(l.idx, l.button)}

ButtonArrives ==
    /\ line # <<>> /\ Head(line).of = "button"
    /\ line' = Tail(line)
    /\ SwitchEvent(Head(line))
    /\ heard' = [key |-> Key(Head(line)), action |-> Head(line).action]
    /\ ran' = IF Head(line).action = "odd" THEN {} ELSE Fired(Head(line))
    /\ UNCHANGED <<system, link, house, scenes, device, automations, calls>>

\* _on_scene_event.
SceneArrives ==
    /\ line # <<>> /\ Head(line).of = "scene"
    /\ line' = Tail(line)
    /\ scenes' = [scenes EXCEPT ![Head(line).idx] = Head(line).action]
    /\ missed' = missed \ {Key(Head(line))}
    /\ Quiet
    /\ UNCHANGED <<system, link, house, switches, device, automations, calls>>

\* The link drops with what is on it; a button that is pressed for us stays so.
LinkDrops ==
    /\ link = "up" /\ link' = "down"
    /\ line' = <<>>
    /\ missed' = missed \cup {Key(line[i]) : i \in DOMAIN line}
    /\ held' = [i \in SwitchIds |-> IF held[i] = "held" THEN "stuck" ELSE held[i]]
    /\ Quiet
    /\ UNCHANGED <<system, house, switches, scenes, device, automations, task>>

Reconnects ==
    /\ link = "down" /\ link' = "up"
    /\ Quiet
    /\ UNCHANGED <<system, line, house, shown, device, automations, calls>>

-----------------------------------------------------------------------------
(* Service calls, on entities that are available.                            *)

\* The entities of the entry, and what can be asked of each. Turning a JetStream
\* button off sends nothing.
Commands ==
    (IF system = "jetstream" THEN {<<"tap", k>> : k \in ButtonIds}
     ELSE {<<op, i>> : op \in {"press", "release"}, i \in SwitchIds})
    \cup {<<op, s>> : op \in {"on", "off"}, s \in Scenes}

Running(t) == t \in Tasks[system]

Becomes(t, c) == task' = [task EXCEPT ![t] = c]

Called(t, c) ==
    /\ link = "up" /\ task[t] = Idle
    /\ Becomes(t, c)
    /\ Quiet
    /\ UNCHANGED <<system, link, line, house, shown, device, automations, held>>

\* A write to a link that went may be swallowed.
Arrives(i, s) == IF link = "up" THEN [held EXCEPT ![i] = s] ELSE held

\* ^I, and then the pause before its release.
PressesOnly(t) ==                                            \* mutant
    /\ task[t][1] = "press"
    /\ held' = Arrives(task[t][2], "held")
    /\ Becomes(t, Idle)
Presses(t) ==
    /\ task[t][1] = "press"
    /\ held' = Arrives(task[t][2], "held")
    /\ Becomes(t, <<"pause", task[t][2]>>)

\* ^J.
Releases(t) ==
    /\ task[t][1] = "release"
    /\ held' = Arrives(task[t][2], "no")
    /\ Becomes(t, Idle)

\* ^T. That the bridge reports the tap (README.md) is a touch like any other.
Taps(t) ==
    /\ task[t][1] = "tap"
    /\ Becomes(t, Idle)
    /\ UNCHANGED held

\* ^C and ^D. Elegance does not tell, so the coordinator shows what it commanded;
\* JetStream tells by itself.
PublishNothing(s, on) == UNCHANGED scenes                    \* mutant
Publish(s, on) ==
    scenes' = IF system = "jetstream" THEN scenes ELSE [scenes EXCEPT ![s] = on]
Switches(t, s, on) ==
    /\ lit' = IF link = "up" THEN [lit EXCEPT ![s] = on] ELSE lit
    /\ Publish(s, on)
    /\ IF system = "jetstream" /\ link = "up"
       THEN Tells(s, on)
       ELSE /\ missed' = IF link = "up" THEN missed \ {SceneKey(s)}
                                        ELSE missed \cup {SceneKey(s)}
            /\ UNCHANGED line
    /\ Becomes(t, Idle)

\* The lock is free, and the body of _send runs.
Served(t) ==
    /\ \/ /\ Presses(t) \/ Releases(t) \/ Taps(t)
          /\ UNCHANGED <<line, lit, scenes, missed>>
       \/ /\ \/ task[t][1] = "on"  /\ Switches(t, task[t][2], TRUE)
             \/ task[t][1] = "off" /\ Switches(t, task[t][2], FALSE)
          /\ UNCHANGED held
    /\ Quiet
    /\ UNCHANGED <<system, link, wall, switches, device, automations>>

\* The write raises, or there is no writer: so ends the call, a press included
\* that has yet to be released.
Fails(t) ==
    /\ task[t][1] \notin {"idle", "pause"} /\ link = "down"
    /\ Becomes(t, Idle)
    /\ Quiet
    /\ UNCHANGED <<system, link, line, house, shown, device, automations, held>>

PauseEnds(t) ==
    /\ task[t][1] = "pause"
    /\ Becomes(t, <<"release", task[t][2]>>)
    /\ Quiet
    /\ UNCHANGED <<system, link, line, house, shown, device, automations, held>>

-----------------------------------------------------------------------------
Next ==
    \/ Attaches
    \/ \E d \in DeviceIds : Registers(d)
    \/ \E k \in Keys, a \in Touches : Touched(k, a)
    \/ \E s \in Scenes, on \in BOOLEAN : SceneTurns(s, on)
    \/ ButtonArrives \/ SceneArrives
    \/ LinkDrops \/ Reconnects
    \/ \E t \in Tasks[system] :
          \/ \E c \in Commands : Called(t, c)
          \/ Served(t) \/ Fails(t) \/ PauseEnds(t)

\* A call gets the lock in its turn (EveryCallReturns of SerialProtocol), pauses
\* end, and the reader reads.
Fairness ==
    /\ \A t \in UNION {Tasks[s] : s \in Systems} :
          WF_vars(Running(t) /\ (Served(t) \/ Fails(t))) /\ WF_vars(Running(t) /\ PauseEnds(t))
    /\ WF_vars(ButtonArrives \/ SceneArrives)

Spec == Init /\ [][Next]_vars /\ Fairness

-----------------------------------------------------------------------------
(* Safety.                                                                   *)

Configured(k) ==
    IF system = "jetstream" THEN k \in ButtonIds \/ k[1] \in LoadIds
    ELSE k[1] \in SwitchIds

\* A touch of a button runs the automations for that button and that action of
\* the bridge as it is registered now, and no others; and each button of the
\* entry has a trigger for all it reports (button_subtype: "so the two always
\* agree", and the fresh look-up of _bridge_device_id).
AutomationsRunAsPressed ==
    heard.action \notin {"none", "odd"} =>
        /\ ran = {t \in automations :
                    t.device = device /\ t.type = heard.action /\ t.of = heard.key}
        /\ Configured(heard.key) /\ device # NoDevice =>
              \E t \in Listed : t.type = heard.action /\ t.of = heard.key

\* Once what it said has arrived, a button that is held down is shown on, and one
\* that was released is shown off, each button for itself; only one that was
\* touched while the link was down may not be, until it is touched again. One
\* that was tapped is shown on although nobody holds it (_on_switch_event: "Tap is
\* momentary; we leave it on until the next event clears it").
ButtonsAsLeft ==
    \A k \in Keys \ missed :
        (\A i \in DOMAIN line : Key(line[i]) # k) =>
            /\ wall[k] = "down"   => switches[k]
            /\ wall[k] = "up"     => ~switches[k]
            /\ wall[k] = "tapped" => switches[k]

\* So are scenes: on JetStream by what the bridge tells, on Elegance by what was
\* commanded, unless the wall or a lost link interfered.
ScenesAsSwitched ==
    \A s \in Scenes :
        /\ SceneKey(s) \notin missed
        /\ \A i \in DOMAIN line : Key(line[i]) # SceneKey(s)
        => scenes[s] = lit[s]

(* Liveness.                                                                 *)

\* No button that was pressed for somebody stays pressed while the link holds
\* (press_switch: "Elegance hardware can lock up if a press is held").
HeldIsReleased ==
    \A i \in SwitchIds : held[i] = "held" ~> held[i] # "held"

=============================================================================
