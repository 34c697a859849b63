------------------------------ MODULE MCSetup ------------------------------
(* The way from an export to an entry: instances of the parsers (Imports) and *)
(* of the dialogs that take what they make (ConfigFlow) for TLC.              *)
EXTENDS ConfigFlow, Imports

-----------------------------------------------------------------------------
(* The dialogs.                                                              *)

\* Three loads, two scenes and three switches. JetStream has fewer switches than
\* loads here, so that its second check has something to reject.
SmallLimits ==
    [elegance |-> [load |-> 3, scene |-> 2, switch |-> 3],
     jetstream |-> [load |-> 3, scene |-> 2, switch |-> 2]]

\* Load 1 is named, 2 a relay that a scene refers to, 3 a relay nobody uses;
\* 9 is referenced, and no load of this text.
Elg ==
    [format |-> "elg", loads |-> {1, 2, 3}, named |-> {1}, referenced |-> {1, 2, 9},
     relays |-> {2, 3}, scenes |-> {1, 2}, namedScenes |-> {1}, switches |-> {2},
     buttons |-> {}]
\* A text for a bridge with more loads than there are.
LongElg == [Elg EXCEPT !.loads = {1, 4}, !.named = {1, 4}, !.relays = {1}]
\* No name, no relay: what an earlier form left would stay.
BareElg == [NoText EXCEPT !.format = "elg", !.loads = {2}, !.scenes = {1}]
Jts ==
    [format |-> "jts", loads |-> {1, 2}, named |-> {1}, referenced |-> {}, relays |-> {2},
     scenes |-> {2}, namedScenes |-> {2}, switches |-> {},
     buttons |-> {<<1, 2>>, <<2, 1>>}]
\* The buttons of load 3 are beyond the switches.
LongJts == [Jts EXCEPT !.loads = {1, 3}, !.relays = {3}, !.buttons = {<<1, 3>>, <<3, 1>>}]
EmptyJts == [NoText EXCEPT !.format = "jts"]

Pasted(t) == [NoForm EXCEPT !.text = t]
Typed(ids, numbers) == [NoForm EXCEPT !.loads = ids, !.switches = numbers]

SomeForms ==
    {Pasted(t) : t \in {Elg, LongElg, BareElg, Jts, LongJts, EmptyJts}}
        \cup {Typed({}, {1}), Typed({0}, {}), Typed({2}, {3})}
        \cup {[Pasted(Elg) EXCEPT !.loads = {2}],
              [Pasted(Jts) EXCEPT !.switches = {2}, !.scan = TRUE],
              [Typed({3}, {}) EXCEPT !.scan = TRUE],
              [Typed({}, {}) EXCEPT !.numeric = FALSE]}

\* A scan finds a load that the text names, one that it does not, one too many.
SomeFinds == {{}, {1}, {2, 3}, {4}}

-----------------------------------------------------------------------------
(* The lines and devices of the exports.                                     *)

Header(kind, tab, n) == [kind |-> kind, n |-> n, tab |-> tab]
Body(key, value, n) == [key |-> key, value |-> value, n |-> n]

\* [P25] is no button of the bridge.
SomeHeaders ==
    {Header("load", 0, 1), Header("load", 0, 2), Header("scene", 0, 3),
     Header("bare", 0, 0), Header("button", 0, 24), Header("button", 15, 25)}
SomeBodies ==
    {Body("NAME", "x", 0), Body("NAME", "", 0), Body("DIMMER", "Y", 0),
     Body("DIMMER", "N", 0), Body("DIMMER", "", 0),
     Body("LOAD/SCENE", "L", 0), Body("ACTIVE", "1", 0), Body("#", "digits", 1),
     Body("#", "digits", 2), Body("LOAD_", "", 1)}
SomeStarts == SomeHeaders \cup {Body("NAME", "x", 0)}

Button(id, acts) == [id |-> id, actions |-> acts]
Device(id, third, active, dimmer, nm, bs) ==
    [id |-> id, third |-> third, active |-> active, dimmer |-> dimmer, name |-> nm,
     buttons |-> bs]
Keypad == {Button(0, {0, 1}), Button(1, {0}), Button(2, {5}), Button(3, {1})}
SomeDevices ==
    {Device(id, third, active, dimmer, nm, Keypad) :
        id \in {0, 1, 2}, third \in {"true", "missing"}, active \in {"false", "missing"},
        dimmer \in {"false", "missing"}, nm \in {"", "x"}}
SmallFiles == [elg |-> 5, jts |-> 2]
ShortFile  == 3

SomeScenes == {[id |-> 0, name |-> "x"], [id |-> 1, name |-> ""]}

-----------------------------------------------------------------------------
(* A file is read, in one step of a dialog in the code, before the dialog that *)
(* takes it begins. Without one the dialogs have the forms of SomeForms.       *)

SetupInit == Init /\ FileInit

ReadsFile ==
    /\ \A f \in Flows : step[f] = "user"
    /\ FileNext
    /\ UNCHANGED vars

Dialogs ==
    /\ lines = <<>> /\ format = "elg"
    /\ Next
    /\ UNCHANGED fileVars

\* One dialog takes what was read of a short file.
TakesFile ==
    /\ lines # <<>> /\ Len(lines) <= ShortFile
    /\ \E f \in Flows :
          /\ \A g \in Flows \ {f} : step[g] = "user"
          /\ \/ \E s \in Systems, port \in Ports \X {"plain"} : Identifies(f, s, port)
             \/ Submits(f, Pasted(Text))
    /\ UNCHANGED fileVars

SetupNext == ReadsFile \/ Dialogs \/ TakesFile

SetupSpec == SetupInit /\ [][SetupNext]_<<vars, fileVars>>
=============================================================================
