------------------------------- MODULE Imports -------------------------------
(* The parsers of exports (parsers/elg.py, parsers/jts.py). A .elg is read     *)
(* line by line, in three passes that keep a section each; they are one walk  *)
(* here. A .jts is read device by device. A file may end after each step.      *)
EXTENDS ImportText, Sequences

CONSTANTS
    Headers,    \* section headers of a .elg, [LOAD 1], [SCENE 3- x], [A1], ...
    Bodies,     \* other lines of a .elg, key and value
    Starts,     \* bound: the lines a .elg begins with
    Devices,    \* devices of a .jts
    Scenes,     \* scenes of a .jts
    MaxLines    \* bound: lines, or devices and scenes, of a file of each format

\* A button is a tab, A = 0, and a number. A "bare" scene has no dash and name.
ASSUME HeadersAssumption ==
    \A h \in Headers :
        /\ h.kind \in {"load", "scene", "bare", "button", "other"}
        /\ h.n \in Nat /\ h.tab \in 0..15
\* A line is a header or it is not. Digits are no negative number, nor is the ID of
\* a .jts button; other ids of a .jts may be.
ASSUME LinesAssumption ==
    /\ Headers \cap Bodies = {}
    /\ \A b \in Bodies : b.n \in Nat
    /\ \A d \in Devices : d.id \in Int /\ \A b \in d.buttons : b.id \in Nat
    /\ \A s \in Scenes : s.id \in Int
ASSUME MaxLinesAssumption == MaxLines \in [{"elg", "jts"} -> Nat]
ASSUME StartsAssumption == Starts \subseteq Headers \cup Bodies

VARIABLES
    format,     \* of the file
    lines,      \* ghost: what was read so far
    section,    \* the section that each pass is in
    current,    \* current_load of parse_elg, -1 for none
    loads,      \* loads: names, "" for none
    dimmable,   \* dimmable
    scenes,     \* scenes: names
    fields,     \* fields of _referenced_load_ids
    referenced, \* referenced of _referenced_load_ids
    name,       \* name of _named_switches, "" for none
    switches,   \* switches of _named_switches
    buttons     \* buttons of parse_jts

elg  == <<section, current, fields, referenced, name, switches>>
fileVars == <<format, lines, elg, loads, dimmable, scenes, buttons>>

NoSection == [kind |-> "none", n |-> 0, tab |-> 0]

FileInit ==
    /\ format \in {"elg", "jts"}
    /\ lines = <<>> /\ section = NoSection /\ current = -1
    /\ loads = <<>> /\ dimmable = <<>> /\ scenes = <<>>
    /\ fields = <<>> /\ referenced = {} /\ name = "" /\ switches = <<>>
    /\ buttons = {}

Reads(l) ==
    /\ Len(lines) < MaxLines[format]
    /\ lines' = Append(lines, l)
    /\ UNCHANGED format

\* d[k] = v and d.setdefault(k, v).
With(d, k, v) == [x \in DOMAIN d \cup {k} |-> IF x = k THEN v ELSE d[x]]
SetDefault(d, k, v) == IF k \in DOMAIN d THEN d ELSE With(d, k, v)

-----------------------------------------------------------------------------
(* .elg                                                                      *)

\* flush_button: the load that a finished section assigns to an active button.
Has(fs, key, value) == key \in DOMAIN fs /\ fs[key].value = value
Assigned(s, fs) ==
    IF /\ s.kind = "button"
       /\ Has(fs, "LOAD/SCENE", "L") /\ Has(fs, "ACTIVE", "1") /\ Has(fs, "#", "digits")
    THEN {fs["#"].n} ELSE {}

\* flush: a finished section whose button has a name adds a switch.
NamedAnyNumber(sw, s, nm) ==                                 \* mutant
    IF s.kind = "button" /\ nm # "" THEN With(sw, 24 * s.tab + s.n, nm) ELSE sw
Named(sw, s, nm) ==
    IF s.kind = "button" /\ nm # "" /\ s.n \in 1..24
    THEN With(sw, 24 * s.tab + s.n, nm) ELSE sw

\* What the fields of a section start from.
FieldsKept == fields                                         \* mutant
NewFields == <<>>

ReadsHeader(h) ==
    /\ format = "elg" /\ Reads(h)
    /\ section' = h
    /\ current' = IF h.kind = "load" THEN h.n ELSE -1
    /\ loads' = IF h.kind = "load" THEN SetDefault(loads, h.n, "") ELSE loads
    /\ dimmable' = IF h.kind = "load" THEN SetDefault(dimmable, h.n, TRUE) ELSE dimmable
    /\ scenes' = IF h.kind = "scene" THEN With(scenes, h.n, "x") ELSE scenes
    /\ referenced' = referenced \cup Assigned(section, fields)
    /\ fields' = NewFields
    /\ switches' = Named(switches, section, name)
    /\ name' = ""
    /\ UNCHANGED buttons

ReadsBody(b) ==
    /\ format = "elg" /\ Reads(b)
    /\ loads' = IF current >= 0 /\ b.key = "NAME"
                THEN [loads EXCEPT ![current] = b.value] ELSE loads
    /\ dimmable' = IF current >= 0 /\ b.key = "DIMMER"
                   THEN [dimmable EXCEPT ![current] = b.value = "Y"] ELSE dimmable
    /\ referenced' = IF section.kind \in {"scene", "bare"} /\ b.key = "LOAD_"
                     THEN referenced \cup {b.n} ELSE referenced
    /\ fields' = IF section.kind = "button" /\ b.key # "LOAD_"
                 THEN With(fields, b.key, b) ELSE fields
    /\ name' = IF section.kind = "button" /\ b.key = "NAME" THEN b.value ELSE name
    /\ UNCHANGED <<section, current, scenes, switches, buttons>>

-----------------------------------------------------------------------------
(* .jts                                                                      *)

\* _is_true: an element that is missing counts as `default`.
IsTrue(value, default) == IF value = "missing" THEN default ELSE value = "true"

\* _button_configured.
Configured(b) == \E a \in b.actions : a # 0

\* _collect_buttons: buttons 0..2 of a device are 1..3 of the protocol.
ButtonsAnyId(d) == {<<d.id, b.id + 1>> : b \in {c \in d.buttons : Configured(c)}}  \* mutant
ButtonsOf(d) ==
    {<<d.id, b.id + 1>> : b \in {c \in d.buttons : c.id <= 2 /\ Configured(c)}}

\* One round of the loop over the devices.
ReadsDevice(d) ==
    /\ format = "jts" /\ Reads(d)
    /\ IF d.id > 0 /\ IsTrue(d.third, FALSE) /\ IsTrue(d.active, TRUE)
       THEN /\ loads' = With(loads, d.id, d.name)
            /\ dimmable' = With(dimmable, d.id, IsTrue(d.dimmer, TRUE))
            /\ buttons' = buttons \cup ButtonsOf(d)
       ELSE UNCHANGED <<loads, dimmable, buttons>>
    /\ UNCHANGED <<elg, scenes>>

\* One round of the loop over the scenes.
ReadsScene(s) ==
    /\ format = "jts" /\ Reads(s)
    /\ scenes' = IF s.id > 0 THEN With(scenes, s.id, s.name) ELSE scenes
    /\ UNCHANGED <<elg, loads, dimmable, buttons>>

-----------------------------------------------------------------------------
FileNext ==
    \/ \E h \in Headers : (lines = <<>> => h \in Starts) /\ ReadsHeader(h)
    \/ \E b \in Bodies : (lines = <<>> => b \in Starts) /\ ReadsBody(b)
    \/ \E d \in Devices : ReadsDevice(d)
    \/ \E s \in Scenes : ReadsScene(s)

FileSpec == FileInit /\ [][FileNext]_fileVars

\* What the parsers return where the file ends here: both flush the last section.
Text ==
    [format      |-> format,
     loads       |-> DOMAIN loads,
     named       |-> {n \in DOMAIN loads : loads[n] # ""},
     referenced  |-> referenced \cup Assigned(section, fields),
     relays      |-> {n \in DOMAIN dimmable : ~dimmable[n]},
     scenes      |-> DOMAIN scenes,
     namedScenes |-> {n \in DOMAIN scenes : scenes[n] # ""},
     switches    |-> DOMAIN Named(switches, section, name),
     buttons     |-> buttons]

-----------------------------------------------------------------------------
(* Safety, for a file that ends at any line.                                 *)

\* The headers of the lines ls, and the lines with `key` in the sections that
\* begin at `starts`.
HeaderAt(ls) == {i \in DOMAIN ls : ls[i] \in Headers}
InSection(ls, p, i) == p < i /\ HeaderAt(ls) \cap p + 1..i = {}
Lines(ls, starts, key) ==
    {i \in DOMAIN ls \ HeaderAt(ls) : ls[i].key = key /\ \E p \in starts : InSection(ls, p, i)}

\* The last of them, and what it says.
Last(ls, starts, key) ==
    CHOOSE i \in Lines(ls, starts, key) : \A j \in Lines(ls, starts, key) : j <= i
Told(ls, starts, key, default) ==
    IF Lines(ls, starts, key) = {} THEN default ELSE ls[Last(ls, starts, key)].value

\* The sections of a kind, those of load n, and the button sections that assign a
\* load to an active button.
OfKind(ls, kinds) == {p \in HeaderAt(ls) : ls[p].kind \in kinds}
OfLoad(ls, n) == {p \in OfKind(ls, {"load"}) : ls[p].n = n}
Active(ls) ==
    {p \in OfKind(ls, {"button"}) :
        /\ Told(ls, {p}, "LOAD/SCENE", "") = "L" /\ Told(ls, {p}, "ACTIVE", "") = "1"
        /\ Told(ls, {p}, "#", "") = "digits"}

\* What is taken from a .elg is what its sections say: a load has the last name
\* and the last DIMMER of its sections and nothing of other sections, it is
\* referenced by a scene, or by a button whose own section, wherever it ends,
\* says all of active, load and number, and by the last number it says; a switch is
\* a button that has a name at the end of a section and a number of 1..24, and each
\* has a place of its own.
ElgIsRead ==
    LET t == Text
        IsNamed(p) == Told(lines, {p}, "NAME", "") # ""
        Buttons == {p \in OfKind(lines, {"button"}) : IsNamed(p)}
        InScenes == Lines(lines, OfKind(lines, {"scene", "bare"}), "LOAD_")
        OnButtons == {Last(lines, {p}, "#") : p \in Active(lines)}
    IN format = "elg" =>
        /\ t.named = {n \in t.loads : Told(lines, OfLoad(lines, n), "NAME", "") # ""}
        /\ t.relays = {n \in t.loads : Told(lines, OfLoad(lines, n), "DIMMER", "Y") # "Y"}
        /\ t.referenced = {lines[i].n : i \in InScenes \cup OnButtons}
        /\ \A i \in t.switches : \E p \in Buttons :
              lines[p].tab = (i - 1) \div 24 /\ lines[p].n = ((i - 1) % 24) + 1
        /\ \A p \in Buttons :
              lines[p].n \in 1..24 => 24 * lines[p].tab + lines[p].n \in t.switches

\* The config flow can work with it: names, relays and buttons are of loads that
\* are listed, buttons are 1..3 (_collect_buttons), and no stray section of a
\* .elg makes a switch the bridge does not have, which would "abort the whole
\* import" (_named_switches).
ImportFitsFlow ==
    /\ IsText(Text)
    /\ Text.switches \subseteq 1..384
    /\ format = "jts" => \A n \in Text.loads \cup Text.scenes : n > 0
=============================================================================
