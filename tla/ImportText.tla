----------------------------- MODULE ImportText -----------------------------
(* What a pasted export amounts to: the parsers (Imports) make it, the import *)
(* step of the config flow (ConfigFlow) takes it.                             *)
EXTENDS Integers

\* What parse_elg or parse_jts makes of a pasted text. A load is listed, and
\* may be named, referenced by a scene or a button, or a relay (DIMMER=N).
IsText(t) ==
    /\ t.format \in {"none", "elg", "jts"}
    /\ t.loads \subseteq Int /\ t.referenced \subseteq Int
    /\ t.named \subseteq t.loads /\ t.relays \subseteq t.loads
    /\ t.scenes \subseteq Int /\ t.namedScenes \subseteq t.scenes
    /\ t.switches \subseteq Int
    /\ t.buttons \subseteq t.loads \X (1..3)

NoText ==
    [format |-> "none", loads |-> {}, named |-> {}, referenced |-> {}, relays |-> {},
     scenes |-> {}, namedScenes |-> {}, switches |-> {}, buttons |-> {}]
=============================================================================
