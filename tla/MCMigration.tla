---------------------------- MODULE MCMigration ----------------------------
(* Instances of Migration for TLC.                                            *)
EXTENDS Migration

CONSTANTS e1, j1, j2, v1entry

Id(system, tag, idx, form) == [system |-> system, tag |-> tag, idx |-> idx, form |-> form]

Row(domain, platform, uid, owner) ==
    [domain |-> domain, platform |-> platform, uid |-> uid, owner |-> owner, from |-> uid]

Elegance(domain, tag, idx, form) ==
    Row(domain, "centralite", Id("elegance", tag, idx, form), Nobody)
JetStream(domain, tag, idx, form) ==
    Row(domain, "centralite-jetstream", Id("jetstream", tag, idx, form), Nobody)

Systems == [e \in Entries |-> IF e = e1 THEN "elegance" ELSE "jetstream"]

\* A household with both systems: ids that differ in case only, scenes, an id
\* that no rule knows, a row of v1's config entry, a row of another integration.
MixedRows ==
    {Elegance("light", "L", 1, "upper"), Elegance("light", "L", 1, "lower"),
     Elegance("switch", "SW", 44, "upper"), Elegance("scene", "sceneON", 4, "upper"),
     Elegance("sensor", "other", 1, "upper"),
     JetStream("light", "JSL", 1, "upper"), JetStream("light", "JSL", 1, "lower"),
     JetStream("switch", "JSSW", 1401, "upper"), JetStream("scene", "sceneOFF", 4, "upper"),
     Row("light", "centralite-jetstream", Id("jetstream", "JSL", 2, "upper"), v1entry),
     Row("light", "hue", Id("hue", "other", 1, "upper"), Nobody)}

Load(i) == [domain |-> "light", suffix |-> <<"load", i>>]
Switch(kind, i) == [domain |-> "switch", suffix |-> <<kind, i>>]

MixedWanted ==
    [e \in Entries |-> IF e = e1 THEN {Load(1), Load(2), Switch("switch", 44), Switch("scene", 4)}
                       ELSE {Load(1), Load(2), Switch("button", 1401), Switch("scene", 4)}]
=============================================================================
