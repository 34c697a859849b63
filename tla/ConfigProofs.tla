---------------------------- MODULE ConfigProofs ----------------------------
(* The invariants of ConfigFlow hold for every set of dialogs, ports, forms,  *)
(* finds and limits, and those of the parsers that make the texts of its      *)
(* forms (Imports) for every set of lines, devices and scenes.                *)
EXTENDS ConfigFlow, Imports, WellFoundedInduction, TLAPS

-----------------------------------------------------------------------------
\* What the invariants rest on, for the state of one flow. A flow that has not
\* created its entry holds nothing that a later form would not replace, its port
\* is not padded, and only JetStream flows scan.
Fields == DOMAIN Nothing
IsData(d) == d = [x \in Fields |-> d[x]]

Blank(d) ==
    /\ d.disabled = {} /\ d.switches = {} /\ d.buttons = {} /\ d.loadNames = {}
    /\ d.sceneNames = {} /\ d.switchNames = {} /\ d.relays = {}
    /\ d.poll = 300 /\ d.clock = FALSE

PlainUids == [system : Systems, port : Ports \X {"plain"}]

EntryOK(s, fm, scanned, e) ==
    /\ IsData(e)
    /\ Says(s, fm, scanned, e)
    /\ WithinLimits(s, e)
    /\ e.poll \in PollIntervals \cup {300} /\ e.clock \in BOOLEAN

FlowOK(st, id, fm, scanned, d, err) ==
    /\ st \in Steps /\ err \in Errors
    /\ IF st = "user" THEN id = NoUid ELSE id \in PlainUids
    /\ IF st \in {"scanning", "created"} THEN fm \in Forms ELSE fm = NoForm
    /\ scanned \in Finds \cup {{}}
    /\ IsData(d)
    /\ st = "scanning" => id.system = "jetstream"
    /\ st # "created" => Blank(d) /\ d.loads \subseteq Int
    /\ st = "created" => EntryOK(id.system, fm, scanned, d)

FlowsOK ==
    \A f \in Flows : FlowOK(step[f], uid[f], form[f], found[f], stored[f], error[f])

Arrays ==
    /\ step = [f \in Flows |-> step[f]] /\ uid = [f \in Flows |-> uid[f]]
    /\ form = [f \in Flows |-> form[f]] /\ found = [f \in Flows |-> found[f]]
    /\ stored = [f \in Flows |-> stored[f]] /\ error = [f \in Flows |-> error[f]]

\* No two flows have the same id.
OwnUids == \A f, g \in Flows : uid[f] = uid[g] /\ uid[f] # NoUid => f = g

IInv == Arrays /\ FlowsOK /\ OwnUids

LEMMA FieldNames ==
    Fields = {"loads", "disabled", "scenes", "switches", "buttons", "loadNames",
              "sceneNames", "switchNames", "relays", "poll", "clock"}
  BY DEF Fields, Nothing

\* What a flow that holds nothing stores of the result of a form.
Holds(e, s, r) ==
    /\ IsData(e)
    /\ e.loads = r.loads /\ e.disabled = r.disabled /\ e.scenes = r.scenes
    /\ e.switches = IF s = "elegance" THEN r.switches ELSE {}
    /\ e.buttons = IF s = "elegance" THEN {} ELSE r.buttons
    /\ e.loadNames = r.loadNames /\ e.sceneNames = r.sceneNames
    /\ e.switchNames = r.switchNames /\ e.relays = r.relays
    /\ e.poll = 300 /\ e.clock = FALSE

LEMMA StoredFields ==
    ASSUME NEW d, IsData(d), Blank(d), NEW s, NEW r,
           NEW e, e = StoresAll(d, s, r)
    PROVE  Holds(e, s, r)
<1> DEFINE e1 == StoresIds(d, r)
<1>1. /\ IsData(e1)
      /\ e1.loads = r.loads /\ e1.scenes = r.scenes
      /\ e1.disabled = r.disabled
  BY FieldNames DEF IsData, StoresIds, Kept, Blank
<1>2. \A x \in Fields \ {"loads", "disabled", "scenes"} : e1[x] = d[x]
  BY FieldNames DEF IsData, StoresIds
<1> HIDE DEF e1
<1>3. /\ IsData(e)
      /\ e.switches = IF s = "elegance" THEN r.switches ELSE e1.switches
      /\ e.buttons = IF s = "elegance" THEN e1.buttons ELSE r.buttons
      /\ e.loadNames = Kept(r.loadNames, e1.loadNames)
      /\ e.sceneNames = Kept(r.sceneNames, e1.sceneNames)
      /\ e.switchNames = Kept(r.switchNames, e1.switchNames)
      /\ e.relays = Kept(r.relays, e1.relays)
  BY <1>1, FieldNames DEF IsData, StoresAll, e1
<1>4. \A x \in {"loads", "disabled", "scenes", "poll", "clock"} : e[x] = e1[x]
  BY <1>1, FieldNames DEF IsData, StoresAll, e1
<1>5. /\ e.loads = r.loads /\ e.disabled = r.disabled /\ e.scenes = r.scenes
      /\ e.poll = d.poll /\ e.clock = d.clock
  BY <1>1, <1>2, <1>4, FieldNames
<1>6. /\ e1.switches = {} /\ e1.buttons = {} /\ e1.loadNames = {}
      /\ e1.sceneNames = {} /\ e1.switchNames = {} /\ e1.relays = {}
  BY <1>2, FieldNames DEF IsData, Blank
<1>7. /\ e.switches = IF s = "elegance" THEN r.switches ELSE {}
      /\ e.buttons = IF s = "elegance" THEN {} ELSE r.buttons
      /\ e.loadNames = r.loadNames /\ e.sceneNames = r.sceneNames
      /\ e.switchNames = r.switchNames /\ e.relays = r.relays
  BY <1>3, <1>6 DEF Kept
<1> QED  BY <1>3, <1>5, <1>7 DEF Blank, Holds

\* What a flow that holds nothing keeps of a result whose buttons are rejected.
HoldsIds(e, r) == IsData(e) /\ e.loads = r.loads /\ Blank(e)

LEMMA FirstFields ==
    ASSUME NEW d, IsData(d), Blank(d), NEW r, r.disabled = {},
           NEW e, e = StoresIds(d, r)
    PROVE  HoldsIds(e, r)
<1>1. /\ IsData(e)
      /\ e.loads = r.loads /\ e.disabled = {}
  BY FieldNames DEF IsData, StoresIds, Kept, Blank
<1>2. \A x \in Fields \ {"loads", "disabled", "scenes"} : e[x] = d[x]
  BY FieldNames DEF IsData, StoresIds
<1>3. Blank(e)
  BY <1>1, <1>2, FieldNames DEF IsData, Blank
<1> QED  BY <1>1, <1>3 DEF HoldsIds

-----------------------------------------------------------------------------
\* A form within the limits makes an entry that says what it says.
LEMMA EntryOfForm ==
    ASSUME NEW s \in Systems, NEW fm \in Forms, NEW scanned \in Finds \cup {{}},
           s = "elegance" => scanned = {},
           NEW d, IsData(d), Blank(d),
           NEW r, r = Result(s, fm, scanned),
           IdsInRange(s, r), ButtonsInRange(s, r),
           NEW e, e = StoresAll(d, s, r)
    PROVE  EntryOK(s, fm, scanned, e)
<1> DEFINE t == fm.text
<1>1. /\ r.loads = TextLoads(s, t) \cup fm.loads \cup scanned
      /\ r.disabled = IF s = "elegance" THEN (TextLoads(s, t) \ t.named) \ fm.loads ELSE {}
      /\ r.scenes = t.scenes \cup fm.scenes
      /\ r.switches = IF s = "elegance" THEN t.switches \cup fm.switches ELSE fm.switches
      /\ r.buttons = IF s = "elegance" THEN {} ELSE t.buttons \cup (fm.switches \X {1})
      /\ r.loadNames = LoadNames(s, t, scanned) /\ r.sceneNames = t.namedScenes
      /\ r.switchNames = SwitchNames(s, t) /\ r.relays = t.relays \cap TextLoads(s, t)
  BY DEF Result
<1>2. /\ t.named \subseteq t.loads /\ t.relays \subseteq t.loads /\ t.loads \subseteq Int
      /\ t.scenes \subseteq Int /\ t.switches \subseteq Int
      /\ t.buttons \subseteq t.loads \X (1..3)
      /\ fm.loads \subseteq Int /\ fm.scenes \subseteq Int /\ fm.switches \subseteq Int
      /\ scanned \subseteq Int
  BY FormsAssumption, FindsAssumption DEF IsText
<1>3. /\ Limits[s].load \in Nat /\ Limits[s].scene \in Nat /\ Limits[s].switch \in Nat
  BY LimitsAssumption
<1>4. Holds(e, s, r)
  BY StoredFields
<1> HIDE DEF t
<1>5. TextLoads(s, t) = {i \in t.loads : Uses(s, t, i)}
  BY <1>2 DEF TextLoads, Uses, Systems
<1>6. Says(s, fm, scanned, e)
  <2>1. e.loads = {i \in t.loads : Uses(s, t, i)} \cup fm.loads \cup scanned
    BY <1>4, <1>1, <1>5 DEF Holds
  <2>2. e.disabled = {i \in e.loads \ (t.named \cup fm.loads) : s = "elegance"}
    BY <1>4, <1>1 DEF Holds
  <2>3. e.loadNames = {n \in e.loads \X {"text", "scan"} :
                        IF n[2] = "scan" THEN n[1] \in scanned
                        ELSE n[1] \in t.named \ scanned}
    <3>1. TextLoads(s, t) \cap t.named = t.named
      BY <1>2, <1>5 DEF Uses, TextLoads
    <3>2. e.loadNames = (t.named \ scanned) \X {"text"} \cup scanned \X {"scan"}
      BY <1>4, <1>1, <3>1 DEF LoadNames, Holds
    <3>3. t.named \subseteq e.loads /\ scanned \subseteq e.loads
      BY <1>4, <1>1, <3>1 DEF Holds
    <3> QED  BY <3>2, <3>3
  <2>4. e.relays = {i \in t.relays : Uses(s, t, i)}
    BY <1>4, <1>1, <1>2, <1>5 DEF Holds
  <2>5. e.scenes = t.scenes \cup fm.scenes /\ e.sceneNames = t.namedScenes
    BY <1>4, <1>1 DEF Holds
  <2>6. ASSUME s = "elegance"
        PROVE  /\ e.switches = t.switches \cup fm.switches
               /\ e.switchNames = t.switches /\ e.buttons = {}
    BY <1>4, <1>1, <2>6 DEF SwitchNames, Holds
  <2>7. ASSUME s = "jetstream"
        PROVE  /\ e.buttons = t.buttons \cup {<<i, 1>> : i \in fm.switches}
               /\ e.switchNames = {b \in t.buttons : b[1] \in t.named}
               /\ e.switches = {}
    <3>1. fm.switches \X {1} = {<<i, 1>> : i \in fm.switches}
      OBVIOUS
    <3> QED  BY <1>4, <1>1, <2>7, <3>1 DEF SwitchNames, Holds
  <2>8. ~e.clock
    BY <1>4 DEF Holds
  <2> QED  BY <2>1, <2>2, <2>3, <2>4, <2>5, <2>6, <2>7, <2>8 DEF Says, t
<1>7. WithinLimits(s, e)
  <2>1. e.loads \subseteq 1..Limits[s].load
    <3>1. r.loads \subseteq Int
      BY <1>1, <1>2, <1>5
    <3> QED  BY <1>3, <1>4, <3>1 DEF IdsInRange, CheckRange, Holds
  <2>2. e.scenes \subseteq 1..Limits[s].scene
    BY <1>4, <1>1, <1>2, <1>3 DEF IdsInRange, CheckRange, Holds
  <2>3. e.switches \subseteq 1..Limits[s].switch
    BY <1>4, <1>1, <1>2, <1>3 DEF IdsInRange, CheckRange, Holds
  <2>4. e.buttons \subseteq (1..Limits[s].switch) \X (1..3)
    <3>1. r.buttons \subseteq Int \X (1..3)
      BY <1>1, <1>2
    <3>2. \A b \in r.buttons : 1 <= b[1] /\ b[1] <= Limits[s].switch
      BY DEF ButtonsInRange, CheckRange
    <3>3. r.buttons \subseteq (1..Limits[s].switch) \X (1..3)
      BY <1>3, <3>1, <3>2
    <3> QED  BY <1>4, <3>3 DEF Holds
  <2> QED  BY <2>1, <2>2, <2>3, <2>4 DEF WithinLimits
<1> QED  BY <1>4, <1>6, <1>7 DEF Holds, EntryOK

-----------------------------------------------------------------------------
\* What a step of one flow makes of its state.

LEMMA CreatedOK ==
    ASSUME NEW id \in PlainUids, NEW fm \in Forms, NEW scanned \in Finds \cup {{}},
           id.system = "elegance" => scanned = {},
           NEW d, IsData(d), Blank(d),
           NEW r, r = Result(id.system, fm, scanned),
           IdsInRange(id.system, r), ButtonsInRange(id.system, r)
    PROVE  FlowOK("created", id, fm, scanned, StoresAll(d, id.system, r), "none")
<1> DEFINE e == StoresAll(d, id.system, r)
<1>1. id.system \in Systems
  BY DEF PlainUids
<1> HIDE DEF e
<1>2. EntryOK(id.system, fm, scanned, e)
  BY <1>1, EntryOfForm DEF e
<1> QED  BY <1>2 DEF e, FlowOK, EntryOK, Steps, Errors

LEMMA RejectedOK ==
    ASSUME NEW id \in PlainUids, NEW fm \in Forms, NEW scanned \in Finds \cup {{}},
           NEW d, IsData(d), Blank(d), d.loads \subseteq Int,
           NEW r, r = Result(id.system, fm, scanned),
           ~(IdsInRange(id.system, r) /\ ButtonsInRange(id.system, r))
    PROVE  FlowOK("import", id, NoForm, {}, Rejected(d, id.system, r), "ids_out_of_range")
<1> DEFINE s == id.system
           e == StoresIds(d, r)
<1>1. s \in Systems
  BY DEF PlainUids
<1>2. CASE ~IdsInRange(s, r)
  BY <1>2 DEF Rejected, FlowOK, Steps, Errors
<1>3. CASE IdsInRange(s, r)
  <2>1. s = "jetstream"
    <3>1. s = "elegance" => r.buttons = {}
      BY DEF Result
    <3> QED  BY <1>1, <1>3, <3>1 DEF Systems, ButtonsInRange, CheckRange
  <2>2. r.disabled = {}
    BY <2>1 DEF Result
  <2>3. r.loads \subseteq Int
    BY <2>1, FormsAssumption, FindsAssumption DEF Result, TextLoads, IsText
  <2> HIDE DEF e
  <2>4. HoldsIds(e, r)
    BY <2>2, FirstFields DEF e
  <2>5. FlowOK("import", id, NoForm, {}, e, "ids_out_of_range")
    BY <2>3, <2>4 DEF HoldsIds, FlowOK, Steps, Errors
  <2> QED  BY <1>3, <2>5 DEF Rejected, e
<1> QED  BY <1>2, <1>3

\* A step changes the state of one flow.
Becomes(f, st, id, fm, scanned, d, err) ==
    /\ step' = [step EXCEPT ![f] = st] /\ uid' = [uid EXCEPT ![f] = id]
    /\ form' = [form EXCEPT ![f] = fm] /\ found' = [found EXCEPT ![f] = scanned]
    /\ stored' = [stored EXCEPT ![f] = d] /\ error' = [error EXCEPT ![f] = err]

LEMMA OneFlowSteps ==
    ASSUME IInv, NEW f \in Flows,
           NEW st, NEW id, NEW fm, NEW scanned, NEW d, NEW err,
           Becomes(f, st, id, fm, scanned, d, err),
           FlowOK(st, id, fm, scanned, d, err),
           id = NoUid \/ id = uid[f] \/ Free(id)
    PROVE  IInv'
<1>1. Arrays'
  BY DEF Becomes, IInv, Arrays
<1>2. /\ step'[f] = st /\ uid'[f] = id /\ form'[f] = fm /\ found'[f] = scanned
      /\ stored'[f] = d /\ error'[f] = err
  BY DEF Becomes, IInv, Arrays
<1>3. \A g \in Flows \ {f} :
          /\ step'[g] = step[g] /\ uid'[g] = uid[g] /\ form'[g] = form[g]
          /\ found'[g] = found[g] /\ stored'[g] = stored[g] /\ error'[g] = error[g]
  BY DEF Becomes, IInv, Arrays
<1>4. FlowsOK'
  <2> SUFFICES ASSUME NEW g \in Flows
               PROVE  FlowOK(step'[g], uid'[g], form'[g], found'[g], stored'[g], error'[g])
    BY DEF FlowsOK, FlowOK, EntryOK, IsData, Blank, Says, Uses, WithinLimits
  <2>1. CASE g = f
    BY <1>2, <2>1
  <2>2. CASE g # f
    BY <1>3, <2>2 DEF IInv, FlowsOK
  <2> QED  BY <2>1, <2>2
<1>5. OwnUids'
  BY <1>2, <1>3 DEF IInv, OwnUids, Free
<1> QED  BY <1>1, <1>4, <1>5 DEF IInv

LEMMA InitOK == Init => IInv
<1> SUFFICES ASSUME Init PROVE IInv
  OBVIOUS
<1>1. Arrays
  BY DEF Init, Arrays
<1>2. OwnUids
  BY DEF Init, OwnUids
<1>3. FlowOK("user", NoUid, NoForm, {}, Nothing, "none")
  BY DEF FlowOK, Steps, Errors, Blank, Nothing, IsData, Fields
<1>4. FlowsOK
  BY <1>3 DEF Init, FlowsOK
<1> QED  BY <1>1, <1>2, <1>4 DEF IInv

-----------------------------------------------------------------------------
\* Every action keeps the inductive invariant.

\* What is known of the flow that steps.
LEMMA Known ==
    ASSUME IInv, NEW f \in Flows
    PROVE  /\ FlowOK(step[f], uid[f], form[f], found[f], stored[f], error[f])
           /\ step = [step EXCEPT ![f] = step[f]] /\ uid = [uid EXCEPT ![f] = uid[f]]
           /\ form = [form EXCEPT ![f] = form[f]] /\ found = [found EXCEPT ![f] = found[f]]
           /\ stored = [stored EXCEPT ![f] = stored[f]]
           /\ error = [error EXCEPT ![f] = error[f]]
  BY DEF IInv, FlowsOK, Arrays

LEMMA IdentifiesOK ==
    ASSUME IInv, NEW f \in Flows, NEW s \in Systems,
           NEW port \in Ports \X {"plain", "padded"}, Identifies(f, s, port)
    PROVE  IInv'
<1> DEFINE id == [system |-> s, port |-> Strip(port)]
<1>1. id \in PlainUids
  BY DEF PlainUids, Strip
<1>2. Free(id)
  BY DEF Identifies
<1>3. FlowOK("import", id, form[f], found[f], stored[f], error[f])
  BY <1>1, Known DEF Identifies, FlowOK, Steps
<1>4. Becomes(f, "import", id, form[f], found[f], stored[f], error[f])
  BY Known DEF Identifies, Becomes
<1> QED  BY <1>2, <1>3, <1>4, OneFlowSteps

LEMMA CompletesOK ==
    ASSUME IInv, NEW f \in Flows, step[f] \in {"import", "scanning"},
           NEW fm \in Forms, NEW scanned \in Finds \cup {{}},
           System(f) = "elegance" => scanned = {},
           Completes(f, fm, scanned)
    PROVE  IInv'
<1> DEFINE r == Result(System(f), fm, scanned)
<1>1. /\ uid[f] \in PlainUids /\ IsData(stored[f]) /\ Blank(stored[f])
      /\ stored[f].loads \subseteq Int
  BY Known DEF FlowOK
<1>2. CASE Creates(f, fm, scanned)
  <2> DEFINE d == StoresAll(stored[f], uid[f].system, r)
  <2>1. FlowOK("created", uid[f], fm, scanned, d, "none")
    BY <1>1, <1>2, CreatedOK DEF Creates, System
  <2>2. Becomes(f, "created", uid[f], fm, scanned, d, "none")
    BY <1>2, Known DEF Creates, Becomes, System
  <2> QED  BY <2>1, <2>2, OneFlowSteps
<1>3. CASE Rejects(f, fm, scanned)
  <2> DEFINE d == Rejected(stored[f], uid[f].system, r)
  <2>1. FlowOK("import", uid[f], NoForm, {}, d, "ids_out_of_range")
    BY <1>1, <1>3, RejectedOK DEF Rejects, System
  <2>2. Becomes(f, "import", uid[f], NoForm, {}, d, "ids_out_of_range")
    BY <1>3, Known DEF Rejects, ShowsError, Becomes, System
  <2> QED  BY <2>1, <2>2, OneFlowSteps
<1> QED  BY <1>2, <1>3 DEF Completes

\* An error shows the form again, and stores nothing.
LEMMA ShowsErrorOK ==
    ASSUME IInv, NEW f \in Flows, step[f] \in {"import", "scanning"},
           NEW e \in Errors, ShowsError(f, e), UNCHANGED stored
    PROVE  IInv'
<1>1. FlowOK("import", uid[f], NoForm, {}, stored[f], e)
  BY Known DEF FlowOK, Steps
<1>2. Becomes(f, "import", uid[f], NoForm, {}, stored[f], e)
  BY Known DEF ShowsError, Becomes
<1> QED  BY <1>1, <1>2, OneFlowSteps

LEMMA SubmitsOK ==
    ASSUME IInv, NEW f \in Flows, NEW fm \in Forms, Submits(f, fm)
    PROVE  IInv'
<1>1. step[f] = "import"
  BY DEF Submits
<1>2. CASE Fails(f, fm)
  BY <1>1, <1>2, ShowsErrorOK DEF Fails, Errors
<1>3. CASE StartsScan(f, fm)
  <2>1. FlowOK("scanning", uid[f], fm, found[f], stored[f], error[f])
    BY <1>1, <1>3, Known DEF StartsScan, Scans, System, FlowOK, Steps
  <2>2. Becomes(f, "scanning", uid[f], fm, found[f], stored[f], error[f])
    BY <1>3, Known DEF StartsScan, Becomes
  <2> QED  BY <2>1, <2>2, OneFlowSteps
<1>4. CASE Completes(f, fm, {})
  BY <1>1, <1>4, CompletesOK
<1> QED  BY <1>2, <1>3, <1>4 DEF Submits

LEMMA ScanEndsOK ==
    ASSUME IInv, NEW f \in Flows, NEW scanned \in Finds, ScanEnds(f, scanned)
    PROVE  IInv'
<1>1. step[f] = "scanning"
  BY DEF ScanEnds
<1>2. form[f] \in Forms /\ uid[f].system = "jetstream"
  BY <1>1, Known DEF FlowOK
<1>3. Completes(f, form[f], scanned)
  BY DEF ScanEnds
<1> QED  BY <1>1, <1>2, <1>3, CompletesOK DEF System

LEMMA EndsOK ==
    ASSUME IInv, NEW f \in Flows, Ends(f)
    PROVE  IInv'
<1>1. FlowOK("user", NoUid, NoForm, {}, Nothing, "none")
  BY DEF FlowOK, Steps, Errors, Blank, Nothing, IsData, Fields
<1>2. Becomes(f, "user", NoUid, NoForm, {}, Nothing, "none")
  BY DEF Ends, Becomes
<1> QED  BY <1>1, <1>2, OneFlowSteps

\* The options flow changes the two options it shows.
LEMMA MergedOK ==
    ASSUME NEW s \in Systems, NEW fm, NEW scanned, NEW d, EntryOK(s, fm, scanned, d),
           NEW poll \in PollIntervals, NEW clock \in BOOLEAN,
           NEW e, e = Merged(d, s, poll, clock)
    PROVE  EntryOK(s, fm, scanned, e)
<1>1. IsData(e) /\ e.poll = poll
  BY FieldNames DEF EntryOK, IsData, Merged
<1>2. \A x \in Fields \ {"poll", "clock"} : e[x] = d[x]
  BY FieldNames DEF EntryOK, IsData, Merged
<1>3. e.clock = IF s = "elegance" THEN clock ELSE d.clock
  BY FieldNames DEF EntryOK, IsData, Merged
<1>4. /\ e.loads = d.loads /\ e.disabled = d.disabled /\ e.scenes = d.scenes
      /\ e.switches = d.switches /\ e.buttons = d.buttons /\ e.loadNames = d.loadNames
      /\ e.sceneNames = d.sceneNames /\ e.switchNames = d.switchNames
      /\ e.relays = d.relays
  BY <1>2, FieldNames
<1>5. s = "jetstream" => ~e.clock
  BY <1>3 DEF EntryOK, Says
<1>6. Says(s, fm, scanned, e)
  BY <1>4, <1>5 DEF EntryOK, Says
<1>7. WithinLimits(s, e)
  BY <1>4 DEF EntryOK, WithinLimits
<1> QED  BY <1>1, <1>3, <1>6, <1>7 DEF EntryOK

LEMMA EditsOptionsOK ==
    ASSUME IInv, NEW f \in Flows, NEW poll \in PollIntervals, NEW clock \in BOOLEAN,
           EditsOptions(f, poll, clock)
    PROVE  IInv'
<1> DEFINE d == Merged(stored[f], System(f), poll, clock)
<1>1. /\ step[f] = "created" /\ System(f) \in Systems
      /\ EntryOK(System(f), form[f], found[f], stored[f])
  BY Known DEF EditsOptions, FlowOK, PlainUids, System
<1>2. EntryOK(System(f), form[f], found[f], d)
  BY <1>1, MergedOK
<1>3. FlowOK(step[f], uid[f], form[f], found[f], d, error[f])
  BY <1>1, <1>2, Known DEF FlowOK, EntryOK, System
<1>4. Becomes(f, step[f], uid[f], form[f], found[f], d, error[f])
  BY Known DEF EditsOptions, Becomes
<1> QED  BY <1>3, <1>4, OneFlowSteps

LEMMA StepOK == IInv /\ [Next]_vars => IInv'
<1> SUFFICES ASSUME IInv, [Next]_vars PROVE IInv'
  OBVIOUS
<1>1. ASSUME NEW f \in Flows, NEW s \in Systems,
             NEW port \in Ports \X {"plain", "padded"}, Identifies(f, s, port)
      PROVE  IInv'
  BY <1>1, IdentifiesOK
<1>2. ASSUME NEW f \in Flows, NEW fm \in Forms, Submits(f, fm) PROVE IInv'
  BY <1>2, SubmitsOK
<1>3. ASSUME NEW f \in Flows, NEW scanned \in Finds, ScanEnds(f, scanned) PROVE IInv'
  BY <1>3, ScanEndsOK
<1>4. ASSUME NEW f \in Flows, ScanFails(f) PROVE IInv'
  BY <1>4, ShowsErrorOK DEF ScanFails, Errors
<1>5. ASSUME NEW f \in Flows, Ends(f) PROVE IInv'
  BY <1>5, EndsOK
<1>6. ASSUME NEW f \in Flows, NEW poll \in PollIntervals, NEW clock \in BOOLEAN,
             EditsOptions(f, poll, clock)
      PROVE  IInv'
  BY <1>6, EditsOptionsOK
<1>7. CASE UNCHANGED vars
  BY <1>7 DEF vars, IInv, Arrays, FlowsOK, OwnUids, FlowOK, EntryOK, IsData, Blank,
              Says, Uses, WithinLimits
<1> QED  BY <1>1, <1>2, <1>3, <1>4, <1>5, <1>6, <1>7 DEF Next

LEMMA Inductive == Spec => []IInv
  BY InitOK, StepOK, PTL DEF Spec

-----------------------------------------------------------------------------
\* Every variable keeps to its type: what an entry says of its loads it says of
\* loads it has.
THEOREM TypeCorrect == Spec => []TypeOK
<1>1. IInv => TypeOK
  <2> SUFFICES ASSUME IInv PROVE TypeOK
    OBVIOUS
  <2>1. step \in [Flows -> Steps]
    BY DEF IInv, Arrays, FlowsOK, FlowOK
  <2> SUFFICES ASSUME NEW f \in Flows
               PROVE  /\ uid[f] \in IF step[f] = "user" THEN {NoUid} ELSE Uids
                      /\ form[f] \in IF step[f] \in {"scanning", "created"} THEN Forms
                                     ELSE {NoForm}
                      /\ found[f] \in Finds \cup {{}} /\ error[f] \in Errors
                      /\ DataOK(stored[f])
    BY <2>1 DEF TypeOK
  <2>2. /\ uid[f] \in IF step[f] = "user" THEN {NoUid} ELSE Uids
        /\ form[f] \in IF step[f] \in {"scanning", "created"} THEN Forms ELSE {NoForm}
        /\ found[f] \in Finds \cup {{}} /\ error[f] \in Errors
    BY Known DEF FlowOK, PlainUids, Uids
  <2>3. stored[f] = [x \in DOMAIN Nothing |-> stored[f][x]]
    BY Known DEF FlowOK, IsData, Fields
  <2>4. CASE ~Created(f)
    BY <2>2, <2>3, <2>4, Known, ZenonT(40) DEF FlowOK, Blank, Created, DataOK
  <2>5. CASE Created(f)
    <3>1. /\ EntryOK(System(f), form[f], found[f], stored[f]) /\ form[f] \in Forms
          /\ System(f) \in Systems
      BY <2>5, Known DEF FlowOK, Created, System, PlainUids
    <3>2. /\ form[f].text.relays \subseteq form[f].text.loads
          /\ form[f].text.loads \subseteq Int /\ form[f].loads \subseteq Int
          /\ found[f] \subseteq Int
      BY <2>2, <3>1, FormsAssumption, FindsAssumption DEF IsText
    <3>3. stored[f].loads \subseteq Int /\ stored[f].disabled \subseteq stored[f].loads
      BY <3>1, <3>2 DEF EntryOK, Says
    <3>4. stored[f].loadNames \subseteq stored[f].loads \X {"text", "scan"}
      BY <3>1 DEF EntryOK, Says
    <3>5. stored[f].relays \subseteq stored[f].loads
      BY <3>1, <3>2 DEF EntryOK, Says
    <3>6. stored[f].poll \in PollIntervals \cup {300} /\ stored[f].clock \in BOOLEAN
      BY <3>1 DEF EntryOK
    <3> QED  BY <2>2, <2>3, <3>3, <3>4, <3>5, <3>6 DEF DataOK
  <2> QED  BY <2>4, <2>5
<1> QED  BY <1>1, Inductive, PTL

\* The ids of every entry are ids its bridge has, whatever users type and paste
\* and scans find (the checks at the end of async_step_import).
THEOREM IdsAreInRange == Spec => []InRange
<1>1. IInv => InRange
  BY DEF IInv, FlowsOK, FlowOK, EntryOK, InRange, Created, System
<1> QED  BY <1>1, Inductive, PTL

\* An entry says what the last form of its flow and the scan for it say
\* (async_step_import, async_step_init of the options flow).
THEOREM EntriesAreAsSubmitted == Spec => []EntryIsLastForm
<1>1. IInv => EntryIsLastForm
  BY DEF IInv, FlowsOK, FlowOK, EntryOK, EntryIsLastForm, Created, System
<1> QED  BY <1>1, Inductive, PTL

\* There is one entry for a system on a port (async_step_user).
THEOREM OneEntryEach == Spec => []OneEntryPerBridge
<1>1. IInv => OneEntryPerBridge
  <2> SUFFICES ASSUME IInv, NEW f \in Flows, NEW g \in Flows, Created(f), Created(g),
                      System(f) = System(g), uid[f].port[1] = uid[g].port[1]
               PROVE  f = g
    BY DEF OneEntryPerBridge
  <2>1. uid[f] \in PlainUids /\ uid[g] \in PlainUids
    BY DEF IInv, FlowsOK, FlowOK, Created
  <2>2. uid[f] = uid[g]
    BY <2>1 DEF PlainUids, System
  <2>3. uid[f] # NoUid
    BY <2>1 DEF PlainUids, NoUid, Systems
  <2> QED  BY <2>2, <2>3 DEF IInv, OwnUids
<1> QED  BY <1>1, Inductive, PTL

-----------------------------------------------------------------------------
(* The parsers. A lemma has one conclusion where it can, the provers find     *)
(* such lemmas best.                                                          *)

\* A set of line numbers has a last one.
LEMMA HasLast ==
    ASSUME NEW n \in Nat, NEW T \in SUBSET (1..n), T # {}
    PROVE  \E i \in T : \A j \in T : j <= i
<1> DEFINE U == {n - i : i \in T}
<1>1. U \in SUBSET Nat /\ U # {}
  <2>1. \A i \in T : i \in 1..n /\ n - i \in Nat
    OBVIOUS
  <2> QED
    BY <2>1
<1>2. PICK u \in U : \A v \in U : ~(<<v, u>> \in OpToRel(<, Nat))
  BY <1>1, NatLessThanWellFounded, WFMin
<1>3. \A v \in U : ~(v < u)
  BY <1>1, <1>2 DEF OpToRel
<1>4. PICK i \in T : u = n - i
  OBVIOUS
<1>5. ASSUME NEW j \in T PROVE j <= i
  <2>1. i \in 1..n /\ j \in 1..n
    OBVIOUS
  <2>2. n - j \in U
    OBVIOUS
  <2>3. ~(n - j < n - i)
    BY <1>3, <1>4, <2>2
  <2> QED
    BY <2>1, <2>3
<1> QED
  BY <1>5

Files == Seq(Headers \cup Bodies)
\* The section that is last, and those before it.
OpenIn(ls) == {p \in HeaderAt(ls) : \A q \in HeaderAt(ls) : q <= p}
Closed(ls) == HeaderAt(ls) \ OpenIn(ls)

LEMMA LinesAreLines ==
    ASSUME NEW ls \in Files, NEW S, NEW key
    PROVE  /\ Len(ls) \in Nat /\ DOMAIN ls = 1..Len(ls)
           /\ HeaderAt(ls) \subseteq 1..Len(ls)
           /\ Lines(ls, S, key) \subseteq 1..Len(ls)
           /\ \A i \in 1..Len(ls) : ls[i] \in Headers \cup Bodies
           /\ Lines(ls, S, key) # {} =>
                /\ Last(ls, S, key) \in Lines(ls, S, key)
                /\ \A j \in Lines(ls, S, key) : j <= Last(ls, S, key)
<1>1. Len(ls) \in Nat /\ DOMAIN ls = 1..Len(ls) /\ \A i \in 1..Len(ls) : ls[i] \in Headers \cup Bodies
  BY DEF Files
<1>2. HeaderAt(ls) \subseteq 1..Len(ls) /\ Lines(ls, S, key) \subseteq 1..Len(ls)
  BY <1>1 DEF HeaderAt, Lines
<1>3. ASSUME Lines(ls, S, key) # {}
      PROVE  \E i \in Lines(ls, S, key) : \A j \in Lines(ls, S, key) : j <= i
  BY <1>1, <1>2, <1>3, HasLast
<1> QED
  BY <1>1, <1>2, <1>3 DEF Last

\* One line more: `new` is ls with the line l.
Longer(new, ls, l) == ls \in Files /\ l \in Headers \cup Bodies /\ new = Append(ls, l)

LEMMA OneMore ==
    ASSUME NEW ls, NEW l, NEW new, Longer(new, ls, l)
    PROVE  /\ new \in Files /\ new[Len(ls) + 1] = l
           /\ \A i \in 1..Len(ls) : new[i] = ls[i]
           /\ Len(ls) \in Nat /\ DOMAIN ls = 1..Len(ls) /\ DOMAIN new = 1..Len(ls) + 1
           /\ HeaderAt(ls) \subseteq 1..Len(ls)
  BY DEF Files, Longer, HeaderAt

\* A header more begins a section without lines, and changes no other.
LEMMA HeadersAfterHeader ==
    ASSUME NEW ls, NEW h \in Headers, NEW new, Longer(new, ls, h)
    PROVE  /\ HeaderAt(new) = HeaderAt(ls) \cup {Len(ls) + 1}
           /\ Len(ls) + 1 \notin HeaderAt(ls)
  BY OneMore DEF HeaderAt

LEMMA NewSection ==
    ASSUME NEW ls, NEW h \in Headers, NEW new, Longer(new, ls, h),
           NEW S \in SUBSET HeaderAt(ls),
           NEW T, S \subseteq T, \A p \in T : p \in S \/ p = Len(ls) + 1,
           NEW key
    PROVE  Lines(new, T, key) = Lines(ls, S, key)
<1> DEFINE n == Len(ls) + 1
<1>1. /\ Len(ls) \in Nat /\ DOMAIN ls = 1..Len(ls) /\ DOMAIN new = 1..n
      /\ HeaderAt(ls) \subseteq 1..Len(ls)
      /\ new[n] = h /\ \A i \in 1..Len(ls) : new[i] = ls[i]
  BY OneMore
<1>2. HeaderAt(new) = HeaderAt(ls) \cup {n} /\ n \notin HeaderAt(ls)
  BY HeadersAfterHeader
<1>3. ASSUME NEW i \in 1..Len(ls), NEW p \in 1..Len(ls)
      PROVE  InSection(new, p, i) <=> InSection(ls, p, i)
  <2>1. n \notin p + 1..i
    BY <1>1
  <2> QED
    BY <1>2, <2>1 DEF InSection
<1>4. ASSUME NEW i \in 1..Len(ls)
      PROVE  ~InSection(new, n, i)
  BY <1>1 DEF InSection
<1>5. DOMAIN new \ HeaderAt(new) = DOMAIN ls \ HeaderAt(ls)
  BY <1>1, <1>2
<1>6. ASSUME NEW i \in DOMAIN ls \ HeaderAt(ls)
      PROVE  (\E p \in T : InSection(new, p, i)) <=> \E p \in S : InSection(ls, p, i)
  BY <1>1, <1>3, <1>4
<1> QED
  BY <1>1, <1>5, <1>6 DEF Lines

\* A body line more belongs to the open section.
LEMMA HeadersAfterBody ==
    ASSUME NEW ls, NEW b \in Bodies, NEW new, Longer(new, ls, b)
    PROVE  HeaderAt(new) = HeaderAt(ls)
  BY OneMore, LinesAssumption DEF HeaderAt, LinesAssumption

LEMMA BodyOfOpen ==
    ASSUME NEW ls, NEW b \in Bodies, NEW new, Longer(new, ls, b),
           NEW p \in HeaderAt(ls)
    PROVE  InSection(new, p, Len(ls) + 1) <=> p \in OpenIn(ls)
<1> DEFINE n == Len(ls) + 1
<1>1. Len(ls) \in Nat /\ HeaderAt(ls) \subseteq 1..Len(ls)
  BY OneMore
<1>2. HeaderAt(new) = HeaderAt(ls)
  BY HeadersAfterBody
<1>3. p \in 1..Len(ls)
  BY <1>1
<1>4. ASSUME p \in OpenIn(ls) PROVE InSection(new, p, n)
  BY <1>1, <1>2, <1>3, <1>4 DEF OpenIn, InSection
<1>5. ASSUME InSection(new, p, n) PROVE p \in OpenIn(ls)
  <2>1. HeaderAt(ls) \cap p + 1..n = {}
    BY <1>2, <1>5 DEF InSection
  <2>2. ASSUME NEW q \in HeaderAt(ls) PROVE q <= p
    <3>1. q \in 1..Len(ls) /\ q \notin p + 1..n
      BY <1>1, <2>1
    <3> QED
      BY <1>1, <1>3, <3>1
  <2> QED
    BY <2>2 DEF OpenIn
<1> QED
  BY <1>4, <1>5

LEMMA BodyIn ==
    ASSUME NEW ls, NEW b \in Bodies, NEW new, Longer(new, ls, b),
           NEW S \in SUBSET HeaderAt(ls), NEW key
    PROVE  Lines(new, S, key) =
               Lines(ls, S, key) \cup {i \in {Len(ls) + 1} : b.key = key /\ S \cap OpenIn(ls) # {}}
<1> DEFINE n == Len(ls) + 1
           more == {i \in {n} : b.key = key /\ S \cap OpenIn(ls) # {}}
<1>1. /\ Len(ls) \in Nat /\ DOMAIN ls = 1..Len(ls) /\ DOMAIN new = 1..n
      /\ HeaderAt(ls) \subseteq 1..Len(ls)
      /\ new[n] = b /\ \A i \in 1..Len(ls) : new[i] = ls[i]
  BY OneMore
<1>2. HeaderAt(new) = HeaderAt(ls)
  BY HeadersAfterBody
<1>3. ASSUME NEW i \in 1..Len(ls), NEW p \in 1..Len(ls)
      PROVE  InSection(new, p, i) <=> InSection(ls, p, i)
  BY <1>2 DEF InSection
<1>4. ASSUME NEW p \in HeaderAt(ls)
      PROVE  InSection(new, p, n) <=> p \in OpenIn(ls)
  BY <1>4, BodyOfOpen
<1>5. DOMAIN new \ HeaderAt(new) = (DOMAIN ls \ HeaderAt(ls)) \cup {n} /\ n \notin DOMAIN ls
  BY <1>1, <1>2
<1>6. ASSUME NEW i \in DOMAIN ls \ HeaderAt(ls)
      PROVE  i \in Lines(new, S, key) <=> i \in Lines(ls, S, key)
  BY <1>1, <1>3, <1>5 DEF Lines
<1>7. n \in Lines(new, S, key) <=> n \in more
  BY <1>1, <1>4, <1>5 DEF Lines
<1>8. /\ Lines(new, S, key) \subseteq (DOMAIN ls \ HeaderAt(ls)) \cup {n}
      /\ Lines(ls, S, key) \subseteq DOMAIN ls \ HeaderAt(ls)
  BY <1>5 DEF Lines
<1>9. more \subseteq {n}
  OBVIOUS
<1>10. n \notin Lines(ls, S, key)
  BY <1>5, <1>8
<1> HIDE DEF more, n
<1>11. Lines(new, S, key) = Lines(ls, S, key) \cup more
  BY <1>6, <1>7, <1>8, <1>9, <1>10
<1> QED
  BY <1>11 DEF more, n

LEMMA BodyElsewhere ==
    ASSUME NEW ls, NEW b \in Bodies, NEW new, Longer(new, ls, b),
           NEW S \in SUBSET HeaderAt(ls), NEW key, b.key # key \/ S \cap OpenIn(ls) = {}
    PROVE  Lines(new, S, key) = Lines(ls, S, key)
<1>1. Lines(new, S, key) =
         Lines(ls, S, key) \cup {i \in {Len(ls) + 1} : b.key = key /\ S \cap OpenIn(ls) # {}}
  BY BodyIn
<1> QED
  BY <1>1

\* Where no line is added, what is said last stays.
LEMMA LastStays ==
    ASSUME NEW ls, NEW l, NEW new, Longer(new, ls, l), NEW S, NEW T, NEW key, NEW default,
           Lines(new, T, key) = Lines(ls, S, key)
    PROVE  /\ Told(new, T, key, default) = Told(ls, S, key, default)
           /\ Lines(ls, S, key) # {} => new[Last(new, T, key)] = ls[Last(ls, S, key)]
<1>1. /\ Lines(ls, S, key) \subseteq 1..Len(ls)
      /\ Lines(ls, S, key) # {} => Last(ls, S, key) \in Lines(ls, S, key)
  BY LinesAreLines DEF Longer
<1>2. \A i \in 1..Len(ls) : new[i] = ls[i]
  BY OneMore
<1>3. Last(new, T, key) = Last(ls, S, key)
  BY DEF Last
<1>4. Lines(ls, S, key) # {} => new[Last(ls, S, key)] = ls[Last(ls, S, key)]
  BY <1>1, <1>2
<1> QED
  BY <1>3, <1>4 DEF Told

\* A line that is added has the last word.
LEMMA LastIsNew ==
    ASSUME NEW ls, NEW l, NEW new, Longer(new, ls, l), NEW S, NEW key, NEW default,
           Lines(new, S, key) = Lines(ls, S, key) \cup {Len(ls) + 1}
    PROVE  /\ Told(new, S, key, default) = l.value
           /\ new[Last(new, S, key)] = l
<1> DEFINE n == Len(ls) + 1
<1>1. Len(ls) \in Nat /\ Lines(ls, S, key) \subseteq 1..Len(ls)
  BY LinesAreLines DEF Longer
<1>2. new \in Files /\ new[n] = l
  BY OneMore
<1>3. Lines(new, S, key) # {} =>
         /\ Last(new, S, key) \in Lines(new, S, key)
         /\ \A j \in Lines(new, S, key) : j <= Last(new, S, key)
  BY <1>2, LinesAreLines
<1>4. Last(new, S, key) \in Lines(ls, S, key) \cup {n} /\ n <= Last(new, S, key)
  BY <1>3
<1>5. Last(new, S, key) = n
  BY <1>1, <1>4
<1>6. Lines(new, S, key) # {}
  OBVIOUS
<1> QED
  BY <1>2, <1>5, <1>6 DEF Told

-----------------------------------------------------------------------------
(* What was read so far is what the lines so far say; of the section that is *)
(* open, `name` and `fields` keep what is judged when it ends.               *)

LoadsOf(ls) == {ls[p].n : p \in OfKind(ls, {"load"})}
SceneLines(ls) == Lines(ls, OfKind(ls, {"scene", "bare"}), "LOAD_")
Assigns(ls, P) == {ls[Last(ls, {p}, "#")].n : p \in Active(ls) \cap P}
Switches(ls, P) ==
    {24 * ls[p].tab + ls[p].n :
        p \in {q \in OfKind(ls, {"button"}) \cap P :
                  ls[q].n \in 1..24 /\ Told(ls, {q}, "NAME", "") # ""}}

SectionRight ==
    /\ lines \in Files
    /\ \A p \in HeaderAt(lines) : OpenIn(lines) # {}
    /\ HeaderAt(lines) = {} => section = NoSection
    /\ \A p \in OpenIn(lines) : section = lines[p]

LoadsRight ==
    /\ current = IF section.kind = "load" THEN section.n ELSE -1
    /\ DOMAIN loads = LoadsOf(lines) /\ DOMAIN dimmable = LoadsOf(lines)
    /\ \A n \in LoadsOf(lines) :
          /\ loads[n] = Told(lines, OfLoad(lines, n), "NAME", "")
          /\ dimmable[n] = (Told(lines, OfLoad(lines, n), "DIMMER", "Y") = "Y")

Judged == {"LOAD/SCENE", "ACTIVE", "#"}
FieldsRight ==
    /\ section.kind # "button" => name = ""
    /\ \A p \in OpenIn(lines) : section.kind = "button" =>
          /\ name = Told(lines, {p}, "NAME", "")
          /\ \A key \in Judged :
                /\ key \in DOMAIN fields <=> Lines(lines, {p}, key) # {}
                /\ key \in DOMAIN fields => fields[key] = lines[Last(lines, {p}, key)]

EndedRight ==
    /\ referenced = {lines[i].n : i \in SceneLines(lines)} \cup Assigns(lines, Closed(lines))
    /\ DOMAIN switches = Switches(lines, Closed(lines))

ElgInv ==
    /\ SectionRight /\ LoadsRight /\ FieldsRight /\ EndedRight
    /\ DOMAIN scenes \subseteq Int /\ buttons = {}

JtsInv ==
    /\ section = NoSection /\ name = "" /\ DOMAIN switches = {} /\ referenced = {}
    /\ DOMAIN dimmable = DOMAIN loads
    /\ \A n \in DOMAIN loads \cup DOMAIN scenes : n \in Int /\ n > 0
    /\ buttons \subseteq (DOMAIN loads) \X (1..3)

FileInv ==
    /\ format \in {"elg", "jts"}
    /\ format = "elg" => ElgInv
    /\ format = "jts" => JtsInv

-----------------------------------------------------------------------------
\* At most one section is open; a header opens one and ends that before.
LEMMA OneOpen ==
    ASSUME NEW ls \in Files
    PROVE  /\ OpenIn(ls) \subseteq HeaderAt(ls) /\ Closed(ls) = HeaderAt(ls) \ OpenIn(ls)
           /\ \A p, q \in OpenIn(ls) : p = q
<1>1. HeaderAt(ls) \subseteq 1..Len(ls)
  BY DEF Files, HeaderAt
<1> QED
  BY <1>1 DEF OpenIn, Closed

LEMMA OpensNew ==
    ASSUME NEW ls, NEW h \in Headers, NEW new, Longer(new, ls, h)
    PROVE  OpenIn(new) = {Len(ls) + 1} /\ Closed(new) = HeaderAt(ls)
<1>1. Len(ls) \in Nat /\ HeaderAt(ls) \subseteq 1..Len(ls)
  BY OneMore
<1>2. HeaderAt(new) = HeaderAt(ls) \cup {Len(ls) + 1} /\ Len(ls) + 1 \notin HeaderAt(ls)
  BY HeadersAfterHeader
<1>3. OpenIn(new) = {Len(ls) + 1}
  BY <1>1, <1>2 DEF OpenIn
<1> QED
  BY <1>2, <1>3 DEF Closed

LEMMA OpenStays ==
    ASSUME NEW ls, NEW b \in Bodies, NEW new, Longer(new, ls, b)
    PROVE  OpenIn(new) = OpenIn(ls) /\ Closed(new) = Closed(ls)
  BY HeadersAfterBody DEF OpenIn, Closed

\* A section that is not open keeps what it says.
LEMMA ClosedLines ==
    ASSUME NEW ls, NEW l, NEW new, Longer(new, ls, l),
           NEW S \in SUBSET HeaderAt(ls), l \in Headers \/ S \cap OpenIn(ls) = {}, NEW key
    PROVE  Lines(new, S, key) = Lines(ls, S, key)
<1>1. CASE l \in Headers
  <2>1. S \subseteq S /\ \A p \in S : p \in S \/ p = Len(ls) + 1
    OBVIOUS
  <2> QED
    BY <1>1, <2>1, NewSection
<1>2. CASE l \in Bodies /\ S \cap OpenIn(ls) = {}
  BY <1>2, BodyElsewhere
<1> QED
  BY <1>1, <1>2 DEF Longer

LEMMA ClosedSays ==
    ASSUME NEW ls, NEW l, NEW new, Longer(new, ls, l),
           NEW p \in HeaderAt(ls), l \in Headers \/ p \in Closed(ls), NEW key, NEW default
    PROVE  /\ Lines(new, {p}, key) = Lines(ls, {p}, key)
           /\ Told(new, {p}, key, default) = Told(ls, {p}, key, default)
           /\ Lines(ls, {p}, key) # {} => new[Last(new, {p}, key)] = ls[Last(ls, {p}, key)]
<1> DEFINE S == {p}
<1>1. S \in SUBSET HeaderAt(ls) /\ (l \in Headers \/ S \cap OpenIn(ls) = {})
  BY DEF Closed
<1> HIDE DEF S
<1>2. Lines(new, S, key) = Lines(ls, S, key)
  BY <1>1, ClosedLines
<1>3. /\ Told(new, S, key, default) = Told(ls, S, key, default)
      /\ Lines(ls, S, key) # {} => new[Last(new, S, key)] = ls[Last(ls, S, key)]
  BY <1>2, LastStays
<1> QED
  BY <1>2, <1>3 DEF S

\* What sections that are not open assign and name stays.
LEMMA ClosedKept ==
    ASSUME NEW ls, NEW l, NEW new, Longer(new, ls, l),
           NEW P \in SUBSET HeaderAt(ls), l \in Headers \/ P \subseteq Closed(ls)
    PROVE  /\ Assigns(new, P) = Assigns(ls, P)
           /\ Switches(new, P) = Switches(ls, P)
<1>1. ASSUME NEW p \in P
      PROVE  /\ p \in HeaderAt(ls) /\ new[p] = ls[p]
             /\ p \in OfKind(new, {"button"}) <=> p \in OfKind(ls, {"button"})
             /\ Told(new, {p}, "NAME", "") = Told(ls, {p}, "NAME", "")
             /\ p \in Active(new) <=> p \in Active(ls)
             /\ p \in Active(ls) => new[Last(new, {p}, "#")] = ls[Last(ls, {p}, "#")]
  <2>1. p \in HeaderAt(ls) /\ (l \in Headers \/ p \in Closed(ls))
    OBVIOUS
  <2>2. new[p] = ls[p]
    BY <2>1, OneMore
  <2>3. \A key, default : Told(new, {p}, key, default) = Told(ls, {p}, key, default)
    BY <2>1, ClosedSays
  <2>4. p \in HeaderAt(new)
    BY <2>1, HeadersAfterHeader, HeadersAfterBody, ZenonT(40) DEF Longer
  <2>5. p \in OfKind(new, {"button"}) <=> p \in OfKind(ls, {"button"})
    BY <2>1, <2>2, <2>4 DEF OfKind
  <2>6. p \in Active(new) <=> p \in Active(ls)
    BY <2>3, <2>5 DEF Active
  <2>7. ASSUME p \in Active(ls) PROVE new[Last(new, {p}, "#")] = ls[Last(ls, {p}, "#")]
    <3>1. Lines(ls, {p}, "#") # {}
      BY <2>7 DEF Active, Told
    <3> QED
      BY <2>1, <3>1, ClosedSays
  <2> QED
    BY <2>1, <2>2, <2>3, <2>5, <2>6, <2>7
<1>2. Assigns(new, P) = Assigns(ls, P)
  BY <1>1 DEF Assigns
<1>3. Switches(new, P) = Switches(ls, P)
  BY <1>1 DEF Switches
<1> QED
  BY <1>2, <1>3

-----------------------------------------------------------------------------
\* What the flush of the last section adds is what the open section says.
LEMMA FlushedRight ==
    ASSUME SectionRight, FieldsRight
    PROVE  /\ Assigned(section, fields) = Assigns(lines, OpenIn(lines))
           /\ DOMAIN Named(switches, section, name) =
                  DOMAIN switches \cup Switches(lines, OpenIn(lines))
<1>1. lines \in Files
  BY DEF SectionRight
<1>2. /\ OpenIn(lines) \subseteq HeaderAt(lines)
      /\ \A p, q \in OpenIn(lines) : p = q
  BY <1>1, OneOpen
<1>3. CASE OpenIn(lines) = {}
  <2>1. section.kind = "none"
    BY <1>3 DEF SectionRight, NoSection
  <2>2. Assigns(lines, {}) = {} /\ Switches(lines, {}) = {}
    BY DEF Assigns, Switches
  <2> QED
    BY <1>3, <2>1, <2>2 DEF Assigned, Named
<1>4. ASSUME NEW p \in OpenIn(lines)
      PROVE  /\ Assigned(section, fields) = Assigns(lines, OpenIn(lines))
             /\ DOMAIN Named(switches, section, name) =
                    DOMAIN switches \cup Switches(lines, OpenIn(lines))
  <2>1. OpenIn(lines) = {p} /\ p \in HeaderAt(lines) /\ section = lines[p]
    BY <1>2 DEF SectionRight
  <2>2. CASE section.kind # "button"
    <3>1. p \notin OfKind(lines, {"button"})
      BY <2>1, <2>2 DEF OfKind
    <3>2. p \notin Active(lines)
      BY <3>1 DEF Active
    <3>3. Assigns(lines, {p}) = {} /\ Switches(lines, {p}) = {}
      BY <3>1, <3>2 DEF Assigns, Switches
    <3> QED
      BY <2>1, <2>2, <3>3 DEF Assigned, Named
  <2>3. CASE section.kind = "button"
    <3>1. /\ p \in OfKind(lines, {"button"})
          /\ name = Told(lines, {p}, "NAME", "")
      BY <2>1, <2>3 DEF OfKind, FieldsRight
    <3>2. ASSUME NEW key \in Judged, NEW v, v # ""
          PROVE  Has(fields, key, v) <=> Told(lines, {p}, key, "") = v
      BY <2>1, <2>3, <3>2 DEF FieldsRight, Has, Told
    <3>3. p \in Active(lines) <=>
             /\ Has(fields, "LOAD/SCENE", "L") /\ Has(fields, "ACTIVE", "1")
             /\ Has(fields, "#", "digits")
      BY <3>1, <3>2 DEF Active, Judged
    <3>4. Has(fields, "#", "digits") => fields["#"] = lines[Last(lines, {p}, "#")]
      BY <2>1, <2>3 DEF Has, FieldsRight, Judged
    <3>5. Assigned(section, fields) = Assigns(lines, {p})
      BY <2>3, <3>3, <3>4 DEF Assigned, Assigns
    <3>6. DOMAIN Named(switches, section, name) = DOMAIN switches \cup Switches(lines, {p})
      BY <2>1, <2>3, <3>1 DEF Named, Switches, With
    <3> QED
      BY <2>1, <3>5, <3>6
  <2> QED
    BY <2>2, <2>3
<1> QED
  BY <1>3, <1>4

\* A header line begins a section of its kind, and of its load.
LEMMA KindsAfterHeader ==
    ASSUME NEW ls, NEW h \in Headers, NEW new, Longer(new, ls, h), NEW K
    PROVE  /\ OfKind(ls, K) \in SUBSET HeaderAt(ls)
           /\ OfKind(ls, K) \subseteq OfKind(new, K)
           /\ OfKind(new, K) \subseteq OfKind(ls, K) \cup {Len(ls) + 1}
           /\ Len(ls) + 1 \in OfKind(new, K) <=> h.kind \in K
<1>1. /\ new[Len(ls) + 1] = h /\ \A i \in 1..Len(ls) : new[i] = ls[i]
      /\ HeaderAt(ls) \subseteq 1..Len(ls)
  BY OneMore
<1>2. HeaderAt(new) = HeaderAt(ls) \cup {Len(ls) + 1}
  BY HeadersAfterHeader
<1> QED
  BY <1>1, <1>2 DEF OfKind

LEMMA LoadAfterHeader ==
    ASSUME NEW ls, NEW h \in Headers, NEW new, Longer(new, ls, h), NEW m
    PROVE  /\ OfLoad(ls, m) \in SUBSET HeaderAt(ls)
           /\ OfLoad(ls, m) \subseteq OfLoad(new, m)
           /\ OfLoad(new, m) \subseteq OfLoad(ls, m) \cup {Len(ls) + 1}
<1>1. /\ new[Len(ls) + 1] = h /\ \A i \in 1..Len(ls) : new[i] = ls[i]
      /\ HeaderAt(ls) \subseteq 1..Len(ls)
  BY OneMore
<1>2. HeaderAt(new) = HeaderAt(ls) \cup {Len(ls) + 1}
  BY HeadersAfterHeader
<1> QED
  BY <1>1, <1>2 DEF OfLoad, OfKind

LEMMA LoadsAfterHeader ==
    ASSUME NEW ls, NEW h \in Headers, NEW new, Longer(new, ls, h)
    PROVE  LoadsOf(new) = IF h.kind = "load" THEN LoadsOf(ls) \cup {h.n} ELSE LoadsOf(ls)
<1>1. /\ new[Len(ls) + 1] = h /\ \A i \in 1..Len(ls) : new[i] = ls[i]
      /\ HeaderAt(ls) \subseteq 1..Len(ls)
  BY OneMore
<1>2. HeaderAt(new) = HeaderAt(ls) \cup {Len(ls) + 1}
  BY HeadersAfterHeader
<1>3. /\ \A p \in OfKind(new, {"load"}) :
            p \in OfKind(ls, {"load"}) \/ (p = Len(ls) + 1 /\ h.kind = "load")
      /\ h.kind = "load" => Len(ls) + 1 \in OfKind(new, {"load"})
      /\ \A p \in OfKind(ls, {"load"}) : p \in OfKind(new, {"load"}) /\ new[p] = ls[p]
  BY <1>1, <1>2 DEF OfKind
<1> QED
  BY <1>1, <1>3 DEF LoadsOf

LEMMA LoadSaysAfterHeader ==
    ASSUME NEW ls, NEW h \in Headers, NEW new, Longer(new, ls, h), NEW m,
           NEW key, NEW default
    PROVE  Told(new, OfLoad(new, m), key, default) = Told(ls, OfLoad(ls, m), key, default)
<1>1. /\ OfLoad(ls, m) \in SUBSET HeaderAt(ls)
      /\ OfLoad(ls, m) \subseteq OfLoad(new, m)
      /\ OfLoad(new, m) \subseteq OfLoad(ls, m) \cup {Len(ls) + 1}
  BY LoadAfterHeader
<1> DEFINE S == OfLoad(ls, m)
           T == OfLoad(new, m)
<1> HIDE DEF S, T
<1>2. S \in SUBSET HeaderAt(ls) /\ S \subseteq T /\ \A p \in T : p \in S \/ p = Len(ls) + 1
  BY <1>1 DEF S, T
<1>3. Lines(new, T, key) = Lines(ls, S, key)
  BY <1>2, NewSection
<1>4. Told(new, T, key, default) = Told(ls, S, key, default)
  BY <1>3, LastStays
<1> QED
  BY <1>4 DEF S, T

LEMMA ScenesAfterHeader ==
    ASSUME NEW ls, NEW h \in Headers, NEW new, Longer(new, ls, h)
    PROVE  SceneLines(new) = SceneLines(ls) /\ \A i \in SceneLines(ls) : new[i] = ls[i]
<1> DEFINE S == OfKind(ls, {"scene", "bare"})
           T == OfKind(new, {"scene", "bare"})
<1>1. S \in SUBSET HeaderAt(ls) /\ S \subseteq T /\ \A p \in T : p \in S \/ p = Len(ls) + 1
  BY KindsAfterHeader
<1> HIDE DEF S, T
<1>2. \A key : Lines(new, T, key) = Lines(ls, S, key)
  BY <1>1, NewSection
<1>3. SceneLines(new) = SceneLines(ls)
  BY <1>2 DEF SceneLines, S, T
<1>4. SceneLines(ls) \subseteq 1..Len(ls)
  BY LinesAreLines DEF SceneLines, Longer
<1> QED
  BY <1>3, <1>4, OneMore

-----------------------------------------------------------------------------
\* A header line ends the section before and begins one that says nothing.
LEMMA ReadsHeaderOK ==
    ASSUME ElgInv, format = "elg", NEW h \in Headers, ReadsHeader(h)
    PROVE  ElgInv'
<1> DEFINE n == Len(lines) + 1
<1>1. Longer(lines', lines, h)
  BY DEF ElgInv, SectionRight, ReadsHeader, Reads, Longer
<1>2. lines' \in Files /\ lines'[n] = h
  BY <1>1, OneMore
<1>3. OpenIn(lines') = {n} /\ Closed(lines') = HeaderAt(lines)
  BY <1>1, OpensNew
<1>4. HeaderAt(lines') = HeaderAt(lines) \cup {n}
  BY <1>1, HeadersAfterHeader
<1>5. h.kind \in {"load", "scene", "bare", "button", "other"} /\ h.n \in Nat /\ h.tab \in 0..15
  BY HeadersAssumption DEF HeadersAssumption
<1>6. SectionRight'
  BY <1>2, <1>3, <1>4 DEF SectionRight, ReadsHeader
<1>7. LoadsRight'
  <2>1. \A m, key, default :
           Told(lines', OfLoad(lines', m), key, default) =
               Told(lines, OfLoad(lines, m), key, default)
    BY <1>1, LoadSaysAfterHeader
  <2>2. LoadsOf(lines') = IF h.kind = "load" THEN LoadsOf(lines) \cup {h.n} ELSE LoadsOf(lines)
    BY <1>1, LoadsAfterHeader
  <2>3. ASSUME NEW key, NEW default, h.n \notin LoadsOf(lines)
        PROVE  Told(lines, OfLoad(lines, h.n), key, default) = default
    <3>1. OfLoad(lines, h.n) = {}
      BY <2>3 DEF LoadsOf, OfLoad
    <3>2. Lines(lines, {}, key) = {}
      BY DEF Lines
    <3> QED
      BY <3>1, <3>2 DEF Told
  <2>4. current' = IF section'.kind = "load" THEN section'.n ELSE -1
    BY DEF ReadsHeader
  <2>5. DOMAIN loads' = LoadsOf(lines') /\ DOMAIN dimmable' = LoadsOf(lines')
    BY <2>2 DEF ElgInv, LoadsRight, ReadsHeader, SetDefault, With
  <2>6. ASSUME NEW m \in LoadsOf(lines')
        PROVE  /\ loads'[m] = Told(lines, OfLoad(lines, m), "NAME", "")
               /\ dimmable'[m] = (Told(lines, OfLoad(lines, m), "DIMMER", "Y") = "Y")
    <3>1. CASE m \in LoadsOf(lines)
      BY <3>1 DEF ElgInv, LoadsRight, ReadsHeader, SetDefault, With
    <3>2. CASE m \notin LoadsOf(lines)
      <4>1. m = h.n /\ h.kind = "load"
        BY <2>2, <3>2
      <4>2. \A key, default : Told(lines, OfLoad(lines, m), key, default) = default
        BY <2>3, <3>2, <4>1
      <4>3. loads' = With(loads, m, "") /\ dimmable' = With(dimmable, m, TRUE)
        BY <3>2, <4>1 DEF ElgInv, LoadsRight, ReadsHeader, SetDefault
      <4> QED
        BY <4>2, <4>3 DEF With
    <3> QED
      BY <3>1, <3>2
  <2> QED
    <3>1. ASSUME NEW m \in LoadsOf(lines')
          PROVE  /\ loads'[m] = Told(lines', OfLoad(lines', m), "NAME", "")
                 /\ dimmable'[m] = (Told(lines', OfLoad(lines', m), "DIMMER", "Y") = "Y")
      <4>1. /\ Told(lines', OfLoad(lines', m), "NAME", "") =
                   Told(lines, OfLoad(lines, m), "NAME", "")
            /\ Told(lines', OfLoad(lines', m), "DIMMER", "Y") =
                   Told(lines, OfLoad(lines, m), "DIMMER", "Y")
        BY <2>1
      <4> QED
        BY <2>6, <4>1
    <3> QED
      BY <2>4, <2>5, <3>1 DEF LoadsRight
<1>8. FieldsRight'
  <2>1. \A key : Lines(lines', {n}, key) = {}
    <3>1. ASSUME NEW key PROVE Lines(lines', {n}, key) = {}
      <4> DEFINE S == {}
                 T == {n}
      <4>1. S \in SUBSET HeaderAt(lines) /\ S \subseteq T /\ \A p \in T : p \in S \/ p = Len(lines) + 1
        OBVIOUS
      <4>2. Lines(lines, S, key) = {}
        BY DEF Lines
      <4> HIDE DEF S, T
      <4>3. Lines(lines', T, key) = Lines(lines, S, key)
        BY <1>1, <4>1, NewSection
      <4> QED
        BY <4>2, <4>3 DEF T
    <3> QED
      BY <3>1
  <2>2. Told(lines', {n}, "NAME", "") = ""
    BY <2>1 DEF Told
  <2>3. name' = ""
    BY DEF ReadsHeader
  <2>4. DOMAIN fields' = {}
    <3>1. DOMAIN <<>> = {}
      OBVIOUS
    <3>2. fields' = <<>>
      BY DEF ReadsHeader, NewFields
    <3> QED
      BY <3>1, <3>2, Zenon
  <2> QED
    BY <1>3, <2>1, <2>2, <2>3, <2>4 DEF FieldsRight
<1>9. EndedRight'
  <2>1. SceneLines(lines') = SceneLines(lines) /\ \A i \in SceneLines(lines) : lines'[i] = lines[i]
    BY <1>1, ScenesAfterHeader
  <2> DEFINE P == HeaderAt(lines)
  <2>2. Assigns(lines', P) = Assigns(lines, P) /\ Switches(lines', P) = Switches(lines, P)
    BY <1>1, ClosedKept
  <2>3. P = Closed(lines) \cup OpenIn(lines)
    BY DEF Closed, OpenIn
  <2>4. /\ Assigns(lines, P) = Assigns(lines, Closed(lines)) \cup Assigns(lines, OpenIn(lines))
        /\ Switches(lines, P) = Switches(lines, Closed(lines)) \cup Switches(lines, OpenIn(lines))
    BY <2>3 DEF Assigns, Switches
  <2>5. /\ Assigned(section, fields) = Assigns(lines, OpenIn(lines))
        /\ DOMAIN Named(switches, section, name) =
               DOMAIN switches \cup Switches(lines, OpenIn(lines))
    BY FlushedRight DEF ElgInv
  <2>6. referenced' = {lines'[i].n : i \in SceneLines(lines')} \cup Assigns(lines', P)
    <3>1. {lines'[i].n : i \in SceneLines(lines')} = {lines[i].n : i \in SceneLines(lines)}
      BY <2>1
    <3>2. referenced' = {lines[i].n : i \in SceneLines(lines)} \cup Assigns(lines, Closed(lines))
                            \cup Assigns(lines, OpenIn(lines))
      BY <2>5 DEF ElgInv, EndedRight, ReadsHeader
    <3> QED
      BY <2>2, <2>4, <3>1, <3>2
  <2>7. DOMAIN switches' = Switches(lines', P)
    BY <2>2, <2>4, <2>5 DEF ElgInv, EndedRight, ReadsHeader
  <2> QED
    BY <1>3, <2>6, <2>7 DEF EndedRight
<1>10. DOMAIN scenes' \subseteq Int /\ buttons' = {}
  <2>1. scenes' = scenes \/ scenes' = With(scenes, h.n, "x")
    BY DEF ReadsHeader
  <2>2. DOMAIN With(scenes, h.n, "x") = DOMAIN scenes \cup {h.n}
    BY DEF With
  <2>3. DOMAIN scenes \subseteq Int /\ buttons = {} /\ buttons' = buttons
    BY DEF ElgInv, ReadsHeader
  <2> QED
    BY <1>5, <2>1, <2>2, <2>3
<1> QED
  BY <1>6, <1>7, <1>8, <1>9, <1>10 DEF ElgInv

\* A body line begins no section.
LEMMA SectionsAfterBody ==
    ASSUME NEW ls, NEW b \in Bodies, NEW new, Longer(new, ls, b), NEW K, NEW m
    PROVE  OfKind(new, K) = OfKind(ls, K) /\ OfLoad(new, m) = OfLoad(ls, m)
<1>1. /\ \A i \in 1..Len(ls) : new[i] = ls[i]
      /\ HeaderAt(ls) \subseteq 1..Len(ls)
  BY OneMore
<1>2. HeaderAt(new) = HeaderAt(ls)
  BY HeadersAfterBody
<1>3. ASSUME NEW M PROVE OfKind(new, M) = OfKind(ls, M)
  BY <1>1, <1>2 DEF OfKind
<1>4. \A p \in OfKind(ls, {"load"}) : new[p] = ls[p]
  BY <1>1 DEF OfKind
<1> QED
  BY <1>3, <1>4 DEF OfLoad

\* What sections say after a body line, whether it is one of theirs or not.
LEMMA BodySays ==
    ASSUME NEW ls, NEW b \in Bodies, NEW new, Longer(new, ls, b),
           NEW S \in SUBSET HeaderAt(ls), NEW key, NEW default
    PROVE  /\ b.key = key /\ S \cap OpenIn(ls) # {} =>
                 Told(new, S, key, default) = b.value /\ new[Last(new, S, key)] = b
           /\ ~(b.key = key /\ S \cap OpenIn(ls) # {}) =>
                 Told(new, S, key, default) = Told(ls, S, key, default)
<1>1. ASSUME b.key = key, S \cap OpenIn(ls) # {}
      PROVE  Told(new, S, key, default) = b.value /\ new[Last(new, S, key)] = b
  <2>1. Lines(new, S, key) =
           Lines(ls, S, key) \cup {i \in {Len(ls) + 1} : b.key = key /\ S \cap OpenIn(ls) # {}}
    BY BodyIn
  <2>2. Lines(new, S, key) = Lines(ls, S, key) \cup {Len(ls) + 1}
    BY <1>1, <2>1
  <2> QED
    BY <2>2, LastIsNew
<1>2. ASSUME ~(b.key = key /\ S \cap OpenIn(ls) # {})
      PROVE  Told(new, S, key, default) = Told(ls, S, key, default)
  <2>1. Lines(new, S, key) = Lines(ls, S, key)
    BY <1>2, BodyElsewhere
  <2> QED
    BY <2>1, LastStays
<1> QED
  BY <1>1, <1>2

\* The section that is open is of load m where m is the current load.
LEMMA CurrentIsOpen ==
    ASSUME ElgInv, NEW m \in LoadsOf(lines)
    PROVE  /\ m \in Nat
           /\ OfLoad(lines, m) \in SUBSET HeaderAt(lines)
           /\ OfLoad(lines, m) \cap OpenIn(lines) # {} <=> current = m
<1>1. lines \in Files
  BY DEF ElgInv, SectionRight
<1>2. \A i \in HeaderAt(lines) : lines[i] \in Headers
  BY DEF HeaderAt
<1>3. m \in Nat
  BY <1>2, HeadersAssumption DEF LoadsOf, OfKind, HeadersAssumption
<1>4. OfLoad(lines, m) \in SUBSET HeaderAt(lines)
  BY DEF OfLoad, OfKind
<1>5. OpenIn(lines) \subseteq HeaderAt(lines) /\ \A p, q \in OpenIn(lines) : p = q
  BY <1>1, OneOpen
<1>6. CASE OpenIn(lines) = {}
  <2>1. section.kind = "none"
    BY <1>6 DEF ElgInv, SectionRight, NoSection
  <2>2. current = -1
    BY <2>1 DEF ElgInv, LoadsRight
  <2> QED
    BY <1>3, <1>4, <1>6, <2>2
<1>7. ASSUME NEW p \in OpenIn(lines)
      PROVE  OfLoad(lines, m) \cap OpenIn(lines) # {} <=> current = m
  <2>1. OpenIn(lines) = {p} /\ section = lines[p] /\ p \in HeaderAt(lines)
    BY <1>5 DEF ElgInv, SectionRight
  <2>2. p \in OfLoad(lines, m) <=> section.kind = "load" /\ section.n = m
    BY <2>1 DEF OfLoad, OfKind
  <2>3. current = IF section.kind = "load" THEN section.n ELSE -1
    BY DEF ElgInv, LoadsRight
  <2> QED
    BY <1>3, <2>1, <2>2, <2>3
<1> QED
  BY <1>3, <1>4, <1>6, <1>7

LEMMA ReadsBodyOK ==
    ASSUME ElgInv, format = "elg", NEW b \in Bodies, ReadsBody(b)
    PROVE  ElgInv'
<1> DEFINE n == Len(lines) + 1
<1>1. Longer(lines', lines, b)
  BY DEF ElgInv, SectionRight, ReadsBody, Reads, Longer
<1>2. /\ lines' \in Files /\ lines'[n] = b
      /\ \A i \in 1..Len(lines) : lines'[i] = lines[i]
      /\ HeaderAt(lines) \subseteq 1..Len(lines)
  BY <1>1, OneMore
<1>3. OpenIn(lines') = OpenIn(lines) /\ Closed(lines') = Closed(lines)
  BY <1>1, OpenStays
<1>4. HeaderAt(lines') = HeaderAt(lines)
  BY <1>1, HeadersAfterBody
<1>5. OpenIn(lines) \subseteq HeaderAt(lines) /\ \A p, q \in OpenIn(lines) : p = q
  BY OneOpen DEF ElgInv, SectionRight
<1>6. section' = section /\ current' = current
  BY DEF ReadsBody
<1>7. SectionRight'
  BY <1>2, <1>3, <1>4, <1>5, <1>6 DEF ElgInv, SectionRight
<1>8. LoadsRight'
  <2>1. \A m : OfLoad(lines', m) = OfLoad(lines, m)
    BY <1>1, SectionsAfterBody
  <2>2. LoadsOf(lines') = LoadsOf(lines)
    <3>1. \A K : OfKind(lines', K) = OfKind(lines, K)
      BY <1>1, SectionsAfterBody
    <3>2. \A p \in OfKind(lines, {"load"}) : lines'[p] = lines[p]
      BY <1>2 DEF OfKind
    <3> QED
      BY <3>1, <3>2 DEF LoadsOf
  <2>3. DOMAIN loads = LoadsOf(lines) /\ DOMAIN dimmable = LoadsOf(lines)
    BY DEF ElgInv, LoadsRight
  <2>4. DOMAIN loads' = LoadsOf(lines) /\ DOMAIN dimmable' = LoadsOf(lines)
    BY <2>3 DEF ReadsBody
  <2>5. ASSUME NEW m \in LoadsOf(lines)
        PROVE  /\ loads'[m] = Told(lines', OfLoad(lines', m), "NAME", "")
               /\ dimmable'[m] = (Told(lines', OfLoad(lines', m), "DIMMER", "Y") = "Y")
    <3> DEFINE S == OfLoad(lines, m)
    <3>1. m \in Nat /\ S \in SUBSET HeaderAt(lines) /\ (S \cap OpenIn(lines) # {} <=> current = m)
      BY CurrentIsOpen
    <3> HIDE DEF S
    <3>2. \A key, default :
             /\ b.key = key /\ S \cap OpenIn(lines) # {} => Told(lines', S, key, default) = b.value
             /\ ~(b.key = key /\ S \cap OpenIn(lines) # {}) =>
                   Told(lines', S, key, default) = Told(lines, S, key, default)
      BY <1>1, <3>1, BodySays
    <3>3. /\ loads[m] = Told(lines, S, "NAME", "")
          /\ dimmable[m] = (Told(lines, S, "DIMMER", "Y") = "Y")
      BY DEF ElgInv, LoadsRight, S
    <3>4. loads'[m] = IF current = m /\ b.key = "NAME" THEN b.value ELSE loads[m]
      BY <2>3, <3>1 DEF ReadsBody
    <3>5. dimmable'[m] = IF current = m /\ b.key = "DIMMER" THEN b.value = "Y" ELSE dimmable[m]
      BY <2>3, <3>1 DEF ReadsBody
    <3>6. Told(lines', S, "NAME", "") =
             IF current = m /\ b.key = "NAME" THEN b.value ELSE Told(lines, S, "NAME", "")
      BY <3>1, <3>2
    <3>7. Told(lines', S, "DIMMER", "Y") =
             IF current = m /\ b.key = "DIMMER" THEN b.value ELSE Told(lines, S, "DIMMER", "Y")
      BY <3>1, <3>2
    <3>8. loads'[m] = Told(lines', S, "NAME", "")
      BY <3>3, <3>4, <3>6
    <3>9. dimmable'[m] = (Told(lines', S, "DIMMER", "Y") = "Y")
      BY <3>3, <3>5, <3>7
    <3> QED
      BY <2>1, <3>8, <3>9 DEF S
  <2>6. current' = IF section'.kind = "load" THEN section'.n ELSE -1
    BY <1>6 DEF ElgInv, LoadsRight
  <2> QED
    BY <2>2, <2>4, <2>5, <2>6 DEF LoadsRight
<1>9. FieldsRight'
  <2>1. ASSUME NEW p \in OpenIn(lines), section.kind = "button"
        PROVE  /\ name' = Told(lines', {p}, "NAME", "")
               /\ \A key \in Judged :
                     /\ key \in DOMAIN fields' <=> Lines(lines', {p}, key) # {}
                     /\ key \in DOMAIN fields' => fields'[key] = lines'[Last(lines', {p}, key)]
    <3> DEFINE S == {p}
    <3>1. S \in SUBSET HeaderAt(lines) /\ S \cap OpenIn(lines) # {}
      BY <1>5
    <3>2. /\ name = Told(lines, S, "NAME", "")
          /\ \A key \in Judged :
                /\ key \in DOMAIN fields <=> Lines(lines, S, key) # {}
                /\ key \in DOMAIN fields => fields[key] = lines[Last(lines, S, key)]
      BY <2>1 DEF ElgInv, FieldsRight
    <3> HIDE DEF S
    <3>3. \A key, default :
             /\ b.key = key =>
                   Told(lines', S, key, default) = b.value /\ lines'[Last(lines', S, key)] = b
             /\ b.key # key => Told(lines', S, key, default) = Told(lines, S, key, default)
      BY <1>1, <3>1, BodySays
    <3>4. name' = Told(lines', S, "NAME", "")
      BY <2>1, <3>2, <3>3 DEF ReadsBody
    <3>5. ASSUME NEW key \in Judged
          PROVE  /\ key \in DOMAIN fields' <=> Lines(lines', S, key) # {}
                 /\ key \in DOMAIN fields' => fields'[key] = lines'[Last(lines', S, key)]
      <4>1. key # "LOAD_"
        BY DEF Judged
      <4>2. CASE b.key = key
        <5>1. Lines(lines', S, key) =
                 Lines(lines, S, key) \cup
                     {i \in {Len(lines) + 1} : b.key = key /\ S \cap OpenIn(lines) # {}}
          BY <1>1, <3>1, BodyIn
        <5>2. Lines(lines', S, key) # {}
          BY <3>1, <4>2, <5>1
        <5>3. fields' = With(fields, key, b)
          BY <2>1, <4>1, <4>2 DEF ReadsBody
        <5> QED
          BY <3>3, <4>2, <5>2, <5>3 DEF With
      <4>3. CASE b.key # key
        <5>1. Lines(lines', S, key) = Lines(lines, S, key)
          BY <1>1, <3>1, <4>3, BodyElsewhere
        <5>2. Lines(lines, S, key) # {} =>
                 lines'[Last(lines', S, key)] = lines[Last(lines, S, key)]
          <6>1. \A default :
                   /\ Told(lines', S, key, default) = Told(lines, S, key, default)
                   /\ Lines(lines, S, key) # {} =>
                         lines'[Last(lines', S, key)] = lines[Last(lines, S, key)]
            BY <1>1, <5>1, LastStays
          <6> QED
            BY <6>1
        <5>3. /\ key \in DOMAIN fields' <=> key \in DOMAIN fields
              /\ key \in DOMAIN fields => fields'[key] = fields[key]
          BY <4>3 DEF ReadsBody, With
        <5> QED
          BY <3>2, <5>1, <5>2, <5>3
      <4> QED
        BY <4>2, <4>3
    <3> QED
      BY <3>4, <3>5 DEF S
  <2>2. section.kind # "button" => name' = ""
    BY DEF ElgInv, FieldsRight, ReadsBody
  <2> QED
    BY <1>3, <1>6, <2>1, <2>2 DEF FieldsRight
<1>10. EndedRight'
  <2> DEFINE S == OfKind(lines, {"scene", "bare"})
  <2>1. S \in SUBSET HeaderAt(lines) /\ OfKind(lines', {"scene", "bare"}) = S
    <3>1. \A K, m : OfKind(lines', K) = OfKind(lines, K) /\ OfLoad(lines', m) = OfLoad(lines, m)
      BY <1>1, SectionsAfterBody
    <3> QED
      BY <3>1 DEF OfKind
  <2>2. S \cap OpenIn(lines) # {} <=> section.kind \in {"scene", "bare"}
    <3>1. CASE OpenIn(lines) = {}
      BY <3>1 DEF ElgInv, SectionRight, NoSection
    <3>2. ASSUME NEW p \in OpenIn(lines)
          PROVE  S \cap OpenIn(lines) # {} <=> section.kind \in {"scene", "bare"}
      <4>1. OpenIn(lines) = {p} /\ section = lines[p] /\ p \in HeaderAt(lines)
        BY <1>5 DEF ElgInv, SectionRight
      <4> QED
        BY <4>1 DEF OfKind
    <3> QED
      BY <3>1, <3>2
  <2> HIDE DEF S
  <2>3. Lines(lines, S, "LOAD_") \subseteq 1..Len(lines)
    BY LinesAreLines DEF ElgInv, SectionRight
  <2> DEFINE Old == Lines(lines, S, "LOAD_")
             New == Lines(lines', S, "LOAD_")
  <2>4. New = Old \cup {i \in {n} : b.key = "LOAD_" /\ S \cap OpenIn(lines) # {}}
    <3>1. \A key : Lines(lines', S, key) = Lines(lines, S, key) \cup
                       {i \in {n} : b.key = key /\ S \cap OpenIn(lines) # {}}
      BY <1>1, <2>1, BodyIn
    <3> QED
      BY <3>1
  <2>5. \A i \in Old : lines'[i] = lines[i]
    BY <1>2, <2>3
  <2> HIDE DEF Old, New
  <2>6. {lines'[i].n : i \in New} =
           IF section.kind \in {"scene", "bare"} /\ b.key = "LOAD_"
           THEN {lines[i].n : i \in Old} \cup {b.n} ELSE {lines[i].n : i \in Old}
    <3>1. CASE section.kind \in {"scene", "bare"} /\ b.key = "LOAD_"
      <4>1. New = Old \cup {n}
        BY <2>2, <2>4, <3>1
      <4> QED
        BY <1>2, <2>5, <3>1, <4>1
    <3>2. CASE ~(section.kind \in {"scene", "bare"} /\ b.key = "LOAD_")
      <4>1. New = Old
        BY <2>2, <2>4, <3>2
      <4> QED
        BY <2>5, <3>2, <4>1
    <3> QED
      BY <3>1, <3>2
  <2> DEFINE P == Closed(lines)
  <2>7. Assigns(lines', P) = Assigns(lines, P) /\ Switches(lines', P) = Switches(lines, P)
    <3>1. P \in SUBSET HeaderAt(lines) /\ P \subseteq Closed(lines)
      BY DEF Closed
    <3> QED
      BY <1>1, <3>1, ClosedKept
  <2>8. /\ referenced = {lines[i].n : i \in Old} \cup Assigns(lines, P)
        /\ DOMAIN switches = Switches(lines, P)
    BY DEF ElgInv, EndedRight, SceneLines, Old, S
  <2>9. referenced' = {lines'[i].n : i \in New} \cup Assigns(lines', P)
    BY <2>6, <2>7, <2>8 DEF ReadsBody
  <2>10. SceneLines(lines') = New
    BY <2>1 DEF SceneLines, New
  <2>11. DOMAIN switches' = Switches(lines', P)
    BY <2>7, <2>8 DEF ReadsBody
  <2> QED
    BY <1>3, <2>9, <2>10, <2>11 DEF EndedRight
<1>11. DOMAIN scenes' \subseteq Int /\ buttons' = {}
  BY DEF ElgInv, ReadsBody
<1> QED
  BY <1>7, <1>8, <1>9, <1>10, <1>11 DEF ElgInv

-----------------------------------------------------------------------------
LEMMA ReadsDeviceOK ==
    ASSUME JtsInv, format = "jts", NEW d \in Devices, ReadsDevice(d)
    PROVE  JtsInv'
<1>1. d.id \in Int /\ \A b \in d.buttons : b.id \in Nat
  BY LinesAssumption DEF LinesAssumption
<1>2. UNCHANGED <<section, name, switches, referenced, scenes>>
  BY DEF ReadsDevice, elg
<1>3. CASE UNCHANGED <<loads, dimmable, buttons>>
  BY <1>2, <1>3 DEF JtsInv
<1>4. CASE /\ d.id > 0
           /\ loads' = With(loads, d.id, d.name)
           /\ dimmable' = With(dimmable, d.id, IsTrue(d.dimmer, TRUE))
           /\ buttons' = buttons \cup ButtonsOf(d)
  <2>1. DOMAIN loads' = DOMAIN loads \cup {d.id} /\ DOMAIN dimmable' = DOMAIN dimmable \cup {d.id}
    BY <1>4 DEF With
  <2>2. ButtonsOf(d) \subseteq {d.id} \X (1..3)
    BY <1>1 DEF ButtonsOf
  <2>3. /\ DOMAIN dimmable' = DOMAIN loads'
        /\ \A n \in DOMAIN loads' \cup DOMAIN scenes' : n \in Int /\ n > 0
    BY <1>1, <1>2, <1>4, <2>1 DEF JtsInv
  <2>4. buttons' \subseteq (DOMAIN loads') \X (1..3)
    <3>1. buttons \subseteq (DOMAIN loads) \X (1..3)
      BY DEF JtsInv
    <3>2. buttons' = buttons \cup ButtonsOf(d)
      BY <1>4
    <3> QED
      BY <2>1, <2>2, <3>1, <3>2
  <2> QED
    BY <1>2, <2>3, <2>4 DEF JtsInv
<1> QED
  BY <1>3, <1>4 DEF ReadsDevice

LEMMA ReadsSceneOK ==
    ASSUME JtsInv, format = "jts", NEW s \in Scenes, ReadsScene(s)
    PROVE  JtsInv'
<1>1. s.id \in Int
  BY LinesAssumption DEF LinesAssumption
<1>2. UNCHANGED <<section, name, switches, referenced, loads, dimmable, buttons>>
  BY DEF ReadsScene, elg
<1>3. \A i \in DOMAIN scenes' : i \in DOMAIN scenes \/ (i = s.id /\ s.id > 0)
  <2>1. DOMAIN With(scenes, s.id, s.name) = DOMAIN scenes \cup {s.id}
    BY DEF With
  <2>2. scenes' = scenes \/ (s.id > 0 /\ scenes' = With(scenes, s.id, s.name))
    BY DEF ReadsScene
  <2> QED
    BY <2>1, <2>2
<1>4. \A n \in DOMAIN loads \cup DOMAIN scenes' : n \in Int /\ n > 0
  BY <1>1, <1>3 DEF JtsInv
<1> QED
  BY <1>2, <1>4 DEF JtsInv

LEMMA FileInitOK == FileInit => FileInv
<1> SUFFICES ASSUME FileInit PROVE FileInv
  OBVIOUS
<1>1. lines = <<>> /\ HeaderAt(lines) = {} /\ lines \in Files
  <2>1. DOMAIN <<>> = {}
    OBVIOUS
  <2>2. lines = <<>>
    BY DEF FileInit
  <2> QED
    BY <2>1, <2>2 DEF HeaderAt, Files
<1>2. OpenIn(lines) = {} /\ Closed(lines) = {} /\ LoadsOf(lines) = {}
  BY <1>1 DEF OpenIn, Closed, LoadsOf, OfKind
<1>3. SceneLines(lines) = {} /\ Assigns(lines, {}) = {} /\ Switches(lines, {}) = {}
  BY <1>1 DEF SceneLines, Lines, OfKind, Assigns, Switches
<1>4. DOMAIN loads = {} /\ DOMAIN dimmable = {} /\ DOMAIN scenes = {} /\ DOMAIN switches = {}
  <2>1. DOMAIN <<>> = {}
    OBVIOUS
  <2>2. loads = <<>> /\ dimmable = <<>> /\ scenes = <<>> /\ switches = <<>>
    BY DEF FileInit
  <2> QED
    BY <2>1, <2>2, Zenon
<1>5. section.kind = "none" /\ section = NoSection
  BY DEF FileInit, NoSection
<1>6. format \in {"elg", "jts"} /\ current = -1 /\ referenced = {} /\ name = "" /\ buttons = {}
  BY DEF FileInit
<1>7. ElgInv
  BY <1>1, <1>2, <1>3, <1>4, <1>5, <1>6
     DEF ElgInv, SectionRight, LoadsRight, FieldsRight, EndedRight
<1>8. JtsInv
  BY <1>4, <1>5, <1>6 DEF JtsInv
<1> QED
  BY <1>6, <1>7, <1>8 DEF FileInv

LEMMA FileStepOK == FileInv /\ [FileNext]_fileVars => FileInv'
<1> SUFFICES ASSUME FileInv, [FileNext]_fileVars PROVE FileInv'
  OBVIOUS
<1>1. ASSUME NEW h \in Headers, ReadsHeader(h) PROVE FileInv'
  BY <1>1, ReadsHeaderOK DEF FileInv, ReadsHeader, Reads
<1>2. ASSUME NEW b \in Bodies, ReadsBody(b) PROVE FileInv'
  BY <1>2, ReadsBodyOK DEF FileInv, ReadsBody, Reads
<1>3. ASSUME NEW d \in Devices, ReadsDevice(d) PROVE FileInv'
  BY <1>3, ReadsDeviceOK DEF FileInv, ReadsDevice, Reads
<1>4. ASSUME NEW s \in Scenes, ReadsScene(s) PROVE FileInv'
  BY <1>4, ReadsSceneOK DEF FileInv, ReadsScene, Reads
<1>5. CASE UNCHANGED fileVars
  BY <1>5, ZenonT(40) DEF fileVars, elg, FileInv, ElgInv, JtsInv, SectionRight, LoadsRight, FieldsRight,
              EndedRight
<1> QED
  BY <1>1, <1>2, <1>3, <1>4, <1>5 DEF FileNext

LEMMA FileInductive == FileSpec => []FileInv
<1> QED
  BY FileInitOK, FileStepOK, PTL DEF FileSpec

-----------------------------------------------------------------------------
\* Where a .elg ends, all its sections count.
NamedLoads == {n \in LoadsOf(lines) : Told(lines, OfLoad(lines, n), "NAME", "") # ""}
RelayLoads == {n \in LoadsOf(lines) : Told(lines, OfLoad(lines, n), "DIMMER", "Y") # "Y"}

LEMMA TextOfElg ==
    ASSUME ElgInv
    PROVE  /\ Text.loads = LoadsOf(lines) /\ LoadsOf(lines) \subseteq Nat
           /\ Text.named = NamedLoads
           /\ Text.relays = RelayLoads
           /\ Text.referenced = {lines[i].n : i \in SceneLines(lines)} \cup
                                    Assigns(lines, HeaderAt(lines))
           /\ Text.switches = Switches(lines, HeaderAt(lines))
<1>1. Text.loads = LoadsOf(lines) /\ LoadsOf(lines) \subseteq Nat
  <2>1. \A i \in HeaderAt(lines) : lines[i] \in Headers
    BY DEF HeaderAt
  <2>2. LoadsOf(lines) \subseteq Nat
    BY <2>1, HeadersAssumption DEF LoadsOf, OfKind, HeadersAssumption
  <2> QED
    BY <2>2 DEF Text, ElgInv, LoadsRight
<1>2. Text.named = NamedLoads
  BY DEF Text, ElgInv, LoadsRight, NamedLoads
<1>3. Text.relays = RelayLoads
  BY DEF Text, ElgInv, LoadsRight, RelayLoads
<1> DEFINE P == HeaderAt(lines)
<1>4. P = Closed(lines) \cup OpenIn(lines)
  BY DEF Closed, OpenIn
<1>5. /\ Assigns(lines, P) = Assigns(lines, Closed(lines)) \cup Assigns(lines, OpenIn(lines))
      /\ Switches(lines, P) = Switches(lines, Closed(lines)) \cup Switches(lines, OpenIn(lines))
  BY <1>4 DEF Assigns, Switches
<1>6. /\ Assigned(section, fields) = Assigns(lines, OpenIn(lines))
      /\ DOMAIN Named(switches, section, name) =
             DOMAIN switches \cup Switches(lines, OpenIn(lines))
  BY FlushedRight DEF ElgInv
<1>7. /\ referenced = {lines[i].n : i \in SceneLines(lines)} \cup Assigns(lines, Closed(lines))
      /\ DOMAIN switches = Switches(lines, Closed(lines))
  BY DEF ElgInv, EndedRight
<1>8. Text.referenced = {lines[i].n : i \in SceneLines(lines)} \cup Assigns(lines, P)
  <2>1. Text.referenced = referenced \cup Assigned(section, fields)
    BY DEF Text
  <2> QED
    BY <1>5, <1>6, <1>7, <2>1
<1>9. Text.switches = Switches(lines, P)
  <2>1. Text.switches = DOMAIN Named(switches, section, name)
    BY DEF Text
  <2> QED
    BY <1>5, <1>6, <1>7, <2>1
<1> QED
  BY <1>1, <1>2, <1>3, <1>8, <1>9

\* Each button of each tab has a place of its own.
LEMMA PlaceOf ==
    ASSUME NEW t \in 0..15, NEW n \in 1..24, NEW i, i = 24 * t + n
    PROVE  t = (i - 1) \div 24 /\ n = ((i - 1) % 24) + 1
<1>1. t = (24 * t + n - 1) \div 24
  OBVIOUS
<1>2. n = ((24 * t + n - 1) % 24) + 1
  OBVIOUS
<1> QED
  BY <1>1, <1>2

LEMMA OwnPlace ==
    ASSUME NEW h, h.tab \in 0..15, h.n \in 1..24, NEW i, i = 24 * h.tab + h.n
    PROVE  h.tab = (i - 1) \div 24 /\ h.n = ((i - 1) % 24) + 1
<1>1. PICK t \in 0..15 : t = h.tab
  OBVIOUS
<1>2. PICK n \in 1..24 : n = h.n
  OBVIOUS
<1>3. i = 24 * t + n
  BY <1>1, <1>2
<1>4. t = (i - 1) \div 24 /\ n = ((i - 1) % 24) + 1
  BY <1>3, PlaceOf
<1> QED
  BY <1>1, <1>2, <1>4, Zenon

LEMMA ElgRight == FileInv => ElgIsRead
<1> SUFFICES ASSUME FileInv, format = "elg" PROVE ElgIsRead
  BY DEF ElgIsRead
<1> DEFINE IsNamed(p) == Told(lines, {p}, "NAME", "") # ""
           Buttons == {p \in OfKind(lines, {"button"}) : IsNamed(p)}
           InScenes == Lines(lines, OfKind(lines, {"scene", "bare"}), "LOAD_")
           OnButtons == {Last(lines, {p}, "#") : p \in Active(lines)}
<1>1. ElgInv
  BY DEF FileInv
<1>2. /\ Text.loads = LoadsOf(lines)
      /\ Text.named = NamedLoads
      /\ Text.relays = RelayLoads
      /\ Text.referenced = {lines[i].n : i \in SceneLines(lines)} \cup
                               Assigns(lines, HeaderAt(lines))
      /\ Text.switches = Switches(lines, HeaderAt(lines))
  BY <1>1, TextOfElg
<1>3. Active(lines) \subseteq HeaderAt(lines)
  BY DEF Active, OfKind
<1>4. Text.referenced = {lines[i].n : i \in InScenes \cup OnButtons}
  <2>1. Assigns(lines, HeaderAt(lines)) = {lines[i].n : i \in OnButtons}
    BY <1>3 DEF Assigns
  <2> QED
    BY <1>2, <2>1 DEF SceneLines
<1>5. ASSUME NEW p \in Buttons
      PROVE  /\ lines[p].n \in Nat /\ lines[p].tab \in 0..15 /\ p \in HeaderAt(lines)
             /\ lines[p].n \in 1..24 => 24 * lines[p].tab + lines[p].n \in Text.switches
  <2>1. p \in HeaderAt(lines) /\ lines[p] \in Headers
    BY DEF OfKind, HeaderAt
  <2> QED
    BY <1>2, <2>1, HeadersAssumption DEF Switches, HeadersAssumption
<1>6. ASSUME NEW i \in Text.switches
      PROVE  \E p \in Buttons : lines[p].tab = (i - 1) \div 24 /\ lines[p].n = ((i - 1) % 24) + 1
  <2>1. \E p \in Buttons : lines[p].n \in 1..24 /\ i = 24 * lines[p].tab + lines[p].n
    BY <1>2 DEF Switches
  <2>3. ASSUME NEW p \in Buttons, lines[p].n \in 1..24, i = 24 * lines[p].tab + lines[p].n
        PROVE  lines[p].tab = (i - 1) \div 24 /\ lines[p].n = ((i - 1) % 24) + 1
    <3>1. lines[p].tab \in 0..15
      BY <1>5
    <3> QED
      BY <2>3, <3>1, OwnPlace
  <2> QED
    BY <2>1, <2>3, Zenon
<1> QED
  BY <1>2, <1>4, <1>5, <1>6 DEF ElgIsRead, NamedLoads, RelayLoads

LEMMA TextRight == FileInv => ImportFitsFlow
<1> SUFFICES ASSUME FileInv PROVE ImportFitsFlow
  OBVIOUS
<1>1. CASE format = "elg"
  <2>1. ElgInv
    BY <1>1 DEF FileInv
  <2>2. /\ Text.loads = LoadsOf(lines) /\ LoadsOf(lines) \subseteq Nat
        /\ Text.named \subseteq LoadsOf(lines) /\ Text.relays \subseteq LoadsOf(lines)
        /\ Text.referenced = {lines[i].n : i \in SceneLines(lines)} \cup
                                 Assigns(lines, HeaderAt(lines))
        /\ Text.switches = Switches(lines, HeaderAt(lines))
    BY <2>1, TextOfElg DEF NamedLoads, RelayLoads
  <2>3. \A S, key : \A i \in Lines(lines, S, key) : lines[i].n \in Nat
    BY <2>1, LinesAssumption DEF Lines, HeaderAt, ElgInv, SectionRight, Files, LinesAssumption
  <2>4. Text.referenced \subseteq Int
    <3>1. \A i \in SceneLines(lines) : lines[i].n \in Nat
      BY <2>3 DEF SceneLines
    <3>2. ASSUME NEW p \in Active(lines) PROVE lines[Last(lines, {p}, "#")].n \in Nat
      <4>1. Lines(lines, {p}, "#") # {}
        BY DEF Active, Told
      <4>2. Last(lines, {p}, "#") \in Lines(lines, {p}, "#")
        BY <2>1, <4>1, LinesAreLines DEF ElgInv, SectionRight
      <4> QED
        BY <2>3, <4>2
    <3>3. {lines[i].n : i \in SceneLines(lines)} \subseteq Nat
      BY <3>1
    <3>4. Assigns(lines, HeaderAt(lines)) \subseteq Nat
      BY <3>2 DEF Assigns
    <3> QED
      BY <2>2, <3>3, <3>4
  <2>5. Text.switches \subseteq 1..384
    <3>1. \A p \in HeaderAt(lines) : lines[p].tab \in 0..15
      BY HeadersAssumption DEF HeaderAt, HeadersAssumption
    <3>2. \A p \in HeaderAt(lines) :
             lines[p].n \in 1..24 => 24 * lines[p].tab + lines[p].n \in 1..384
      BY <3>1
    <3>3. Switches(lines, HeaderAt(lines)) \subseteq 1..384
      <4> SUFFICES ASSUME NEW i \in Switches(lines, HeaderAt(lines)) PROVE i \in 1..384
        OBVIOUS
      <4>1. PICK p \in HeaderAt(lines) :
               lines[p].n \in 1..24 /\ i = 24 * lines[p].tab + lines[p].n
        BY Zenon DEF Switches
      <4> QED
        BY <3>2, <4>1
    <3> QED
      BY <2>2, <3>3
  <2>6. /\ Text.scenes \subseteq Int /\ Text.namedScenes \subseteq Text.scenes
        /\ Text.buttons = {} /\ Text.format = "elg"
    BY <1>1, <2>1 DEF ElgInv, Text
  <2> QED
    BY <1>1, <2>2, <2>4, <2>5, <2>6 DEF ImportFitsFlow, IsText
<1>2. CASE format = "jts"
  <2>1. JtsInv
    BY <1>2 DEF FileInv
  <2>2. section.kind = "none"
    BY <2>1 DEF JtsInv, NoSection
  <2>3. Text.switches = {} /\ Text.referenced = {}
    <3>1. Named(switches, section, name) = switches /\ Assigned(section, fields) = {}
      BY <2>2 DEF Named, Assigned
    <3>2. DOMAIN switches = {}
      BY <2>1 DEF JtsInv
    <3>3. Text.switches = DOMAIN Named(switches, section, name)
      BY DEF Text
    <3>4. Text.referenced = referenced \cup Assigned(section, fields)
      BY DEF Text
    <3> QED
      BY <2>1, <3>1, <3>2, <3>3, <3>4 DEF JtsInv
  <2>4. /\ \A n \in Text.loads \cup Text.scenes : n \in Int /\ n > 0
        /\ Text.named \subseteq Text.loads /\ Text.relays \subseteq Text.loads
        /\ Text.namedScenes \subseteq Text.scenes
        /\ Text.buttons \subseteq Text.loads \X (1..3) /\ Text.format = "jts"
    BY <1>2, <2>1 DEF JtsInv, Text
  <2> QED
    BY <2>3, <2>4 DEF ImportFitsFlow, IsText
<1> QED
  BY <1>1, <1>2 DEF FileInv

-----------------------------------------------------------------------------
\* What is taken from a .elg is what its sections say, whatever its lines are, and
\* wherever it ends (parse_elg, _referenced_load_ids, _named_switches).
THEOREM ExportsAreRead == FileSpec => []ElgIsRead
<1> QED
  BY FileInductive, ElgRight, PTL

\* The config flow can work with every export (parse_elg, parse_jts).
THEOREM ExportsFit == FileSpec => []ImportFitsFlow
<1> QED
  BY FileInductive, TextRight, PTL
=============================================================================
