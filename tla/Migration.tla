----------------------------- MODULE Migration -----------------------------
(* The one-time move of v1 entities to their v2 entry (migrate.py), between   *)
(* the start of a set-up and the connection to the bridge (__init__.py).      *)
(*                                                                            *)
(* A run of async_migrate_entries awaits nothing: nothing overtakes it, but   *)
(* an exception can end it in the middle. The entity registry is external:    *)
(* a set of rows with unique (domain, platform, unique id).                   *)
EXTENDS Naturals

CONSTANTS
    Entries,    \* config entries of v2
    SystemOf,   \* their systems
    Wanted,     \* what each makes entities of: [domain, suffix]
    V1Rows,     \* the registry before v2
    Nobody,     \* no config entry
    Created     \* the origin of a row that v2 made

(* A v1 unique id is [system, tag, idx, form]: "elegance.L001" is             *)
(* system "elegance", tag "L", idx 1; its form is its case and padding.       *)
V1Ids == {r.uid : r \in V1Rows}
V1Owners == {r.owner : r \in V1Rows} \cup {Nobody}

ASSUME RowsAssumption ==
    /\ V1Rows \subseteq [domain : STRING, platform : STRING, uid : V1Ids,
                         owner : V1Owners, from : V1Ids]
    /\ \A r \in V1Rows : r.from = r.uid
    /\ V1Owners \cap Entries = {}
ASSUME IdsAssumption ==
    V1Ids \subseteq [system : STRING, tag : STRING, idx : Nat, form : STRING]
ASSUME KeysAssumption ==
    \A r, q \in V1Rows :
        r.domain = q.domain /\ r.platform = q.platform /\ r.uid = q.uid => r = q
ASSUME NamesAssumption == Created \notin V1Ids

VARIABLES
    registry,   \* external: the entity registry
    restored,   \* external: v1 ids with an "unavailable" state of their own
    status,     \* where the set-up of each entry is
    todo,       \* the candidates a run has yet to handle
    log,        \* the v1 ids the run renamed or removed
    issue,      \* external: the v1 ids the Repairs issue lists
    purged      \* ghost: v1 ids whose row went with its entry

vars == <<registry, restored, status, todo, log, issue, purged>>

Platform == "centralite"    \* const.DOMAIN

Rules ==
    [elegance  |-> [L |-> "load", SW |-> "switch", scene |-> "delete",
                    sceneON |-> "delete", sceneOFF |-> "delete"],
     jetstream |-> [JSL |-> "load", JSSW |-> "button", SW |-> "switch",
                    scene |-> "delete", sceneON |-> "delete", sceneOFF |-> "delete"]]

\* What becomes of a v1 id: the kind of its new id, "delete" or "skip".
Classify(u) ==
    IF u.system \in DOMAIN Rules /\ u.tag \in DOMAIN Rules[u.system]
    THEN Rules[u.system][u.tag]
    ELSE "skip"

Suffix(u) == <<Classify(u), u.idx>>
NewUid(e, suffix) == [entry |-> e, suffix |-> suffix]

Taken(domain, uid) ==
    \E q \in registry : q.domain = domain /\ q.platform = Platform /\ q.uid = uid

Statuses == {"idle", "migrating", "connecting", "loaded", "failed", "removed"}

\* A row is as v1 left it, or belongs to a v2 entry, whose id its own id bears.
Original(r) == r \in V1Rows
V2(r) ==
    /\ r.owner \in Entries
    /\ r.platform = Platform
    /\ r.uid = NewUid(r.owner, r.uid.suffix)
    /\ r.from # Created => r.from \in V1Ids /\ r.uid.suffix = Suffix(r.from)

UniqueKeys ==
    \A r, q \in registry :
        r.domain = q.domain /\ r.platform = q.platform /\ r.uid = q.uid => r = q

TypeOK ==
    /\ \A r \in registry : Original(r) \/ V2(r)
    /\ UniqueKeys
    /\ restored \subseteq V1Ids
    /\ status \in [Entries -> Statuses]
    /\ todo \subseteq registry
    /\ log \subseteq V1Ids /\ issue \subseteq V1Ids
    /\ purged \subseteq V1Ids

\* A cold boot has no states yet; once it runs, every orphan has one.
Init ==
    /\ registry = V1Rows
    /\ restored \in {{}, V1Ids}
    /\ status = [e \in Entries |-> "idle"]
    /\ todo = {} /\ log = {} /\ issue = {} /\ purged = {}

-----------------------------------------------------------------------------
Busy == \E e \in Entries : status[e] = "migrating"

\* mutant: without the system prefix
CandidatesOfAny(e) == {r \in registry : r.owner = Nobody}
\* mutant: without the test for an owner
CandidatesOwned(e) ==
    {r \in registry : r.owner \notin Entries /\ r.uid.system = SystemOf[e]}
\* mutant: only what already is on the platform of v2
CandidatesOfPlatform(e) ==
    {r \in registry :
        r.owner = Nobody /\ r.platform = Platform /\ r.uid.system = SystemOf[e]}

Candidates(e) == {r \in registry : r.owner = Nobody /\ r.uid.system = SystemOf[e]}

SetUp(e) ==
    /\ ~Busy
    /\ status[e] \in {"idle", "failed"}
    /\ status' = [status EXCEPT ![e] = "migrating"]
    /\ todo' = Candidates(e)
    /\ log' = {}
    /\ UNCHANGED <<registry, restored, issue, purged>>

Skip(e, r) ==
    /\ Classify(r.uid) = "skip"
    /\ todo' = todo \ {r}
    /\ UNCHANGED <<registry, restored, status, log, issue, purged>>

Logs(r) ==
    /\ log' = log \cup {r.uid}
    /\ todo' = todo \ {r}

Delete(e, r) ==
    /\ Classify(r.uid) = "delete"
    /\ registry' = registry \ {r}
    /\ Logs(r)
    /\ UNCHANGED <<restored, status, issue, purged>>

Renamed(u) == Classify(u) \notin {"skip", "delete"}

Handed(r, e) ==
    [r EXCEPT !.uid = NewUid(e, Suffix(r.uid)), !.owner = e, !.platform = Platform]

HandsOver(e, r) ==
    /\ registry' = (registry \ {r}) \cup {Handed(r, e)}
    /\ Logs(r)
    /\ UNCHANGED <<status, issue, purged>>

\* async_update_entity of a row that is on the platform of v2.
Rename(e, r) ==
    /\ Renamed(r.uid) /\ r.platform = Platform
    /\ ~Taken(r.domain, NewUid(e, Suffix(r.uid)))
    /\ HandsOver(e, r)
    /\ UNCHANGED restored

\* ... raises when its new id exists; the run and the set-up end there.
RenameRaises(e, r) ==
    /\ Renamed(r.uid) /\ r.platform = Platform
    /\ Taken(r.domain, NewUid(e, Suffix(r.uid)))
    /\ status' = [status EXCEPT ![e] = "failed"]
    /\ todo' = {}
    /\ log' = {}
    /\ UNCHANGED <<registry, restored, issue, purged>>

\* mutant: the placeholder stays
KeepsState(r) == restored

\* The restored placeholder of the row is removed.
DropsState(r) == restored \ {r.uid}

\* async_update_entity_platform of a row of another platform: it refuses rows
\* that have a state and ids that exist.
Refused(e, r) ==
    r.uid \in DropsState(r) \/ Taken(r.domain, NewUid(e, Suffix(r.uid)))

Move(e, r) ==
    /\ Renamed(r.uid) /\ r.platform # Platform
    /\ ~Refused(e, r)
    /\ HandsOver(e, r)
    /\ restored' = DropsState(r)

\* mutant: the row is removed to be made anew, and then is not
MoveRefusedRemoves(e, r) ==
    /\ Renamed(r.uid) /\ r.platform # Platform
    /\ Refused(e, r)
    /\ restored' = DropsState(r)
    /\ todo' = todo \ {r}
    /\ registry' = registry \ {r}
    /\ UNCHANGED <<status, log, issue, purged>>

MoveRefused(e, r) ==
    /\ Renamed(r.uid) /\ r.platform # Platform
    /\ Refused(e, r)
    /\ restored' = DropsState(r)
    /\ todo' = todo \ {r}
    /\ UNCHANGED <<registry, status, log, issue, purged>>

\* The Repairs issue has one id for all entries: a new one replaces the last.
Finish(e) ==
    /\ status[e] = "migrating" /\ todo = {}
    /\ issue' = IF log = {} THEN issue ELSE log
    /\ log' = {}
    /\ status' = [status EXCEPT ![e] = "connecting"]
    /\ UNCHANGED <<registry, restored, todo, purged>>

-----------------------------------------------------------------------------
\* async_init raises: ConfigEntryNotReady, which Home Assistant retries.
NotReady(e) ==
    /\ ~Busy
    /\ status[e] = "connecting"
    /\ status' = [status EXCEPT ![e] = "idle"]
    /\ UNCHANGED <<registry, restored, todo, log, issue, purged>>

\* The platforms add their entities: each adopts the row of its id, or gets one.
Fresh(e) ==
    {[domain |-> w.domain, platform |-> Platform, uid |-> NewUid(e, w.suffix),
      owner |-> e, from |-> Created] :
        w \in {v \in Wanted[e] : ~Taken(v.domain, NewUid(e, v.suffix))}}

Connected(e) ==
    /\ ~Busy
    /\ status[e] = "connecting"
    /\ status' = [status EXCEPT ![e] = "loaded"]
    /\ registry' = registry \cup Fresh(e)
    /\ UNCHANGED <<restored, todo, log, issue, purged>>

Unload(e) ==
    /\ ~Busy
    /\ status[e] = "loaded"
    /\ status' = [status EXCEPT ![e] = "idle"]
    /\ UNCHANGED <<registry, restored, todo, log, issue, purged>>

\* External: an entry that is deleted takes its rows with it.
Remove(e) ==
    /\ ~Busy
    /\ status[e] \in {"idle", "failed"}
    /\ status' = [status EXCEPT ![e] = "removed"]
    /\ registry' = {r \in registry : r.owner # e}
    /\ purged' = purged \cup ({r.from : r \in registry \ registry'} \ {Created})
    /\ UNCHANGED <<restored, todo, log, issue>>

Handle(e, r) ==
    /\ status[e] = "migrating"
    /\ \/ Skip(e, r) \/ Delete(e, r) \/ Rename(e, r) \/ RenameRaises(e, r)
       \/ Move(e, r) \/ MoveRefused(e, r)

Next ==
    \E e \in Entries :
        \/ SetUp(e) \/ Finish(e) \/ NotReady(e) \/ Connected(e) \/ Unload(e)
        \/ Remove(e)
        \/ \E r \in todo : Handle(e, r)

Spec == Init /\ [][Next]_vars

-----------------------------------------------------------------------------
\* An entry adopts v1 entities of its own system only, whatever others there
\* are and in which order they are set up (the prefix in async_migrate_entries).
OwnSystemOnly ==
    \A r \in registry :
        r.owner \in Entries /\ r.from # Created => r.from.system = SystemOf[r.owner]

\* Rows that have an owner, that no rule knows, or that are of no system of v2
\* are never changed (the filter of the candidates and the skip in the loop).
\* Among those with an owner are the rows of a v1 entry that was left in place,
\* which the documents have adopted (LeftInPlaceIsConsumed).
OthersUntouched ==
    \A r \in V1Rows :
        \/ r.owner # Nobody
        \/ Classify(r.uid) = "skip"
        \/ \A e \in Entries : SystemOf[e] # r.uid.system
        => r \in registry

\* An entity that is not a scene keeps its row, and so its customizations,
\* through runs that end in an exception, retries and reloads; only deleting
\* its entry takes it away.
OnlyScenesLost ==
    \A r \in V1Rows :
        \/ Classify(r.uid) = "delete"
        \/ r.uid \in purged
        \/ \E q \in registry : q.from = r.uid /\ q.domain = r.domain

\* v2 never makes a second row for an entity of v1 whose row it could have had
\* (the move of the platform, the removal of the restored state).
AdoptedNotDuplicated ==
    \A q, r \in registry :
        /\ q.from = Created
        /\ r.from # Created /\ Renamed(r.from)
        /\ r.owner \in {Nobody, q.owner}
        /\ r.domain = q.domain
        /\ r.from.system = SystemOf[q.owner]
        => q.uid # NewUid(q.owner, Suffix(r.from))

\* A run that came to its end leaves nothing for a second one to do: what is
\* still an orphan has no rule, or its new id is in use. (This is what
\* "idempotent" means for async_migrate_entries.)
CompletedRunIsComplete ==
    \A e \in Entries :
        status[e] \in {"connecting", "loaded"} =>
            \A r \in Candidates(e) :
                \/ Classify(r.uid) = "skip"
                \/ Renamed(r.uid) /\ Taken(r.domain, NewUid(e, Suffix(r.uid)))

(* What the documents say and the code does not keep.                         *)

\* docs/UPGRADE_TESTING.md, of a v1 with a config entry: "Removing only the code
\* leaves the entities orphaned in the registry - which is what migration
\* consumes." A run of their system leaves none of them behind that it could rename
\* or delete, whether or not the row still names its v1 entry. (The candidates of
\* async_migrate_entries are the rows without a config entry.)
LeftInPlaceIsConsumed ==
    \A e \in Entries, r \in registry :
        /\ status[e] \in {"connecting", "loaded"}
        /\ r.owner \notin Entries /\ r.uid.system = SystemOf[e]
        => \/ Classify(r.uid) = "skip"
           \/ Renamed(r.uid) /\ Taken(r.domain, NewUid(e, Suffix(r.uid)))
=============================================================================
