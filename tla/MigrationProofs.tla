-------------------------- MODULE MigrationProofs --------------------------
(* For any registry, any entries and whatever they want: what the migration   *)
(* touches, what it leaves alone, and that it does not leave twins behind.    *)
EXTENDS Migration, TLAPS

\* The run has dealt with the row: it has no rule, or its new id is in use.
Settled(e, r) ==
    \/ Classify(r.uid) = "skip"
    \/ Renamed(r.uid) /\ Taken(r.domain, NewUid(e, Suffix(r.uid)))

\* What a run has taken off its list is settled, and stays so.
RunInv ==
    /\ \A e \in Entries :
           status[e] = "migrating" =>
               /\ todo \subseteq Candidates(e)
               /\ \A r \in Candidates(e) \ todo : Settled(e, r)
    /\ todo # {} => Busy
    /\ \A e, f \in Entries : status[e] = "migrating" /\ status[f] = "migrating" => e = f

IInv ==
    /\ TypeOK
    /\ OwnSystemOnly
    /\ OthersUntouched
    /\ OnlyScenesLost
    /\ RunInv
    /\ CompletedRunIsComplete
    /\ AdoptedNotDuplicated

-----------------------------------------------------------------------------
(* Rows.                                                                     *)

\* A row without an owner is as v1 left it.
LEMMA OrphanIsOriginal ==
    ASSUME TypeOK, NEW r \in registry, r.owner \notin Entries
    PROVE  r \in V1Rows /\ r.from = r.uid /\ r.uid \in V1Ids
<1>1. r \in V1Rows
  BY DEF TypeOK, Original, V2
<1> QED
  BY <1>1, RowsAssumption

\* What is handed over becomes a row of v2 that remembers where it is from.
LEMMA HandedIsV2 ==
    ASSUME NEW e \in Entries, NEW r \in V1Rows
    PROVE  /\ Handed(r, e).domain = r.domain /\ Handed(r, e).platform = Platform
           /\ Handed(r, e).uid = NewUid(e, Suffix(r.uid))
           /\ Handed(r, e).owner = e /\ Handed(r, e).from = r.uid
           /\ V2(Handed(r, e))
<1>1. r \in [domain : STRING, platform : STRING, uid : V1Ids,
             owner : V1Owners, from : V1Ids] /\ r.from = r.uid
  BY RowsAssumption
<1>2. /\ Handed(r, e).domain = r.domain /\ Handed(r, e).platform = Platform
      /\ Handed(r, e).uid = NewUid(e, Suffix(r.uid))
      /\ Handed(r, e).owner = e /\ Handed(r, e).from = r.uid
  BY <1>1 DEF Handed
<1>3. NewUid(e, Suffix(r.uid)).suffix = Suffix(r.uid) /\ r.uid \in V1Ids
  BY <1>1 DEF NewUid
<1> QED
  BY <1>2, <1>3 DEF V2

\* A candidate is an orphan of the system of the entry.
LEMMA CandidateIsOrphan ==
    ASSUME TypeOK, NEW e \in Entries, NEW r \in Candidates(e)
    PROVE  /\ r \in registry /\ r \in V1Rows /\ r.owner = Nobody
           /\ r.from = r.uid /\ r.uid \in V1Ids /\ r.uid.system = SystemOf[e]
<1>1. r \in registry /\ r.owner = Nobody /\ r.uid.system = SystemOf[e]
  BY DEF Candidates
<1>2. Nobody \notin Entries
  BY RowsAssumption DEF V1Owners
<1> QED
  BY <1>1, <1>2, OrphanIsOriginal

\* The ids of v2 are none of v1's, and differ where entry or suffix do.
LEMMA NewIds ==
    ASSUME NEW e, NEW s
    PROVE  /\ NewUid(e, s) \notin V1Ids
           /\ NewUid(e, s).entry = e /\ NewUid(e, s).suffix = s
<1>1. DOMAIN NewUid(e, s) = {"entry", "suffix"}
  BY DEF NewUid
<1>2. \A u \in V1Ids : "system" \in DOMAIN u
  BY IdsAssumption
<1> QED
  BY <1>1, <1>2 DEF NewUid

\* Who holds an id of v2 is a row of its entry.
LEMMA TakenByItsEntry ==
    ASSUME TypeOK, NEW e \in Entries, NEW s, NEW d, Taken(d, NewUid(e, s))
    PROVE  \E q \in registry : /\ q.domain = d /\ q.platform = Platform
                               /\ q.uid = NewUid(e, s) /\ q.owner = e
<1>1. PICK q \in registry : q.domain = d /\ q.platform = Platform /\ q.uid = NewUid(e, s)
  BY DEF Taken
<1>2. q \notin V1Rows
  BY <1>1, NewIds, RowsAssumption
<1>3. q.uid = NewUid(q.owner, q.uid.suffix)
  BY <1>2 DEF TypeOK, Original, V2
<1>4. q.owner = e
  BY <1>1, <1>3, NewIds
<1> QED
  BY <1>1, <1>4

\* A settled row stays settled while the rows of the entry stay.
LEMMA SettledStays ==
    ASSUME TypeOK, NEW e \in Entries, NEW r, Settled(e, r),
           \A q \in registry : q.owner = e => q \in registry'
    PROVE  Settled(e, r)'
<1>1. CASE Classify(r.uid) = "skip"
  BY <1>1 DEF Settled
<1>2. CASE Renamed(r.uid) /\ Taken(r.domain, NewUid(e, Suffix(r.uid)))
  <2>1. PICK q \in registry : /\ q.domain = r.domain /\ q.platform = Platform
                              /\ q.uid = NewUid(e, Suffix(r.uid)) /\ q.owner = e
    BY <1>2, TakenByItsEntry
  <2>2. q \in registry'
    BY <2>1
  <2>3. Taken(r.domain, NewUid(e, Suffix(r.uid)))'
    BY <2>1, <2>2 DEF Taken
  <2> QED
    BY <1>2, <2>3 DEF Settled
<1> QED
  BY <1>1, <1>2 DEF Settled

-----------------------------------------------------------------------------
(* What the steps do to the registry.                                        *)

\* The rows of an entry stay.
OwnedStay(e) == \A q \in registry : q.owner = e => q \in registry'
\* No row loses its owner or comes without one.
NoNewOrphans == \A q \in registry' : q.owner \notin Entries => q \in registry

\* The row at hand is an orphan of the system; it is removed, handed over, or stays.
LEMMA HandleRow ==
    ASSUME IInv, NEW e \in Entries, NEW r \in todo, Handle(e, r)
    PROVE  /\ r \in Candidates(e)
           /\ r \in registry /\ r \in V1Rows /\ r.owner = Nobody
           /\ r.from = r.uid /\ r.uid \in V1Ids /\ r.uid.system = SystemOf[e]
           /\ Nobody \notin Entries
           /\ \/ registry' = registry
              \/ registry' = registry \ {r} /\ Classify(r.uid) = "delete"
              \/ /\ registry' = (registry \ {r}) \cup {Handed(r, e)}
                 /\ Renamed(r.uid)
                 /\ ~Taken(r.domain, NewUid(e, Suffix(r.uid)))
<1>1. r \in Candidates(e)
  BY DEF IInv, RunInv, Handle
<1>2. /\ r \in registry /\ r \in V1Rows /\ r.owner = Nobody
      /\ r.from = r.uid /\ r.uid \in V1Ids /\ r.uid.system = SystemOf[e]
  BY <1>1, CandidateIsOrphan DEF IInv
<1>3. Nobody \notin Entries
  BY RowsAssumption DEF V1Owners
<1>4. \/ registry' = registry
      \/ registry' = registry \ {r} /\ Classify(r.uid) = "delete"
      \/ /\ registry' = (registry \ {r}) \cup {Handed(r, e)}
         /\ Renamed(r.uid)
         /\ ~Taken(r.domain, NewUid(e, Suffix(r.uid)))
  BY DEF Handle, Skip, Delete, Rename, RenameRaises, Move, MoveRefused, HandsOver, Refused
<1> QED
  BY <1>1, <1>2, <1>3, <1>4

\* A handled row takes no row of v2 with it, and leaves no new orphan.
LEMMA HandleKeeps ==
    ASSUME IInv, NEW e \in Entries, NEW r \in todo, Handle(e, r)
    PROVE  (\A f \in Entries : OwnedStay(f)) /\ NoNewOrphans
<1>1. r.owner = Nobody /\ Nobody \notin Entries /\ r \in V1Rows
  BY HandleRow
<1>2. Handed(r, e).owner = e
  BY <1>1, HandedIsV2
<1>3. /\ \A q \in registry : q # r => q \in registry'
      /\ \A q \in registry' : q \in registry \/ q = Handed(r, e)
  BY HandleRow
<1> QED
  BY <1>1, <1>2, <1>3 DEF OwnedStay, NoNewOrphans

\* The new rows of an entry.
LEMMA FreshRow ==
    ASSUME NEW e \in Entries, NEW q \in Fresh(e)
    PROVE  /\ q.platform = Platform /\ q.owner = e /\ q.from = Created
           /\ q.uid = NewUid(e, q.uid.suffix) /\ V2(q)
           /\ ~Taken(q.domain, q.uid)
           /\ q = [domain |-> q.domain, platform |-> Platform, uid |-> q.uid,
                   owner |-> e, from |-> Created]
<1>1. PICK w \in Wanted[e] :
          /\ ~Taken(w.domain, NewUid(e, w.suffix))
          /\ q = [domain |-> w.domain, platform |-> Platform,
                  uid |-> NewUid(e, w.suffix), owner |-> e, from |-> Created]
  BY DEF Fresh
<1>2. /\ q.domain = w.domain /\ q.platform = Platform /\ q.uid = NewUid(e, w.suffix)
      /\ q.owner = e /\ q.from = Created
  BY <1>1
<1>3. q.uid.suffix = w.suffix
  BY <1>2, NewIds
<1> QED
  BY <1>1, <1>2, <1>3 DEF V2

\* A connection adds rows of the entry only.
LEMMA ConnectedKeeps ==
    ASSUME IInv, NEW e \in Entries, Connected(e)
    PROVE  (\A f \in Entries : OwnedStay(f)) /\ NoNewOrphans
BY FreshRow DEF Connected, OwnedStay, NoNewOrphans

\* What a removal takes belongs to the entry.
LEMMA RemoveKeeps ==
    ASSUME IInv, NEW e \in Entries, Remove(e)
    PROVE  /\ \A f \in Entries \ {e} : OwnedStay(f)
           /\ NoNewOrphans
           /\ \A q \in registry : q.owner # e => q \in registry'
           /\ registry' \subseteq registry
BY DEF Remove, OwnedStay, NoNewOrphans

-----------------------------------------------------------------------------
(* The parts of the invariant, each preserved by every step.                 *)

LEMMA InitInv == Init => IInv
<1> SUFFICES ASSUME Init PROVE IInv
  OBVIOUS
<1>1. \A r \in V1Rows : r.uid \in V1Ids /\ r.from = r.uid /\ r.owner \notin Entries
  BY RowsAssumption
<1>2. TypeOK
  BY KeysAssumption DEF Init, TypeOK, UniqueKeys, Original, Statuses
<1>3. OwnSystemOnly /\ OthersUntouched /\ OnlyScenesLost
  BY <1>1 DEF Init, OwnSystemOnly, OthersUntouched, OnlyScenesLost
<1>4. RunInv /\ CompletedRunIsComplete
  BY DEF Init, RunInv, CompletedRunIsComplete
<1>5. AdoptedNotDuplicated
  BY <1>1, NamesAssumption DEF Init, AdoptedNotDuplicated
<1> QED
  BY <1>2, <1>3, <1>4, <1>5 DEF IInv

\* Every row is as v1 left it or of v2, and no two have the same key.
LEMMA RowsKept ==
    ASSUME IInv, Next
    PROVE  (\A q \in registry' : Original(q) \/ V2(q)) /\ UniqueKeys'
<1> DEFINE Good == (\A q \in registry' : Original(q) \/ V2(q)) /\ UniqueKeys'
<1>1. ASSUME registry' \subseteq registry PROVE Good
  BY <1>1 DEF IInv, TypeOK, UniqueKeys
<1>2. ASSUME NEW e \in Entries, NEW r \in todo, Handle(e, r) PROVE Good
  <2>1. CASE registry' \subseteq registry
    BY <2>1, <1>1
  <2>2. CASE /\ registry' = (registry \ {r}) \cup {Handed(r, e)}
             /\ ~Taken(r.domain, NewUid(e, Suffix(r.uid)))
    <3>1. /\ Handed(r, e).domain = r.domain /\ Handed(r, e).platform = Platform
          /\ Handed(r, e).uid = NewUid(e, Suffix(r.uid)) /\ V2(Handed(r, e))
      BY <1>2, HandleRow, HandedIsV2
    <3>2. \A q \in registry :
             ~(q.domain = r.domain /\ q.platform = Platform
                 /\ q.uid = NewUid(e, Suffix(r.uid)))
      BY <2>2 DEF Taken
    <3>3. UniqueKeys'
      BY <2>2, <3>1, <3>2 DEF IInv, TypeOK, UniqueKeys
    <3> QED
      BY <2>2, <3>1, <3>3 DEF IInv, TypeOK
  <2> QED
    BY <1>2, <2>1, <2>2, HandleRow
<1>3. ASSUME NEW e \in Entries, Connected(e) PROVE Good
  <2>1. registry' = registry \cup Fresh(e)
    BY <1>3 DEF Connected
  <2>2. \A q \in Fresh(e) : V2(q)
    BY FreshRow
  <2>3. ASSUME NEW q \in Fresh(e), NEW p \in registry, p.domain = q.domain,
               p.platform = q.platform, p.uid = q.uid
        PROVE  FALSE
    BY <2>3, FreshRow DEF Taken
  <2>4. ASSUME NEW q \in Fresh(e), NEW p \in Fresh(e), p.domain = q.domain, p.uid = q.uid
        PROVE  p = q
    <3>1. p = [domain |-> p.domain, platform |-> Platform, uid |-> p.uid,
               owner |-> e, from |-> Created]
      BY FreshRow
    <3>2. q = [domain |-> q.domain, platform |-> Platform, uid |-> q.uid,
               owner |-> e, from |-> Created]
      BY FreshRow
    <3> QED
      BY <2>4, <3>1, <3>2
  <2>5. UniqueKeys'
    BY <2>1, <2>3, <2>4 DEF IInv, TypeOK, UniqueKeys
  <2> QED
    BY <2>1, <2>2, <2>5 DEF IInv, TypeOK
<1>4. ASSUME NEW e \in Entries,
             SetUp(e) \/ Finish(e) \/ NotReady(e) \/ Unload(e) \/ Remove(e)
      PROVE  Good
  BY <1>1, <1>4 DEF SetUp, Finish, NotReady, Unload, Remove
<1> QED
  BY <1>2, <1>3, <1>4 DEF Next

LEMMA TypesKept ==
    ASSUME IInv, Next
    PROVE  TypeOK'
<1>1. (\A q \in registry' : Original(q) \/ V2(q)) /\ UniqueKeys'
  BY RowsKept
<1>2. ASSUME NEW e \in Entries, NEW r \in todo, Handle(e, r)
      PROVE  /\ restored' \subseteq V1Ids /\ status' \in [Entries -> Statuses]
             /\ todo' \subseteq registry'
             /\ log' \subseteq V1Ids /\ issue' \subseteq V1Ids
             /\ purged' \subseteq V1Ids
  <2>1. r.uid \in V1Ids
    BY <1>2, HandleRow
  <2> QED
    BY <1>2, <2>1
       DEF IInv, TypeOK, Handle, Skip, Delete, Rename, RenameRaises, Move, MoveRefused,
           HandsOver, Logs, DropsState, Statuses
<1>3. ASSUME NEW e \in Entries, Remove(e) PROVE purged' \subseteq V1Ids
  <2>1. \A r \in registry : r.from # Created => r.from \in V1Ids
    BY RowsAssumption DEF IInv, TypeOK, Original, V2
  <2> QED
    BY <1>3, <2>1 DEF Remove, IInv, TypeOK
<1>4. ASSUME NEW e \in Entries,
             \/ SetUp(e) \/ Finish(e) \/ NotReady(e) \/ Connected(e)
             \/ Unload(e) \/ Remove(e)
      PROVE  /\ restored' \subseteq V1Ids /\ status' \in [Entries -> Statuses]
             /\ log' \subseteq V1Ids /\ issue' \subseteq V1Ids
             /\ purged' \subseteq V1Ids
  BY <1>3, <1>4
     DEF IInv, TypeOK, SetUp, Finish, NotReady, Connected, Unload, Remove, Statuses
<1>5. ASSUME NEW e \in Entries,
             SetUp(e) \/ Finish(e) \/ NotReady(e) \/ Connected(e) \/ Unload(e)
      PROVE  todo' \subseteq registry'
  BY <1>5 DEF IInv, TypeOK, SetUp, Finish, NotReady, Connected, Unload, Candidates
<1>6. ASSUME NEW e \in Entries, Remove(e) PROVE todo' \subseteq registry'
  BY <1>6 DEF IInv, RunInv, Remove, Busy
<1> QED
  BY <1>1, <1>2, <1>4, <1>5, <1>6 DEF TypeOK, Next

LEMMA OwnSystemKept ==
    ASSUME IInv, Next
    PROVE  OwnSystemOnly'
<1>1. ASSUME NEW e \in Entries, NEW r \in todo, Handle(e, r) PROVE OwnSystemOnly'
  <2>1. Handed(r, e).owner = e /\ Handed(r, e).from = r.uid /\ r.uid.system = SystemOf[e]
    BY <1>1, HandleRow, HandedIsV2
  <2>2. \A q \in registry' : q \in registry \/ q = Handed(r, e)
    BY <1>1, HandleRow
  <2> QED
    BY <2>1, <2>2 DEF IInv, OwnSystemOnly
<1>2. ASSUME NEW e \in Entries, Connected(e) PROVE OwnSystemOnly'
  BY <1>2, FreshRow DEF IInv, OwnSystemOnly, Connected
<1>3. ASSUME NEW e \in Entries,
             SetUp(e) \/ Finish(e) \/ NotReady(e) \/ Unload(e) \/ Remove(e)
      PROVE  OwnSystemOnly'
  BY <1>3 DEF IInv, OwnSystemOnly, SetUp, Finish, NotReady, Unload, Remove
<1> QED
  BY <1>1, <1>2, <1>3 DEF Next

LEMMA OthersKept ==
    ASSUME IInv, Next
    PROVE  OthersUntouched'
<1>1. ASSUME NEW e \in Entries, NEW r \in todo, Handle(e, r) PROVE OthersUntouched'
  <2>1. /\ r.owner = Nobody /\ r.uid.system = SystemOf[e]
        /\ \/ registry \subseteq registry'
           \/ registry \ {r} \subseteq registry' /\ Classify(r.uid) # "skip"
    BY <1>1, HandleRow DEF Renamed
  <2> QED
    BY <2>1 DEF IInv, OthersUntouched
<1>2. ASSUME NEW e \in Entries, Remove(e) PROVE OthersUntouched'
  <2>1. \A q \in V1Rows : q.owner # e
    BY RowsAssumption
  <2> QED
    BY <1>2, <2>1 DEF IInv, OthersUntouched, Remove
<1>3. ASSUME NEW e \in Entries,
             SetUp(e) \/ Finish(e) \/ NotReady(e) \/ Connected(e) \/ Unload(e)
      PROVE  OthersUntouched'
  BY <1>3 DEF IInv, OthersUntouched, SetUp, Finish, NotReady, Connected, Unload
<1> QED
  BY <1>1, <1>2, <1>3 DEF Next

LEMMA ScenesKept ==
    ASSUME IInv, Next
    PROVE  OnlyScenesLost'
<1> SUFFICES ASSUME NEW r \in V1Rows, Classify(r.uid) # "delete", r.uid \notin purged'
             PROVE  \E q \in registry' : q.from = r.uid /\ q.domain = r.domain
  BY DEF OnlyScenesLost
<1>1. purged \subseteq purged'
  BY DEF Next, SetUp, Finish, NotReady, Connected, Unload, Remove, Handle, Skip, Delete,
         Rename, RenameRaises, Move, MoveRefused, HandsOver
<1>2. PICK q \in registry : q.from = r.uid /\ q.domain = r.domain
  BY <1>1 DEF IInv, OnlyScenesLost
<1>3. ASSUME NEW e \in Entries, NEW p \in todo, Handle(e, p)
      PROVE  \E x \in registry' : x.from = r.uid /\ x.domain = r.domain
  <2>1. CASE q \in registry'
    BY <1>2, <2>1
  <2>2. CASE q \notin registry'
    <3>1. q = p /\ p.from = p.uid
      BY <1>3, <2>2, HandleRow
    <3>2. registry' = (registry \ {p}) \cup {Handed(p, e)}
      BY <1>2, <1>3, <2>2, <3>1, HandleRow
    <3>3. Handed(p, e).from = p.uid /\ Handed(p, e).domain = p.domain
      BY <1>3, HandleRow, HandedIsV2
    <3> QED
      BY <1>2, <3>1, <3>2, <3>3
  <2> QED
    BY <2>1, <2>2
<1>4. ASSUME NEW e \in Entries, Remove(e)
      PROVE  q \in registry'
  <2>1. r.uid # Created
    BY NamesAssumption DEF V1Ids
  <2> QED
    BY <1>2, <1>4, <2>1 DEF Remove
<1>5. ASSUME NEW e \in Entries,
             SetUp(e) \/ Finish(e) \/ NotReady(e) \/ Connected(e) \/ Unload(e)
      PROVE  q \in registry'
  BY <1>5 DEF SetUp, Finish, NotReady, Connected, Unload
<1> QED
  BY <1>2, <1>3, <1>4, <1>5 DEF Next

\* Candidates of a step were candidates before, and those settled stay so.
LEMMA CandidatesShrink ==
    ASSUME IInv, NEW e \in Entries, OwnedStay(e), NoNewOrphans
    PROVE  /\ Candidates(e)' \subseteq Candidates(e)
           /\ \A r : Settled(e, r) => Settled(e, r)'
<1>1. Nobody \notin Entries
  BY RowsAssumption DEF V1Owners
<1>2. Candidates(e)' \subseteq Candidates(e)
  BY <1>1 DEF Candidates, NoNewOrphans
<1>3. ASSUME NEW r, Settled(e, r) PROVE Settled(e, r)'
  BY <1>3, SettledStays DEF IInv, OwnedStay
<1> QED
  BY <1>2, <1>3

LEMMA RunKept ==
    ASSUME IInv, Next
    PROVE  RunInv'
<1> DEFINE Progress(e) == /\ todo \subseteq Candidates(e)
                          /\ \A r \in Candidates(e) \ todo : Settled(e, r)
<1>1. ASSUME NEW e \in Entries, SetUp(e) PROVE RunInv'
  <2>1. /\ todo' = Candidates(e) /\ registry' = registry
        /\ \A f \in Entries : status'[f] = "migrating" <=> f = e
    BY <1>1 DEF SetUp, Busy, IInv, TypeOK
  <2>2. Candidates(e)' = Candidates(e)
    BY <2>1 DEF Candidates
  <2> QED
    BY <2>1, <2>2 DEF RunInv, Busy
<1>2. ASSUME NEW e \in Entries, NEW r \in todo, Handle(e, r) PROVE RunInv'
  <2>1. /\ status[e] = "migrating" /\ Progress(e) /\ r \in Candidates(e)
        /\ \A f \in Entries : status[f] = "migrating" => f = e
    BY <1>2 DEF IInv, RunInv, Handle
  <2>2. CASE RenameRaises(e, r)
    <3>1. todo' = {} /\ \A f \in Entries : status'[f] # "migrating"
      BY <2>1, <2>2 DEF RenameRaises, IInv, TypeOK
    <3> QED
      BY <3>1 DEF RunInv
  <2>3. CASE ~RenameRaises(e, r)
    <3>1. status' = status /\ todo' = todo \ {r}
      BY <1>2, <2>3
         DEF Handle, Skip, Delete, Rename, Move, MoveRefused, HandsOver, Logs
    <3>2. /\ Candidates(e)' \subseteq Candidates(e)
          /\ \A q : Settled(e, q) => Settled(e, q)'
      BY <1>2, HandleKeeps, CandidatesShrink
    <3>3. r \in Candidates(e)' => Settled(e, r)'
      <4>1. CASE Skip(e, r) \/ MoveRefused(e, r)
        <5>1. Settled(e, r)
          BY <4>1 DEF Skip, MoveRefused, Refused, DropsState, Settled
        <5> QED
          BY <3>2, <5>1
      <4>2. CASE Delete(e, r) \/ Rename(e, r) \/ Move(e, r)
        <5>1. r.owner = Nobody /\ Nobody \notin Entries /\ r \in V1Rows
          BY <1>2, HandleRow
        <5>2. Handed(r, e).owner = e
          BY <5>1, HandedIsV2
        <5>3. r \notin registry'
          BY <4>2, <5>1, <5>2 DEF Delete, Rename, Move, HandsOver
        <5> QED
          BY <5>3 DEF Candidates
      <4> QED
        BY <1>2, <2>3, <4>1, <4>2 DEF Handle
    <3>4. todo' \subseteq Candidates(e)'
      <4>1. todo' \subseteq registry'
        BY <1>2, TypesKept DEF Next, TypeOK
      <4> QED
        BY <2>1, <3>1, <4>1 DEF Candidates
    <3>5. \A q \in Candidates(e)' \ todo' : Settled(e, q)'
      BY <2>1, <3>1, <3>2, <3>3
    <3>6. Busy' /\ \A f \in Entries : status'[f] = "migrating" => f = e
      BY <2>1, <3>1 DEF Busy
    <3>7. \A f \in Entries : status'[f] = "migrating" =>
             /\ todo' \subseteq Candidates(f)'
             /\ \A q \in Candidates(f)' \ todo' : Settled(f, q)'
      BY <3>4, <3>5, <3>6
    <3> QED
      BY <3>6, <3>7 DEF RunInv
  <2> QED
    BY <2>2, <2>3
<1>3. ASSUME NEW e \in Entries, Finish(e) PROVE RunInv'
  <2>1. todo' = {} /\ \A f \in Entries : status'[f] # "migrating"
    BY <1>3 DEF Finish, IInv, RunInv, TypeOK
  <2> QED
    BY <2>1 DEF RunInv
<1>4. ASSUME NEW e \in Entries,
             NotReady(e) \/ Connected(e) \/ Unload(e) \/ Remove(e)
      PROVE  RunInv'
  <2>1. todo' = todo /\ ~Busy /\ \A f \in Entries : status'[f] # "migrating"
    BY <1>4 DEF NotReady, Connected, Unload, Remove, Busy, IInv, TypeOK
  <2> QED
    BY <2>1 DEF RunInv, IInv
<1> QED
  BY <1>1, <1>2, <1>3, <1>4 DEF Next

LEMMA CompletedKept ==
    ASSUME IInv, Next
    PROVE  CompletedRunIsComplete'
<1> SUFFICES ASSUME NEW f \in Entries, status'[f] \in {"connecting", "loaded"},
                    NEW r \in Candidates(f)'
             PROVE  Settled(f, r)'
  BY DEF CompletedRunIsComplete, Settled
<1>1. ASSUME OwnedStay(f), NoNewOrphans, status[f] \in {"connecting", "loaded"}
      PROVE  Settled(f, r)'
  <2>1. r \in Candidates(f)
    BY <1>1, CandidatesShrink
  <2>2. Settled(f, r)
    BY <1>1, <2>1 DEF IInv, CompletedRunIsComplete, Settled
  <2> QED
    BY <1>1, <2>2, CandidatesShrink
<1>2. ASSUME NEW e \in Entries, NEW p \in todo, Handle(e, p) PROVE Settled(f, r)'
  <2>1. status[f] \in {"connecting", "loaded"}
    BY <1>2 DEF Handle, Skip, Delete, Rename, RenameRaises, Move, MoveRefused, HandsOver,
                IInv, TypeOK
  <2> QED
    BY <1>1, <1>2, <2>1, HandleKeeps
<1>3. ASSUME NEW e \in Entries, Finish(e) PROVE Settled(f, r)'
  <2>1. OwnedStay(f) /\ NoNewOrphans
    BY <1>3 DEF Finish, OwnedStay, NoNewOrphans
  <2>2. CASE f = e
    <3>1. status[e] = "migrating" /\ todo = {}
      BY <1>3 DEF Finish
    <3>2. \A q \in Candidates(e) : Settled(e, q)
      BY <3>1 DEF IInv, RunInv
    <3> QED
      BY <2>1, <2>2, <3>2, CandidatesShrink
  <2>3. CASE f # e
    BY <1>1, <1>3, <2>1, <2>3 DEF Finish, IInv, TypeOK
  <2> QED
    BY <2>2, <2>3
<1>4. ASSUME NEW e \in Entries, Connected(e) PROVE Settled(f, r)'
  <2>1. status[f] \in {"connecting", "loaded"}
    BY <1>4 DEF Connected, IInv, TypeOK
  <2> QED
    BY <1>1, <1>4, <2>1, ConnectedKeeps
<1>5. ASSUME NEW e \in Entries, Remove(e) PROVE Settled(f, r)'
  <2>1. f # e /\ status[f] \in {"connecting", "loaded"}
    BY <1>5 DEF Remove, IInv, TypeOK
  <2> QED
    BY <1>1, <1>5, <2>1, RemoveKeeps
<1>6. ASSUME NEW e \in Entries, SetUp(e) \/ NotReady(e) \/ Unload(e)
      PROVE  Settled(f, r)'
  <2>1. /\ OwnedStay(f) /\ NoNewOrphans
        /\ status[f] \in {"connecting", "loaded"}
    BY <1>6 DEF SetUp, NotReady, Unload, OwnedStay, NoNewOrphans, IInv, TypeOK
  <2> QED
    BY <1>1, <2>1
<1> QED
  BY <1>2, <1>3, <1>4, <1>5, <1>6 DEF Next

\* What must not be: `q` was made for what the row `r` of v1 stands for.
Twins(q, r) ==
    /\ q.from = Created
    /\ r.from # Created /\ Renamed(r.from)
    /\ r.owner \in {Nobody, q.owner}
    /\ r.domain = q.domain
    /\ r.from.system = SystemOf[q.owner]
    /\ q.uid = NewUid(q.owner, Suffix(r.from))

\* A row that v2 made is one of v2.
LEMMA CreatedIsV2 ==
    ASSUME TypeOK, NEW q \in registry, q.from = Created
    PROVE  q.owner \in Entries /\ q.platform = Platform
<1>1. q \notin V1Rows
  BY RowsAssumption, NamesAssumption
<1> QED
  BY <1>1 DEF TypeOK, Original, V2

LEMMA TwinsKept ==
    ASSUME IInv, Next
    PROVE  AdoptedNotDuplicated'
<1> SUFFICES ASSUME NEW q \in registry', NEW r \in registry', Twins(q, r) PROVE FALSE
  BY DEF AdoptedNotDuplicated, Twins
<1>1. ~(q \in registry /\ r \in registry)
  BY DEF IInv, AdoptedNotDuplicated, Twins
<1>2. ASSUME NEW e \in Entries, NEW p \in todo, Handle(e, p) PROVE FALSE
  <2>1. /\ Handed(p, e).domain = p.domain /\ Handed(p, e).owner = e
        /\ Handed(p, e).from = p.uid /\ p.uid \in V1Ids /\ Nobody \notin Entries
    BY <1>2, HandleRow, HandedIsV2
  <2>2. p.uid # Created
    BY <2>1, NamesAssumption
  <2>3. /\ q \in registry /\ r = Handed(p, e)
        /\ ~Taken(p.domain, NewUid(e, Suffix(p.uid)))
    BY <1>1, <1>2, <2>1, <2>2, HandleRow DEF Twins
  <2>4. q.platform = Platform /\ q.owner = e
    BY <2>1, <2>3, CreatedIsV2 DEF IInv, Twins
  <2> QED
    BY <2>1, <2>3, <2>4 DEF Twins, Taken
<1>3. ASSUME NEW e \in Entries, Connected(e) PROVE FALSE
  <2>1. registry' = registry \cup Fresh(e) /\ status[e] = "connecting"
    BY <1>3 DEF Connected
  <2>2. r \in registry /\ q \in Fresh(e)
    BY <1>1, <2>1, FreshRow DEF Twins
  <2>3. q.owner = e /\ ~Taken(r.domain, NewUid(e, Suffix(r.from)))
    BY <2>2, FreshRow DEF Twins
  <2>4. CASE r.owner = Nobody
    <3>1. r.from = r.uid
      BY <2>2, <2>4, OrphanIsOriginal, RowsAssumption DEF IInv, V1Owners
    <3>2. r \in Candidates(e)
      BY <2>2, <2>3, <2>4, <3>1 DEF Candidates, Twins
    <3> QED
      BY <2>1, <2>3, <3>1, <3>2 DEF IInv, CompletedRunIsComplete, Twins, Renamed
  <2>5. CASE r.owner = e
    <3>1. r \notin V1Rows
      BY <2>5, RowsAssumption
    <3>2. r.platform = Platform /\ r.uid = NewUid(e, Suffix(r.from))
      BY <2>2, <2>5, <3>1 DEF IInv, TypeOK, Original, V2, Twins
    <3> QED
      BY <2>2, <2>3, <3>2 DEF Taken
  <2> QED
    BY <2>3, <2>4, <2>5 DEF Twins
<1>4. ASSUME NEW e \in Entries,
             SetUp(e) \/ Finish(e) \/ NotReady(e) \/ Unload(e) \/ Remove(e)
      PROVE  FALSE
  BY <1>1, <1>4 DEF SetUp, Finish, NotReady, Unload, Remove
<1> QED
  BY <1>2, <1>3, <1>4 DEF Next

-----------------------------------------------------------------------------
(* The theorems.                                                             *)

\* The invariant holds of every behaviour of the migration.
THEOREM Invariant == Spec => []IInv
<1>1. IInv /\ [Next]_vars => IInv'
  <2> SUFFICES ASSUME IInv, [Next]_vars PROVE IInv'
    OBVIOUS
  <2>1. CASE Next
    BY <2>1, TypesKept, OwnSystemKept, OthersKept, ScenesKept, RunKept, CompletedKept,
       TwinsKept DEF IInv
  <2>2. CASE UNCHANGED vars
    BY <2>2 DEF vars, IInv, TypeOK, UniqueKeys, OwnSystemOnly, OthersUntouched,
                OnlyScenesLost, RunInv, CompletedRunIsComplete, AdoptedNotDuplicated,
                Settled, Candidates, Busy, Taken
  <2> QED
    BY <2>1, <2>2
<1> QED
  BY InitInv, <1>1, PTL DEF Spec

\* The registry holds v1's rows and rows of v2 entries, with unique keys.
THEOREM TypeCorrect == Spec => []TypeOK
<1>1. IInv => TypeOK
  BY DEF IInv
<1> QED
  BY Invariant, <1>1, PTL

\* No entry adopts the entities of another system.
THEOREM SystemsStayApart == Spec => []OwnSystemOnly
<1>1. IInv => OwnSystemOnly
  BY DEF IInv
<1> QED
  BY Invariant, <1>1, PTL

\* What is owned, unknown or of no system of v2 stays as it is.
THEOREM RestIsUntouched == Spec => []OthersUntouched
<1>1. IInv => OthersUntouched
  BY DEF IInv
<1> QED
  BY Invariant, <1>1, PTL

\* Only scenes, and what goes with a deleted entry, are lost.
THEOREM RowsSurvive == Spec => []OnlyScenesLost
<1>1. IInv => OnlyScenesLost
  BY DEF IInv
<1> QED
  BY Invariant, <1>1, PTL

\* No entity of v1 has a twin that v2 made.
THEOREM NoTwins == Spec => []AdoptedNotDuplicated
<1>1. IInv => AdoptedNotDuplicated
  BY DEF IInv
<1> QED
  BY Invariant, <1>1, PTL

\* A completed run leaves nothing to a second one.
THEOREM RunsAreComplete == Spec => []CompletedRunIsComplete
<1>1. IInv => CompletedRunIsComplete
  BY DEF IInv
<1> QED
  BY Invariant, <1>1, PTL

=============================================================================
