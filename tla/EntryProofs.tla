----------------------------- MODULE EntryProofs -----------------------------
(* What holds of an entry for any number of coordinators that are not yet     *)
(* gone, any options and any reloads. HolderLetsGo is not inductive: that     *)
(* whoever is not in charge was told to stop, or never started, rests on how  *)
(* far the entry was when its coordinator was replaced (InCharge).            *)
EXTENDS EntryLifecycle, TLAPS

\* What a use of the port keeps to: a coordinator about to open it has no transport,
\* and one that was told to shut down has an open one only until its attempt ends.
Sound(u) ==
    /\ u \in Port!Uses
    /\ u.work \in {"opening", "failed"} => u.wire = "none"
    /\ u.work = "clearing" => u.wire = "closing"
    /\ u.told /\ u.wire = "up" => u.work = "priming"
    /\ u.wire = "closing" => u.told \/ u.work = "clearing"

\* Its coordinator was told to stop, or never connected.
Left(u) == u.told \/ u.work = "failed"
\* It is in the connect() of its set-up, or in that of an attempt.
Connects(u) == u.work = "opening"

InCharge ==
    /\ \A c \in Coords : Sound(uses[c])
    /\ \A c \in Coords \ {current} : Left(uses[c])
    /\ entry \in {"idle", "retry", "closing"} => Left(uses[current])
    /\ entry = "opening" => Connects(uses[current])

\* The listener is there while the entry is loaded, and what entities missed is
\* only what was saved before.
Listened ==
    /\ entry = "loaded" => heard
    /\ entry = "built" => built = options \/ missed
    /\ OptionsInForce

IInv == TypeOK /\ InCharge /\ Listened

-----------------------------------------------------------------------------
(* One coordinator.                                                          *)

\* What one use becomes by what its coordinator does.
Moves(u) ==
    UNION {Port!Opens(u), Port!Fails(u) \cap {[u EXCEPT !.work = "idle"]}, Port!Primed(u),
           Port!Retries(u), Port!Closed(u), Port!Told(u), Port!Dropped(u)}

\* Nothing that a coordinator does makes its use of the port unsound, and one
\* that was told to stop remains so.
LEMMA MovesSound ==
    ASSUME NEW u, Sound(u), NEW v \in Moves(u)
    PROVE  Sound(v) /\ (u.told => v.told)
<1> USE DEF Sound, Port!Uses
<1>1. CASE v \in Port!Opens(u)
  <2>1. PICK o : o = [u EXCEPT !.wire = "up"]
    OBVIOUS
  <2>2. v \in Port!Ended(o) \/ v = [o EXCEPT !.work = "priming"]
    BY <1>1, <2>1 DEF Port!Opens
  <2>3. u.work = "opening" /\ u.wire = "none"
    BY <1>1 DEF Port!Opens
  <2>4. CASE v \in Port!Ended(o)
    <3>1. PICK w : /\ w \in IF o.told THEN Port!Discards(o.wire) ELSE {o.wire}
                   /\ v = [o EXCEPT !.work = "idle", !.wire = w]
      BY <2>4 DEF Port!Ended
    <3>2. w = IF u.told THEN "closing" ELSE "up"
      BY <3>1, <2>1 DEF Port!Discards
    <3> QED
      BY <3>1, <3>2, <2>1
  <2>5. CASE v = [o EXCEPT !.work = "priming"]
    BY <2>5, <2>1
  <2> QED
    BY <2>2, <2>4, <2>5
<1>2. CASE v \in Port!Fails(u) \cap {[u EXCEPT !.work = "idle"]}
  BY <1>2 DEF Port!Fails
<1>3. CASE v \in Port!Primed(u)
  <2>1. u.work = "priming" /\ v \in Port!Ended(u)
    BY <1>3 DEF Port!Primed
  <2>2. PICK w : /\ w \in IF u.told THEN Port!Discards(u.wire) ELSE {u.wire}
                 /\ v = [u EXCEPT !.work = "idle", !.wire = w]
    BY <2>1 DEF Port!Ended
  <2>3. w \in {"none", "up", "cut", "closing"} /\ (u.told => w # "up")
    BY <2>2 DEF Port!Discards
  <2>4. ~u.told => w = u.wire
    BY <2>2
  <2> QED
    BY <2>1, <2>2, <2>3, <2>4
<1>4. CASE v \in Port!Retries(u)
  BY <1>4 DEF Port!Retries
<1>5. CASE v \in Port!Closed(u)
  BY <1>5 DEF Port!Closed
<1>6. CASE v \in Port!Told(u)
  BY <1>6 DEF Port!Told
<1>7. CASE v \in Port!Dropped(u)
  BY <1>7 DEF Port!Dropped
<1> QED
  BY <1>1, <1>2, <1>3, <1>4, <1>5, <1>6, <1>7 DEF Moves

\* A coordinator that failed its set-up does nothing any more.
LEMMA FailedStays ==
    ASSUME NEW u, Sound(u), u.work = "failed", NEW v \in Moves(u)
    PROVE  v.told
<1> QED
  BY DEF Moves, Sound, Port!Uses, Port!Opens, Port!Fails, Port!Primed, Port!Retries,
         Port!Closed, Port!Told, Port!Dropped

\* So one that is out of charge remains out of charge.
LEMMA MovesLeft ==
    ASSUME NEW u, Sound(u), Left(u), NEW v \in Moves(u)
    PROVE  Left(v)
<1> QED
  BY MovesSound, FailedStays DEF Left

-----------------------------------------------------------------------------
(* What steps do to all of them.                                             *)

\* A step of one coordinator leaves everyone sound, and out of charge who was.
LEMMA OneMoves ==
    ASSUME TypeOK, InCharge, NEW c \in Coords, NEW v \in Moves(uses[c]),
           uses' = [uses EXCEPT ![c] = v]
    PROVE  /\ uses' \in [Coords -> Port!Uses]
           /\ \A d \in Coords : Sound(uses'[d]) /\ (Left(uses[d]) => Left(uses'[d]))
<1>1. Sound(uses[c])
  BY DEF InCharge
<1>2. Sound(v) /\ (Left(uses[c]) => Left(v))
  BY <1>1, MovesSound, MovesLeft
<1>3. v \in Port!Uses
  BY <1>2 DEF Sound
<1>4. uses \in [Coords -> Port!Uses]
  BY DEF TypeOK
<1>5. uses' \in [Coords -> Port!Uses]
  BY <1>3, <1>4
<1>6. ASSUME NEW d \in Coords PROVE Sound(uses'[d]) /\ (Left(uses[d]) => Left(uses'[d]))
  <2>1. CASE d = c
    BY <1>2, <1>4, <2>1
  <2>2. CASE d # c
    BY <1>4, <2>2 DEF InCharge
  <2> QED
    BY <2>1, <2>2
<1> QED
  BY <1>5, <1>6

\* The cable is pulled: everyone who was connected is cut.
LEMMA AllDropped ==
    ASSUME TypeOK, InCharge, PortGoes
    PROVE  /\ uses' \in [Coords -> Port!Uses]
           /\ \A d \in Coords : /\ Sound(uses'[d])
                                /\ Left(uses[d]) => Left(uses'[d])
                                /\ Connects(uses[d]) => Connects(uses'[d])
<1>1. ASSUME NEW d \in Coords
      PROVE  /\ Sound(uses'[d])
             /\ Connects(uses[d]) => Connects(uses'[d])
             /\ Left(uses[d]) => Left(uses'[d])
  <2>1. Sound(uses[d]) /\ uses[d] \in Port!Uses
    BY DEF InCharge, Sound
  <2>2. uses'[d] = IF uses[d].wire = "up" THEN [uses[d] EXCEPT !.wire = "cut"] ELSE uses[d]
    BY DEF PortGoes
  <2>3. CASE uses[d].wire = "up"
    BY <2>1, <2>2, <2>3 DEF Sound, Left, Connects, Port!Uses
  <2>4. CASE uses[d].wire # "up"
    BY <2>1, <2>2, <2>4
  <2> QED
    BY <2>3, <2>4
<1>2. \A d \in Coords : uses'[d] \in Port!Uses
  BY <1>1 DEF Sound
<1>3. uses' = [d \in Coords |-> uses'[d]]
  BY DEF PortGoes
<1> QED
  BY <1>1, <1>2, <1>3

\* A step that moves one coordinator, as the actions put it.
LEMMA BecomesMoves ==
    ASSUME TypeOK, InCharge, NEW c \in Coords, NEW S \in SUBSET Moves(uses[c]), Becomes(c, S)
    PROVE  /\ uses' \in [Coords -> Port!Uses]
           /\ \A d \in Coords : Sound(uses'[d]) /\ (Left(uses[d]) => Left(uses'[d]))
           /\ uses'[c] \in S
           /\ \A d \in Coords \ {c} : uses'[d] = uses[d]
<1>1. PICK v \in S : uses' = [uses EXCEPT ![c] = v]
  BY DEF Becomes
<1>2. v \in Moves(uses[c])
  OBVIOUS
<1> QED
  BY <1>1, <1>2, OneMoves DEF TypeOK

-----------------------------------------------------------------------------
(* The entry.                                                                *)

\* An entry starts with nobody at work.
LEMMA StartsSound == Init => TypeOK /\ InCharge /\ Listened
<1> SUFFICES ASSUME Init PROVE TypeOK /\ InCharge /\ Listened
  OBVIOUS
<1>1. Spent \in Port!Uses /\ Sound(Spent) /\ Left(Spent)
  BY DEF Spent, Port!Uses, Sound, Left
<1>2. TypeOK
  <2>1. uses \in [Coords -> Port!Uses]
    BY <1>1 DEF Init
  <2>2. reloads \in 0..MaxReloads
    BY EntryAssumption DEF Init, EntryAssumption
  <2> QED
    BY <2>1, <2>2 DEF Init, TypeOK
<1>3. InCharge
  BY <1>1 DEF Init, InCharge
<1> QED
  BY <1>2, <1>3 DEF Init, Listened, OptionsInForce

\* No step brings in charge back who was told to stop, or leaves a port with who
\* does not let go.
LEMMA StepsInCharge == ASSUME TypeOK, InCharge, [Next]_vars PROVE TypeOK' /\ InCharge'
<1> USE EntryAssumption DEF EntryAssumption
<1> USE DEF outside
<1>1. CASE \E c \in Coords : SetsUp(c)
  <2>1. PICK c \in Coords : SetsUp(c)
    BY <1>1
  <2>2. Port!Fresh \in Port!Uses /\ Sound(Port!Fresh) /\ Connects(Port!Fresh)
    BY DEF Port!Fresh, Port!Uses, Sound, Connects
  <2>3. uses' = [uses EXCEPT ![c] = Port!Fresh] /\ current' = c /\ entry' = "opening"
    BY <2>1 DEF SetsUp
  <2>4. \A d \in Coords : Left(uses[d])
    BY <2>1 DEF SetsUp, InCharge
  <2>5. TypeOK'
    BY <2>1, <2>2 DEF SetsUp, TypeOK
  <2>6. \A d \in Coords : uses'[d] = IF d = c THEN Port!Fresh ELSE uses[d]
    BY <2>3 DEF TypeOK
  <2> QED
    BY <2>2, <2>3, <2>4, <2>5, <2>6 DEF InCharge
<1>2. CASE SetupOpens
  <2>1. current \in Coords
    BY DEF TypeOK
  <2>2. Port!Opens(uses[current]) \in SUBSET Moves(uses[current])
    BY DEF Moves
  <2>3. Becomes(current, Port!Opens(uses[current]))
    BY <1>2 DEF SetupOpens
  <2>4. /\ uses' \in [Coords -> Port!Uses]
        /\ \A d \in Coords : Sound(uses'[d]) /\ (Left(uses[d]) => Left(uses'[d]))
    BY <2>1, <2>2, <2>3, BecomesMoves
  <2> QED
    BY <1>2, <2>4 DEF SetupOpens, TypeOK, InCharge
<1>3. CASE SetupFails
  <2>1. uses' = [uses EXCEPT ![current].work = "failed"] /\ entry' = "retry"
    BY <1>3 DEF SetupFails
  <2>2. uses[current].work = "opening" /\ Sound(uses[current])
    BY <1>3 DEF SetupFails, InCharge, TypeOK, Connects
  <2>3. PICK v : v = [uses[current] EXCEPT !.work = "failed"]
    OBVIOUS
  <2>4. Sound(v) /\ Left(v) /\ v \in Port!Uses
    BY <2>2, <2>3 DEF Sound, Left, Connects, Port!Uses
  <2>5. uses' = [uses EXCEPT ![current] = v]
    BY <2>1, <2>3
  <2>6. \A d \in Coords : uses'[d] = IF d = current THEN v ELSE uses[d]
    BY <2>5 DEF TypeOK
  <2>7. uses' \in [Coords -> Port!Uses]
    BY <2>4, <2>5 DEF TypeOK
  <2> QED
    BY <1>3, <2>4, <2>6, <2>7 DEF SetupFails, TypeOK, InCharge
<1>4. CASE Primed
  BY <1>4 DEF Primed, TypeOK, InCharge
<1>5. CASE BuildsEntities
  BY <1>5 DEF BuildsEntities, TypeOK, InCharge
<1>6. CASE Loads
  BY <1>6 DEF Loads, Registers, TypeOK, InCharge
<1>7. CASE \E o \in Options : Saves(o)
  <2>1. PICK o \in Options : Saves(o)
    BY <1>7
  <2>2. missed' \in BOOLEAN
    BY <2>1 DEF Saves, TypeOK
  <2>3. reloads' \in 0..MaxReloads
    BY <2>1 DEF Saves, TypeOK
  <2> QED
    BY <2>1, <2>2, <2>3 DEF Saves, TypeOK, InCharge
<1>8. CASE Reloads
  BY <1>8 DEF Reloads, TypeOK, InCharge
<1>9. CASE Unloads
  <2>1. current \in Coords
    BY DEF TypeOK
  <2>2. Port!Told(uses[current]) \in SUBSET Moves(uses[current])
    BY DEF Moves
  <2>3. Becomes(current, Port!Told(uses[current]))
    BY <1>9 DEF Unloads, ShutsDown
  <2>4. /\ uses' \in [Coords -> Port!Uses]
        /\ \A d \in Coords : Sound(uses'[d]) /\ (Left(uses[d]) => Left(uses'[d]))
        /\ uses'[current] \in Port!Told(uses[current])
    BY <2>1, <2>2, <2>3, BecomesMoves
  <2>5. Sound(uses[current])
    BY <2>1 DEF InCharge
  <2>6. Left(uses'[current])
    BY <2>4, <2>5 DEF Port!Told, Left, Sound, Port!Uses
  <2>7. entry' \in {"idle", "closing"} /\ heard' \in BOOLEAN
    BY <1>9 DEF Unloads, Unloaded, TypeOK
  <2> QED
    BY <1>9, <2>4, <2>6, <2>7 DEF Unloads, TypeOK, InCharge
<1>10. CASE \E c \in Coords : Reopens(c) \/ EndsAttempt(c) \/ Retries(c) \/ Closes(c)
  <2>1. PICK c \in Coords : Reopens(c) \/ EndsAttempt(c) \/ Retries(c) \/ Closes(c)
    BY <1>10
  <2>2. PICK S \in SUBSET Moves(uses[c]) : Becomes(c, S)
    BY <2>1 DEF Reopens, EndsAttempt, Ends, Retries, Closes, Moves
  <2>3. /\ uses' \in [Coords -> Port!Uses]
        /\ \A d \in Coords : Sound(uses'[d]) /\ (Left(uses[d]) => Left(uses'[d]))
        /\ \A d \in Coords \ {c} : uses'[d] = uses[d]
    BY <2>2, BecomesMoves
  <2>4. entry = "opening" => Connects(uses'[current])
    <3> SUFFICES ASSUME entry = "opening" PROVE Connects(uses'[current])
      OBVIOUS
    <3>1. /\ Connects(uses[current]) /\ uses[current].work = "opening"
          /\ Sound(uses[current]) /\ current \in Coords
      BY DEF InCharge, TypeOK, Connects
    <3>2. CASE c # current
      BY <2>3, <3>1, <3>2
    <3>3. CASE c = current
      <4>1. ~Reopens(c)
        BY <3>3 DEF Reopens
      <4>2. /\ Port!Primed(uses[c]) = {} /\ Port!Retries(uses[c]) = {}
            /\ Port!Closed(uses[c]) = {}
        BY <3>1, <3>3 DEF Port!Primed, Port!Retries, Port!Closed, Sound, Port!Uses
      <4> QED
        BY <2>1, <4>1, <4>2 DEF EndsAttempt, Ends, Retries, Closes, Becomes
    <3> QED
      BY <3>2, <3>3
  <2>5. /\ current' = current /\ UNCHANGED <<port, options, built, reloads, missed>>
        /\ \/ UNCHANGED <<entry, heard>>
           \/ entry = "closing" /\ entry' = "idle" /\ heard' = FALSE
    BY <2>1 DEF Reopens, EndsAttempt, Retries, Closes, Unloaded
  <2> QED
    BY <2>3, <2>4, <2>5 DEF TypeOK, InCharge
<1>11. CASE PortGoes
  <2>1. /\ uses' \in [Coords -> Port!Uses]
        /\ \A d \in Coords : /\ Sound(uses'[d])
                             /\ Left(uses[d]) => Left(uses'[d])
                             /\ Connects(uses[d]) => Connects(uses'[d])
    BY <1>11, AllDropped
  <2>2. UNCHANGED <<entry, current, options, built, heard, reloads, missed>> /\ port' = "gone"
    BY <1>11 DEF PortGoes
  <2>3. TypeOK'
    BY <2>1, <2>2 DEF TypeOK
  <2>4. current \in Coords
    BY DEF TypeOK
  <2>5. InCharge'
    BY <2>1, <2>2, <2>4 DEF InCharge
  <2> QED
    BY <2>3, <2>5
<1>12. CASE PortReturns
  BY <1>12 DEF PortReturns, TypeOK, InCharge
<1>13. CASE UNCHANGED vars
  BY <1>13 DEF vars, TypeOK, InCharge
<1> QED
  BY <1>1, <1>2, <1>3, <1>4, <1>5, <1>6, <1>7, <1>8, <1>9, <1>10, <1>11, <1>12, <1>13
     DEF Next, Setup, Works

\* Options that are saved find a listener, or entities that are yet to be made.
LEMMA StepsListened == ASSUME TypeOK, Listened, [Next]_vars PROVE Listened'
<1> USE DEF outside, Listened, OptionsInForce
<1>1. CASE Setup
  BY <1>1 DEF Setup, SetsUp, SetupOpens, SetupFails, Primed, BuildsEntities, Loads, Registers
<1>2. CASE \E o \in Options : Saves(o)
  <2>1. PICK o \in Options : Saves(o)
    BY <1>2
  <2>2. entry' = entry /\ heard' = heard /\ missed' = (missed \/ entry = "built")
    BY <2>1 DEF Saves
  <2>3. heard => reloads' > 0
    BY <2>1 DEF Saves, TypeOK
  <2> QED
    BY <2>2, <2>3
<1>3. CASE Reloads \/ Unloads
  BY <1>3 DEF Reloads, Unloads, Unloaded, TypeOK
<1>4. CASE \E c \in Coords : Works(c) \/ Retries(c)
  BY <1>4 DEF Works, Reopens, EndsAttempt, Retries, Closes, Unloaded
<1>5. CASE PortGoes \/ PortReturns \/ UNCHANGED vars
  BY <1>5 DEF PortGoes, PortReturns, vars
<1> QED
  BY <1>1, <1>2, <1>3, <1>4, <1>5 DEF Next

\* What the theorems below are drawn from.
THEOREM Invariance == Spec => []IInv
<1>1. Init => IInv
  BY StartsSound DEF IInv
<1>2. IInv /\ [Next]_vars => IInv'
  BY StepsInCharge, StepsListened DEF IInv
<1> QED
  BY <1>1, <1>2, PTL DEF Spec

\* Every variable stays in its type: the reloads that wait are counted right, and
\* no step of one coordinator makes another what no coordinator can be.
THEOREM TypeCorrect == Spec => []TypeOK
<1>1. IInv => TypeOK
  BY DEF IInv
<1> QED
  BY <1>1, Invariance, PTL

\* Whoever has the port without being in charge is about to let go of it, however
\* many reloads, failed set-ups and drops there were.
THEOREM NobodyKeepsThePort == Spec => []HolderLetsGo
<1>1. IInv => HolderLetsGo
  <2> SUFFICES ASSUME IInv, NEW c \in Coords \ {current}, uses[c].wire \in {"up", "closing"}
               PROVE  uses[c].told /\ (uses[c].work # "idle" \/ uses[c].wire = "closing")
    BY DEF HolderLetsGo
  <2>1. Sound(uses[c]) /\ Left(uses[c])
    BY DEF IInv, InCharge
  <2> QED
    BY <2>1 DEF Sound, Left
<1> QED
  BY <1>1, Invariance, PTL

\* Entities have the names that the options say, or will, or missed them in the one
\* moment nobody listens.
THEOREM OptionsReachEntities == Spec => []OptionsInForce
<1>1. IInv => OptionsInForce
  BY DEF IInv, Listened
<1> QED
  BY <1>1, Invariance, PTL
=============================================================================
