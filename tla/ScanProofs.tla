----------------------------- MODULE ScanProofs -----------------------------
(* What a name scan brings home, for any number of slots. The scan is a client *)
(* of the serial protocol: each of its steps is one of SerialProtocol's, so    *)
(* that what SerialProofs shows of the lock and the pending future holds here  *)
(* (IInv); ScanInv says what that means for the slot that is probed.           *)
EXTENDS NameScan, SerialProofs

\* The first n slots, and what is found once they are probed and those of q
\* were silent.
Before(n) == {Slots[i] : i \in 1..n}
Covers(n, f, q) ==
    /\ q \subseteq Before(n)
    /\ f = {<<s, s>> : s \in ((Before(n) \cap Configured) \ Blank) \ q}

\* The scanner never queues, and asks for the slot whose turn it is.
Asking ==
    /\ pc[Scanner] # "queued"
    /\ pc[Scanner] # "idle" => stage = "probing" /\ wants[Scanner] = Slots[at]

\* Only configured slots answer, and an answer is for the slot that was asked for.
Answered ==
    /\ \A i \in DOMAIN due : due[i].key \in Configured
    /\ fut = "reply" => answer.key = wants[lock] /\ answer.key \in Configured

\* Only a scan that ends hangs up; and nobody listens without a connection, so
\* that no loss comes after the last look.
Reading ==
    /\ wire \in {"none", "closing"} => listening = FALSE
    /\ stage \in {"finishing", "names"} => lost = FALSE
    /\ stage = "names" => wire = "none"
    /\ wire = "closing" => Leaving

Progress ==
    /\ stage \in {"out", "opening", "probing", "aborting", "finishing", "names", "failed"}
    /\ at \in 1..Len(Slots) + 1
    /\ stage = "opening" => at = 1 /\ Covers(0, found, silent)
    /\ stage = "probing" => at <= Len(Slots) /\ Covers(at - 1, found, silent)
    /\ stage \in {"finishing", "names"} => Covers(Len(Slots), found, silent)

ScanInv == Asking /\ Answered /\ Reading /\ Progress

-----------------------------------------------------------------------------
\* There are slots, and they are keys.
LEMMA SlotsAreKeys ==
    /\ Len(Slots) \in Nat \ {0} /\ DOMAIN Slots = 1..Len(Slots)
    /\ \A i \in 1..Len(Slots) : Slots[i] \in Keys /\ Slots[i] # "send" /\ Slots[i] # "none"
    /\ Configured \subseteq Before(Len(Slots))
  BY ScanAssumption, NameAssumption DEF ScanAssumption, NameAssumption, Before

\* A probe is a request that got the lock at once.
LEMMA ProbeAsks ==
    ASSUME IInv, ScanInv, Probes
    PROVE  /\ Calls(Scanner, Slots[at]) /\ Asks(Scanner, Slots[at])
           /\ Slots[at] \in Keys /\ UNCHANGED <<waiters, link>>
<1>1. Slots[at] \in Keys /\ Slots[at] # "send"
  BY SlotsAreKeys DEF Probes, BetweenProbes, ScanInv, Progress
<1>2. Calls(Scanner, Slots[at]) /\ lock' = Scanner
  BY DEF Probes
<1>3. Scanner # Nobody /\ Scanner \in Callers
  BY ScanAssumption, NameAssumption DEF ScanAssumption, NameAssumption
<1>4. lock # Scanner
  BY <1>3 DEF Probes, BetweenProbes, IInv, LockDiscipline
<1>5. Begins(Scanner, Slots[at]) /\ UNCHANGED <<waiters, link>>
  BY <1>2, <1>4 DEF Calls
<1> QED
  BY <1>1, <1>2, <1>3, <1>5 DEF Begins, Returns

\* Each step of the scan is one of the serial protocol.
LEMMA ScanIsClient == ASSUME IInv, ScanInv, [ScanNext]_scanVars PROVE [Next]_vars
<1>1. Scanner \in Callers
  BY ScanAssumption DEF ScanAssumption
<1>2. CASE Goes
  BY <1>1, <1>2, ProbeAsks DEF Goes, ProbeRaises, HangsUp, Next
<1>3. CASE Waits
  BY <1>1, <1>3
     DEF Waits, StartsScan, ScanConnects, OpenFails, EndsProbe, ProbeFails, ProbeAnswered,
         ProbePaused, Finishes, Meets, Next, Step
<1>4. CASE UNCHANGED scanVars
  BY <1>4 DEF scanVars
<1> QED
  BY <1>2, <1>3, <1>4 DEF ScanNext

\* A connection is to one kind of bridge.
LEMMA KindStays == ASSUME [Next]_vars PROVE Keyed' = Keyed
  BY DEF Next, Step, Calls, TakesLock, Resumes, PauseEnds, TimesOut, ReplyArrives, ReplyLost,
         EventArrives, ReaderNotices, Connects, LinkCut, Disconnects, Closed, vars, link, Keyed

-----------------------------------------------------------------------------
(* What is found.                                                            *)

\* One slot more.
LEMMA BeforeMore ==
    ASSUME NEW n \in 1..Len(Slots)
    PROVE  Before(n) = Before(n - 1) \cup {Slots[n]} /\ Slots[n] \notin Before(n - 1)
<1>1. Len(Slots) \in Nat /\ DOMAIN Slots = 1..Len(Slots)
  BY SlotsAreKeys
<1>2. 1..n = (1..(n - 1)) \cup {n}
  BY <1>1
<1>3. Before(n) = Before(n - 1) \cup {Slots[n]}
  BY <1>2 DEF Before
<1>4. ASSUME NEW i \in 1..(n - 1) PROVE Slots[i] # Slots[n]
  <2>1. i \in DOMAIN Slots /\ n \in DOMAIN Slots /\ i # n
    BY <1>1
  <2> QED
    BY <2>1, ScanAssumption DEF ScanAssumption
<1> QED
  BY <1>3, <1>4 DEF Before

\* A slot that answers is found, unless it has no name; one that does not is silent.
LEMMA CoversMore ==
    ASSUME NEW n \in 1..Len(Slots), NEW f, NEW q, Covers(n - 1, f, q), NEW s, s = Slots[n]
    PROVE  /\ s \in Configured \ Blank => Covers(n, f \cup {<<s, s>>}, q)
           /\ s \in Blank => Covers(n, f, q)
           /\ Covers(n, f, q \cup {s})
<1>1. Before(n) = Before(n - 1) \cup {s} /\ s \notin Before(n - 1)
  BY BeforeMore
<1>2. q \subseteq Before(n - 1) /\ s \notin q
  BY <1>1 DEF Covers
<1> DEFINE Of(m, r) == ((Before(m) \cap Configured) \ Blank) \ r
<1>3. f = {<<t, t>> : t \in Of(n - 1, q)}
  BY DEF Covers
<1>4. s \in Configured \ Blank => Of(n, q) = Of(n - 1, q) \cup {s}
  BY <1>1, <1>2
<1>5. s \in Blank => Of(n, q) = Of(n - 1, q)
  BY <1>1
<1>6. Of(n, q \cup {s}) = Of(n - 1, q)
  BY <1>1, <1>2
<1> HIDE DEF Of
<1>7. s \in Configured \ Blank => f \cup {<<s, s>>} = {<<t, t>> : t \in Of(n, q)}
  BY <1>3, <1>4
<1>8. s \in Blank => f = {<<t, t>> : t \in Of(n, q)}
  BY <1>3, <1>5
<1>9. f = {<<t, t>> : t \in Of(n, q \cup {s})}
  BY <1>3, <1>6
<1>10. q \subseteq Before(n) /\ q \cup {s} \subseteq Before(n)
  BY <1>1, <1>2
<1> QED
  BY <1>7, <1>8, <1>9, <1>10 DEF Covers, Of

-----------------------------------------------------------------------------
(* The steps.                                                                *)

\* Nothing was asked and nothing found.
LEMMA ScanStarts == ScanInit => IInv /\ ScanInv /\ Keyed
<1> SUFFICES ASSUME ScanInit PROVE IInv /\ ScanInv /\ Keyed
  OBVIOUS
<1>1. IInv
  BY InvInit DEF ScanInit
<1>2. Scanner \in Callers
  BY ScanAssumption DEF ScanAssumption
<1>3. 1 \in 1..Len(Slots) + 1
  BY SlotsAreKeys
<1> QED
  BY <1>1, <1>2, <1>3 DEF ScanInit, Init, ScanInv, Asking, Answered, Reading, Leaving, Progress, Keyed

\* While the scanner waits it holds the lock for its slot.
LEMMA ProbeHolds ==
    ASSUME IInv, ScanInv, pc[Scanner] \in {"asking", "pausing"}
    PROVE  /\ lock = Scanner /\ wants[lock] = Slots[at] /\ stage = "probing"
           /\ fut # "none" /\ at \in 1..Len(Slots)
<1>1. Scanner \in Callers /\ Scanner # Nobody
  BY ScanAssumption, NameAssumption DEF ScanAssumption, NameAssumption
<1>2. lock = Scanner /\ wants[Scanner] = Slots[at] /\ stage = "probing"
  BY <1>1 DEF IInv, LockDiscipline, ScanInv, Asking
<1>3. at \in 1..Len(Slots)
  BY <1>2, SlotsAreKeys DEF ScanInv, Progress
<1> QED
  BY <1>1, <1>2, <1>3, SlotsAreKeys DEF IInv, LockDiscipline

\* The slot is done.
LEMMA TakesKeeps ==
    ASSUME ScanInv, stage = "probing", at \in 1..Len(Slots), NEW answered \in BOOLEAN,
           Takes(answered), lost \in BOOLEAN, lost' = lost, wire' = wire,
           listening' = listening,
           silent' = IF answered THEN silent ELSE silent \cup {Slots[at]},
           answered => Slots[at] \in Configured /\ answer.key = Slots[at]
    PROVE  Reading' /\ Progress'
<1>1. Covers(at - 1, found, silent)
  BY DEF ScanInv, Progress
<1>2. CASE lost
  BY <1>2 DEF Takes, ScanInv, Reading, Leaving, Progress
<1>3. CASE ~lost
  <2>1. Blank \subseteq Configured
    BY ScanAssumption DEF ScanAssumption
  <2>2. /\ at' = at + 1
        /\ stage' = IF at = Len(Slots) THEN "finishing" ELSE "probing"
        /\ found' = IF answered /\ Slots[at] \notin Blank
                    THEN found \cup {<<Slots[at], answer.key>>} ELSE found
    BY <1>3 DEF Takes
  <2>3. Covers(at, found', silent')
    <3>1. CASE answered
      BY <3>1, <1>1, <2>1, <2>2, CoversMore
    <3>2. CASE ~answered
      BY <3>2, <1>1, <2>2, CoversMore
    <3> QED
      BY <3>1, <3>2
  <2>4. Len(Slots) \in Nat
    BY SlotsAreKeys
  <2>5. at' - 1 = at /\ at' \in 1..Len(Slots) + 1 /\ (at # Len(Slots) => at' <= Len(Slots))
    BY <2>2, <2>4
  <2>6. Progress'
    BY <2>2, <2>3, <2>5 DEF Progress
  <2>7. lost' = FALSE
    BY <1>3
  <2> QED
    BY <2>2, <2>6, <2>7 DEF Reading, Leaving, ScanInv
<1> QED
  BY <1>2, <1>3

\* Every step keeps what is known of the scan.
LEMMA ScanSteps == ASSUME IInv, ScanInv, Keyed, [ScanNext]_scanVars PROVE ScanInv'
<1>0. /\ Scanner \in Callers /\ Scanner # Nobody /\ Callers = {Scanner} /\ Keyed
      /\ Len(Slots) \in Nat \ {0}
  BY ScanAssumption, NameAssumption, SlotsAreKeys DEF ScanAssumption, NameAssumption
<1>1. /\ TypeOK /\ pc \in [Callers -> {"idle", "queued", "asking", "pausing"}]
      /\ due \in Seq(Reply) /\ lost \in BOOLEAN
      /\ wants \in [Callers -> Keys \cup {"send", "none"}]
  BY DEF IInv, TypeOK
<1>2. CASE Probes
  <2>1. /\ pc' = [pc EXCEPT ![Scanner] = "asking"]
        /\ wants' = [wants EXCEPT ![Scanner] = Slots[at]]
        /\ lock' = Scanner /\ fut' = "waiting"
        /\ due' = Append(due, [key |-> Slots[at], fresh |-> TRUE]) \/ due' = due
        /\ UNCHANGED <<waiters, link, scan>> /\ Slots[at] \in Keys
        /\ stage = "probing" /\ (due' # due => Slots[at] \in Configured)
    BY <1>2, ProbeAsks DEF Asks, Probes, BetweenProbes
  <2>2. \A i \in DOMAIN due' : due'[i].key \in Configured
    <3>1. CASE due' = due
      BY <3>1 DEF ScanInv, Answered
    <3>2. CASE due' # due
      <4> DEFINE r == [key |-> Slots[at], fresh |-> TRUE]
      <4>1. r \in Reply /\ r.key \in Configured /\ due' = Append(due, r)
        BY <2>1, <3>2 DEF Reply
      <4> HIDE DEF r
      <4>2. \A i \in DOMAIN due' : due'[i] = r \/ (i \in DOMAIN due /\ due'[i] = due[i])
        BY <4>1, <1>1
      <4> QED
        BY <4>1, <4>2 DEF ScanInv, Answered
    <3> QED
      BY <3>1, <3>2
  <2>3. Asking' /\ Answered'
    BY <2>1, <2>2, <1>0, <1>1 DEF Asking, Answered, scan
  <2>4. Reading' /\ Progress'
    BY <2>1 DEF ScanInv, Reading, Leaving, Progress, link, scan
  <2> QED
    BY <2>3, <2>4 DEF ScanInv
<1>3. CASE ProbeRaises
  <2>1. UNCHANGED <<vars, at, found, silent>> /\ stage' = "aborting" /\ pc[Scanner] = "idle"
    BY <1>3 DEF ProbeRaises, BetweenProbes
  <2> QED
    BY <2>1 DEF ScanInv, Asking, Answered, Reading, Leaving, Progress, vars, callers, locking, link
<1>4. CASE HangsUp
  BY <1>4
     DEF HangsUp, Leaving, Disconnects, ScanInv, Asking, Answered, Reading, Leaving, Progress,
         callers, locking, scan
<1>5. CASE StartsScan
  <2>1. Covers(0, {}, {})
    BY DEF Covers, Before
  <2> QED
    BY <1>5, <1>0, <2>1
       DEF StartsScan, ScanInv, Asking, Answered, Reading, Leaving, Progress, vars, callers, locking, link
<1>6. CASE ScanConnects
  BY <1>6, <1>0
     DEF ScanConnects, Connects, ScanInv, Asking, Answered, Reading, Leaving, Progress, callers, locking
<1>7. CASE OpenFails
  BY <1>7
     DEF OpenFails, ScanInv, Asking, Answered, Reading, Leaving, Progress, vars, callers, locking, link
<1>8. ASSUME Ends(Scanner), UNCHANGED <<waiters, link>> PROVE Asking' /\ Answered'
  <2>1. pc'[Scanner] = "idle" /\ fut' = "none"
    BY <1>0, <1>1, <1>8 DEF Ends
  <2>2. \A i \in DOMAIN due' : i \in DOMAIN due /\ due'[i].key = due[i].key
    <3>1. due' = [i \in DOMAIN due |-> [due[i] EXCEPT !.fresh = FALSE]]
      BY <1>8 DEF Ends, Abandons
    <3>2. \A i \in DOMAIN due : due[i] \in [key : Keys, fresh : BOOLEAN]
      <4>1. \A i \in DOMAIN due : due[i] \in Reply
        BY <1>1
      <4> QED
        BY <4>1 DEF Reply
    <3> QED
      BY <3>1, <3>2
  <2> QED
    BY <2>1, <2>2 DEF ScanInv, Asking, Answered
<1>9. CASE ProbeFails
  <2>1. /\ Resumes(Scanner) /\ pc'[Scanner] = "idle" /\ pc[Scanner] = "asking"
        /\ Takes(FALSE) /\ silent' = silent \cup {Slots[at]}
    BY <1>9 DEF ProbeFails, Resumes
  <2>2. Ends(Scanner) /\ UNCHANGED <<waiters, link>>
    BY <2>1, <1>0, <1>1 DEF Resumes
  <2>3. stage = "probing" /\ at \in 1..Len(Slots)
    BY <2>1, ProbeHolds
  <2>4. lost' = lost /\ wire' = wire /\ listening' = listening
    BY <2>2 DEF link
  <2>5. Reading' /\ Progress'
    BY <1>1, <2>1, <2>3, <2>4, TakesKeeps
  <2> QED
    BY <1>8, <2>2, <2>5 DEF ScanInv
<1>10. CASE ProbeAnswered
  <2>1. /\ pc[Scanner] = "asking" /\ UNCHANGED <<waiters, link, scan>>
        /\ pc' = [pc EXCEPT ![Scanner] = "pausing"] /\ UNCHANGED <<wants, lock, fut, answer, due>>
    BY <1>0, <1>1, <1>10 DEF ProbeAnswered, Resumes, Ends
  <2> QED
    BY <2>1, <1>0, <1>1 DEF ScanInv, Asking, Answered, Reading, Leaving, Progress, link, scan
<1>11. CASE ProbePaused
  <2>1. /\ pc[Scanner] = "pausing" /\ Ends(Scanner) /\ UNCHANGED <<waiters, link>>
        /\ Takes(TRUE) /\ silent' = silent
    BY <1>11 DEF ProbePaused, PauseEnds
  <2>2. /\ lock = Scanner /\ wants[lock] = Slots[at] /\ stage = "probing"
        /\ fut # "none" /\ at \in 1..Len(Slots)
    BY <2>1, ProbeHolds
  <2>3. fut = "reply"
    BY <2>1, <2>2, <1>0 DEF IInv, Shape
  <2>4. answer.key = Slots[at] /\ Slots[at] \in Configured
    BY <2>2, <2>3 DEF ScanInv, Answered
  <2>5. lost' = lost /\ wire' = wire /\ listening' = listening
    BY <2>1 DEF link
  <2>6. Reading' /\ Progress'
    BY <1>1, <2>1, <2>2, <2>4, <2>5, TakesKeeps
  <2> QED
    BY <1>8, <2>1, <2>6 DEF ScanInv
<1>12. CASE Finishes
  BY <1>12
     DEF Finishes, Closed, ScanInv, Asking, Answered, Reading, Leaving, Progress, callers, locking
<1>13. CASE TimesOut(Scanner) /\ UNCHANGED scan
  BY <1>13
     DEF TimesOut, ScanInv, Asking, Answered, Reading, Leaving, Progress, callers, locking, link, scan
<1>14. ASSUME due # <<>>, due' = Tail(due)
       PROVE  /\ Head(due).key \in Configured
              /\ \A i \in DOMAIN due' : due'[i].key \in Configured
  <2>1. Head(due) = due[1] /\ 1 \in DOMAIN due
    BY <1>1, <1>14
  <2>2. \A i \in DOMAIN due' : i + 1 \in DOMAIN due /\ due'[i] = due[i + 1]
    BY <1>1, <1>14
  <2> QED
    BY <2>1, <2>2 DEF ScanInv, Answered
<1>15. CASE ReplyArrives /\ UNCHANGED scan
  <2>1. Answered'
    BY <1>0, <1>14, <1>15
       DEF ReplyArrives, TryFulfill, Matches, callers, locking, ScanInv, Answered
  <2> QED
    BY <1>15, <2>1
       DEF ReplyArrives, ScanInv, Asking, Reading, Leaving, Progress, callers, locking, link, scan
<1>16. CASE ReplyLost /\ UNCHANGED scan
  BY <1>14, <1>16
     DEF ReplyLost, ScanInv, Asking, Answered, Reading, Leaving, Progress, callers, locking, link, scan
<1>17. CASE ReaderNotices /\ ~Running /\ UNCHANGED scan
  <2>1. wire = "cut" /\ stage \notin {"finishing", "names"}
    BY <1>17 DEF ReaderNotices, Running, Leaving, ScanInv, Reading
  <2> QED
    BY <1>17, <2>1
       DEF ReaderNotices, ScanInv, Asking, Answered, Reading, Leaving, Progress, callers, locking, scan
<1>18. CASE LinkCut /\ UNCHANGED scan
  BY <1>18
     DEF LinkCut, ScanInv, Asking, Answered, Reading, Leaving, Progress, callers, locking, scan
<1>19. CASE UNCHANGED scanVars
  BY <1>19
     DEF scanVars, scan, vars, callers, locking, link, ScanInv, Asking, Answered, Reading, Leaving, Progress
<1> QED
  BY <1>2, <1>3, <1>4, <1>5, <1>6, <1>7, <1>9, <1>10, <1>11, <1>12, <1>13, <1>15, <1>16, <1>17,
     <1>18, <1>19
     DEF ScanNext, Goes, Waits, EndsProbe, Meets

-----------------------------------------------------------------------------
(* The theorems.                                                             *)

\* What holds of every state of a scan.
THEOREM ScanInvariance == ScanSpec => [](IInv /\ ScanInv /\ Keyed)
<1>1. IInv /\ ScanInv /\ Keyed /\ [ScanNext]_scanVars => (IInv /\ ScanInv /\ Keyed)'
  BY ScanIsClient, InvNext, KindStays, ScanSteps
<1> QED
  BY <1>1, ScanStarts, PTL DEF ScanSpec

\* The scan uses the protocol as any caller does (get_device_name over _sendrecv):
\* what it does is a behaviour of SerialProtocol.
THEOREM ScanIsACaller == ScanSpec => Spec
<1>1. ScanInit => Init
  BY DEF ScanInit
<1>2. IInv /\ ScanInv /\ [ScanNext]_scanVars => [Next]_vars
  BY ScanIsClient
<1> QED
  BY <1>1, <1>2, ScanInvariance, PTL DEF ScanSpec, Spec

\* A scan that succeeds has the name of every configured slot that answered, each
\* for its own slot, and lost no link on the way (scan_device_names), for any
\* number of slots.
THEOREM ScansAreWhole == ScanSpec => []ScanIsWhole
<1>1. IInv /\ ScanInv => ScanIsWhole
  <2> SUFFICES ASSUME ScanInv, stage = "names"
               PROVE  /\ ~lost
                      /\ found = {<<s, s>> : s \in (Configured \ Blank) \ silent}
    BY DEF ScanIsWhole
  <2>1. Covers(Len(Slots), found, silent) /\ lost = FALSE
    BY DEF ScanInv, Progress, Reading
  <2>2. ((Before(Len(Slots)) \cap Configured) \ Blank) \ silent = (Configured \ Blank) \ silent
    BY SlotsAreKeys
  <2> QED
    BY <2>1, <2>2 DEF Covers
<1> QED
  BY <1>1, ScanInvariance, PTL
=============================================================================
