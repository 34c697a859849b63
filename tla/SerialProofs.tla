---------------------------- MODULE SerialProofs ----------------------------
(* What the serial protocol guarantees to any number of callers, for any set  *)
(* of keys: the lock and the pending future agree, replies are not confused    *)
(* where they carry a key, and the callers are served as RequestLine says.     *)
EXTENDS SerialProtocol, SequenceTheorems, TLAPS

\* What the holder of the lock wants, and what the future it waits for may be.
Shape ==
    /\ \A c \in Callers : pc[c] # "idle" => wants[c] # "none"
    /\ \A c \in Callers : pc[c] = "asking" => wants[c] # "send"
    /\ \A c \in Callers : pc[c] = "pausing" => fut \in {"none", "reply"}
    /\ answer # Nobody => fut \in {"reply", "cancelled"}

IInv ==
    /\ TypeOK
    /\ Shape
    /\ LockDiscipline
    /\ OneReplyIsOwn
    /\ RightDevice

-----------------------------------------------------------------------------
(* Sequences: what the steps do to the line for the lock and to the replies.  *)

\* The head leaves a line without repetition: everyone else is still in it.
LEMMA TailOfLine ==
    ASSUME NEW s \in Seq(Callers), s # <<>>,
           \A i, j \in DOMAIN s : s[i] = s[j] => i = j
    PROVE  /\ Tail(s) \in Seq(Callers)
           /\ \A i, j \in DOMAIN Tail(s) : Tail(s)[i] = Tail(s)[j] => i = j
           /\ \A c \in Callers :
                 (\E i \in DOMAIN Tail(s) : Tail(s)[i] = c)
                    <=> c # Head(s) /\ \E i \in DOMAIN s : s[i] = c
<1>1. /\ Tail(s) \in Seq(Callers)
      /\ Len(s) \in Nat /\ Len(s) >= 1
      /\ DOMAIN s = 1..Len(s) /\ DOMAIN Tail(s) = 1..(Len(s) - 1)
      /\ Head(s) = s[1]
      /\ \A i \in 1..(Len(s) - 1) : Tail(s)[i] = s[i + 1]
  OBVIOUS
<1>2. ASSUME NEW c \in Callers, NEW i \in DOMAIN s, s[i] = c, c # Head(s)
      PROVE  \E j \in DOMAIN Tail(s) : Tail(s)[j] = c
  <2>1. i - 1 \in DOMAIN Tail(s) /\ Tail(s)[i - 1] = c
    BY <1>1, <1>2
  <2> QED
    BY <2>1
<1>3. ASSUME NEW c \in Callers, NEW i \in DOMAIN Tail(s), Tail(s)[i] = c
      PROVE  c # Head(s) /\ \E j \in DOMAIN s : s[j] = c
  <2>1. i + 1 \in DOMAIN s /\ s[i + 1] = c /\ i + 1 # 1 /\ 1 \in DOMAIN s
    BY <1>1, <1>3
  <2> QED
    BY <1>1, <2>1
<1>4. ASSUME NEW i \in DOMAIN Tail(s), NEW j \in DOMAIN Tail(s),
             Tail(s)[i] = Tail(s)[j]
      PROVE  i = j
  <2>1. i + 1 \in DOMAIN s /\ j + 1 \in DOMAIN s /\ s[i + 1] = s[j + 1]
    BY <1>1, <1>4
  <2>2. i + 1 = j + 1
    BY <2>1
  <2> QED
    BY <1>1, <2>2
<1> QED
  BY <1>1, <1>2, <1>3, <1>4

\* A caller that was not in the line joins it at the end.
LEMMA AppendToLine ==
    ASSUME NEW s \in Seq(Callers), NEW c \in Callers,
           \A i, j \in DOMAIN s : s[i] = s[j] => i = j,
           ~ \E i \in DOMAIN s : s[i] = c
    PROVE  /\ Append(s, c) \in Seq(Callers)
           /\ \A i, j \in DOMAIN Append(s, c) :
                 Append(s, c)[i] = Append(s, c)[j] => i = j
           /\ \A d \in Callers :
                 (\E i \in DOMAIN Append(s, c) : Append(s, c)[i] = d)
                    <=> d = c \/ \E i \in DOMAIN s : s[i] = d
<1>1. /\ Append(s, c) \in Seq(Callers)
      /\ Len(s) \in Nat
      /\ DOMAIN s = 1..Len(s) /\ DOMAIN Append(s, c) = 1..(Len(s) + 1)
      /\ Append(s, c)[Len(s) + 1] = c
      /\ \A i \in 1..Len(s) : Append(s, c)[i] = s[i]
  OBVIOUS
<1>2. ASSUME NEW i \in DOMAIN Append(s, c), NEW j \in DOMAIN Append(s, c),
             Append(s, c)[i] = Append(s, c)[j]
      PROVE  i = j
  <2>1. CASE i \in DOMAIN s /\ j \in DOMAIN s
    BY <1>1, <1>2, <2>1
  <2>2. CASE i = Len(s) + 1 \/ j = Len(s) + 1
    BY <1>1, <1>2, <2>2
  <2> QED
    BY <1>1, <2>1, <2>2
<1>3. ASSUME NEW d \in Callers
      PROVE  (\E i \in DOMAIN Append(s, c) : Append(s, c)[i] = d)
                <=> d = c \/ \E i \in DOMAIN s : s[i] = d
  <2>1. Len(s) + 1 \in DOMAIN Append(s, c)
    BY <1>1
  <2>2. ASSUME NEW i \in DOMAIN s, s[i] = d
        PROVE  i \in DOMAIN Append(s, c) /\ Append(s, c)[i] = d
    BY <1>1, <2>2
  <2>3. ASSUME NEW i \in DOMAIN Append(s, c), Append(s, c)[i] = d, d # c
        PROVE  i \in DOMAIN s /\ s[i] = d
    BY <1>1, <2>3
  <2> QED
    BY <1>1, <2>1, <2>2, <2>3
<1> QED
  BY <1>1, <1>2, <1>3

\* An abandoned request leaves no fresh reply behind.
LEMMA AbandonsAll ==
    ASSUME due \in Seq(Reply), Abandons
    PROVE  /\ due' \in Seq(Reply)
           /\ \A i \in DOMAIN due' : ~due'[i].fresh
<1>2. /\ Len(due) \in Nat /\ DOMAIN due = 1..Len(due)
      /\ \A i \in DOMAIN due : due[i] \in Reply
  OBVIOUS
<1>1. ASSUME NEW i \in DOMAIN due
      PROVE  [due[i] EXCEPT !.fresh = FALSE] \in Reply
  <2>1. due[i] \in [key : Keys, fresh : BOOLEAN]
    BY <1>2 DEF Reply
  <2> QED
    BY <2>1 DEF Reply
<1>3. due' \in [1..Len(due) -> Reply]
  BY <1>1, <1>2 DEF Abandons
<1>4. due' \in Seq(Reply)
  BY <1>2, <1>3
<1>5. ASSUME NEW i \in DOMAIN due' PROVE due'[i].fresh = FALSE
  BY <1>2, <1>3 DEF Abandons, Reply
<1> QED
  BY <1>4, <1>5

\* Reading a reply keeps the rest in order.
LEMMA TailOfReplies ==
    ASSUME NEW s \in Seq(Reply), s # <<>>
    PROVE  /\ Head(s) \in Reply
           /\ Tail(s) \in Seq(Reply)
           /\ Len(Tail(s)) = Len(s) - 1
           /\ \A i \in DOMAIN Tail(s) : i + 1 \in DOMAIN s /\ Tail(s)[i] = s[i + 1]
OBVIOUS

-----------------------------------------------------------------------------
(* The inductive invariant.                                                  *)

\* The protocol starts in the invariant.
LEMMA InvInit == Init => IInv
<1> SUFFICES ASSUME Init PROVE IInv
  OBVIOUS
<1> USE NameAssumption DEF NameAssumption, Init
<1>1. TypeOK
  <2>1. pc \in [Callers -> {"idle", "queued", "asking", "pausing"}]
    OBVIOUS
  <2>2. wants \in [Callers -> Keys \cup {"send", "none"}]
    OBVIOUS
  <2>3. waiters \in Seq(Callers) /\ due \in Seq(Reply)
    OBVIOUS
  <2> QED
    BY <2>1, <2>2, <2>3 DEF TypeOK
<1>2. LockDiscipline
  BY DEF LockDiscipline
<1>3. Shape /\ OneReplyIsOwn /\ RightDevice
  BY DEF Shape, OneReplyIsOwn, RightDevice
<1> QED
  BY <1>1, <1>2, <1>3 DEF IInv

\* Taking the free lock and running up to the first await keeps the invariant.
LEMMA BeginsKeeps ==
    ASSUME IInv, NEW c \in Callers, NEW w \in Keys \cup {"send"},
           lock = Nobody, Begins(c, w), UNCHANGED link,
           waiters' \in Seq(Callers),
           \A i, j \in DOMAIN waiters' : waiters'[i] = waiters'[j] => i = j,
           \A d \in Callers : (\E i \in DOMAIN waiters' : waiters'[i] = d)
                               <=> d # c /\ \E i \in DOMAIN waiters : waiters[i] = d
    PROVE  IInv'
<1> USE NameAssumption
<1> USE DEF NameAssumption, IInv, TypeOK, Shape,
            LockDiscipline, RightDevice, Keyed, link
<1>1. fut = "none" /\ answer = Nobody /\ \A i \in DOMAIN due : ~due[i].fresh
  BY DEF OneReplyIsOwn
<1>2. CASE Returns(c)
  <2>1. TypeOK'
    BY <1>1, <1>2 DEF Returns, OneReplyIsOwn
  <2>2. Shape'
    BY <1>1, <1>2 DEF Returns, OneReplyIsOwn
  <2>3. LockDiscipline'
    BY <1>1, <1>2 DEF Returns, OneReplyIsOwn
  <2>4. OneReplyIsOwn'
    BY <1>1, <1>2 DEF Returns, OneReplyIsOwn
  <2>5. RightDevice'
    BY <1>1, <1>2 DEF Returns, OneReplyIsOwn
  <2> QED
    BY <2>1, <2>2, <2>3, <2>4, <2>5 DEF IInv
<1>3. CASE Sends(c) /\ Delayed /\ w = "send"
  <2>0. /\ pc' = [pc EXCEPT ![c] = "pausing"] /\ wants' = [wants EXCEPT ![c] = "send"]
        /\ lock' = c /\ UNCHANGED <<fut, answer, due>>
    BY <1>3 DEF Sends
  <2>1. TypeOK'
    BY <1>1, <2>0 DEF OneReplyIsOwn
  <2>2. Shape'
    BY <1>1, <2>0 DEF OneReplyIsOwn
  <2>3. LockDiscipline'
    BY <1>1, <2>0 DEF OneReplyIsOwn
  <2>4. OneReplyIsOwn'
    BY <1>1, <2>0 DEF OneReplyIsOwn
  <2>5. RightDevice'
    BY <1>1, <2>0 DEF OneReplyIsOwn
  <2> QED
    BY <2>1, <2>2, <2>3, <2>4, <2>5 DEF IInv
<1>4. CASE Asks(c, w) /\ w # "send"
  <2>d. /\ due' \in Seq(Reply)
        /\ \A i \in DOMAIN due' :
              due'[i].fresh => i = Len(due') /\ due'[i].key = w
    <3>1. CASE due' = due
      BY <1>1, <3>1
    <3>2. CASE due' = Append(due, [key |-> w, fresh |-> TRUE])
      <4>1. [key |-> w, fresh |-> TRUE] \in Reply
        BY <1>4 DEF Reply
      <4> QED
        BY <1>1, <3>2, <4>1
    <3> QED
      BY <1>4, <3>1, <3>2 DEF Asks
  <2>1. TypeOK'
    BY <1>1, <1>4, <2>d DEF Asks, OneReplyIsOwn
  <2>2. Shape'
    BY <1>1, <1>4, <2>d DEF Asks, OneReplyIsOwn
  <2>3. LockDiscipline'
    BY <1>1, <1>4, <2>d DEF Asks, OneReplyIsOwn
  <2>4. OneReplyIsOwn'
    BY <1>1, <1>4, <2>d DEF Asks, OneReplyIsOwn
  <2>5. RightDevice'
    BY <1>1, <1>4, <2>d DEF Asks, OneReplyIsOwn
  <2> QED
    BY <2>1, <2>2, <2>3, <2>4, <2>5 DEF IInv
<1> QED
  BY <1>2, <1>3, <1>4 DEF Begins, Sends

\* So does leaving it: the pending future is gone, and so is what was fresh.
LEMMA EndsKeeps ==
    ASSUME IInv, NEW c \in Callers, lock = c, Ends(c), UNCHANGED <<waiters, link>>
    PROVE  IInv'
<1> USE NameAssumption
<1> USE DEF NameAssumption, IInv, TypeOK, Shape, LockDiscipline,
            RightDevice, Keyed, link
<1>d. due' \in Seq(Reply) /\ \A i \in DOMAIN due' : ~due'[i].fresh
  BY AbandonsAll DEF Ends
<1>1. TypeOK'
  BY <1>d DEF Ends, OneReplyIsOwn
<1>2. Shape'
  BY <1>d DEF Ends, OneReplyIsOwn
<1>3. LockDiscipline'
  BY <1>d DEF Ends, OneReplyIsOwn
<1>4. OneReplyIsOwn'
  BY <1>d DEF Ends, OneReplyIsOwn
<1>5. RightDevice'
  BY <1>d DEF Ends, OneReplyIsOwn
<1> QED
  BY <1>1, <1>2, <1>3, <1>4, <1>5 DEF IInv

\* Every step keeps the invariant.
LEMMA InvNext == ASSUME IInv, [Next]_vars PROVE IInv'
<1> USE NameAssumption
<1> USE DEF NameAssumption, IInv, TypeOK, Shape,
            LockDiscipline, OneReplyIsOwn, RightDevice, Keyed,
            callers, locking, link
<1>1. ASSUME NEW c \in Callers, NEW w \in Keys \cup {"send"}, Calls(c, w)
      PROVE  IInv'
  <2>1. CASE lock = Nobody /\ waiters = <<>>
    BY <1>1, <2>1, BeginsKeeps DEF Calls
  <2>2. CASE ~(lock = Nobody /\ waiters = <<>>)
    <3>1. /\ pc[c] = "idle"
          /\ pc' = [pc EXCEPT ![c] = "queued"]
          /\ wants' = [wants EXCEPT ![c] = w]
          /\ waiters' = Append(waiters, c)
          /\ UNCHANGED <<lock, fut, answer, due>> /\ UNCHANGED link
      BY <1>1, <2>2 DEF Calls
    <3>2. ~ \E i \in DOMAIN waiters : waiters[i] = c
      BY <3>1
    <3>3. /\ waiters' \in Seq(Callers)
          /\ \A i, j \in DOMAIN waiters' : waiters'[i] = waiters'[j] => i = j
          /\ \A d \in Callers : (\E i \in DOMAIN waiters' : waiters'[i] = d)
                             <=> d = c \/ \E i \in DOMAIN waiters : waiters[i] = d
      <4>1. \A i, j \in DOMAIN waiters : waiters[i] = waiters[j] => i = j
        OBVIOUS
      <4>2. waiters \in Seq(Callers)
        OBVIOUS
      <4> HIDE DEF IInv, LockDiscipline, TypeOK
      <4> QED
        BY <3>1, <3>2, <4>1, <4>2, AppendToLine
    <3>4. lock # c
      BY <3>1
    <3>5. TypeOK'
      BY <3>1, <3>3
    <3>6. Shape'
      BY <3>1
    <3>7. LockDiscipline'
      <4>1. \A d \in Callers :
               (pc'[d] \in {"asking", "pausing"}) <=> lock' = d
        BY <3>1, <3>4
      <4>2. ASSUME NEW d \in Callers
            PROVE  pc'[d] = "queued"
                      <=> \E i \in DOMAIN waiters' : waiters'[i] = d
        <5>1. pc[d] = "queued" <=> \E i \in DOMAIN waiters : waiters[i] = d
          OBVIOUS
        <5>2. (pc'[d] = "queued") <=> (d = c \/ pc[d] = "queued")
          BY <3>1
        <5>3. (\E i \in DOMAIN waiters' : waiters'[i] = d)
                 <=> d = c \/ \E i \in DOMAIN waiters : waiters[i] = d
          BY <3>3
        <5> HIDE DEF IInv, LockDiscipline
        <5> QED
          BY <5>1, <5>2, <5>3
      <4>3. fut' # "none" <=> lock' # Nobody /\ wants'[lock'] # "send"
        BY <3>1, <3>4
      <4> QED
        BY <3>3, <4>1, <4>2, <4>3
    <3>8. OneReplyIsOwn'
      BY <3>1, <3>4
    <3>9. RightDevice'
      BY <3>1, <3>4
    <3> QED
      BY <3>5, <3>6, <3>7, <3>8, <3>9 DEF IInv
  <2> QED
    BY <2>1, <2>2
<1>2. ASSUME NEW c \in Callers, TakesLock(c) PROVE IInv'
  <2>1. waiters # <<>> /\ c = Head(waiters) /\ waiters' = Tail(waiters)
    BY <1>2 DEF TakesLock
  <2>2. \E i \in DOMAIN waiters : waiters[i] = c
    BY <2>1
  <2>3. wants[c] \in Keys \cup {"send"}
    BY <2>2
  <2>4. /\ waiters \in Seq(Callers)
        /\ \A i, j \in DOMAIN waiters : waiters[i] = waiters[j] => i = j
    OBVIOUS
  <2>5. /\ waiters' \in Seq(Callers)
        /\ \A i, j \in DOMAIN waiters' : waiters'[i] = waiters'[j] => i = j
        /\ \A d \in Callers : (\E i \in DOMAIN waiters' : waiters'[i] = d)
                            <=> d # c /\ \E i \in DOMAIN waiters : waiters[i] = d
    <3> HIDE DEF IInv, LockDiscipline, TypeOK
    <3> QED
      BY <2>1, <2>4, TailOfLine
  <2>6. IInv /\ lock = Nobody /\ Begins(c, wants[c]) /\ UNCHANGED link
    BY <1>2 DEF TakesLock
  <2> HIDE DEF IInv, LockDiscipline, TypeOK, link
  <2> QED
    BY <2>3, <2>5, <2>6, BeginsKeeps
<1>3. ASSUME NEW c \in Callers, TimesOut(c) PROVE IInv'
  <2>1. TypeOK'
    BY <1>3 DEF TimesOut
  <2>2. Shape'
    BY <1>3 DEF TimesOut
  <2>3. LockDiscipline'
    BY <1>3 DEF TimesOut
  <2>4. OneReplyIsOwn'
    BY <1>3 DEF TimesOut
  <2>5. RightDevice'
    BY <1>3 DEF TimesOut
  <2> QED
    BY <2>1, <2>2, <2>3, <2>4, <2>5 DEF IInv
<1>4. ASSUME NEW c \in Callers, Resumes(c) PROVE IInv'
  <2>1. CASE Ends(c)
    BY <1>4, <2>1, EndsKeeps DEF Resumes
  <2>2. CASE fut = "reply" /\ Delayed
    <3>1. TypeOK'
      BY <1>4, <2>2 DEF Resumes
    <3>2. Shape'
      BY <1>4, <2>2 DEF Resumes
    <3>3. LockDiscipline'
      BY <1>4, <2>2 DEF Resumes
    <3>4. OneReplyIsOwn'
      BY <1>4, <2>2 DEF Resumes
    <3>5. RightDevice'
      BY <1>4, <2>2 DEF Resumes
    <3> QED
      BY <3>1, <3>2, <3>3, <3>4, <3>5 DEF IInv
  <2> QED
    BY <1>4, <2>1, <2>2 DEF Resumes
<1>5. ASSUME NEW c \in Callers, PauseEnds(c) PROVE IInv'
  BY <1>5, EndsKeeps DEF PauseEnds
<1>6. CASE ReplyArrives
  <2>d. /\ Head(due) \in Reply /\ due' \in Seq(Reply)
        /\ Len(due') = Len(due) - 1
        /\ \A i \in DOMAIN due' : i + 1 \in DOMAIN due /\ due'[i] = due[i + 1]
    BY <1>6, TailOfReplies DEF ReplyArrives
  <2>1. TypeOK'
    BY <1>6, <2>d DEF ReplyArrives, TryFulfill, Matches
  <2>2. Shape'
    BY <1>6, <2>d DEF ReplyArrives, TryFulfill, Matches
  <2>3. LockDiscipline'
    BY <1>6, <2>d DEF ReplyArrives, TryFulfill, Matches
  <2>4. OneReplyIsOwn'
    BY <1>6, <2>d DEF ReplyArrives, TryFulfill, Matches
  <2>5. RightDevice'
    BY <1>6, <2>d DEF ReplyArrives, TryFulfill, Matches
  <2> QED
    BY <2>1, <2>2, <2>3, <2>4, <2>5 DEF IInv
<1>7. CASE ReplyLost
  <2>d. /\ due' \in Seq(Reply)
        /\ Len(due') = Len(due) - 1
        /\ \A i \in DOMAIN due' : i + 1 \in DOMAIN due /\ due'[i] = due[i + 1]
    BY <1>7, TailOfReplies DEF ReplyLost
  <2>1. TypeOK'
    BY <1>7, <2>d DEF ReplyLost
  <2>2. Shape'
    BY <1>7, <2>d DEF ReplyLost
  <2>3. LockDiscipline'
    BY <1>7, <2>d DEF ReplyLost
  <2>4. OneReplyIsOwn'
    BY <1>7, <2>d DEF ReplyLost
  <2>5. RightDevice'
    BY <1>7, <2>d DEF ReplyLost
  <2> QED
    BY <2>1, <2>2, <2>3, <2>4, <2>5 DEF IInv
<1>8. ASSUME NEW k \in Keys, EventArrives(k) PROVE IInv'
  <2>r. [key |-> k, fresh |-> TRUE] \in Reply
    BY DEF Reply
  <2>1. TypeOK'
    BY <1>8, <2>r DEF EventArrives, TryFulfill, Matches
  <2>2. Shape'
    BY <1>8, <2>r DEF EventArrives, TryFulfill, Matches
  <2>3. LockDiscipline'
    BY <1>8, <2>r DEF EventArrives, TryFulfill, Matches
  <2>4. OneReplyIsOwn'
    BY <1>8, <2>r DEF EventArrives, TryFulfill, Matches
  <2>5. RightDevice'
    BY <1>8, <2>r DEF EventArrives, TryFulfill, Matches
  <2> QED
    BY <2>1, <2>2, <2>3, <2>4, <2>5 DEF IInv
<1>9. CASE ReaderNotices
  <2>1. TypeOK'
    BY <1>9 DEF ReaderNotices
  <2>2. Shape'
    BY <1>9 DEF ReaderNotices
  <2>3. LockDiscipline'
    BY <1>9 DEF ReaderNotices
  <2>4. OneReplyIsOwn'
    BY <1>9 DEF ReaderNotices
  <2>5. RightDevice'
    BY <1>9 DEF ReaderNotices
  <2> QED
    BY <2>1, <2>2, <2>3, <2>4, <2>5 DEF IInv
<1>10. CASE Connects \/ LinkCut \/ Disconnects \/ Closed \/ UNCHANGED vars
  <2>1. TypeOK'
    BY <1>10 DEF Connects, LinkCut, Disconnects, Closed, vars
  <2>2. Shape'
    BY <1>10 DEF Connects, LinkCut, Disconnects, Closed, vars
  <2>3. LockDiscipline'
    BY <1>10 DEF Connects, LinkCut, Disconnects, Closed, vars
  <2>4. OneReplyIsOwn'
    BY <1>10 DEF Connects, LinkCut, Disconnects, Closed, vars
  <2>5. RightDevice'
    BY <1>10 DEF Connects, LinkCut, Disconnects, Closed, vars
  <2> QED
    BY <2>1, <2>2, <2>3, <2>4, <2>5 DEF IInv
<1> QED
  BY <1>1, <1>2, <1>3, <1>4, <1>5, <1>6, <1>7, <1>8, <1>9, <1>10
     DEF Next, Step

-----------------------------------------------------------------------------
(* What every behaviour of the protocol keeps to.                            *)

\* The inductive invariant holds in every reachable state.
THEOREM Invariant == Spec => []IInv
<1>1. IInv /\ [Next]_vars => IInv'
  BY InvNext
<1> QED
  BY InvInit, <1>1, PTL DEF Spec

\* Every variable keeps to its type.
THEOREM TypeCorrect == Spec => []TypeOK
<1>1. IInv => TypeOK
  BY DEF IInv
<1> QED
  BY Invariant, <1>1, PTL

\* The holder of the lock, the line for it and the pending future agree.
THEOREM LockIsDisciplined == Spec => []LockDiscipline
<1>1. IInv => LockDiscipline
  BY DEF IInv
<1> QED
  BY Invariant, <1>1, PTL

\* Only the last reply the bridge owes can belong to the request that is out.
THEOREM LastReplyIsOwn == Spec => []OneReplyIsOwn
<1>1. IInv => OneReplyIsOwn
  BY DEF IInv
<1> QED
  BY Invariant, <1>1, PTL

\* On JetStream, where replies carry their key, none is taken for that of another.
THEOREM RepliesNameTheirDevice == Spec => []RightDevice
<1>1. IInv => RightDevice
  BY DEF IInv
<1> QED
  BY Invariant, <1>1, PTL

-----------------------------------------------------------------------------
(* The protocol implements RequestLine.                                      *)

\* How the line looks from the outside as its head comes and goes.
LEMMA HeadAndLine ==
    ASSUME NEW s \in Seq(Callers), NEW c \in Callers
    PROVE  /\ <<c>> \o s \in Seq(Callers) /\ <<c>> \o s # <<>>
           /\ Tail(<<c>> \o s) = s
           /\ \A d \in Callers :
                 /\ <<c>> \o Append(s, d) = Append(<<c>> \o s, d)
                 /\ (\E i \in DOMAIN (<<c>> \o s) : (<<c>> \o s)[i] = d)
                       => d = c \/ \E i \in DOMAIN s : s[i] = d
           /\ <<c>> \o <<>> = Append(<<>>, c)
           /\ s # <<>> => s = <<Head(s)>> \o Tail(s)
<1>1. /\ <<c>> \in Seq(Callers) /\ Len(<<c>>) = 1 /\ <<c>>[1] = c
      /\ Len(s) \in Nat /\ DOMAIN s = 1..Len(s)
      /\ \A i \in 1..Len(s) : s[i] \in Callers
  OBVIOUS
<1>2. /\ <<c>> \o s \in Seq(Callers)
      /\ Len(<<c>> \o s) = 1 + Len(s)
      /\ DOMAIN (<<c>> \o s) = 1..(1 + Len(s))
      /\ \A i \in 1..(1 + Len(s)) :
            (<<c>> \o s)[i] = IF i <= 1 THEN c ELSE s[i - 1]
  BY <1>1, ConcatProperties
<1>3. <<c>> \o s # <<>>
  BY <1>1, <1>2
<1>4. Tail(<<c>> \o s) = s
  <2>1. /\ Tail(<<c>> \o s) \in Seq(Callers)
        /\ Len(Tail(<<c>> \o s)) = Len(s)
        /\ \A i \in 1..Len(s) : Tail(<<c>> \o s)[i] = (<<c>> \o s)[i + 1]
    BY <1>1, <1>2, <1>3, HeadTailProperties
  <2>2. \A i \in 1..Len(s) : Tail(<<c>> \o s)[i] = s[i]
    BY <1>1, <1>2, <2>1
  <2> QED
    BY <2>1, <2>2, SeqEqual
<1>5. ASSUME NEW d \in Callers
      PROVE  <<c>> \o Append(s, d) = Append(<<c>> \o s, d)
  <2>1. Append(s, d) = s \o <<d>> /\ <<d>> \in Seq(Callers)
    BY AppendIsConcat
  <2>2. Append(<<c>> \o s, d) = (<<c>> \o s) \o <<d>>
    BY <1>2, AppendIsConcat
  <2>3. (<<c>> \o s) \o <<d>> = <<c>> \o (s \o <<d>>)
    BY <1>1, <2>1, ConcatAssociative
  <2> QED
    BY <2>1, <2>2, <2>3
<1>6. ASSUME NEW d \in Callers, NEW i \in DOMAIN (<<c>> \o s),
             (<<c>> \o s)[i] = d, d # c
      PROVE  \E j \in DOMAIN s : s[j] = d
  <2>1. i - 1 \in DOMAIN s /\ s[i - 1] = d
    BY <1>1, <1>2, <1>6
  <2> QED
    BY <2>1
<1>7. <<c>> \o <<>> = Append(<<>>, c)
  <2>1. Append(<<>>, c) = <<c>>
    OBVIOUS
  <2> QED
    BY <1>1, <2>1, ConcatEmptySeq
<1>8. ASSUME s # <<>> PROVE s = <<Head(s)>> \o Tail(s)
  <2>1. /\ Head(s) \in Callers /\ Tail(s) \in Seq(Callers)
        /\ Len(Tail(s)) = Len(s) - 1
        /\ \A i \in 1..Len(Tail(s)) : Tail(s)[i] = s[i + 1]
        /\ Head(s) = s[1] /\ <<Head(s)>> \in Seq(Callers)
        /\ Len(<<Head(s)>>) = 1 /\ <<Head(s)>>[1] = s[1]
    BY <1>1, <1>8, HeadTailProperties
  <2>2. /\ <<Head(s)>> \o Tail(s) \in Seq(Callers)
        /\ Len(<<Head(s)>> \o Tail(s)) = Len(s)
        /\ \A i \in 1..Len(s) : (<<Head(s)>> \o Tail(s))[i]
              = IF i <= 1 THEN s[1] ELSE Tail(s)[i - 1]
    BY <1>1, <2>1, ConcatProperties
  <2>3. \A i \in 1..Len(s) : (<<Head(s)>> \o Tail(s))[i] = s[i]
    BY <1>1, <2>1, <2>2
  <2> QED
    BY <2>2, <2>3, SeqEqual
<1> QED
  BY <1>2, <1>3, <1>4, <1>5, <1>6, <1>7, <1>8

\* Running with the lock in hand, `c` is the head of the line, or has left it.
LEMMA BeginsAsLine ==
    ASSUME IInv, NEW c \in Callers, NEW w, lock = Nobody, Begins(c, w)
    PROVE  /\ Outcome = "open" /\ Outcome' = "open"
           /\ Queue = waiters
           /\ Queue' = waiters' \/ Queue' = <<c>> \o waiters'
<1> USE NameAssumption DEF NameAssumption
<1>1. fut = "none"
  BY DEF IInv, LockDiscipline
<1>2. /\ fut' \in {"none", "waiting"}
      /\ lock' \in {c, Nobody}
  BY <1>1 DEF Begins, Sends, Asks, Returns
<1> QED
  BY <1>1, <1>2 DEF Queue, Outcome

\* Each step of the protocol is one of the line's, or none.
LEMMA StepAsLine == ASSUME IInv, [Next]_vars PROVE [Line!Next]_(Line!vars)
<1> USE NameAssumption DEF NameAssumption
<1>t. /\ waiters \in Seq(Callers) /\ lock \in Callers \cup {Nobody}
      /\ Nobody \notin Callers
      /\ fut \in {"none", "waiting", "reply", "error", "cancelled"}
      /\ fut # "none" <=> lock # Nobody /\ wants[lock] # "send"
  BY DEF IInv, TypeOK, LockDiscipline
<1>h. lock # Nobody =>
        /\ Queue = <<lock>> \o waiters /\ Queue # <<>> /\ Tail(Queue) = waiters
  BY <1>t, HeadAndLine DEF Queue
<1>1. ASSUME NEW c \in Callers, NEW w \in Keys \cup {"send"}, Calls(c, w)
      PROVE  [Line!Next]_(Line!vars)
  <2>n. ~Line!InLine(c)
    <3>1. lock # c /\ ~ \E i \in DOMAIN waiters : waiters[i] = c
      BY <1>1 DEF Calls, IInv, LockDiscipline
    <3> QED
      BY <1>t, <3>1, HeadAndLine DEF Line!InLine, Queue
  <2>1. CASE lock = Nobody /\ waiters = <<>>
    <3>1. /\ Outcome = "open" /\ Outcome' = "open" /\ Queue = <<>>
          /\ Queue' = <<>> \/ Queue' = <<c>> \o <<>>
      BY <1>1, <2>1, BeginsAsLine DEF Calls
    <3>2. <<c>> \o <<>> = Append(<<>>, c)
      BY <1>t, HeadAndLine
    <3>3. CASE Queue' = <<>>
      BY <3>1, <3>3 DEF Line!vars
    <3>4. CASE Queue' = Append(Queue, c)
      <4>1. Line!Join(c)
        BY <2>n, <3>1, <3>4 DEF Line!Join
      <4> QED
        BY <4>1 DEF Line!Next
    <3> QED
      BY <3>1, <3>2, <3>3, <3>4
  <2>2. CASE ~(lock = Nobody /\ waiters = <<>>)
    <3>1. waiters' = Append(waiters, c) /\ lock' = lock /\ fut' = fut
      BY <1>1, <2>2 DEF Calls
    <3>2. Queue' = Append(Queue, c) /\ Outcome' = Outcome
      BY <1>t, <3>1, HeadAndLine DEF Queue, Outcome
    <3>3. Line!Join(c)
      BY <2>n, <3>2 DEF Line!Join
    <3> QED
      BY <3>3 DEF Line!Next
  <2> QED
    BY <2>1, <2>2
<1>2. ASSUME NEW c \in Callers, TakesLock(c) PROVE [Line!Next]_(Line!vars)
  <2>1. /\ lock = Nobody /\ waiters # <<>> /\ waiters' = Tail(waiters)
        /\ c = Head(waiters) /\ Begins(c, wants[c])
    BY <1>2 DEF TakesLock
  <2>2. waiters = <<c>> \o Tail(waiters)
    BY <1>t, <2>1, HeadAndLine
  <2>3. /\ Outcome = "open" /\ Outcome' = "open" /\ Queue = waiters
        /\ Queue' = waiters' \/ Queue' = <<c>> \o waiters'
    BY <2>1, BeginsAsLine
  <2>4. CASE Queue' = waiters'
    <3>1. Line!Leave
      BY <2>1, <2>3, <2>4 DEF Line!Leave
    <3> QED
      BY <3>1 DEF Line!Next
  <2>5. CASE Queue' = <<c>> \o waiters'
    BY <2>1, <2>2, <2>3, <2>5 DEF Line!vars
  <2> QED
    BY <2>3, <2>4, <2>5
<1>3. ASSUME UNCHANGED <<lock, waiters, fut>> PROVE [Line!Next]_(Line!vars)
  BY <1>3 DEF Line!vars, Queue, Outcome
<1>4. ASSUME UNCHANGED <<lock, waiters>>, fut # "none",
             fut' \in {"cancelled", "error"}
      PROVE  [Line!Next]_(Line!vars)
  <2>1. Queue' = Queue /\ Queue # <<>> /\ Outcome' = "error"
    BY <1>t, <1>h, <1>4 DEF Queue, Outcome
  <2>2. CASE Outcome = "error"
    BY <2>1, <2>2 DEF Line!vars
  <2>3. CASE Outcome # "error"
    <3>1. Line!Fail
      BY <2>1, <2>3 DEF Line!Fail
    <3> QED
      BY <3>1 DEF Line!Next
  <2> QED
    BY <2>2, <2>3
<1>5. ASSUME UNCHANGED <<lock, waiters>>, fut = "waiting", fut' = "reply"
      PROVE  [Line!Next]_(Line!vars)
  <2>1. /\ Queue' = Queue /\ Queue # <<>>
        /\ Outcome = "open" /\ Outcome' = "reply"
    BY <1>t, <1>h, <1>5 DEF Queue, Outcome
  <2>2. Line!Answer
    BY <2>1 DEF Line!Answer
  <2> QED
    BY <2>2 DEF Line!Next
<1>6. ASSUME UNCHANGED waiters, lock # Nobody, lock' = Nobody, fut' = "none"
      PROVE  [Line!Next]_(Line!vars)
  <2>1. Queue # <<>> /\ Queue' = Tail(Queue) /\ Outcome' = "open"
    BY <1>h, <1>6 DEF Queue, Outcome
  <2>2. Line!Leave
    BY <2>1 DEF Line!Leave
  <2> QED
    BY <2>2 DEF Line!Next
<1>7. ASSUME NEW c \in Callers, TimesOut(c) PROVE [Line!Next]_(Line!vars)
  <2>1. fut # "none"
    BY <1>7 DEF TimesOut, IInv, LockDiscipline, Shape
  <2> QED
    BY <1>4, <1>7, <2>1 DEF TimesOut, locking
<1>8. ASSUME NEW c \in Callers, Resumes(c) \/ PauseEnds(c)
      PROVE  [Line!Next]_(Line!vars)
  <2>1. lock = c
    BY <1>8 DEF Resumes, PauseEnds, IInv, LockDiscipline
  <2> QED
    BY <1>t, <1>3, <1>6, <1>8, <2>1 DEF Resumes, PauseEnds, Ends
<1>9. CASE ReplyArrives \/ \E k \in Keys : EventArrives(k)
  BY <1>3, <1>5, <1>9 DEF ReplyArrives, EventArrives, TryFulfill, locking
<1>10. CASE ReaderNotices
  BY <1>3, <1>4, <1>10 DEF ReaderNotices, locking
<1>11. CASE ReplyLost \/ Connects \/ LinkCut \/ Disconnects \/ Closed
  BY <1>3, <1>11 DEF ReplyLost, Connects, LinkCut, Disconnects, Closed, locking
<1>12. CASE UNCHANGED vars
  BY <1>3, <1>12 DEF vars, locking
<1> QED
  BY <1>1, <1>2, <1>7, <1>8, <1>9, <1>10, <1>11, <1>12 DEF Next, Step

\* The callers are served as one line, first come, first served, and only its
\* head is answered.
THEOREM ImplementsLine == Spec => ServedInLine
<1>1. Init => Line!Init
  BY DEF Init, Line!Init, Queue, Outcome
<1>2. IInv /\ [Next]_vars => [Line!Next]_(Line!vars)
  BY StepAsLine
<1> QED
  BY Invariant, <1>1, <1>2, PTL DEF Spec, ServedInLine, Line!Spec

=============================================================================
