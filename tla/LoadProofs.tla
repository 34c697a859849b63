----------------------------- MODULE LoadProofs -----------------------------
(* For any loads and levels: what is shown of a load is consistent, and is    *)
(* what the bridge reported (LoadState); and, byte by byte, what is shown of   *)
(* a light is what it was asked for (LightLine).                              *)
(*                                                                            *)
(* The argument for the second: the line keeps its order, so in any line that *)
(* is on its way the last word on a load is right, and so is an answer that   *)
(* was fulfilled until a newer report of the load overtakes it.               *)
(* The same holds below the lines: the codecs invert each other, the buffer   *)
(* has what came of the line on its way (LineInv), so while nothing is lost    *)
(* the lines are heard as they were said, and the last word on a light is its *)
(* level (WordInv). After a loss the length of what is put together tells it   *)
(* from a bitmap (TornInv).                                                   *)
EXTENDS LoadState, LightLine, SequenceTheorems, TLAPS

Reported(m, l) == m.kind = "push" /\ m.load = l

\* The load `l` is reported again after the first `i` lines.
Again(l, i) == \E j \in DOMAIN line : j > i /\ Reported(line[j], l)

\* What the line `m` says of the load is how it is.
Right(m, l) ==
    /\ m.kind = "push" /\ m.load = l => m.level = bridge[l]
    /\ m.kind = "bulk" => (l \in m.on <=> bridge[l] > 0)

LastWordRight ==
    up => \A l \in Pushing : \A i \in DOMAIN line :
              ~Again(l, i) => Right(line[i], l)

AnswerRight ==
    up /\ answered =>
        \A l \in Pushing \ overtaken :
            ~Again(l, 0) => (l \in got <=> bridge[l] > 0)

\* Nothing comes over a dead link, and a query ends before the next connection.
OneConnection ==
    /\ ~up => line = <<>> /\ owed = 0 /\ stale = Loads
    /\ answered => query # "none"
    /\ up /\ answered => overtaken \cap stale = {}

IInv ==
    /\ TypeOK
    /\ OnMatchesLevel
    /\ OneConnection
    /\ LastWordRight
    /\ AnswerRight
    /\ ShownAsReported

-----------------------------------------------------------------------------
(* What the steps do to the line.                                            *)

\* A line is written.
LEMMA Written ==
    ASSUME TypeOK, NEW m \in Push \cup Bulk, line' = Append(line, m)
    PROVE  /\ line' \in Seq(Push \cup Bulk) /\ Len(line) \in Nat
           /\ DOMAIN line = 1..Len(line) /\ DOMAIN line' = 1..(Len(line) + 1)
           /\ line'[Len(line) + 1] = m
           /\ \A i \in 1..Len(line) : line'[i] = line[i]
<1>1. line \in Seq(Push \cup Bulk)
  BY DEF TypeOK
<1> DEFINE S == Push \cup Bulk
<1>2. line \in Seq(S) /\ m \in S
  BY <1>1
<1> HIDE DEF S
<1>3. /\ line' \in Seq(S) /\ Len(line) \in Nat
      /\ DOMAIN line = 1..Len(line) /\ DOMAIN line' = 1..(Len(line) + 1)
      /\ line'[Len(line) + 1] = m
      /\ \A i \in 1..Len(line) : line'[i] = line[i]
  BY <1>2
<1> QED
  BY <1>3 DEF S

\* A line is read.
LEMMA ReadLine ==
    ASSUME TypeOK, line # <<>>, line' = Tail(line)
    PROVE  /\ line' \in Seq(Push \cup Bulk) /\ Len(line) \in Nat
           /\ DOMAIN line = 1..Len(line) /\ 1 \in DOMAIN line
           /\ DOMAIN line' = 1..(Len(line) - 1)
           /\ Head(line) = line[1] /\ Head(line) \in Push \cup Bulk
           /\ \A i \in DOMAIN line' : i + 1 \in DOMAIN line
           /\ \A i \in DOMAIN line' : line'[i] = line[i + 1]
<1>1. line \in Seq(Push \cup Bulk)
  BY DEF TypeOK
<1> DEFINE S == Push \cup Bulk
<1>2. line \in Seq(S)
  BY <1>1
<1> HIDE DEF S
<1>3. /\ line' \in Seq(S) /\ Len(line) \in Nat
      /\ DOMAIN line = 1..Len(line) /\ 1 \in DOMAIN line
      /\ DOMAIN line' = 1..(Len(line) - 1)
      /\ Head(line) = line[1] /\ Head(line) \in S
      /\ \A i \in DOMAIN line' : i + 1 \in DOMAIN line
      /\ \A i \in DOMAIN line' : line'[i] = line[i + 1]
  BY <1>2
<1> QED
  BY <1>3 DEF S

\* What is reported again after reading was so before.
LEMMA ReadAgain ==
    ASSUME TypeOK, line # <<>>, line' = Tail(line), NEW l, NEW i \in Nat
    PROVE  /\ Again(l, i)' <=> Again(l, i + 1)
           /\ Again(l, 0) <=> Again(l, 1) \/ Reported(line[1], l)
<1>1. ASSUME NEW j \in DOMAIN line', j > i, Reported(line'[j], l)
      PROVE  Again(l, i + 1)
  <2>1. j + 1 \in DOMAIN line /\ j + 1 > i + 1 /\ line[j + 1] = line'[j]
    BY <1>1, ReadLine
  <2> QED
    BY <1>1, <2>1 DEF Again
<1>2. ASSUME NEW j \in DOMAIN line, j > i + 1, Reported(line[j], l)
      PROVE  Again(l, i)'
  <2>1. j - 1 \in DOMAIN line' /\ j - 1 > i /\ (j - 1) + 1 = j
    BY <1>2, ReadLine
  <2>2. line'[j - 1] = line[j]
    BY <2>1, ReadLine
  <2> QED
    BY <1>2, <2>1, <2>2 DEF Again, Reported
<1>3. ASSUME NEW j \in DOMAIN line, Reported(line[j], l), j # 1
      PROVE  Again(l, 1)
  <2>1. j > 1
    BY <1>3, ReadLine
  <2> QED
    BY <1>3, <2>1 DEF Again
<1>4. Again(l, 1) \/ Reported(line[1], l) => Again(l, 0)
  <2>1. 1 \in DOMAIN line /\ \A j \in DOMAIN line : j \in Nat
    BY ReadLine
  <2> QED
    BY <2>1 DEF Again
<1>5. Again(l, i)' => Again(l, i + 1)
  BY <1>1 DEF Again, Reported
<1>6. Again(l, i + 1) => Again(l, i)'
  BY <1>2 DEF Again
<1>7. Again(l, 0) => Again(l, 1) \/ Reported(line[1], l)
  BY <1>3 DEF Again
<1> QED
  BY <1>4, <1>5, <1>6, <1>7

\* Writing a line that reports `m` adds one report, at the end.
LEMMA WrittenAgain ==
    ASSUME TypeOK, NEW m \in Push \cup Bulk, line' = Append(line, m),
           NEW l, NEW i \in 0..Len(line)
    PROVE  Again(l, i)' <=> Again(l, i) \/ Reported(m, l)
<1>1. ASSUME NEW j \in DOMAIN line', j > i, Reported(line'[j], l)
      PROVE  Again(l, i) \/ Reported(m, l)
  <2>1. CASE j = Len(line) + 1
    BY <1>1, <2>1, Written
  <2>2. CASE j # Len(line) + 1
    <3>1. j \in DOMAIN line /\ line'[j] = line[j]
      BY <1>1, <2>2, Written
    <3> QED
      BY <1>1, <3>1 DEF Again
  <2> QED
    BY <2>1, <2>2
<1>2. ASSUME NEW j \in DOMAIN line, j > i, Reported(line[j], l)
      PROVE  Again(l, i)'
  <2>1. j \in DOMAIN line' /\ line'[j] = line[j]
    BY <1>2, Written
  <2> QED
    BY <1>2, <2>1 DEF Again, Reported
<1>3. ASSUME Reported(m, l) PROVE Again(l, i)'
  <2>1. Len(line) + 1 \in DOMAIN line' /\ Len(line) + 1 > i
        /\ line'[Len(line) + 1] = m
    BY Written
  <2> QED
    BY <1>3, <2>1 DEF Again, Reported
<1>4. Again(l, i)' => Again(l, i) \/ Reported(m, l)
  BY <1>1 DEF Again, Reported
<1>5. Again(l, i) => Again(l, i)'
  BY <1>2 DEF Again
<1> QED
  BY <1>3, <1>4, <1>5

-----------------------------------------------------------------------------
(* The inductive invariant.                                                  *)

\* ShownAsReported in the words used here, before and after a step.
LEMMA ShownAgain ==
    ASSUME TypeOK
    PROVE  ShownAsReported <=>
             \A l \in Pushing \ stale : up /\ ~Again(l, 0) =>
                /\ data[l].on <=> bridge[l] > 0
                /\ l \notin guessed => data[l].level = bridge[l]
<1>1. \A i \in DOMAIN line : i \in Nat /\ i > 0
  BY DEF TypeOK
<1> QED
  BY <1>1 DEF ShownAsReported, Again, Reported

LEMMA ShownAgainAfter ==
    ASSUME line' \in Seq(Push \cup Bulk)
    PROVE  ShownAsReported' <=>
             \A l \in Pushing \ stale' : up' /\ ~Again(l, 0)' =>
                /\ data'[l].on <=> bridge'[l] > 0
                /\ l \notin guessed' => data'[l].level = bridge'[l]
<1>1. \A i \in DOMAIN line' : i \in Nat /\ i > 0
  OBVIOUS
<1> QED
  BY <1>1 DEF ShownAsReported, Again, Reported

\* The coordinator starts in the invariant.
LEMMA InvInit == Init => IInv
<1> SUFFICES ASSUME Init PROVE IInv
  OBVIOUS
<1> USE LevelAssumption, PushingAssumption, BoundAssumption
        DEF LevelAssumption, PushingAssumption, BoundAssumption, Init
<1>1. TypeOK
  <2>1. data \in [Loads -> [on : BOOLEAN, level : Levels]]
    OBVIOUS
  <2>2. line \in Seq(Push \cup Bulk)
    OBVIOUS
  <2>3. owed \in 0..MaxOwed
    OBVIOUS
  <2> QED
    BY <2>1, <2>2, <2>3 DEF TypeOK
<1>2. OnMatchesLevel /\ OneConnection
  BY DEF OnMatchesLevel, OneConnection
<1>3. LastWordRight /\ AnswerRight /\ ShownAsReported
  BY DEF LastWordRight, AnswerRight, ShownAsReported
<1> QED
  BY <1>1, <1>2, <1>3 DEF IInv

\* A report of the bridge on a live link keeps the invariant: it is the last
\* word on its load, and it is right.
LEMMA ReportKeeps ==
    ASSUME IInv, up, NEW l \in Loads, NEW v \in Levels, Reports(l, v),
           bridge' \in [Loads -> Levels], bridge'[l] = v,
           \A k \in Loads \ {l} : bridge'[k] = bridge[k],
           UNCHANGED <<up, owed, request, data, ghosts>>
    PROVE  IInv'
<1> DEFINE m == [kind |-> "push", load |-> l, level |-> v]
<1>m. /\ m \in Push \cup Bulk /\ line' = Append(line, m)
      /\ m.kind = "push" /\ m.load = l /\ m.level = v
      /\ \A k : Reported(m, k) <=> k = l
  BY DEF Reports, Push, Reported
<1> HIDE DEF m
<1>t. TypeOK
  BY DEF IInv
<1>p. Pushing \subseteq Loads
  BY PushingAssumption DEF PushingAssumption
<1>w. /\ line' \in Seq(Push \cup Bulk) /\ Len(line) \in Nat
      /\ DOMAIN line = 1..Len(line) /\ DOMAIN line' = 1..(Len(line) + 1)
      /\ line'[Len(line) + 1] = m
      /\ \A i \in 1..Len(line) : line'[i] = line[i]
  BY <1>t, <1>m, Written
<1>a. \A k, i : i \in 0..Len(line) => (Again(k, i)' <=> Again(k, i) \/ k = l)
  BY <1>t, <1>m, WrittenAgain
<1>u. /\ up' /\ data' = data /\ stale' = stale /\ guessed' = guessed
      /\ owed' = owed /\ query' = query /\ answered' = answered
      /\ got' = got /\ overtaken' = overtaken
  BY DEF request, ghosts
<1>1. TypeOK'
  BY <1>t, <1>w, <1>u DEF TypeOK
<1>2. OnMatchesLevel' /\ OneConnection'
  BY <1>u DEF IInv, OnMatchesLevel, OneConnection
<1>3. LastWordRight'
  <2> SUFFICES ASSUME NEW k \in Pushing, NEW i \in DOMAIN line', ~Again(k, i)'
               PROVE  Right(line[i], k)'
    BY DEF LastWordRight
  <2>1. CASE i = Len(line) + 1
    BY <1>m, <1>w, <2>1 DEF Right
  <2>2. CASE i # Len(line) + 1
    <3>1. i \in DOMAIN line /\ i \in 0..Len(line) /\ line'[i] = line[i]
      BY <1>w, <2>2
    <3>2. k # l /\ ~Again(k, i)
      BY <1>a, <3>1
    <3>3. Right(line[i], k) /\ bridge'[k] = bridge[k]
      BY <1>p, <3>1, <3>2 DEF IInv, LastWordRight
    <3> QED
      BY <3>1, <3>3 DEF Right
  <2> QED
    BY <2>1, <2>2
<1>4. \A k \in Pushing : ~Again(k, 0)' => ~Again(k, 0) /\ bridge'[k] = bridge[k]
  BY <1>a, <1>p, <1>w
<1>5. AnswerRight'
  BY <1>4, <1>u DEF IInv, AnswerRight
<1>6. ShownAsReported'
  <2> HIDE DEF IInv
  <2>1. ShownAsReported
    BY DEF IInv
  <2> QED
    BY <1>4, <1>t, <1>u, <1>w, <2>1, ShownAgain, ShownAgainAfter
<1> QED
  BY <1>1, <1>2, <1>3, <1>5, <1>6 DEF IInv

\* So does the answer to a bulk query: it is right when it is written.
LEMMA AnswersKeeps == ASSUME IInv, Answers PROVE IInv'
<1> DEFINE m == [kind |-> "bulk", on |-> BridgeOn]
<1>m. /\ m \in Push \cup Bulk /\ line' = Append(line, m)
      /\ m.kind = "bulk" /\ m.on = BridgeOn
      /\ \A k : ~Reported(m, k)
  BY DEF Answers, Bulk, Reported, BridgeOn
<1> HIDE DEF m
<1>t. TypeOK
  BY DEF IInv
<1>p. Pushing \subseteq Loads
  BY PushingAssumption DEF PushingAssumption
<1>w. /\ line' \in Seq(Push \cup Bulk) /\ Len(line) \in Nat
      /\ DOMAIN line = 1..Len(line) /\ DOMAIN line' = 1..(Len(line) + 1)
      /\ line'[Len(line) + 1] = m
      /\ \A i \in 1..Len(line) : line'[i] = line[i]
  BY <1>t, <1>m, Written
<1>a. \A k, i : i \in 0..Len(line) => (Again(k, i)' <=> Again(k, i))
  BY <1>t, <1>m, WrittenAgain
<1>u. UNCHANGED <<bridge, up, data, stale, guessed, query, answered, got, overtaken>>
  BY DEF Answers, outside, request, ghosts
<1>o. owed \in 1..MaxOwed /\ owed' = owed - 1
  BY <1>t, BoundAssumption DEF Answers, TypeOK, BoundAssumption
<1>1. TypeOK'
  <2>1. owed' \in 0..MaxOwed
    BY <1>o, BoundAssumption DEF BoundAssumption
  <2> QED
    BY <1>t, <1>w, <1>u, <2>1 DEF TypeOK
<1>2. OnMatchesLevel'
  BY <1>u DEF IInv, OnMatchesLevel
<1>3. OneConnection'
  BY <1>u, <1>o DEF IInv, OneConnection
<1>4. LastWordRight'
  <2> SUFFICES ASSUME up', NEW k \in Pushing, NEW i \in DOMAIN line', ~Again(k, i)'
               PROVE  Right(line[i], k)'
    BY DEF LastWordRight
  <2>1. CASE i = Len(line) + 1
    BY <1>m, <1>w, <1>u, <1>p, <2>1 DEF Right, BridgeOn
  <2>2. CASE i # Len(line) + 1
    <3>1. i \in DOMAIN line /\ i \in 0..Len(line) /\ line'[i] = line[i]
      BY <1>w, <2>2
    <3>2. Right(line[i], k)
      BY <1>a, <1>u, <3>1 DEF IInv, LastWordRight
    <3> QED
      BY <1>u, <3>1, <3>2 DEF Right
  <2> QED
    BY <2>1, <2>2
<1>5. \A k : ~Again(k, 0)' => ~Again(k, 0)
  BY <1>a, <1>w
<1>6. AnswerRight'
  BY <1>5, <1>u DEF IInv, AnswerRight
<1>7. ShownAsReported'
  <2>1. ShownAsReported
    BY DEF IInv
  <2> HIDE DEF IInv
  <2> QED
    BY <1>5, <1>t, <1>u, <1>w, <2>1, ShownAgain, ShownAgainAfter
<1> QED
  BY <1>1, <1>2, <1>3, <1>4, <1>6, <1>7 DEF IInv

\* A report is read: if it was the last word, it is what is shown now.
LEMMA PushKeeps == ASSUME IInv, PushArrives PROVE IInv'
<1> DEFINE l == Head(line).load
           v == Head(line).level
<1>t. TypeOK
  BY DEF IInv
<1>p. Pushing \subseteq Loads
  BY PushingAssumption DEF PushingAssumption
<1>n. LevelAssumption /\ \A x \in Levels : x \in Nat
  BY LevelAssumption DEF LevelAssumption
<1>w. /\ line' \in Seq(Push \cup Bulk) /\ line # <<>> /\ line' = Tail(line)
      /\ 1 \in DOMAIN line
      /\ Head(line) = line[1] /\ Head(line) \in Push \cup Bulk
      /\ \A i \in DOMAIN line' : i \in Nat /\ i + 1 \in DOMAIN line
      /\ \A i \in DOMAIN line' : line'[i] = line[i + 1]
  BY <1>t, ReadLine DEF PushArrives
<1>l. /\ l \in Loads /\ v \in Levels
      /\ \A k : Reported(line[1], k) <=> k = l
  BY <1>w DEF PushArrives, Push, Bulk, Reported
<1>a. /\ \A k, i : i \in Nat => (Again(k, i)' <=> Again(k, i + 1))
      /\ \A k : Again(k, 0) <=> Again(k, 1) \/ k = l
  BY <1>t, <1>w, <1>l, ReadAgain
<1>u. /\ UNCHANGED <<bridge, up, owed, query, answered, got>>
      /\ data' = [data EXCEPT ![l] = [on |-> v > 0, level |-> v]]
      /\ stale' = stale \ {l} /\ guessed' = guessed \ {l}
      /\ overtaken' = IF answered THEN overtaken \cup {l} ELSE overtaken
  BY DEF PushArrives, Pushed, outside, request
<1>v. Right(line[1], l) => v = bridge[l]
  BY <1>w DEF Right, PushArrives
<1>up. up
  BY <1>w DEF IInv, OneConnection
<1> HIDE DEF l, v
<1>d. /\ data' \in [Loads -> [on : BOOLEAN, level : Levels]]
      /\ data'[l].on = (v > 0) /\ data'[l].level = v
      /\ \A k \in Loads \ {l} : data'[k] = data[k]
  <2>1. [on |-> v > 0, level |-> v] \in [on : BOOLEAN, level : Levels]
    BY <1>l
  <2>2. data \in [Loads -> [on : BOOLEAN, level : Levels]]
    BY <1>t DEF TypeOK
  <2> QED
    BY <1>l, <1>u, <2>1, <2>2
<1>1. TypeOK'
  BY <1>t, <1>w, <1>u, <1>l, <1>d DEF TypeOK
<1>2. OnMatchesLevel'
  <2> SUFFICES ASSUME NEW k \in Loads PROVE data'[k].on <=> data'[k].level > 0
    BY DEF OnMatchesLevel
  <2> QED
    BY <1>d DEF IInv, OnMatchesLevel
<1>3. OneConnection'
  BY <1>u, <1>up DEF IInv, OneConnection
<1>4. LastWordRight'
  <2> SUFFICES ASSUME NEW k \in Pushing, NEW i \in DOMAIN line', ~Again(k, i)'
               PROVE  Right(line[i], k)'
    BY DEF LastWordRight
  <2>1. i + 1 \in DOMAIN line /\ ~Again(k, i + 1)
    BY <1>a, <1>w
  <2>2. Right(line[i + 1], k)
    BY <1>up, <2>1 DEF IInv, LastWordRight
  <2> QED
    BY <1>u, <1>w, <2>2 DEF Right
<1>5. AnswerRight'
  <2> SUFFICES ASSUME answered, NEW k \in Pushing \ overtaken', ~Again(k, 0)'
               PROVE  k \in got <=> bridge[k] > 0
    BY <1>u DEF AnswerRight
  <2>1. k \notin overtaken /\ k # l /\ ~Again(k, 1)
    BY <1>a, <1>u
  <2> QED
    BY <1>a, <1>up, <2>1 DEF IInv, AnswerRight
<1>6. ShownAsReported'
  <2>1. SUFFICES ASSUME NEW k \in Pushing \ stale', ~Again(k, 0)'
        PROVE  /\ data'[k].on <=> bridge'[k] > 0
               /\ k \notin guessed' => data'[k].level = bridge'[k]
    BY <1>w, ShownAgainAfter
  <2>2. ~Again(k, 1)
    BY <1>a, <2>1
  <2>3. CASE k = l
    <3>1. Right(line[1], l)
      BY <1>up, <1>w, <2>2, <2>3 DEF IInv, LastWordRight
    <3> QED
      BY <1>d, <1>u, <1>v, <2>3, <3>1
  <2>4. CASE k # l
    <3>1. k \in Pushing \ stale /\ ~Again(k, 0)
      BY <1>a, <1>u, <2>2, <2>4
    <3>2. ShownAsReported
      BY DEF IInv
    <3>3. /\ data[k].on <=> bridge[k] > 0
          /\ k \notin guessed => data[k].level = bridge[k]
      BY <1>t, <1>up, <3>1, <3>2, ShownAgain
    <3> QED
      BY <1>d, <1>p, <1>u, <2>4, <3>3
  <2> QED
    BY <2>3, <2>4
<1> QED
  BY <1>1, <1>2, <1>3, <1>4, <1>5, <1>6 DEF IInv

\* A bulk answer is read: it fulfils the query that waits, or is dropped.
LEMMA BulkKeeps == ASSUME IInv, BulkArrives PROVE IInv'
<1>t. TypeOK
  BY DEF IInv
<1>p. Pushing \subseteq Loads
  BY PushingAssumption DEF PushingAssumption
<1>w. /\ line' \in Seq(Push \cup Bulk) /\ line # <<>> /\ line' = Tail(line)
      /\ 1 \in DOMAIN line
      /\ Head(line) = line[1] /\ Head(line) \in Push \cup Bulk
      /\ \A i \in DOMAIN line' : i \in Nat /\ i + 1 \in DOMAIN line
      /\ \A i \in DOMAIN line' : line'[i] = line[i + 1]
  BY <1>t, ReadLine DEF BulkArrives
<1>b. /\ line[1].kind = "bulk" /\ line[1].on \subseteq Loads
      /\ \A k : ~Reported(line[1], k)
  BY <1>w DEF BulkArrives, Push, Bulk, Reported
<1>a. /\ \A k, i : i \in Nat => (Again(k, i)' <=> Again(k, i + 1))
      /\ \A k : Again(k, 0)' <=> Again(k, 0)
  <2>1. \A k, i : i \in Nat => (Again(k, i)' <=> Again(k, i + 1))
    BY <1>t, <1>w, ReadAgain
  <2>2. \A k : Again(k, 0) <=> Again(k, 1)
    BY <1>t, <1>w, <1>b, ReadAgain
  <2> QED
    BY <2>1, <2>2
<1>u. /\ UNCHANGED <<bridge, up, owed, query, data, stale, guessed>>
      /\ \/ /\ query # "none" /\ ~answered
            /\ answered' = TRUE /\ got' = line[1].on /\ overtaken' = {}
         \/ UNCHANGED <<answered, got, overtaken>>
  BY <1>w DEF BulkArrives, outside
<1>up. up
  BY <1>w DEF IInv, OneConnection
<1>1. TypeOK'
  BY <1>t, <1>w, <1>b, <1>u DEF TypeOK
<1>2. OnMatchesLevel'
  BY <1>u DEF IInv, OnMatchesLevel
<1>3. OneConnection'
  BY <1>u, <1>up DEF IInv, OneConnection
<1>4. LastWordRight'
  <2> SUFFICES ASSUME NEW k \in Pushing, NEW i \in DOMAIN line', ~Again(k, i)'
               PROVE  Right(line[i], k)'
    BY DEF LastWordRight
  <2>1. i + 1 \in DOMAIN line /\ ~Again(k, i + 1)
    BY <1>a, <1>w
  <2>2. Right(line[i + 1], k)
    BY <1>up, <2>1 DEF IInv, LastWordRight
  <2> QED
    BY <1>u, <1>w, <2>2 DEF Right
<1>5. AnswerRight'
  <2> SUFFICES ASSUME answered', NEW k \in Pushing \ overtaken', ~Again(k, 0)'
               PROVE  k \in got' <=> bridge[k] > 0
    BY <1>u DEF AnswerRight
  <2>1. CASE got' = line[1].on
    <3>1. ~Again(k, 1)
      BY <1>a
    <3>2. Right(line[1], k)
      BY <1>up, <1>w, <3>1 DEF IInv, LastWordRight
    <3> QED
      BY <1>b, <2>1, <3>2 DEF Right
  <2>2. CASE UNCHANGED <<answered, got, overtaken>>
    BY <1>a, <1>up, <2>2 DEF IInv, AnswerRight
  <2> QED
    BY <1>u, <2>1, <2>2
<1>6. ShownAsReported'
  <2>1. ShownAsReported
    BY DEF IInv
  <2> HIDE DEF IInv
  <2> QED
    BY <1>a, <1>t, <1>u, <1>w, <2>1, ShownAgain, ShownAgainAfter
<1> QED
  BY <1>1, <1>2, <1>3, <1>4, <1>5, <1>6 DEF IInv

\* An answer is merged: it is right for every load that was not reported since.
LEMMA MergeKeeps == ASSUME IInv, Merges PROVE IInv'
<1>t. TypeOK
  BY DEF IInv
<1>p. Pushing \subseteq Loads
  BY PushingAssumption DEF PushingAssumption
<1>n. /\ Full \in Levels /\ 0 \in Levels /\ Full > 0 /\ ~(0 > 0)
      /\ \A x \in Levels : x \in Nat /\ (~(x > 0) => x = 0)
  BY LevelAssumption DEF LevelAssumption
<1>u. /\ UNCHANGED <<bridge, up, owed, line>>
      /\ answered /\ query' = "none" /\ answered' = FALSE /\ got' = {} /\ overtaken' = {}
  BY DEF Merges, Forgets, outside, stream
<1>d. \A l \in Loads : data'[l] = IF query = "prime" THEN Primed(l \in got, data[l])
                                   ELSE Polled(l \in got, data[l])
  BY DEF Merges
<1>s. \A l \in Loads : /\ data[l].on \in BOOLEAN /\ data[l].level \in Levels
                       /\ data[l] \in [on : BOOLEAN, level : Levels]
                       /\ data[l].on <=> data[l].level > 0
  BY <1>t DEF IInv, TypeOK, OnMatchesLevel
<1>f. ASSUME NEW l \in Loads
      PROVE  /\ data'[l] \in [on : BOOLEAN, level : Levels]
             /\ data'[l].on <=> l \in got
             /\ data'[l].on <=> data'[l].level > 0
             /\ query # "prime" /\ (data[l].on <=> l \in got) => data'[l] = data[l]
  <2>1. CASE l \in got
    <3>1. (l \in got) = TRUE
      BY <2>1
    <3>2. Primed(l \in got, data[l]) = [on |-> TRUE, level |-> Full]
      BY <3>1 DEF Primed
    <3>3. CASE data[l].on = TRUE
      <4>1. Polled(l \in got, data[l]) = data[l]
        BY <3>1, <3>3 DEF Polled
      <4>2. \/ data'[l] = data[l]
            \/ query = "prime" /\ data'[l] = [on |-> TRUE, level |-> Full]
        BY <1>d, <3>2, <4>1
      <4>3. CASE data'[l] = data[l]
        BY <1>s, <2>1, <3>3, <4>3
      <4>4. CASE query = "prime" /\ data'[l] = [on |-> TRUE, level |-> Full]
        BY <1>n, <2>1, <4>4
      <4> QED
        BY <4>2, <4>3, <4>4
    <3>4. CASE data[l].on = FALSE
      <4>1. data[l].level = 0
        BY <1>n, <1>s, <3>4
      <4>2. Polled(l \in got, data[l]) = [on |-> TRUE, level |-> Full]
        BY <3>1, <3>4, <4>1 DEF Polled
      <4>3. data'[l] = [on |-> TRUE, level |-> Full]
        BY <1>d, <3>2, <4>2
      <4> QED
        BY <1>n, <2>1, <3>4, <4>3
    <3> QED
      BY <1>s, <3>3, <3>4
  <2>2. CASE l \notin got
    <3>1. (l \in got) = FALSE
      BY <2>2
    <3>2. Primed(l \in got, data[l]) = [on |-> FALSE, level |-> 0]
      BY <3>1 DEF Primed
    <3>3. CASE data[l].on = FALSE
      <4>1. Polled(l \in got, data[l]) = data[l]
        BY <3>1, <3>3 DEF Polled
      <4>2. \/ data'[l] = data[l]
            \/ query = "prime" /\ data'[l] = [on |-> FALSE, level |-> 0]
        BY <1>d, <3>2, <4>1
      <4>3. CASE data'[l] = data[l]
        BY <1>s, <2>2, <3>3, <4>3
      <4>4. CASE query = "prime" /\ data'[l] = [on |-> FALSE, level |-> 0]
        BY <1>n, <2>2, <4>4
      <4> QED
        BY <4>2, <4>3, <4>4
    <3>4. CASE data[l].on = TRUE
      <4>1. Polled(l \in got, data[l]) = [on |-> FALSE, level |-> 0]
        BY <3>1, <3>4 DEF Polled
      <4>2. data'[l] = [on |-> FALSE, level |-> 0]
        BY <1>d, <3>2, <4>1
      <4> QED
        BY <1>n, <2>2, <3>4, <4>2
    <3> QED
      BY <1>s, <3>3, <3>4
  <2> QED
    BY <2>1, <2>2
<1>1. TypeOK'
  <2>1. data' \in [Loads -> [on : BOOLEAN, level : Levels]]
    <3>1. data' = [l \in Loads |-> data'[l]]
      BY DEF Merges
    <3> QED
      BY <1>f, <3>1
  <2>2. stale' \subseteq Loads /\ guessed' \subseteq Loads
    BY <1>t DEF Merges, TypeOK
  <2> QED
    BY <1>t, <1>u, <2>1, <2>2 DEF TypeOK
<1>2. OnMatchesLevel'
  BY <1>f DEF OnMatchesLevel
<1>3. OneConnection'
  <2>1. ~up => stale' = Loads
    BY <1>t DEF IInv, OneConnection, Merges, TypeOK
  <2> QED
    BY <1>u, <2>1 DEF IInv, OneConnection
<1>4. LastWordRight'
  BY <1>u DEF IInv, LastWordRight, Again, Right
<1>5. AnswerRight'
  BY <1>u DEF AnswerRight
<1>6. ShownAsReported'
  <2>1. line' \in Seq(Push \cup Bulk) /\ \A l : Again(l, 0)' <=> Again(l, 0)
    BY <1>t, <1>u DEF TypeOK, Again
  <2>2. SUFFICES ASSUME up, NEW l \in Pushing \ stale', ~Again(l, 0)
        PROVE  /\ data'[l].on <=> bridge[l] > 0
               /\ l \notin guessed' => data'[l].level = bridge[l]
    BY <1>u, <2>1, ShownAgainAfter
  <2>3. l \in Loads /\ bridge[l] \in Levels
    BY <1>p, <1>t DEF TypeOK
  <2>4. l \notin stale => /\ data[l].on <=> bridge[l] > 0
                          /\ l \notin guessed => data[l].level = bridge[l]
    <3>1. ShownAsReported
      BY DEF IInv
    <3> HIDE DEF IInv
    <3> QED
      BY <1>t, <2>2, <3>1, ShownAgain
  <2>5. l \in got <=> bridge[l] > 0
    <3>1. CASE l \notin overtaken
      BY <1>u, <2>2, <3>1 DEF IInv, AnswerRight
    <3>2. CASE l \in overtaken
      <4>1. l \notin stale
        BY <1>u, <2>2, <3>2 DEF IInv, OneConnection
      <4>2. l \notin {k \in overtaken : data[k].on # (k \in got)}
        BY <2>2 DEF Merges
      <4>3. ~(data[l].on # (l \in got))
        BY <3>2, <4>2
      <4>4. data[l].on <=> l \in got
        BY <4>3
      <4> QED
        BY <2>4, <4>1, <4>4
    <3> QED
      BY <3>1, <3>2
  <2>6. data'[l].on <=> bridge[l] > 0
    BY <1>f, <2>3, <2>5
  <2>7. CASE l \notin got
    <3>1. data'[l].level \in Levels /\ ~(data'[l].level > 0)
      BY <1>f, <2>3, <2>7
    <3> QED
      BY <1>n, <2>3, <2>5, <2>6, <2>7, <3>1
  <2>8. CASE l \in got /\ l \notin guessed'
    <3>1. query # "prime" /\ data[l].on /\ l \notin stale /\ l \notin guessed
      BY <2>3, <2>8 DEF Merges
    <3>2. data'[l] = data[l]
      BY <1>f, <2>3, <2>8, <3>1
    <3> QED
      BY <2>4, <2>6, <3>1, <3>2
  <2> QED
    BY <2>6, <2>7, <2>8
<1> QED
  BY <1>1, <1>2, <1>3, <1>4, <1>5, <1>6 DEF IInv

\* Every step keeps the invariant.
LEMMA InvNext == ASSUME IInv, [Next]_vars PROVE IInv'
<1>t. TypeOK
  BY DEF IInv
<1>p. Pushing \subseteq Loads
  BY PushingAssumption DEF PushingAssumption
<1>1. ASSUME NEW l \in Loads, NEW v \in Levels, Changes(l, v) PROVE IInv'
  <2>b. /\ bridge' \in [Loads -> Levels] /\ bridge'[l] = v
        /\ \A k \in Loads \ {l} : bridge'[k] = bridge[k]
    BY <1>1, <1>t DEF Changes, TypeOK
  <2>1. CASE up /\ l \in Pushing
    BY <1>1, <2>1, <2>b, ReportKeeps DEF Changes
  <2>2. CASE ~(up /\ l \in Pushing)
    <3>1. UNCHANGED <<line, up, owed, request, data, ghosts>>
      BY <1>1, <2>2 DEF Changes
    <3>2. up => \A k \in Pushing : bridge'[k] = bridge[k]
      BY <1>p, <2>2, <2>b
    <3>3. TypeOK'
      BY <1>t, <2>b, <3>1 DEF TypeOK, request, ghosts
    <3>4. OnMatchesLevel' /\ OneConnection'
      BY <3>1 DEF IInv, OnMatchesLevel, OneConnection, request, ghosts
    <3>5. LastWordRight'
      BY <3>1, <3>2 DEF IInv, LastWordRight, Again, Right
    <3>6. AnswerRight'
      BY <3>1, <3>2 DEF IInv, AnswerRight, Again, request, ghosts
    <3>7. ShownAsReported'
      BY <3>1, <3>2 DEF IInv, ShownAsReported, ghosts
    <3> QED
      BY <3>3, <3>4, <3>5, <3>6, <3>7 DEF IInv
  <2> QED
    BY <2>1, <2>2
<1>2. ASSUME NEW l \in Loads, Repeats(l) PROVE IInv'
  <2>1. bridge \in [Loads -> Levels] /\ bridge[l] \in Levels
    BY <1>t DEF TypeOK
  <2>2. up /\ Reports(l, bridge[l]) /\ bridge' = bridge
        /\ UNCHANGED <<up, owed, request, data, ghosts>>
    BY <1>2 DEF Repeats, outside
  <2> QED
    BY <2>1, <2>2, ReportKeeps
<1>3. CASE Answers
  BY <1>3, AnswersKeeps
<1>4. CASE Drops
  <2>1. TypeOK'
    <3>1. line' \in Seq(Push \cup Bulk) /\ owed' \in 0..MaxOwed
      BY <1>4, BoundAssumption DEF Drops, BoundAssumption
    <3> QED
      BY <1>4, <1>t, <3>1 DEF Drops, TypeOK
  <2>2. OnMatchesLevel' /\ OneConnection'
    BY <1>4 DEF Drops, IInv, OnMatchesLevel, OneConnection
  <2>3. LastWordRight' /\ AnswerRight'
    BY <1>4 DEF Drops, LastWordRight, AnswerRight
  <2>4. ShownAsReported'
    BY <1>4 DEF Drops, ShownAsReported
  <2> QED
    BY <2>1, <2>2, <2>3, <2>4 DEF IInv
<1>5. ASSUME NEW who \in {"prime", "poll"}, Asks(who), up' = TRUE,
             up \/ who = "prime"
      PROVE  IInv'
  <2>u. /\ query = "none" /\ ~answered /\ query' = who /\ owed < MaxOwed
        /\ owed' = owed + 1
        /\ UNCHANGED <<bridge, line, answered, got, data, stale, guessed, overtaken>>
    BY <1>5 DEF Asks, ghosts, IInv, OneConnection
  <2>1. TypeOK'
    <3>1. owed' \in 0..MaxOwed
      BY <1>t, <2>u, BoundAssumption DEF TypeOK, BoundAssumption
    <3> QED
      BY <1>5, <1>t, <2>u, <3>1 DEF TypeOK
  <2>2. OnMatchesLevel' /\ OneConnection'
    BY <1>5, <2>u DEF IInv, OnMatchesLevel, OneConnection
  <2>3. LastWordRight'
    <3>1. ~up => DOMAIN line = {}
      BY DEF IInv, OneConnection
    <3> QED
      BY <2>u, <3>1 DEF IInv, LastWordRight, Again, Right
  <2>4. AnswerRight'
    BY <2>u DEF AnswerRight
  <2>5. ShownAsReported'
    <3>1. ~up => Pushing \ stale = {}
      BY <1>p DEF IInv, OneConnection
    <3> QED
      BY <2>u, <3>1 DEF IInv, ShownAsReported
  <2> QED
    BY <2>1, <2>2, <2>3, <2>4, <2>5 DEF IInv
<1>6. CASE Connects \/ Polls
  BY <1>5, <1>6 DEF Connects, Polls
<1>7. CASE PushArrives
  BY <1>7, PushKeeps
<1>8. CASE BulkArrives
  BY <1>8, BulkKeeps
<1>9. CASE TimesOut
  <2>u. /\ query' = "none" /\ answered' = FALSE /\ got' = {} /\ overtaken' = {}
        /\ UNCHANGED <<bridge, up, owed, line, data, stale, guessed>>
    BY <1>9 DEF TimesOut, Forgets, outside, stream
  <2>1. TypeOK'
    BY <1>t, <2>u DEF TypeOK
  <2>2. OnMatchesLevel' /\ OneConnection'
    BY <2>u DEF IInv, OnMatchesLevel, OneConnection
  <2>3. LastWordRight' /\ AnswerRight'
    BY <2>u DEF IInv, LastWordRight, AnswerRight, Again, Right
  <2>4. ShownAsReported'
    BY <2>u DEF IInv, ShownAsReported
  <2> QED
    BY <2>1, <2>2, <2>3, <2>4 DEF IInv
<1>10. CASE Merges
  BY <1>10, MergeKeeps
<1>11. CASE UNCHANGED vars
  <2>u. UNCHANGED <<bridge, up, owed, line, query, answered, got, data, stale,
                    guessed, overtaken>>
    BY <1>11 DEF vars, outside, stream, request, ghosts
  <2> QED
    BY <2>u DEF IInv, TypeOK, OnMatchesLevel, OneConnection, LastWordRight,
                AnswerRight, ShownAsReported, Again, Right
<1> QED
  BY <1>1, <1>2, <1>3, <1>4, <1>6, <1>7, <1>8, <1>9, <1>10, <1>11 DEF Next

-----------------------------------------------------------------------------
(* What every behaviour keeps to.                                            *)

\* The inductive invariant holds in every reachable state.
THEOREM Invariant == Spec => []IInv
<1>1. IInv /\ [Next]_vars => IInv'
  BY InvNext
<1> QED
  BY InvInit, <1>1, PTL DEF Spec

\* Every variable keeps to its type.
THEOREM TypeCorrect == Spec => []TypeOK
<1>1. IInv => TypeOK
  BY DEF IInv
<1> QED
  BY Invariant, <1>1, PTL

\* A load is shown on exactly when its level is not 0.
THEOREM OnAndLevelAgree == Spec => []OnMatchesLevel
<1>1. IInv => OnMatchesLevel
  BY DEF IInv
<1> QED
  BY Invariant, <1>1, PTL

\* A load that reports its changes is shown as it last reported itself.
THEOREM ReportsAreShown == Spec => []ShownAsReported
<1>1. IInv => ShownAsReported
  BY DEF IInv
<1> QED
  BY Invariant, <1>1, PTL

-----------------------------------------------------------------------------
(* The codecs: bitmaps, brightness and load lines (Codecs).                  *)

\* A digit of a bitmap reads as the number it was written for.
LEMMA HexDigit ==
    ASSUME NEW v \in 0..15
    PROVE  /\ HexOf(v) \in 48..57 \cup 65..70
           /\ HexValue(HexOf(v)) = v
BY DEF HexOf, HexValue

BitAt(lit, n, w) == IF n \in lit THEN w ELSE 0
DigitAt(lit, n) ==
    BitAt(lit, n, 1) + BitAt(lit, n + 1, 2) + BitAt(lit, n + 2, 4) + BitAt(lit, n + 3, 8)

\* Four loads or switches make one digit.
LEMMA DigitIsFour ==
    ASSUME NEW lit, NEW n
    PROVE  DigitAt(lit, n) \in 0..15
BY DEF DigitAt, BitAt

\* The two digits of byte `i` of a bitmap.
LEMMA BitmapDigits ==
    ASSUME NEW lit, NEW groups \in Nat, NEW bytes \in Nat, NEW i \in Nat,
           2 * i + 2 <= 2 * bytes * groups
    PROVE  /\ Bitmap(lit, groups, bytes)[2 * i + 1] = HexOf(DigitAt(lit, 8 * i + 5))
           /\ Bitmap(lit, groups, bytes)[2 * i + 2] = HexOf(DigitAt(lit, 8 * i + 1))
<1>1. /\ 2 * bytes * groups \in Nat
      /\ (2 * i + 1 - 1) \div 2 = i /\ (2 * i + 1) % 2 = 1
      /\ (2 * i + 2 - 1) \div 2 = i /\ (2 * i + 2) % 2 = 0
  OBVIOUS
<1>2. 2 * i + 1 \in 1..2 * bytes * groups /\ 2 * i + 2 \in 1..2 * bytes * groups
  BY <1>1
<1>. QED  BY <1>1, <1>2 DEF Bitmap, DigitAt, BitAt

\* Bit `j` of two digits.
LEMMA BitOfByte ==
    ASSUME NEW lit, NEW n \in Nat, NEW j \in 0..7
    PROVE  ((16 * DigitAt(lit, n + 4) + DigitAt(lit, n)) \div Weight[j + 1]) % 2 = 1
               <=> n + j \in lit
<1> DEFINE b(k) == BitAt(lit, n + k, 1)
           byte == b(0) + 2 * b(1) + 4 * b(2) + 8 * b(3)
                       + 16 * b(4) + 32 * b(5) + 64 * b(6) + 128 * b(7)
<1>1. ASSUME NEW k \in 0..7 PROVE b(k) \in 0..1 /\ (b(k) = 1 <=> n + k \in lit)
  BY DEF BitAt
<1>2. ASSUME NEW m \in Nat PROVE
         /\ BitAt(lit, m, 1) \in 0..1 /\ BitAt(lit, m, 2) = 2 * BitAt(lit, m, 1)
         /\ BitAt(lit, m, 4) = 4 * BitAt(lit, m, 1) /\ BitAt(lit, m, 8) = 8 * BitAt(lit, m, 1)
  BY DEF BitAt
<1>3. DigitAt(lit, n) = b(0) + 2 * b(1) + 4 * b(2) + 8 * b(3)
  BY <1>2 DEF DigitAt
<1>4. DigitAt(lit, n + 4) = b(4) + 2 * b(5) + 4 * b(6) + 8 * b(7)
  <2>1. n + 4 + 1 = n + 5 /\ n + 4 + 2 = n + 6 /\ n + 4 + 3 = n + 7
    OBVIOUS
  <2>. QED  BY <1>2, <2>1 DEF DigitAt
<1>5. 16 * DigitAt(lit, n + 4) + DigitAt(lit, n) = byte
  BY <1>1, <1>3, <1>4
<1>6. \A k \in 0..7 : b(k) \in 0..1
  BY <1>1
<1> HIDE DEF b
<1>7. (byte \div Weight[j + 1]) % 2 = b(j)
  <2>1. /\ Weight[1] = 1 /\ Weight[2] = 2 /\ Weight[3] = 4 /\ Weight[4] = 8
        /\ Weight[5] = 16 /\ Weight[6] = 32 /\ Weight[7] = 64 /\ Weight[8] = 128
    BY DEF Weight
  <2>2. /\ b(0) \in 0..1 /\ b(1) \in 0..1 /\ b(2) \in 0..1 /\ b(3) \in 0..1
        /\ b(4) \in 0..1 /\ b(5) \in 0..1 /\ b(6) \in 0..1 /\ b(7) \in 0..1
    BY <1>6
  <2>3. CASE j = 0  BY <2>1, <2>2, <2>3
  <2>4. CASE j = 1  BY <2>1, <2>2, <2>4
  <2>5. CASE j = 2  BY <2>1, <2>2, <2>5
  <2>6. CASE j = 3  BY <2>1, <2>2, <2>6
  <2>7. CASE j = 4  BY <2>1, <2>2, <2>7
  <2>8. CASE j = 5  BY <2>1, <2>2, <2>8
  <2>9. CASE j = 6  BY <2>1, <2>2, <2>9
  <2>10. CASE j = 7  BY <2>1, <2>2, <2>10
  <2>. QED  BY <2>3, <2>4, <2>5, <2>6, <2>7, <2>8, <2>9, <2>10
<1>8. b(j) = 1 <=> n + j \in lit
  BY <1>1
<1>. QED  BY <1>5, <1>7, <1>8

ByteAt(s, i) == 16 * HexValue(s[2 * i + 1]) + HexValue(s[2 * i + 2])

\* Byte `i` of a bitmap says what is on in it.
LEMMA BitOfBitmap ==
    ASSUME NEW lit, NEW groups \in Nat, NEW bytes \in Nat, NEW i \in Nat, NEW j \in 0..7,
           2 * i + 2 <= 2 * bytes * groups
    PROVE  (ByteAt(Bitmap(lit, groups, bytes), i) \div Weight[j + 1]) % 2 = 1
               <=> 8 * i + j + 1 \in lit
<1>1. \A n : HexValue(HexOf(DigitAt(lit, n))) = DigitAt(lit, n)
  BY HexDigit, DigitIsFour
<1>2. 8 * i + 1 \in Nat /\ 8 * i + 1 + 4 = 8 * i + 5 /\ 8 * i + 1 + j = 8 * i + j + 1
  OBVIOUS
<1>3. ((16 * DigitAt(lit, 8 * i + 5) + DigitAt(lit, 8 * i + 1)) \div Weight[j + 1]) % 2 = 1
          <=> 8 * i + j + 1 \in lit
  <2> DEFINE n == 8 * i + 1
  <2>1. n \in Nat /\ n + 4 = 8 * i + 5 /\ n + j = 8 * i + j + 1
    BY <1>2
  <2>2. ((16 * DigitAt(lit, n + 4) + DigitAt(lit, n)) \div Weight[j + 1]) % 2 = 1
          <=> n + j \in lit
    <3> HIDE DEF n
    <3>. QED  BY <2>1, BitOfByte
  <2>. QED  BY <2>1, <2>2
<1>. QED  BY <1>1, <1>3, BitmapDigits DEF ByteAt

\* What is parsed from a bitmap is what it was made of, for the loads ...
LEMMA LoadBitmap ==
    ASSUME NEW lit \in SUBSET (1..192)
    PROVE  SetBits(Bitmap(lit, 8, 3), 8, 3) = lit
<1> DEFINE s == Bitmap(lit, 8, 3)
           Places == (0..8 - 1) \X (0..3 - 1) \X (0..7)
           Set(u) == (ByteAt(s, 3 * u[1] + u[2]) \div Weight[u[3] + 1]) % 2 = 1
           Number(u) == 8 * (3 * u[1] + u[2]) + u[3] + 1
<1>1. SetBits(s, 8, 3) = {Number(u) : u \in {v \in Places : Set(v)}}
  BY DEF SetBits, ByteAt
<1>2. ASSUME NEW u \in Places PROVE Set(u) <=> Number(u) \in lit
  <2>1. /\ u[1] \in 0..7 /\ u[2] \in 0..2 /\ u[3] \in 0..7
    OBVIOUS
  <2>2. PICK i \in Nat : i = 3 * u[1] + u[2] /\ 2 * i + 2 <= 2 * 3 * 8
    BY <2>1
  <2>3. ASSUME NEW j \in 0..7, NEW g \in Nat, NEW b \in Nat, 2 * i + 2 <= 2 * b * g
        PROVE  (ByteAt(Bitmap(lit, g, b), i) \div Weight[j + 1]) % 2 = 1
                   <=> 8 * i + j + 1 \in lit
    BY <2>3, BitOfBitmap
  <2>4. \A j \in 0..7 : (ByteAt(s, i) \div Weight[j + 1]) % 2 = 1 <=> 8 * i + j + 1 \in lit
    BY <2>2, <2>3
  <2>. QED  BY <2>1, <2>2, <2>4
<1>3. ASSUME NEW n \in 1..192 PROVE \E u \in Places : Number(u) = n
  <2> DEFINE k == (n - 1) \div 8
             u == <<k \div 3, k % 3, (n - 1) % 8>>
  <2>1. k \in 0..23 /\ n - 1 = 8 * k + ((n - 1) % 8) /\ (n - 1) % 8 \in 0..7
    OBVIOUS
  <2>2. k \div 3 \in 0..7 /\ k % 3 \in 0..2 /\ k = 3 * (k \div 3) + (k % 3)
    <3> HIDE DEF k
    <3>. QED  BY <2>1
  <2>3. u \in Places
    BY <2>1, <2>2
  <2>4. u[1] = k \div 3 /\ u[2] = k % 3 /\ u[3] = (n - 1) % 8
    OBVIOUS
  <2>5. Number(u) = n
    <3> HIDE DEF k, u
    <3>. QED  BY <2>1, <2>2, <2>4
  <2>. QED  BY <2>3, <2>5
<1> HIDE DEF s, Places, Set, Number
<1>4. {Number(u) : u \in {v \in Places : Set(v)}} = lit
  <2>1. ASSUME NEW n \in lit PROVE n \in {Number(u) : u \in {v \in Places : Set(v)}}
    <3>1. PICK u \in Places : Number(u) = n
      BY <1>3, <2>1
    <3>. QED  BY <1>2, <3>1
  <2>2. ASSUME NEW u \in Places, Set(u) PROVE Number(u) \in lit
    BY <1>2, <2>2
  <2>. QED  BY <2>1, <2>2
<1>. QED  BY <1>1, <1>4 DEF s

\* ... and for the switches.
LEMMA SwitchBitmap ==
    ASSUME NEW lit \in SUBSET (1..384)
    PROVE  SetBits(Bitmap(lit, 24, 2), 24, 2) = lit
<1> DEFINE s == Bitmap(lit, 24, 2)
           Places == (0..24 - 1) \X (0..2 - 1) \X (0..7)
           Set(u) == (ByteAt(s, 2 * u[1] + u[2]) \div Weight[u[3] + 1]) % 2 = 1
           Number(u) == 8 * (2 * u[1] + u[2]) + u[3] + 1
<1>1. SetBits(s, 24, 2) = {Number(u) : u \in {v \in Places : Set(v)}}
  BY DEF SetBits, ByteAt
<1>2. ASSUME NEW u \in Places PROVE Set(u) <=> Number(u) \in lit
  <2>1. /\ u[1] \in 0..23 /\ u[2] \in 0..1 /\ u[3] \in 0..7
    OBVIOUS
  <2>2. PICK i \in Nat : i = 2 * u[1] + u[2] /\ 2 * i + 2 <= 2 * 2 * 24
    BY <2>1
  <2>3. ASSUME NEW j \in 0..7, NEW g \in Nat, NEW b \in Nat, 2 * i + 2 <= 2 * b * g
        PROVE  (ByteAt(Bitmap(lit, g, b), i) \div Weight[j + 1]) % 2 = 1
                   <=> 8 * i + j + 1 \in lit
    BY <2>3, BitOfBitmap, ZenonT(40)
  <2>4. \A j \in 0..7 : (ByteAt(s, i) \div Weight[j + 1]) % 2 = 1 <=> 8 * i + j + 1 \in lit
    BY <2>2, <2>3, ZenonT(40)
  <2>. QED  BY <2>1, <2>2, <2>4
<1>3. ASSUME NEW n \in 1..384 PROVE \E u \in Places : Number(u) = n
  <2> DEFINE k == (n - 1) \div 8
             u == <<k \div 2, k % 2, (n - 1) % 8>>
  <2>1. k \in 0..47 /\ n - 1 = 8 * k + ((n - 1) % 8) /\ (n - 1) % 8 \in 0..7
    OBVIOUS
  <2>2. k \div 2 \in 0..23 /\ k % 2 \in 0..1 /\ k = 2 * (k \div 2) + (k % 2)
    <3> HIDE DEF k
    <3>. QED  BY <2>1
  <2>3. u \in Places
    BY <2>1, <2>2
  <2>4. u[1] = k \div 2 /\ u[2] = k % 2 /\ u[3] = (n - 1) % 8
    OBVIOUS
  <2>5. Number(u) = n
    <3> HIDE DEF k, u
    <3>. QED  BY <2>1, <2>2, <2>4
  <2>. QED  BY <2>3, <2>5
<1> HIDE DEF s, Places, Set, Number
<1>4. {Number(u) : u \in {v \in Places : Set(v)}} = lit
  <2>1. ASSUME NEW n \in lit PROVE n \in {Number(u) : u \in {v \in Places : Set(v)}}
    <3>1. PICK u \in Places : Number(u) = n
      BY <1>3, <2>1
    <3>. QED  BY <1>2, <3>1
  <2>2. ASSUME NEW u \in Places, Set(u) PROVE Number(u) \in lit
    BY <1>2, <2>2
  <2>. QED  BY <2>1, <2>2
<1>. QED  BY <1>1, <1>4 DEF s

-----------------------------------------------------------------------------
(* Levels and brightness.                                                    *)

\* A brightness that is asked for is a level other than 0 ...
LEMMA LevelOfBrightness ==
    ASSUME NEW b \in 1..255
    PROVE  LevelOf(b) \in 1..99
BY DEF LevelOf

\* ... which reads as that brightness or nearly so, and then stays as it is.
LEMMA BrightnessOfLevel ==
    ASSUME NEW b \in 1..255
    PROVE  LET c == BrightnessOf(LevelOf(b))
           IN c \in 1..255 /\ c - b \in -2..2 /\ LevelOf(c) = LevelOf(b)
<1> DEFINE l == LevelOf(b)
           x == (66 * b + 85) \div 170
           y == (255 * l) \div 99
<1>1. x \in Int /\ 170 * x <= 66 * b + 85 /\ 66 * b + 85 < 170 * x + 170
  OBVIOUS
<1>2. l = IF x < 1 THEN 1 ELSE x
  BY DEF LevelOf
<1>3. l \in 1..99
  BY LevelOfBrightness
<1>4. y \in Int /\ 99 * y <= 255 * l /\ 255 * l < 99 * y + 99
  BY <1>3
<1>5. y \in 1..255 /\ BrightnessOf(l) = y
  <2>1. y \in 1..255
    <3> HIDE DEF l, y
    <3>. QED  BY <1>3, <1>4
  <2>. QED  BY <2>1 DEF BrightnessOf
<1>6. y - b \in -2..2
  <2> HIDE DEF l, x, y
  <2>. QED  BY <1>1, <1>2, <1>3, <1>4, <1>5
<1>7. LevelOf(y) = l
  <2> DEFINE z == (66 * y + 85) \div 170
  <2>0. y \in Int
    BY <1>5
  <2>1. z \in Int /\ 170 * z <= 66 * y + 85 /\ 66 * y + 85 < 170 * z + 170
    <3> HIDE DEF y
    <3>. QED  BY <2>0
  <2>2. z = l
    <3> HIDE DEF l, y, z
    <3>. QED  BY <1>3, <1>4, <2>1, <2>0
  <2>. QED  BY <2>2, <1>3 DEF LevelOf
<1>. QED  BY <1>5, <1>6, <1>7

-----------------------------------------------------------------------------
(* What the bridge says.                                                     *)

\* The three digits of a load's number,
LEMMA TenDigits ==
    ASSUME NEW n \in 0..999
    PROVE  /\ n \div 100 \in 0..9 /\ (n \div 10) % 10 \in 0..9 /\ n % 10 \in 0..9
           /\ 100 * (n \div 100) + 10 * ((n \div 10) % 10) + (n % 10) = n
OBVIOUS

\* and the two of its level.
LEMMA TwoDigits ==
    ASSUME NEW l \in 0..99
    PROVE  l \div 10 \in 0..9 /\ l % 10 \in 0..9 /\ 10 * (l \div 10) + (l % 10) = l
OBVIOUS

PrefixLen(s) == IF s = "jetstream" THEN 3 ELSE 2

\* The prefix of a load line has no byte that ends a line.
LEMMA PrefixIs ==
    ASSUME NEW s
    PROVE  /\ Prefix(s) \in Seq(Nat) /\ Len(Prefix(s)) = PrefixLen(s)
           /\ \A i \in 1..Len(Prefix(s)) : Prefix(s)[i] \in Nat \ {CR, LF}
BY DEF Prefix, PrefixLen, CR, LF

\* Two texts, one after the other.
LEMMA ConcatNat ==
    ASSUME NEW a \in Seq(Nat), NEW b \in Seq(Nat)
    PROVE  /\ a \o b \in Seq(Nat) /\ Len(a \o b) = Len(a) + Len(b)
           /\ \A i \in 1..Len(a) : (a \o b)[i] = a[i]
           /\ \A i \in 1..Len(b) : (a \o b)[Len(a) + i] = b[i]
<1>1. Len(a) \in Nat /\ Len(b) \in Nat
  BY LenProperties
<1>2. /\ a \o b \in Seq(Nat) /\ Len(a \o b) = Len(a) + Len(b)
      /\ \A i \in 1..Len(a) + Len(b) :
            (a \o b)[i] = IF i <= Len(a) THEN a[i] ELSE b[i - Len(a)]
  BY ConcatProperties, Zenon
<1> DEFINE c == a \o b
           m == Len(a)
           n == Len(b)
<1> HIDE DEF c, m, n
<1>3. \A i \in 1..m + n : c[i] = IF i <= m THEN a[i] ELSE b[i - m]
  BY <1>2 DEF c, m, n
<1>7. m \in Nat /\ n \in Nat
  BY <1>1 DEF m, n
<1>4. \A i \in 1..m : c[i] = a[i]
  BY <1>7, <1>3
<1>5. ASSUME NEW i \in 1..n PROVE c[m + i] = b[i]
  <2>1. /\ m + i \in 1..m + n /\ ~(m + i <= m) /\ m + i - m = i
    BY <1>7
  <2>. QED  BY <1>7, <1>3, <2>1
<1>6. \A i \in 1..n : c[m + i] = b[i]
  BY <1>5
<1>. QED  BY <1>2, <1>4, <1>6, Zenon DEF c, m, n

\* The text `t` is a report, character by character.
Spells(t, s, n, l) ==
    LET p == PrefixLen(s) IN
    /\ n \in 0..999 /\ l \in 0..99
    /\ t \in Seq(Nat) /\ Len(t) = p + 5
    /\ \A i \in 1..p : t[i] = Prefix(s)[i]
    /\ t[p + 1] = 48 + n \div 100 /\ t[p + 2] = 48 + ((n \div 10) % 10)
    /\ t[p + 3] = 48 + (n % 10)
    /\ t[p + 4] = 48 + l \div 10 /\ t[p + 5] = 48 + (l % 10)

\* A load line is its prefix, three digits and two digits.
LEMMA LoadLineIs ==
    ASSUME NEW s, NEW n \in 0..999, NEW l \in 0..99
    PROVE  Spells(LoadLine(s, n, l), s, n, l)
<1> DEFINE a == Prefix(s)
           b == Dec3(n)
           c == Dec2(l)
           p == PrefixLen(s)
           d == a \o b
           t == d \o c
<1>1. a \in Seq(Nat) /\ Len(a) = p /\ p \in 2..3
  BY PrefixIs DEF PrefixLen
<1>2. /\ b \in Seq(Nat) /\ Len(b) = 3
      /\ b[1] = 48 + n \div 100 /\ b[2] = 48 + ((n \div 10) % 10) /\ b[3] = 48 + (n % 10)
  BY TenDigits DEF Dec3
<1>3. /\ c \in Seq(Nat) /\ Len(c) = 2
      /\ c[1] = 48 + l \div 10 /\ c[2] = 48 + (l % 10)
  BY TwoDigits DEF Dec2
<1>4. LoadLine(s, n, l) = t
  BY DEF LoadLine
<1> HIDE DEF a, b, c, p
<1>5. /\ d \in Seq(Nat) /\ Len(d) = p + 3
      /\ \A i \in 1..p : d[i] = a[i]
      /\ \A i \in 1..3 : d[p + i] = b[i]
  <2>1. a \in Seq(Nat) /\ b \in Seq(Nat) /\ Len(a) = p /\ Len(b) = 3
    BY <1>1, <1>2
  <2>2. /\ a \o b \in Seq(Nat) /\ Len(a \o b) = Len(a) + Len(b)
        /\ \A i \in 1..Len(a) : (a \o b)[i] = a[i]
        /\ \A i \in 1..Len(b) : (a \o b)[Len(a) + i] = b[i]
    BY <2>1, ConcatNat, ZenonT(40)
  <2>. QED  BY <2>1, <2>2
<1> HIDE DEF d
<1>6. /\ t \in Seq(Nat) /\ Len(t) = p + 3 + 2
      /\ \A i \in 1..p + 3 : t[i] = d[i]
      /\ \A i \in 1..2 : t[p + 3 + i] = c[i]
  <2>1. d \in Seq(Nat) /\ c \in Seq(Nat) /\ Len(d) = p + 3 /\ Len(c) = 2
    BY <1>3, <1>5
  <2>2. /\ d \o c \in Seq(Nat) /\ Len(d \o c) = Len(d) + Len(c)
        /\ \A i \in 1..Len(d) : (d \o c)[i] = d[i]
        /\ \A i \in 1..Len(c) : (d \o c)[Len(d) + i] = c[i]
    BY <2>1, ConcatNat, ZenonT(40)
  <2>. QED  BY <2>1, <2>2
<1> HIDE DEF t
<1>7. \A i \in 1..p : t[i] = a[i]
  BY <1>1, <1>5, <1>6
<1>8. t[p + 1] = b[1] /\ t[p + 2] = b[2] /\ t[p + 3] = b[3]
  BY <1>1, <1>5, <1>6
<1>9. t[p + 4] = c[1] /\ t[p + 5] = c[2]
  <2>1. t[p + 3 + 1] = c[1] /\ t[p + 3 + 2] = c[2]
    BY <1>6
  <2>. QED  BY <1>1, <2>1
<1>10. Len(t) = p + 5
  BY <1>1, <1>6
<1>. QED  BY <1>2, <1>3, <1>4, <1>6, <1>7, <1>8, <1>9, <1>10 DEF a, p, Spells

\* Its digits, and the numbers they are.
DigitsAt(t, p) == \A i \in 1..5 : t[p + i] \in 48..57
LoadAt(t, p)   == 100 * (t[p + 1] - 48) + 10 * (t[p + 2] - 48) + t[p + 3] - 48
LevelAt(t, p)  == 10 * (t[p + 4] - 48) + t[p + 5] - 48

\* All five are digits (_LOAD_PUSH_RE),
LEMMA SpelledDigits ==
    ASSUME NEW t, NEW s, NEW n, NEW l, Spells(t, s, n, l)
    PROVE  DigitsAt(t, PrefixLen(s))
<1> DEFINE p == PrefixLen(s)
<1>1. /\ t[p + 1] = 48 + n \div 100 /\ t[p + 2] = 48 + ((n \div 10) % 10)
      /\ t[p + 3] = 48 + (n % 10)
      /\ t[p + 4] = 48 + l \div 10 /\ t[p + 5] = 48 + (l % 10)
  BY DEF Spells
<1>2. n \div 100 \in 0..9 /\ (n \div 10) % 10 \in 0..9 /\ n % 10 \in 0..9
  BY TenDigits, ZenonT(40) DEF Spells
<1>3. l \div 10 \in 0..9 /\ l % 10 \in 0..9
  BY TwoDigits DEF Spells
<1> HIDE DEF p
<1>4. ASSUME NEW i \in 1..5 PROVE t[p + i] \in 48..57
  <2>1. i = 1 \/ i = 2 \/ i = 3 \/ i = 4 \/ i = 5
    OBVIOUS
  <2>. QED  BY <1>1, <1>2, <1>3, <2>1
<1>5. DigitsAt(t, p)
  BY <1>4 DEF DigitsAt
<1>. QED  BY <1>5 DEF p

\* the first three read as the load,
LEMMA SpelledLoad ==
    ASSUME NEW t, NEW s, NEW n, NEW l, Spells(t, s, n, l)
    PROVE  LoadAt(t, PrefixLen(s)) = n
<1> DEFINE p == PrefixLen(s)
<1>1. /\ t[p + 1] = 48 + n \div 100 /\ t[p + 2] = 48 + ((n \div 10) % 10)
      /\ t[p + 3] = 48 + (n % 10)
  BY DEF Spells
<1>2. /\ n \div 100 \in 0..9 /\ (n \div 10) % 10 \in 0..9 /\ n % 10 \in 0..9
      /\ 100 * (n \div 100) + 10 * ((n \div 10) % 10) + (n % 10) = n
  BY TenDigits, ZenonT(40) DEF Spells
<1> HIDE DEF p
<1>3. LoadAt(t, p) = n
  BY <1>1, <1>2 DEF LoadAt
<1>. QED  BY <1>3 DEF p

\* and the last two as its level.
LEMMA SpelledLevel ==
    ASSUME NEW t, NEW s, NEW n, NEW l, Spells(t, s, n, l)
    PROVE  LevelAt(t, PrefixLen(s)) = l
<1> DEFINE p == PrefixLen(s)
<1>1. t[p + 4] = 48 + l \div 10 /\ t[p + 5] = 48 + (l % 10)
  BY DEF Spells
<1>2. l \div 10 \in 0..9 /\ l % 10 \in 0..9 /\ 10 * (l \div 10) + (l % 10) = l
  BY TwoDigits DEF Spells
<1> HIDE DEF p
<1>3. LevelAt(t, p) = l
  BY <1>1, <1>2 DEF LevelAt
<1>. QED  BY <1>3 DEF p

\* No byte of a load line ends a line.
LEMMA LoadLineBytes ==
    ASSUME NEW s, NEW n \in 0..999, NEW l \in 0..99,
           NEW i \in 1..Len(LoadLine(s, n, l))
    PROVE  LoadLine(s, n, l)[i] \in Nat \ {CR, LF}
<1> DEFINE t == LoadLine(s, n, l)
           p == PrefixLen(s)
<1>1. Spells(t, s, n, l)
  BY LoadLineIs, ZenonT(40)
<1> HIDE DEF t
<1>2. /\ Len(t) = p + 5 /\ p \in 2..3
      /\ \A j \in 1..p : t[j] = Prefix(s)[j]
  BY <1>1 DEF Spells, PrefixLen
<1>3. DigitsAt(t, p)
  BY <1>1, SpelledDigits, Zenon
<1>4. \A j \in 1..p : Prefix(s)[j] \in Nat \ {CR, LF}
  BY PrefixIs
<1>5. i \in 1..p + 5
  BY <1>2 DEF t
<1> HIDE DEF p
<1>6. CASE i \in 1..p
  BY <1>2, <1>4, <1>6 DEF t
<1>7. CASE i \notin 1..p
  <2>1. i - p \in 1..5 /\ i = p + (i - p)
    BY <1>2, <1>5, <1>7
  <2>2. t[i] \in 48..57
    BY <1>3, <2>1 DEF DigitsAt
  <2>3. \A x \in 48..57 : x \in Nat /\ x # 13 /\ x # 10
    OBVIOUS
  <2>4. t[i] \in Nat \ {CR, LF}
    <3> HIDE DEF t
    <3>. QED  BY <2>2, <2>3, ZenonT(40) DEF CR, LF
  <2>. QED  BY <2>4 DEF t
<1>. QED  BY <1>6, <1>7

\* A report is one, and is read as what it says.
LEMMA LoadLineRead ==
    ASSUME NEW s, NEW n \in 0..999, NEW l \in 0..99
    PROVE  /\ IsLoadLine(s, LoadLine(s, n, l)) /\ IsReadable(s, LoadLine(s, n, l))
           /\ LoadIn(s, LoadLine(s, n, l)) = n /\ LevelIn(s, LoadLine(s, n, l)) = l
<1> DEFINE t == LoadLine(s, n, l)
           p == PrefixLen(s)
<1>0. Spells(t, s, n, l)
  BY LoadLineIs, ZenonT(40)
<1>1. /\ t \in Seq(Nat) /\ Len(t) = p + 5 /\ p \in 2..3
      /\ \A j \in 1..p : t[j] = Prefix(s)[j]
  <2> HIDE DEF t
  <2>. QED  BY <1>0 DEF Spells, PrefixLen
<1>2. Prefix(s) \in Seq(Nat) /\ Len(Prefix(s)) = p
  BY PrefixIs
<1>3. /\ DigitsAt(t, p)
      /\ LoadAt(t, p) = n /\ LevelAt(t, p) = l
  <2> HIDE DEF t
  <2>. QED  BY <1>0, SpelledDigits, SpelledLoad, SpelledLevel, Zenon
<1> HIDE DEF t, p
<1>4. \A i \in 1..Len(t) : t[i] \in Nat
  BY <1>1, ElementOfSeq
<1>5. ASSUME NEW a \in 1..p + 5, NEW b \in a..p + 5
      PROVE  /\ SubSeq(t, a, b) \in Seq(Nat) /\ Len(SubSeq(t, a, b)) = b - a + 1
             /\ \A i \in 1..b - a + 1 : SubSeq(t, a, b)[i] = t[a + i - 1]
  <2>1. /\ a \in Int /\ b \in Int /\ a <= b /\ \A i \in a..b : t[i] \in Nat
    BY <1>1, <1>4
  <2>. QED  BY <2>1, SubSeqProperties
<1>6. SubSeq(t, 1, p) = Prefix(s)
  <2>1. /\ SubSeq(t, 1, p) \in Seq(Nat) /\ Len(SubSeq(t, 1, p)) = p
        /\ \A i \in 1..p : SubSeq(t, 1, p)[i] = Prefix(s)[i]
    BY <1>1, <1>5
  <2>. QED  BY <1>2, <2>1, SeqEqual
<1>7. AreDigits(SubSeq(t, p + 1, p + 5))
  <2> DEFINE u == SubSeq(t, p + 1, p + 5)
  <2>0. /\ p + 1 \in 1..p + 5 /\ p + 5 \in p + 1..p + 5 /\ p + 5 - (p + 1) + 1 = 5
        /\ \A i \in 1..5 : p + 1 + i - 1 = p + i
    BY <1>1
  <2>1. /\ u \in Seq(Nat) /\ Len(u) = 5
        /\ \A i \in 1..5 : u[i] = t[p + i]
    BY <1>5, <2>0
  <2> HIDE DEF u
  <2>2. DOMAIN u = 1..5
    BY <2>1, LenProperties
  <2>3. \A i \in 1..5 : u[i] \in 48..57
    BY <1>3, <2>1, SMTT(40) DEF DigitsAt
  <2>4. AreDigits(u)
    BY <2>2, <2>3 DEF AreDigits
  <2>. QED  BY <2>4 DEF u
<1>8. Value3(SubSeq(t, p + 1, p + 3)) = n
  <2>0. /\ p + 1 \in 1..p + 5 /\ p + 3 \in p + 1..p + 5 /\ p + 3 - (p + 1) + 1 = 3
        /\ \A i \in 1..3 : p + 1 + i - 1 = p + i
    BY <1>1
  <2>1. /\ SubSeq(t, p + 1, p + 3)[1] = t[p + 1]
        /\ SubSeq(t, p + 1, p + 3)[2] = t[p + 2]
        /\ SubSeq(t, p + 1, p + 3)[3] = t[p + 3]
    BY <1>5, <2>0
  <2>. QED  BY <2>1, <1>3, ZenonT(40) DEF Value3, LoadAt
<1>9. Value2(SubSeq(t, p + 4, p + 5)) = l
  <2>0. /\ p + 4 \in 1..p + 5 /\ p + 5 \in p + 4..p + 5 /\ p + 5 - (p + 4) + 1 = 2
        /\ p + 4 + 1 - 1 = p + 4 /\ p + 4 + 2 - 1 = p + 5
    BY <1>1
  <2>1. /\ SubSeq(t, p + 4, p + 5)[1] = t[p + 4]
        /\ SubSeq(t, p + 4, p + 5)[2] = t[p + 5]
    BY <1>5, <2>0
  <2>. QED  BY <2>1, <1>3, ZenonT(40) DEF Value2, LevelAt
<1>10. /\ Len(t) - 4 = p + 1 /\ Len(t) - 2 = p + 3 /\ Len(t) - 1 = p + 4
  BY <1>1
<1>. QED  BY <1>1, <1>2, <1>6, <1>7, <1>8, <1>9, <1>10
             DEF t, IsLoadLine, IsReadable, LoadIn, LevelIn

\* What the bridge can say: reports, and bitmaps where there are bulk queries.
AnyMessage ==
    [of : {"load", "loads", "switches"}, load : 0..192, level : 0..99, on : SUBSET (1..384)]
IsMessage(s, m) ==
    \/ m.of = "load" /\ m.load \in 1..192
    \/ s = "elegance" /\ m.of = "loads" /\ m.on \subseteq 1..192
    \/ s = "elegance" /\ m.of = "switches"

Length(s, m) ==
    IF m.of = "load" THEN PrefixLen(s) + 5 ELSE IF m.of = "loads" THEN 48 ELSE 96

\* A text of `n` characters.
IsText(t, n) == t \in Seq(Nat) /\ Len(t) = n /\ \A i \in 1..n : t[i] \notin {CR, LF}

\* A bitmap is a text of two digits for each byte.
LEMMA BitmapText ==
    ASSUME NEW lit, NEW groups \in Nat, NEW bytes \in Nat, NEW n \in Nat,
           n = 2 * bytes * groups
    PROVE  IsText(Bitmap(lit, groups, bytes), n)
<1> DEFINE First(p) == 8 * ((p - 1) \div 2) + (IF p % 2 = 1 THEN 5 ELSE 1)
           c(p) == HexOf(DigitAt(lit, First(p)))
           t == [p \in 1..n |-> c(p)]
<1>1. Bitmap(lit, groups, bytes) = t
  BY DEF Bitmap, DigitAt, BitAt
<1>2. \A p \in 1..n : c(p) \in 48..57 \cup 65..70
  <2>1. ASSUME NEW p \in 1..n PROVE c(p) \in 48..57 \cup 65..70
    <3>1. DigitAt(lit, First(p)) \in 0..15
      BY DigitIsFour
    <3> HIDE DEF First
    <3>. QED  BY <3>1, HexDigit
  <2>. QED  BY <2>1
<1> HIDE DEF c
<1>3. t \in Seq(Nat) /\ Len(t) = n
  BY <1>2
<1>4. \A p \in 1..n : t[p] \notin {13, 10}
  BY <1>2
<1> HIDE DEF t
<1>. QED  BY <1>1, <1>3, <1>4 DEF IsText, CR, LF

\* Whatever the bridge says is a text of a known length, without an end in it,
LEMMA SaidText ==
    ASSUME NEW s, NEW m \in AnyMessage, IsMessage(s, m)
    PROVE  IsText(Said(s, m), Length(s, m))
<1>1. CASE m.of = "load"
  <2>1. m.load \in 0..999 /\ m.level \in 0..99
    BY <1>1 DEF IsMessage, AnyMessage
  <2> DEFINE t == LoadLine(s, m.load, m.level)
  <2>2. t \in Seq(Nat) /\ Len(t) = PrefixLen(s) + 5
    <3>1. Spells(t, s, m.load, m.level)
      BY <2>1, LoadLineIs, ZenonT(40)
    <3> HIDE DEF t
    <3>. QED  BY <3>1 DEF Spells
  <2>3. \A i \in 1..Len(t) : t[i] \notin {CR, LF}
    BY <2>1, LoadLineBytes, ZenonT(40)
  <2> HIDE DEF t
  <2>4. IsText(t, PrefixLen(s) + 5)
    BY <2>2, <2>3 DEF IsText
  <2>. QED  BY <1>1, <2>4 DEF t, Said, Length
<1>2. CASE m.of = "loads"
  <2>1. IsText(Bitmap(m.on, 8, 3), 48)
    <3>1. 48 = 2 * 3 * 8
      OBVIOUS
    <3>. QED  BY <3>1, BitmapText
  <2>. QED  BY <1>2, <2>1 DEF Said, Length
<1>3. CASE m.of \notin {"load", "loads"}
  <2>1. IsText(Bitmap(m.on, 24, 2), 96)
    <3>1. 96 = 2 * 2 * 24
      OBVIOUS
    <3>. QED  BY <3>1, BitmapText
  <2>. QED  BY <1>3, <2>1 DEF Said, Length
<1>. QED  BY <1>1, <1>2, <1>3

\* of at most 96 characters.
LEMMA LengthIs ==
    ASSUME NEW s, NEW m
    PROVE  Length(s, m) \in 7..96
BY DEF Length, PrefixLen

-----------------------------------------------------------------------------
(* The reader.                                                               *)

\* The line that is on its way.
Coming == Said(system, Head(coming))

WireTypes ==
    /\ coming \in Seq(AnyMessage)
    /\ \A i \in DOMAIN coming : IsMessage(system, coming[i])
    /\ at \in Nat
    /\ coming = <<>> => at = 0
    /\ coming # <<>> => at < Len(Coming) + Len(Ending(system))

DeviceTypes ==
    /\ system \in Systems
    /\ orders \in Seq(Orders(system))
    /\ DOMAIN levels \subseteq 1..192
    /\ \A n \in DOMAIN levels : levels[n] \in 1..99
    /\ pressed \subseteq 1..384

LightTypes ==
    /\ DeviceTypes /\ WireTypes
    /\ buf \in Seq(Nat) /\ torn \in BOOLEAN /\ losses \in 0..MaxLost
    /\ asking \in {"none", "loads", "switches"}
    /\ system = "jetstream" => asking = "none"

\* As long as nothing of the line is missing, the buffer has what came of it.
SoFar ==
    ~torn =>
        /\ coming # <<>> /\ at <= Len(Coming) => buf = SubSeq(Coming, 1, at)
        /\ coming = <<>> \/ at > Len(Coming) => buf = <<>>

LineInv == LightTypes /\ SoFar /\ LinesWhole

\* The first of the lines that are coming,
LEMMA HeadIs ==
    ASSUME WireTypes, coming # <<>>
    PROVE  /\ Head(coming) \in AnyMessage /\ IsMessage(system, Head(coming))
           /\ Head(coming) = coming[1] /\ Len(coming) \in Nat \ {0}
           /\ DOMAIN coming = 1..Len(coming)
<1>1. coming \in Seq(AnyMessage)
  BY DEF WireTypes
<1>2. Len(coming) \in Nat \ {0} /\ DOMAIN coming = 1..Len(coming)
  BY <1>1, EmptySeq, LenProperties
<1>3. Head(coming) = coming[1] /\ Head(coming) \in AnyMessage
  BY <1>1, HeadTailProperties
<1>4. IsMessage(system, coming[1])
  BY <1>2 DEF WireTypes
<1>. QED  BY <1>2, <1>3, <1>4

\* and its text.
LEMMA ComingIs ==
    ASSUME WireTypes, coming # <<>>
    PROVE  /\ Coming \in Seq(Nat) /\ Len(Coming) = Length(system, Head(coming))
           /\ Len(Coming) \in 7..96
           /\ \A i \in 1..Len(Coming) : Coming[i] \in Nat /\ Coming[i] \notin {CR, LF}
<1>1. IsText(Coming, Length(system, Head(coming)))
  BY HeadIs, SaidText DEF Coming
<1>2. Length(system, Head(coming)) \in 7..96
  BY LengthIs
<1>3. Coming \in Seq(Nat) /\ Len(Coming) = Length(system, Head(coming))
  BY <1>1 DEF IsText
<1>4. \A i \in 1..Len(Coming) : Coming[i] \notin {CR, LF}
  BY <1>1, <1>3 DEF IsText
<1>5. \A i \in 1..Len(Coming) : Coming[i] \in Nat
  BY <1>3, ElementOfSeq
<1>. QED  BY <1>2, <1>3, <1>4, <1>5

\* A byte of the text comes, or one that ends the line.
TextByte  == at < Len(Coming) /\ NextByte = Coming[at + 1] /\ NextByte \in Nat /\ NextByte \notin {CR, LF}
EndByte   == at = Len(Coming) /\ NextByte = CR
AfterByte == at = Len(Coming) + 1 /\ NextByte = LF /\ system = "jetstream"

\* The next byte is of the text, ends it, or follows the end (JetStream).
LEMMA NextByteIs ==
    ASSUME LightTypes, coming # <<>>
    PROVE  TextByte \/ EndByte \/ AfterByte
<1>0. Len(Coming) \in 7..96 /\ at \in Nat /\ at < Len(Coming) + Len(Ending(system))
  BY ComingIs DEF LightTypes, WireTypes
<1>1. /\ Len(Coming) \in 7..96 /\ at \in Nat
      /\ \A i \in 1..Len(Coming) : Coming[i] \in Nat /\ Coming[i] \notin {CR, LF}
  BY ComingIs DEF LightTypes, WireTypes
<1>2. NextByte = IF at < Len(Coming) THEN Coming[at + 1] ELSE Ending(system)[at + 1 - Len(Coming)]
  BY DEF NextByte, Coming
<1>3. CASE at < Len(Coming)
  <2>1. at + 1 \in 1..Len(Coming)
    BY <1>1, <1>3
  <2>. QED  BY <1>1, <1>2, <1>3, <2>1 DEF TextByte
<1>4. CASE ~(at < Len(Coming)) /\ system = "jetstream"
  <2>1. Len(Ending(system)) = 2 /\ Ending(system)[1] = CR /\ Ending(system)[2] = LF
    BY <1>4 DEF Ending
  <2>2. at = Len(Coming) \/ at = Len(Coming) + 1
    <3>1. at < Len(Coming) + 2
      BY <1>0, <2>1
    <3>2. Len(Coming) \in Nat /\ at \in Nat /\ ~(at < Len(Coming))
      BY <1>0, <1>4
    <3>. QED  BY <3>1, <3>2
  <2>3. at + 1 - Len(Coming) = IF at = Len(Coming) THEN 1 ELSE 2
    BY <1>1, <2>2
  <2>. QED  BY <1>1, <1>2, <1>4, <2>1, <2>2, <2>3 DEF EndByte, AfterByte
<1>5. CASE ~(at < Len(Coming)) /\ system # "jetstream"
  <2>1. Len(Ending(system)) = 1 /\ Ending(system)[1] = CR
    BY <1>5 DEF Ending
  <2>2. at = Len(Coming)
    BY <1>0, <1>5, <2>1
  <2>3. at + 1 - Len(Coming) = 1
    BY <1>1, <2>2
  <2>. QED  BY <1>1, <1>2, <1>5, <2>1, <2>2, <2>3 DEF EndByte
<1>. QED  BY <1>3, <1>4, <1>5

\* What is through, and what is left of what is coming.
LEMMA Through ==
    ASSUME LightTypes, coming # <<>>, IsThrough
    PROVE  /\ TextByte => at' = at + 1 /\ coming' = coming
           /\ EndByte => IF system = "jetstream" THEN at' = at + 1 /\ coming' = coming
                         ELSE at' = 0 /\ coming' = Tail(coming)
           /\ AfterByte => at' = 0 /\ coming' = Tail(coming)
<1>1. Len(Coming) \in Nat /\ at \in Nat
  BY ComingIs DEF LightTypes, WireTypes
<1>2. IF at + 1 < Len(Coming) + Len(Ending(system))
      THEN at' = at + 1 /\ coming' = coming
      ELSE at' = 0 /\ coming' = Tail(coming)
  BY DEF IsThrough, Coming
<1>3. Len(Ending(system)) = IF system = "jetstream" THEN 2 ELSE 1
  BY DEF Ending
<1>4. ASSUME TextByte PROVE at' = at + 1 /\ coming' = coming
  BY <1>1, <1>2, <1>3, <1>4 DEF TextByte
<1>5. ASSUME EndByte
      PROVE  IF system = "jetstream" THEN at' = at + 1 /\ coming' = coming
             ELSE at' = 0 /\ coming' = Tail(coming)
  BY <1>1, <1>2, <1>3, <1>5 DEF EndByte
<1>6. ASSUME AfterByte PROVE at' = 0 /\ coming' = Tail(coming)
  <2>1. ~(at + 1 < Len(Coming) + Len(Ending(system)))
    <3>1. Len(Ending(system)) = 2
      BY <1>3, <1>6 DEF AfterByte
    <3>2. at = Len(Coming) + 1
      BY <1>6 DEF AfterByte
    <3>. QED  BY <1>1, <3>1, <3>2
  <2>. QED  BY <1>2, <2>1
<1>. QED  BY <1>4, <1>5, <1>6

\* All but the first of a sequence.
LEMMA TailIs ==
    ASSUME NEW S, NEW q \in Seq(S), q # <<>>
    PROVE  /\ Tail(q) \in Seq(S) /\ DOMAIN q = 1..Len(q) /\ Len(q) \in Nat \ {0}
           /\ DOMAIN Tail(q) = 1..Len(q) - 1 /\ Len(Tail(q)) = Len(q) - 1
           /\ \A i \in 1..Len(q) - 1 : Tail(q)[i] = q[i + 1]
<1>1. Len(q) \in Nat \ {0} /\ DOMAIN q = 1..Len(q)
  BY EmptySeq, LenProperties
<1>2. /\ Tail(q) \in Seq(S) /\ Len(Tail(q)) = Len(q) - 1
      /\ \A i \in 1..Len(Tail(q)) : Tail(q)[i] = q[i + 1]
  BY HeadTailProperties
<1>3. DOMAIN Tail(q) = 1..Len(Tail(q))
  BY <1>2, LenProperties
<1>. QED  BY <1>1, <1>2, <1>3

\* One byte or two end a line.
LEMMA EndingIs == ASSUME NEW s PROVE Len(Ending(s)) \in 1..2
BY DEF Ending

\* What is still coming after a byte is what the bridge said.
LEMMA ThroughTypes ==
    ASSUME LightTypes, coming # <<>>, IsThrough, system' = system
    PROVE  WireTypes'
<1>0. WireTypes
  BY DEF LightTypes
<1>1. Len(Coming) \in Nat /\ at \in Nat /\ coming \in Seq(AnyMessage)
  BY ComingIs DEF LightTypes, WireTypes
<1>2. CASE at' = at + 1 /\ coming' = coming
  <2>1. at + 1 < Len(Coming) + Len(Ending(system))
    <3>1. Tail(coming) # coming
      BY <1>1, TailIs
    <3>. QED  BY <1>2, <3>1 DEF IsThrough, Coming
  <2>2. Coming' = Coming
    BY <1>2 DEF Coming
  <2>. QED  BY <1>0, <1>1, <1>2, <2>1, <2>2 DEF WireTypes
<1>3. CASE at' = 0 /\ coming' = Tail(coming)
  <2>1. /\ coming' \in Seq(AnyMessage) /\ DOMAIN coming = 1..Len(coming)
        /\ DOMAIN coming' = 1..Len(coming) - 1 /\ Len(coming) \in Nat
        /\ \A i \in 1..Len(coming) - 1 : coming'[i] = coming[i + 1]
    BY <1>1, <1>3, TailIs
  <2>2. ASSUME NEW i \in DOMAIN coming' PROVE IsMessage(system, coming'[i])
    <3>1. i + 1 \in DOMAIN coming /\ coming'[i] = coming[i + 1]
      BY <2>1
    <3>. QED  BY <1>0, <3>1 DEF WireTypes
  <2>3. coming' # <<>> => at' < Len(Coming') + Len(Ending(system'))
    <3> SUFFICES ASSUME coming' # <<>>
                 PROVE  0 < Len(Coming') + Len(Ending(system))
      BY <1>3
    <3>1. Head(coming') = coming'[1] /\ Head(coming') \in AnyMessage
      BY <2>1, HeadTailProperties
    <3>2. 1 \in DOMAIN coming'
      BY <2>1, EmptySeq, LenProperties
    <3>3. IsMessage(system, Head(coming'))
      BY <2>2, <3>1, <3>2
    <3>4. IsText(Coming', Length(system, Head(coming')))
      BY <3>1, <3>3, SaidText DEF Coming
    <3>5. Len(Coming') \in 7..96
      BY <3>4, LengthIs DEF IsText
    <3>6. Len(Ending(system)) \in 1..2
      BY EndingIs
    <3> DEFINE k == Len(Coming')
               e == Len(Ending(system))
    <3>7. k \in 7..96 /\ e \in 1..2
      BY <3>5, <3>6
    <3> HIDE DEF k, e
    <3>8. 0 < k + e
      BY <3>7
    <3>. QED  BY <3>8 DEF k, e
  <2>. QED  BY <1>3, <2>1, <2>2, <2>3 DEF WireTypes
<1>. QED  BY <1>2, <1>3 DEF IsThrough

\* One more byte of a text.
LEMMA SubSeqNext ==
    ASSUME NEW t \in Seq(Nat), NEW n \in 0..Len(t) - 1
    PROVE  SubSeq(t, 1, n + 1) = Append(SubSeq(t, 1, n), t[n + 1])
<1>1. Len(t) \in Nat /\ \A i \in 1..Len(t) : t[i] \in Nat
  BY LenProperties, ElementOfSeq
<1>2. /\ SubSeq(t, 1, n) \in Seq(Nat) /\ Len(SubSeq(t, 1, n)) = n
      /\ \A i \in 1..n : SubSeq(t, 1, n)[i] = t[i]
  BY <1>1
<1>3. /\ SubSeq(t, 1, n + 1) \in Seq(Nat) /\ Len(SubSeq(t, 1, n + 1)) = n + 1
      /\ \A i \in 1..n + 1 : SubSeq(t, 1, n + 1)[i] = t[i]
  BY <1>1
<1> DEFINE a == SubSeq(t, 1, n)
           b == SubSeq(t, 1, n + 1)
<1> HIDE DEF a, b
<1>4. a \in Seq(Nat) /\ Len(a) = n /\ \A i \in 1..n : a[i] = t[i]
  BY <1>2 DEF a
<1>5. b \in Seq(Nat) /\ Len(b) = n + 1 /\ \A i \in 1..n + 1 : b[i] = t[i]
  BY <1>3 DEF b
<1>6. t[n + 1] \in Nat
  BY <1>1
<1> DEFINE c == Append(a, t[n + 1])
<1>7. c \in Seq(Nat) /\ Len(c) = n + 1 /\ \A i \in 1..n + 1 : c[i] = t[i]
  BY <1>4, <1>6
<1> HIDE DEF c
<1>8. c = b
  BY <1>5, <1>7, SeqEqual
<1>. QED  BY <1>8 DEF a, b, c

\* A line that is returned leaves at most no request.
LEMMA DispatchKeeps ==
    ASSUME LightTypes, NEW s, Dispatch(s)
    PROVE  asking' \in {asking, "none"}
BY DEF Dispatch, Fulfils, asked

\* What the reader does leaves the bridge and the orders as they are.
LEMMA DeviceKept ==
    ASSUME DeviceTypes, UNCHANGED <<orders, system, levels, pressed>>
    PROVE  DeviceTypes'
<1>1. orders' = orders /\ system' = system /\ levels' = levels /\ pressed' = pressed
  OBVIOUS
<1>2. orders' \in Seq(Orders(system'))
  <2>1. orders \in Seq(Orders(system))
    BY DEF DeviceTypes
  <2>. QED  BY <1>1, <2>1, Zenon
<1>3. system' \in Systems /\ DOMAIN levels' \subseteq 1..192 /\ pressed' \subseteq 1..384
  <2>1. system \in Systems /\ DOMAIN levels \subseteq 1..192 /\ pressed \subseteq 1..384
    BY DEF DeviceTypes
  <2>. QED  BY <1>1, <2>1, SMTT(40)
<1>4. \A n \in DOMAIN levels' : levels'[n] \in 1..99
  BY <1>1 DEF DeviceTypes
<1>. QED  BY <1>2, <1>3, <1>4 DEF DeviceTypes

\* A text that has not ended fits the buffer.
LEMMA Room ==
    ASSUME NEW n \in 7..96, NEW k \in Nat, k < n
    PROVE  ~(k + 1 >= ReadMax)
BY LightAssumption

\* The buffer has room for the next byte of a line of which nothing is missing.
LEMMA BufferHolds ==
    ASSUME LightTypes, SoFar, coming # <<>>, ~torn, TextByte
    PROVE  /\ Append(buf, NextByte) = SubSeq(Coming, 1, at + 1)
           /\ ~FullBuffer(Append(buf, NextByte))
<1>1. Coming \in Seq(Nat) /\ Len(Coming) \in 7..96 /\ at \in Nat
  BY ComingIs DEF LightTypes, WireTypes
<1>2. at < Len(Coming) /\ NextByte = Coming[at + 1]
  BY DEF TextByte
<1>3. buf = SubSeq(Coming, 1, at)
  BY <1>1, <1>2 DEF SoFar
<1> DEFINE b == Append(buf, NextByte)
<1>4. b = SubSeq(Coming, 1, at + 1) /\ Len(b) = at + 1
  <2>1. at \in 0..Len(Coming) - 1
    BY <1>1, <1>2
  <2>2. SubSeq(Coming, 1, at + 1) = Append(SubSeq(Coming, 1, at), Coming[at + 1])
    BY <1>1, <2>1, SubSeqNext
  <2>3. \A i \in 1..Len(Coming) : Coming[i] \in Nat
    BY <1>1, ElementOfSeq
  <2>4. Len(SubSeq(Coming, 1, at + 1)) = at + 1
    BY <1>1, <2>1, <2>3, SubSeqProperties
  <2>. QED  BY <1>2, <1>3, <2>2, <2>4
<1>5. ~FullBuffer(b)
  <2>1. ~(at + 1 >= ReadMax)
    BY <1>1, <1>2, Room
  <2> HIDE DEF b
  <2>2. Len(b) = at + 1
    BY <1>4
  <2>. QED  BY <2>1, <2>2 DEF FullBuffer
<1>. QED  BY <1>4, <1>5

\* A byte that is read keeps LineInv: the buffer has what came of the line.
LEMMA ReadsKeeps ==
    ASSUME LineInv, Reads
    PROVE  LineInv'
<1>1. /\ LightTypes /\ SoFar /\ LinesWhole /\ WireTypes
      /\ coming # <<>> /\ IsThrough /\ Gets(NextByte)
      /\ UNCHANGED <<orders, system, levels, pressed, losses, wanted>>
  BY DEF Reads, LineInv, LightTypes, device
<1>2. WireTypes'
  BY <1>1, ThroughTypes
<1>3. DeviceTypes'
  BY <1>1, DeviceKept DEF LightTypes
<1>4. /\ Coming \in Seq(Nat) /\ Len(Coming) \in 7..96 /\ at \in Nat
      /\ buf \in Seq(Nat) /\ torn \in BOOLEAN
  BY <1>1, ComingIs DEF LightTypes, WireTypes
<1>5. ASSUME asking' \in {asking, "none"}, buf' \in Seq(Nat), torn' \in BOOLEAN
      PROVE  LightTypes'
  BY <1>1, <1>2, <1>3, <1>5 DEF LightTypes
<1>6. CASE TextByte
  <2>1. at' = at + 1 /\ coming' = coming /\ Coming' = Coming
    BY <1>1, <1>6, Through DEF Coming
  <2>2. at < Len(Coming) /\ NextByte = Coming[at + 1] /\ NextByte \in Nat /\ NextByte \notin {CR, LF}
    BY <1>6 DEF TextByte
  <2> DEFINE b == Append(buf, NextByte)
  <2>3. b \in Seq(Nat)
    BY <1>4, <2>2
  <2>4. \/ FullBuffer(b) /\ Returns(b) /\ torn' = TRUE
        \/ ~FullBuffer(b) /\ buf' = b /\ UNCHANGED <<torn, returned, asked, shown>>
    BY <1>1, <2>2 DEF Gets
  <2>5. CASE torn
    <3>1. CASE FullBuffer(b) /\ Returns(b) /\ torn' = TRUE
      <4>1. buf' = <<>> /\ ~returned'.whole /\ Dispatch(b)
        BY <2>5, <3>1 DEF Returns
      <4>2. asking' \in {asking, "none"}
        BY <1>1, <4>1, DispatchKeeps
      <4>. QED  BY <1>5, <3>1, <4>1, <4>2 DEF LineInv, SoFar, LinesWhole
    <3>2. CASE ~FullBuffer(b) /\ buf' = b /\ UNCHANGED <<torn, returned, asked, shown>>
      BY <1>1, <1>5, <2>3, <2>5, <3>2 DEF LineInv, SoFar, LinesWhole, asked, LightTypes
    <3>. QED  BY <2>4, <3>1, <3>2
  <2>6. CASE ~torn
    <3>1. buf = SubSeq(Coming, 1, at)
      BY <1>1, <1>4, <2>2, <2>6 DEF SoFar
    <3>2. b = SubSeq(Coming, 1, at + 1) /\ ~FullBuffer(b)
      BY <1>1, <1>6, <2>6, BufferHolds
    <3>3. ~FullBuffer(b)
      BY <3>2
    <3>4. buf' = b /\ UNCHANGED <<torn, returned, asked, shown>>
      BY <2>4, <3>3
    <3>5. SoFar'
      <4>1. at' <= Len(Coming') /\ coming' # <<>>
        BY <1>1, <1>4, <2>1, <2>2
      <4>2. buf' = SubSeq(Coming', 1, at')
        BY <2>1, <3>2, <3>4
      <4>3. ~(at' > Len(Coming'))
        BY <1>4, <2>1, <2>2
      <4>. QED  BY <4>1, <4>2, <4>3 DEF SoFar
    <3>. QED  BY <1>1, <1>5, <2>3, <3>4, <3>5 DEF LineInv, LinesWhole, asked, LightTypes
  <2>. QED  BY <2>5, <2>6, <1>4
<1>7. CASE EndByte
  <2>1. at = Len(Coming) /\ NextByte = CR /\ CR # LF
    BY <1>7 DEF EndByte, CR, LF
  <2>2. Returns(buf) /\ torn' = FALSE
    BY <1>1, <2>1 DEF Gets
  <2>3. buf' = <<>> /\ Dispatch(buf)
        /\ returned' = [line |-> buf, whole |-> ~torn, said |-> Coming]
    BY <2>2 DEF Returns, Coming
  <2>4. asking' \in {asking, "none"}
    BY <1>1, <2>3, DispatchKeeps
  <2>5. LinesWhole'
    <3> SUFFICES ASSUME ~torn PROVE buf = Coming
      BY <2>3 DEF LinesWhole
    <3>1. buf = SubSeq(Coming, 1, Len(Coming))
      BY <1>1, <1>4, <2>1 DEF SoFar
    <3>. QED  BY <1>4, <3>1, SubSeqFull
  <2>6. SoFar'
    <3> SUFFICES ASSUME coming' # <<>>, at' <= Len(Coming') PROVE <<>> = SubSeq(Coming', 1, at')
      BY <2>3 DEF SoFar
    <3>1. CASE system = "jetstream"
      <4>1. at' = at + 1 /\ Coming' = Coming
        BY <1>1, <1>7, <3>1, Through DEF Coming
      <4>. QED  BY <1>4, <2>1, <4>1
    <3>2. CASE system # "jetstream"
      <4>1. at' = 0
        BY <1>1, <1>7, <3>2, Through
      <4>. QED  BY <4>1, SubSeqEmpty
    <3>. QED  BY <3>1, <3>2
  <2>7. buf' \in Seq(Nat) /\ torn' \in BOOLEAN
    <3>1. buf' = <<>> /\ torn' = FALSE
      BY <2>2, <2>3
    <3>2. <<>> \in Seq(Nat)
      OBVIOUS
    <3>. QED  BY <3>1, <3>2, Zenon
  <2>8. LightTypes'
    BY <1>5, <2>4, <2>7
  <2>. QED  BY <2>5, <2>6, <2>8 DEF LineInv
<1>8. CASE AfterByte
  <2>1. at = Len(Coming) + 1 /\ NextByte = LF /\ CR # LF
    BY <1>8 DEF AfterByte, CR, LF
  <2>2. UNCHANGED <<buf, torn, returned, asking, shown>>
    BY <1>1, <2>1 DEF Gets, LineFeed, asked
  <2>3. at' = 0
    BY <1>1, <1>8, Through
  <2>4. SoFar'
    <3> SUFFICES ASSUME ~torn PROVE <<>> = SubSeq(Coming', 1, at') /\ buf' = <<>>
      BY <2>2 DEF SoFar
    <3>1. at > Len(Coming)
      BY <1>4, <2>1
    <3>2. buf = <<>>
      BY <1>1, <3>1 DEF SoFar
    <3>. QED  BY <2>2, <2>3, <3>2, SubSeqEmpty
  <2>5. LightTypes'
    BY <1>4, <1>5, <2>2
  <2>6. LinesWhole'
    BY <1>1, <2>2 DEF LinesWhole
  <2>. QED  BY <2>4, <2>5, <2>6 DEF LineInv
<1>. QED  BY <1>1, <1>6, <1>7, <1>8, NextByteIs

\* So does a byte that is lost: the line is torn then, or only its LF is missing.
LEMMA LosesKeeps ==
    ASSUME LineInv, Loses
    PROVE  LineInv'
<1>1. /\ LightTypes /\ SoFar /\ LinesWhole /\ WireTypes
      /\ coming # <<>> /\ losses < MaxLost /\ IsThrough
      /\ losses' = losses + 1 /\ torn' = (torn \/ NextByte # LF)
      /\ UNCHANGED <<orders, system, levels, pressed, buf, returned, asking, shown, wanted>>
  BY DEF Loses, LineInv, LightTypes, device, asked
<1>2. WireTypes'
  BY <1>1, ThroughTypes
<1>3. DeviceTypes'
  BY <1>1, DeviceKept DEF LightTypes
<1>4. losses' \in 0..MaxLost
  BY <1>1, LightAssumption DEF LightTypes
<1>5. LightTypes'
  BY <1>1, <1>2, <1>3, <1>4 DEF LightTypes
<1>6. SoFar'
  <2>1. CASE NextByte # LF
    BY <1>1, <2>1 DEF SoFar
  <2>2. CASE NextByte = LF
    <3>1. AfterByte
      BY <1>1, <2>2, NextByteIs DEF TextByte, EndByte, CR, LF
    <3>2. at' = 0 /\ torn' = torn
      BY <1>1, <2>2, <3>1, Through DEF LightTypes
    <3>3. at > Len(Coming)
      <4>0. Coming \in Seq(Nat)
        BY <1>1, ComingIs, ZenonT(40)
      <4>1. Len(Coming) \in Nat
        BY <4>0
      <4>. QED  BY <3>1, <4>1 DEF AfterByte
    <3>4. ~torn => buf = <<>>
      BY <1>1, <3>3, SMTT(40) DEF SoFar
    <3>5. SubSeq(Coming', 1, 0) = <<>>
      BY SubSeqEmpty
    <3>6. ~torn' => buf' = <<>> /\ SubSeq(Coming', 1, at') = <<>>
      BY <1>1, <3>2, <3>4, <3>5, ZenonT(40)
    <3>. QED  BY <3>6, ZenonT(40) DEF SoFar
  <2>. QED  BY <2>1, <2>2
<1>. QED  BY <1>1, <1>5, <1>6 DEF LineInv, LinesWhole

-----------------------------------------------------------------------------
(* Orders.                                                                   *)

\* A load that is set to 0 is no longer among those that are on.
LEMMA WithDomain ==
    ASSUME NEW f, NEW n, NEW l
    PROVE  DOMAIN With(f, n, l) = IF l = 0 THEN DOMAIN f \ {n} ELSE DOMAIN f \cup {n}
BY DEF With

\* The others stay as they are.
LEMMA WithAt ==
    ASSUME NEW f, NEW n, NEW l, NEW m \in DOMAIN With(f, n, l)
    PROVE  With(f, n, l)[m] = IF m = n THEN l ELSE f[m]
BY DEF With

\* The level of a load that is set is what it was set to.
LEMMA LevelWith ==
    ASSUME NEW f, NEW n, NEW l, NEW m
    PROVE  Level(With(f, n, l), m) = IF m = n THEN l ELSE Level(f, m)
BY DEF With, Level

\* What is switched or dimmed: `n` to the level `l`, for the brightness `b`.
Turns(n, b, l) ==
    /\ orders # <<>> /\ orders' = Tail(orders) /\ asking = "none"
    /\ n \in Lights /\ b \in 0..255 /\ l \in 0..99
    /\ l = IF b = 0 THEN 0 ELSE IF n \in Relays THEN 99 ELSE LevelOf(b)
    /\ levels' = With(levels, n, l) /\ wanted' = With(wanted, n, b)
    /\ Tells(Report(n, l))
    /\ UNCHANGED <<system, pressed, returned, asking, answer, shown>>

\* The next of the orders is one the bridge takes.
LEMMA OrderIs ==
    ASSUME LightTypes, orders # <<>>
    PROVE  /\ Head(orders) \in Orders(system)
           /\ Head(orders).op = "turn_on" =>
                 Head(orders).load \in Lights /\ Head(orders).brightness \in 1..255
           /\ Head(orders).op = "turn_off" => Head(orders).load \in Lights
           /\ Head(orders).op \in {"loads", "switches"} => system = "elegance"
<1>1. orders \in Seq(Orders(system))
  BY DEF LightTypes, DeviceTypes
<1>2. Head(orders) \in Orders(system)
  BY <1>1, HeadTailProperties
<1> DEFINE o == Head(orders)
<1> HIDE DEF o
<1>3. o \in Orders(system)
  BY <1>2 DEF o
<1>4. \/ o \in [op : {"turn_on"}, load : Lights, brightness : 1..255]
      \/ o \in [op : {"turn_off"}, load : Lights]
      \/ o \in [op : IF system = "elegance" THEN {"loads", "switches"} ELSE {}]
  BY <1>3 DEF Orders
<1>5. /\ o.op = "turn_on" => o.load \in Lights /\ o.brightness \in 1..255
      /\ o.op = "turn_off" => o.load \in Lights
      /\ o.op \in {"loads", "switches"} => system = "elegance"
  BY <1>4
<1>. QED  BY <1>2, <1>5 DEF o

\* TurnOn and TurnOff switch or dim a light,
LEMMA TurnIs ==
    ASSUME LightTypes, TurnOn \/ TurnOff
    PROVE  \E n, b, l : Turns(n, b, l)
<1>0. Relays \subseteq Lights
  BY LightAssumption
<1>1. CASE TurnOn
  <2> DEFINE o == Head(orders)
             n == o.load
             b == o.brightness
             l == IF n \in Relays THEN 99 ELSE LevelOf(b)
  <2>1. /\ orders # <<>> /\ o.op = "turn_on" /\ orders' = Tail(orders) /\ asking = "none"
        /\ levels' = With(levels, n, l) /\ Tells(Report(n, l))
        /\ wanted' = With(wanted, n, b)
        /\ UNCHANGED <<system, pressed, returned, asking, answer, shown>>
    BY <1>1 DEF TurnOn, Ordered, Becomes, asked
  <2>2. n \in Lights /\ b \in 1..255
    BY <2>1, OrderIs
  <2>3. LevelOf(b) \in 1..99
    BY <2>2, LevelOfBrightness
  <2> HIDE DEF o, n, b
  <2>4. l \in 0..99 /\ b \in 0..255 /\ b # 0
    BY <2>2, <2>3
  <2>5. l = IF b = 0 THEN 0 ELSE IF n \in Relays THEN 99 ELSE LevelOf(b)
    BY <2>4
  <2> HIDE DEF l
  <2>6. Turns(n, b, l)
    BY <2>1, <2>2, <2>4, <2>5 DEF Turns
  <2>. QED  BY <2>6
<1>2. CASE TurnOff
  <2> DEFINE n == Head(orders).load
  <2>1. /\ orders # <<>> /\ Head(orders).op = "turn_off" /\ orders' = Tail(orders)
        /\ asking = "none"
        /\ levels' = With(levels, n, 0) /\ Tells(Report(n, 0))
        /\ wanted' = With(wanted, n, 0)
        /\ UNCHANGED <<system, pressed, returned, asking, answer, shown>>
    BY <1>2 DEF TurnOff, Ordered, Becomes, asked
  <2>2. n \in Lights
    BY <2>1, OrderIs
  <2> HIDE DEF n
  <2>3. 0 \in 0..255 /\ 0 \in 0..99
    OBVIOUS
  <2>4. Turns(n, 0, 0)
    BY <2>1, <2>2, <2>3 DEF Turns
  <2>. QED  BY <2>4
<1>. QED  BY <1>1, <1>2

\* One more line is coming.
LEMMA AppendIs ==
    ASSUME NEW S, NEW q \in Seq(S), NEW m \in S, NEW r, r = Append(q, m)
    PROVE  /\ r \in Seq(S) /\ r # <<>> /\ Len(q) \in Nat
           /\ DOMAIN q = 1..Len(q) /\ DOMAIN r = 1..Len(q) + 1 /\ Len(r) = Len(q) + 1
           /\ r[Len(q) + 1] = m /\ \A i \in 1..Len(q) : r[i] = q[i]
<1>1. Len(q) \in Nat /\ DOMAIN q = 1..Len(q)
  BY LenProperties
<1>2. /\ r \in Seq(S) /\ Len(r) = Len(q) + 1
      /\ r[Len(q) + 1] = m /\ \A i \in 1..Len(q) : r[i] = q[i]
  OBVIOUS
<1>3. DOMAIN r = 1..Len(r)
  BY <1>2, LenProperties
<1>4. r # <<>>
  BY <1>1, <1>2
<1>. QED  BY <1>1, <1>2, <1>3, <1>4

\* One more line leaves the one that is on its way as it is.
LEMMA TellsKeeps ==
    ASSUME LightTypes, SoFar, system' = system,
           NEW m \in AnyMessage, IsMessage(system, m), Tells(m)
    PROVE  WireTypes' /\ SoFar'
<1>1. /\ coming \in Seq(AnyMessage) /\ coming' = Append(coming, m)
      /\ UNCHANGED <<at, buf, torn, losses>>
  BY DEF Tells, LightTypes, WireTypes
<1>2. /\ coming' \in Seq(AnyMessage) /\ coming' # <<>> /\ Len(coming) \in Nat
      /\ DOMAIN coming = 1..Len(coming) /\ DOMAIN coming' = 1..Len(coming) + 1
      /\ coming'[Len(coming) + 1] = m /\ \A i \in 1..Len(coming) : coming'[i] = coming[i]
  BY <1>1, AppendIs
<1>3. ASSUME NEW i \in DOMAIN coming' PROVE IsMessage(system, coming'[i])
  <2>1. CASE i \in DOMAIN coming
    BY <1>2, <2>1 DEF LightTypes, WireTypes
  <2>2. CASE i \notin DOMAIN coming
    <3>1. i = Len(coming) + 1
      BY <1>2, <2>2
    <3>. QED  BY <1>2, <3>1
  <2>. QED  BY <2>1, <2>2
<1>4. Head(coming') = coming'[1]
  BY <1>2, HeadTailProperties
<1>5. CASE coming = <<>>
  <2>1. at = 0
    BY <1>5 DEF LightTypes, WireTypes
  <2>2. coming'[1] = m
    <3>1. Len(coming) = 0
      BY <1>5
    <3>. QED  BY <1>2, <3>1
  <2>3. IsText(Coming', Length(system, m))
    BY <1>4, <2>2, SaidText DEF Coming
  <2>4. at' < Len(Coming') + Len(Ending(system'))
    <3> DEFINE k == Len(Coming')
               e == Len(Ending(system))
    <3>1. k \in 7..96
      BY <2>3, LengthIs DEF IsText
    <3>2. e \in 1..2
      BY EndingIs
    <3> HIDE DEF k, e
    <3>3. 0 < k + e
      BY <3>1, <3>2
    <3>. QED  BY <1>1, <2>1, <3>3 DEF k, e
  <2>5. WireTypes'
    BY <1>1, <1>2, <1>3, <2>1, <2>4 DEF WireTypes
  <2>6. ~(at' > Len(Coming'))
    <3>1. Len(Coming') \in 7..96
      BY <2>3, LengthIs DEF IsText
    <3>. QED  BY <1>1, <2>1, <3>1
  <2>7. SoFar'
    <3> SUFFICES ASSUME ~torn PROVE buf = SubSeq(Coming', 1, 0)
      BY <1>1, <1>2, <2>1, <2>6 DEF SoFar
    <3>1. buf = <<>>
      BY <1>5 DEF SoFar
    <3>. QED  BY <3>1, SubSeqEmpty
  <2>. QED  BY <2>5, <2>7
<1>6. CASE coming # <<>>
  <2>1. Head(coming) = coming[1] /\ 1 \in 1..Len(coming)
    BY <1>6, HeadIs DEF LightTypes
  <2>2. Coming' = Coming
    BY <1>2, <1>4, <2>1 DEF Coming
  <2>3. at < Len(Coming) + Len(Ending(system))
    BY <1>6 DEF LightTypes, WireTypes
  <2>4. WireTypes'
    <3>1. at' \in Nat
      BY <1>1 DEF LightTypes, WireTypes
    <3>2. at' < Len(Coming') + Len(Ending(system'))
      BY <1>1, <2>2, <2>3
    <3>. QED  BY <1>2, <1>3, <3>1, <3>2 DEF WireTypes
  <2>5. SoFar'
    BY <1>1, <1>2, <1>6, <2>2 DEF SoFar
  <2>. QED  BY <2>4, <2>5
<1>. QED  BY <1>5, <1>6

\* Levels of loads that are on are 1 to 99.
LEMMA LevelsWith ==
    ASSUME NEW f, NEW n \in 1..192, NEW l \in 0..99,
           DOMAIN f \subseteq 1..192, \A m \in DOMAIN f : f[m] \in 1..99
    PROVE  /\ DOMAIN With(f, n, l) \subseteq 1..192
           /\ \A m \in DOMAIN With(f, n, l) : With(f, n, l)[m] \in 1..99
BY DEF With

\* An order to a light keeps LineInv.
LEMMA TurnsKeeps ==
    ASSUME LineInv, NEW n, NEW b, NEW l, Turns(n, b, l)
    PROVE  LineInv'
<1>1. /\ LightTypes /\ SoFar /\ LinesWhole /\ DeviceTypes
      /\ n \in Lights /\ l \in 0..99 /\ levels' = With(levels, n, l)
      /\ Tells(Report(n, l)) /\ orders # <<>> /\ orders' = Tail(orders)
      /\ UNCHANGED <<system, pressed, returned, asking, answer, shown>>
  BY DEF LineInv, LightTypes, Turns
<1>2. n \in 1..192
  BY <1>1, LightAssumption DEF LoadNumbers
<1>3. Report(n, l) \in AnyMessage /\ IsMessage(system, Report(n, l))
  BY <1>1, <1>2 DEF Report, AnyMessage, IsMessage
<1>4. WireTypes' /\ SoFar'
  BY <1>1, <1>3, TellsKeeps
<1>5. DeviceTypes'
  <2>1. DOMAIN levels \subseteq 1..192 /\ \A m \in DOMAIN levels : levels[m] \in 1..99
    BY <1>1 DEF DeviceTypes
  <2>2. DOMAIN levels' \subseteq 1..192 /\ \A m \in DOMAIN levels' : levels'[m] \in 1..99
    <3> DEFINE g == With(levels, n, l)
    <3>1. DOMAIN g \subseteq 1..192 /\ \A m \in DOMAIN g : g[m] \in 1..99
      BY <1>1, <1>2, <2>1, LevelsWith, ZenonT(40)
    <3>. QED  BY <1>1, <3>1
  <2>3. orders' \in Seq(Orders(system))
    <3>1. orders \in Seq(Orders(system))
      BY <1>1 DEF DeviceTypes
    <3>. QED  BY <1>1, <3>1, TailIs
  <2>4. system' \in Systems /\ pressed' \subseteq 1..384
    BY <1>1 DEF DeviceTypes
  <2>5. orders' \in Seq(Orders(system'))
    BY <1>1, <2>3
  <2>. QED  BY <2>2, <2>4, <2>5 DEF DeviceTypes
<1>6. UNCHANGED <<buf, torn, losses>>
  BY <1>1 DEF Tells
<1>7. LightTypes'
  BY <1>1, <1>4, <1>5, <1>6 DEF LightTypes
<1>. QED  BY <1>1, <1>4, <1>7 DEF LineInv, LinesWhole

\* A query asks what is on.
Queries(of, on) ==
    /\ orders # <<>> /\ orders' = Tail(orders) /\ asking = "none" /\ asking' = of
    /\ of \in {"loads", "switches"} /\ system = "elegance"
    /\ on \subseteq 1..384 /\ (of = "loads" => on = DOMAIN levels)
    /\ Tells(Reply(of, on))
    /\ UNCHANGED <<system, levels, pressed, returned, answer, shown, wanted>>

\* AsksLoads and AsksSwitches are queries.
LEMMA AsksIs ==
    ASSUME LightTypes, AsksLoads \/ AsksSwitches
    PROVE  \E of, on : Queries(of, on)
<1>1. DOMAIN levels \subseteq 1..192 /\ pressed \subseteq 1..384
  BY DEF LightTypes, DeviceTypes
<1>2. CASE AsksLoads
  <2>1. Query("loads", DOMAIN levels)
    BY <1>2 DEF AsksLoads
  <2>2. Head(orders).op = "loads" /\ orders # <<>>
    BY <2>1 DEF Query, Ordered
  <2>3. system = "elegance"
    BY <2>2, OrderIs
  <2>4. DOMAIN levels \subseteq 1..384
    BY <1>1
  <2>5. Queries("loads", DOMAIN levels)
    BY <2>1, <2>3, <2>4 DEF Queries, Query, Ordered, device
  <2>. QED  BY <2>5
<1>3. CASE AsksSwitches
  <2>1. Query("switches", pressed)
    BY <1>3 DEF AsksSwitches
  <2>2. Head(orders).op = "switches" /\ orders # <<>>
    BY <2>1 DEF Query, Ordered
  <2>3. system = "elegance"
    BY <2>2, OrderIs
  <2>4. Queries("switches", pressed)
    BY <1>1, <2>1, <2>3 DEF Queries, Query, Ordered, device
  <2>. QED  BY <2>4
<1>. QED  BY <1>2, <1>3

\* A query keeps LineInv.
LEMMA QueriesKeeps ==
    ASSUME LineInv, NEW of, NEW on, Queries(of, on)
    PROVE  LineInv'
<1>1. /\ LightTypes /\ SoFar /\ LinesWhole /\ DeviceTypes
      /\ Tells(Reply(of, on)) /\ orders # <<>> /\ orders' = Tail(orders)
      /\ of \in {"loads", "switches"} /\ system = "elegance" /\ asking' = of
      /\ on \subseteq 1..384 /\ (of = "loads" => on = DOMAIN levels)
      /\ UNCHANGED <<system, levels, pressed, returned, answer, shown>>
  BY DEF LineInv, LightTypes, Queries
<1>2. of = "loads" => on \subseteq 1..192
  <2>1. DOMAIN levels \subseteq 1..192
    BY <1>1 DEF DeviceTypes
  <2>2. of = "loads" => on = DOMAIN levels
    BY <1>1
  <2>. QED  BY <2>1, <2>2
<1>3. Reply(of, on) \in AnyMessage /\ IsMessage(system, Reply(of, on))
  BY <1>1, <1>2 DEF Reply, AnyMessage, IsMessage
<1>4. WireTypes' /\ SoFar'
  BY <1>1, <1>3, TellsKeeps
<1>5. DeviceTypes'
  <2>1. orders' \in Seq(Orders(system))
    <3>1. orders \in Seq(Orders(system))
      BY <1>1 DEF DeviceTypes
    <3>. QED  BY <1>1, <3>1, TailIs
  <2>2. system' \in Systems /\ pressed' \subseteq 1..384
    BY <1>1 DEF DeviceTypes
  <2>3. orders' \in Seq(Orders(system'))
    BY <1>1, <2>1
  <2>4. DOMAIN levels' \subseteq 1..192 /\ \A m \in DOMAIN levels' : levels'[m] \in 1..99
    <3>1. DOMAIN levels \subseteq 1..192 /\ \A m \in DOMAIN levels : levels[m] \in 1..99
      BY <1>1 DEF DeviceTypes
    <3>. QED  BY <1>1, <3>1
  <2>. QED  BY <2>2, <2>3, <2>4 DEF DeviceTypes
<1>6. UNCHANGED <<buf, torn, losses>>
  BY <1>1 DEF Tells
<1>7. asking' \in {"none", "loads", "switches"} /\ system' # "jetstream"
  BY <1>1
<1>8. LightTypes'
  BY <1>1, <1>4, <1>5, <1>6, <1>7 DEF LightTypes
<1>. QED  BY <1>1, <1>4, <1>8 DEF LineInv, LinesWhole

\* So does what leaves the line alone.
LEMMA WireKept ==
    ASSUME UNCHANGED <<system, coming, at, buf, torn>>
    PROVE  (WireTypes <=> WireTypes') /\ (SoFar <=> SoFar')
BY DEF WireTypes, SoFar, Coming

\* LineInv holds at first,
LEMMA LineInvInit == LightInit => LineInv
<1> SUFFICES ASSUME LightInit PROVE LineInv
  OBVIOUS
<1>1. PICK d \in Days :
          /\ system = d.system /\ orders = d.orders
          /\ levels = [n \in d.lit |-> 99] /\ pressed = d.pressed
          /\ coming = <<>> /\ at = 0 /\ buf = <<>>
          /\ torn = FALSE /\ losses = 0 /\ returned = NoLine
          /\ asking = "none" /\ answer = NoAnswer
          /\ shown = <<>> /\ wanted = <<>>
  BY DEF LightInit
<1>2. /\ d.system \in Systems /\ d.orders \in Seq(Orders(d.system))
      /\ d.lit \subseteq 1..192 /\ d.pressed \subseteq 1..384
  <2>1. /\ d.system \in Systems /\ d.orders \in Seq(Orders(d.system))
        /\ d.lit \subseteq LoadNumbers /\ d.pressed \subseteq SwitchNumbers
    BY LightAssumption, Zenon
  <2>. QED  BY <2>1 DEF LoadNumbers, SwitchNumbers
<1>3. DOMAIN levels \subseteq 1..192 /\ \A n \in DOMAIN levels : levels[n] \in 1..99
  <2>1. levels = [n \in d.lit |-> 99] /\ d.lit \subseteq 1..192
    BY <1>1, <1>2
  <2>. QED  BY <2>1
<1>4. DeviceTypes
  BY <1>1, <1>2, <1>3 DEF DeviceTypes
<1>5. WireTypes
  BY <1>1 DEF WireTypes
<1>6. buf \in Seq(Nat) /\ torn \in BOOLEAN /\ losses \in 0..MaxLost
  <2>1. <<>> \in Seq(Nat) /\ 0 \in 0..MaxLost
    BY LightAssumption
  <2>. QED  BY <1>1, <2>1, Zenon
<1>7. LightTypes
  BY <1>1, <1>4, <1>5, <1>6 DEF LightTypes
<1>8. SoFar
  BY <1>1 DEF SoFar
<1>9. LinesWhole
  BY <1>1 DEF LinesWhole, NoLine
<1>. QED  BY <1>7, <1>8, <1>9 DEF LineInv

\* and every step keeps it.
LEMMA LineInvNext == ASSUME LineInv, [LightNext]_lightVars PROVE LineInv'
<1>0. LightTypes
  BY DEF LineInv
<1>1. CASE TurnOn \/ TurnOff
  BY <1>0, <1>1, TurnIs, TurnsKeeps
<1>2. CASE AsksLoads \/ AsksSwitches
  BY <1>0, <1>2, AsksIs, QueriesKeeps
<1>3. CASE GivesUp \/ UNCHANGED lightVars
  <2>1. /\ UNCHANGED <<orders, system, levels, pressed, coming, at, buf, torn, losses, returned>>
        /\ asking' \in {asking, "none"}
    BY <1>3 DEF GivesUp, lightVars, device, wire, asked
  <2>2. DeviceTypes'
    BY <1>0, <2>1, DeviceKept DEF LightTypes
  <2>3. WireTypes' /\ SoFar'
    BY <1>0, <2>1, WireKept DEF LineInv, LightTypes
  <2>4. LightTypes'
    BY <1>0, <2>1, <2>2, <2>3 DEF LightTypes
  <2>. QED  BY <2>1, <2>3, <2>4 DEF LineInv, LinesWhole
<1>. QED  BY <1>1, <1>2, <1>3, ReadsKeeps, LosesKeeps DEF LightNext

\* A line is returned as it was sent, whatever was lost before it (_read_line).
THEOREM LinesAreWhole == LightSpec => []LinesWhole
<1>1. LineInv => LinesWhole
  BY DEF LineInv
<1>. QED  BY <1>1, LineInvInit, LineInvNext, PTL DEF LightSpec

-----------------------------------------------------------------------------
(* What is yet to be shown.                                                  *)

\* The lines whose end is yet to come.
Due == IF coming # <<>> /\ at > Len(Coming) THEN Tail(coming) ELSE coming

Speaks(m, n) == m.of = "load" /\ m.load = n

\* The last of the lines that speaks of the load says this level.
LastSays(q, n, l) ==
    \A i \in 1..Len(q) : Speaks(q[i], n) =>
        q[i].level = l \/ \E j \in 1..Len(q) : j > i /\ Speaks(q[j], n)
Silent(q, n) == \A i \in 1..Len(q) : ~Speaks(q[i], n)

\* A reply is the last of the lines, and answers what is asked.
Replying(q) ==
    \A i \in 1..Len(q) : q[i].of # "load" =>
        i = Len(q) /\ q[i].of = asking /\ (asking = "loads" => q[i].on = DOMAIN levels)

Asked ==
    /\ DOMAIN wanted \subseteq Lights
    /\ \A n \in DOMAIN wanted : wanted[n] \in 1..255
    /\ \A n \in DOMAIN wanted \ Relays : Level(levels, n) = LevelOf(wanted[n])

Words ==
    /\ \A n \in LoadNumbers : LastSays(Due, n, Level(levels, n))
    /\ \A n \in DOMAIN wanted : Silent(Due, n) => Level(shown, n) = Level(levels, n)

Quiet ==
    /\ torn = FALSE
    /\ \A n \in DOMAIN shown : shown[n] \in 1..99
    /\ Replying(Due) /\ Words

WordInv == Asked /\ (losses = 0 => Quiet)

\* The lines that are due are lines of the bridge.
LEMMA DueIs ==
    ASSUME WireTypes
    PROVE  Due \in Seq(AnyMessage)
<1>1. coming \in Seq(AnyMessage)
  BY DEF WireTypes
<1>. QED  BY <1>1, TailIs DEF Due

\* The first of any such lines is 7 to 96 characters long,
LEMMA TextRange ==
    ASSUME NEW s, NEW q \in Seq(AnyMessage), q # <<>>,
           \A i \in DOMAIN q : IsMessage(s, q[i])
    PROVE  Len(Said(s, Head(q))) \in 7..96
<1>1. Head(q) = q[1] /\ Head(q) \in AnyMessage
  BY HeadTailProperties
<1>2. 1 \in DOMAIN q
  BY EmptySeq, LenProperties
<1>3. IsText(Said(s, Head(q)), Length(s, Head(q)))
  BY <1>1, <1>2, SaidText
<1>. QED  BY <1>3, LengthIs DEF IsText

\* also after a step.
LEMMA NextRange ==
    ASSUME WireTypes', coming' # <<>>
    PROVE  Len(Coming') \in 7..96
<1>1. coming' \in Seq(AnyMessage) /\ \A i \in DOMAIN coming' : IsMessage(system', coming'[i])
  BY DEF WireTypes
<1>2. Len(Said(system', Head(coming'))) \in 7..96
  BY <1>1, TextRange
<1>. QED  BY <1>2 DEF Coming

\* A byte that ends no line leaves the lines that are due,
LEMMA DueSame ==
    ASSUME LightTypes, coming # <<>>, IsThrough, system' = system, TextByte \/ AfterByte
    PROVE  Due' = Due
<1>1. Len(Coming) \in 7..96 /\ at \in Nat
  BY ComingIs DEF LightTypes, WireTypes
<1>2. CASE TextByte
  <2>1. at' = at + 1 /\ coming' = coming /\ Coming' = Coming
    BY <1>2, Through DEF Coming
  <2>2. at < Len(Coming)
    BY <1>2 DEF TextByte
  <2>3. ~(at > Len(Coming)) /\ ~(at + 1 > Len(Coming))
    BY <1>1, <2>2
  <2>. QED  BY <2>1, <2>3 DEF Due
<1>3. CASE AfterByte
  <2>1. at' = 0 /\ coming' = Tail(coming)
    BY <1>3, Through
  <2>2. at > Len(Coming)
    BY <1>1, <1>3 DEF AfterByte
  <2>3. Due = Tail(coming)
    BY <2>2 DEF Due
  <2>4. coming' # <<>> => ~(at' > Len(Coming'))
    <3>1. WireTypes'
      BY ThroughTypes
    <3>2. coming' # <<>> => Len(Coming') \in 7..96
      BY <3>1, NextRange
    <3>. QED  BY <2>1, <3>2
  <2>. QED  BY <2>1, <2>3, <2>4 DEF Due
<1>. QED  BY <1>2, <1>3

\* and the end of a line takes the first of them.
LEMMA DueEnds ==
    ASSUME LightTypes, coming # <<>>, IsThrough, system' = system, EndByte
    PROVE  Due = coming /\ Due' = Tail(coming)
<1>1. Len(Coming) \in 7..96 /\ at \in Nat /\ at = Len(Coming)
  BY ComingIs DEF LightTypes, WireTypes, EndByte
<1>2. Due = coming
  BY <1>1 DEF Due
<1>3. CASE system = "jetstream"
  <2>1. at' = at + 1 /\ coming' = coming /\ Coming' = Coming
    BY <1>3, Through DEF Coming
  <2>2. at + 1 > Len(Coming)
    BY <1>1
  <2>. QED  BY <1>2, <2>1, <2>2 DEF Due
<1>4. CASE system # "jetstream"
  <2>1. at' = 0 /\ coming' = Tail(coming)
    BY <1>4, Through
  <2>2. coming' # <<>> => ~(at' > Len(Coming'))
    <3>1. WireTypes'
      BY ThroughTypes
    <3>2. coming' # <<>> => Len(Coming') \in 7..96
      BY <3>1, NextRange
    <3>. QED  BY <2>1, <3>2
  <2>. QED  BY <1>2, <2>1, <2>2 DEF Due
<1>. QED  BY <1>3, <1>4

\* Taking the first and adding a last one commute.
LEMMA TailAppend ==
    ASSUME NEW S, NEW q \in Seq(S), q # <<>>, NEW m \in S
    PROVE  Tail(Append(q, m)) = Append(Tail(q), m)
<1> DEFINE r == Append(q, m)
           a == Tail(r)
           b == Append(Tail(q), m)
<1>1. /\ r \in Seq(S) /\ r # <<>> /\ Len(q) \in Nat /\ Len(r) = Len(q) + 1
      /\ r[Len(q) + 1] = m /\ \A i \in 1..Len(q) : r[i] = q[i]
  BY AppendIs
<1>2. /\ Tail(q) \in Seq(S) /\ Len(q) \in Nat \ {0} /\ Len(Tail(q)) = Len(q) - 1
      /\ \A i \in 1..Len(q) - 1 : Tail(q)[i] = q[i + 1]
  BY TailIs
<1>3. /\ b \in Seq(S) /\ Len(b) = Len(q) /\ b[Len(q)] = m
      /\ \A i \in 1..Len(q) - 1 : b[i] = q[i + 1]
  BY <1>2
<1> HIDE DEF r
<1>4. /\ a \in Seq(S) /\ Len(a) = Len(q) /\ \A i \in 1..Len(q) : a[i] = r[i + 1]
  <2>1. /\ Tail(r) \in Seq(S) /\ Len(Tail(r)) = Len(r) - 1
        /\ \A i \in 1..Len(r) - 1 : Tail(r)[i] = r[i + 1]
    BY <1>1, TailIs
  <2>. QED  BY <1>1, <2>1
<1> HIDE DEF a, b
<1>5. ASSUME NEW i \in 1..Len(q) PROVE a[i] = b[i]
  <2>1. CASE i = Len(q)
    BY <1>1, <1>3, <1>4, <2>1
  <2>2. CASE i # Len(q)
    <3>0. Len(q) \in Nat \ {0}
      BY <1>2
    <3>1. i \in 1..Len(q) - 1 /\ i + 1 \in 1..Len(q)
      BY <2>2, <3>0
    <3>. QED  BY <1>1, <1>3, <1>4, <3>1
  <2>. QED  BY <2>1, <2>2
<1>6. a = b
  BY <1>3, <1>4, <1>5, SeqEqual
<1>. QED  BY <1>6 DEF a, b, r

\* What the bridge says is due.
LEMMA DueAppend ==
    ASSUME LightTypes, SoFar, system' = system,
           NEW m \in AnyMessage, IsMessage(system, m), Tells(m)
    PROVE  Due' = Append(Due, m)
<1>1. /\ coming \in Seq(AnyMessage) /\ coming' = Append(coming, m) /\ at' = at /\ at \in Nat
  BY DEF Tells, LightTypes, WireTypes
<1>2. coming' # <<>> /\ coming'[1] = IF coming = <<>> THEN m ELSE coming[1]
  <2>1. /\ coming' # <<>> /\ Len(coming) \in Nat
        /\ coming'[Len(coming) + 1] = m /\ \A i \in 1..Len(coming) : coming'[i] = coming[i]
    BY <1>1, AppendIs
  <2>2. coming = <<>> => Len(coming) + 1 = 1
    OBVIOUS
  <2>3. coming # <<>> => 1 \in 1..Len(coming)
    BY <1>1, HeadIs DEF LightTypes
  <2>. QED  BY <2>1, <2>2, <2>3
<1>3. CASE coming = <<>>
  <2>1. at = 0
    BY <1>3 DEF LightTypes, WireTypes
  <2>2. Len(Coming') \in 7..96
    BY <1>2, TellsKeeps, NextRange
  <2>3. ~(at' > Len(Coming'))
    BY <1>1, <2>1, <2>2
  <2>. QED  BY <1>1, <1>3, <2>3 DEF Due
<1>4. CASE coming # <<>>
  <2>1. Head(coming) = coming[1]
    BY <1>4, HeadIs DEF LightTypes
  <2>2. Head(coming') = coming'[1]
    <3>1. coming' \in Seq(AnyMessage)
      BY <1>1
    <3>. QED  BY <1>2, <3>1, HeadTailProperties
  <2>3. Coming' = Coming
    BY <1>2, <1>4, <2>1, <2>2 DEF Coming
  <2>. QED  BY <1>1, <1>2, <1>4, <2>3, TailAppend DEF Due
<1>. QED  BY <1>3, <1>4

\* No text is empty.
LEMMA NotEmpty ==
    ASSUME NEW t, Len(t) \in 7..96
    PROVE  t # <<>>
<1> SUFFICES ASSUME t = <<>> PROVE FALSE
  OBVIOUS
<1>1. Len(<<>>) = 0
  OBVIOUS
<1>2. 0 \in 7..96
  BY <1>1, Zenon
<1>. QED  BY <1>2

\* While nothing is lost, lines are dispatched as they were said.
LEMMA ReadsWhole ==
    ASSUME LineInv, Reads, torn = FALSE
    PROVE  /\ torn' = FALSE
           /\ TextByte \/ AfterByte => UNCHANGED <<asking, answer, shown>>
           /\ EndByte => Dispatch(Coming)
<1>1. /\ LightTypes /\ SoFar /\ coming # <<>> /\ Gets(NextByte)
  BY DEF Reads, LineInv
<1>2. ASSUME TextByte PROVE torn' = FALSE /\ UNCHANGED <<asking, answer, shown>>
  <2>1. ~FullBuffer(Append(buf, NextByte))
    BY <1>1, <1>2, BufferHolds
  <2>2. NextByte \notin {CR, LF}
    BY <1>2 DEF TextByte
  <2>. QED  BY <1>1, <2>1, <2>2 DEF Gets, asked
<1>3. ASSUME EndByte PROVE torn' = FALSE /\ Dispatch(Coming)
  <2>1. at = Len(Coming) /\ NextByte = CR /\ CR # LF
    BY <1>3 DEF EndByte, CR, LF
  <2>2. Returns(buf) /\ torn' = FALSE
    BY <1>1, <2>1 DEF Gets
  <2>3. buf = Coming
    <3>0. Coming \in Seq(Nat)
      BY <1>1, ComingIs, ZenonT(40) DEF LightTypes
    <3>1. Coming \in Seq(Nat) /\ Len(Coming) \in Nat
      BY <3>0
    <3>2. buf = SubSeq(Coming, 1, Len(Coming))
      BY <1>1, <2>1, <3>1 DEF SoFar
    <3>. QED  BY <3>1, <3>2, SubSeqFull
  <2>. QED  BY <2>2, <2>3 DEF Returns
<1>4. ASSUME AfterByte PROVE torn' = FALSE /\ UNCHANGED <<asking, answer, shown>>
  <2>1. NextByte = LF /\ CR # LF
    BY <1>4 DEF AfterByte, CR, LF
  <2>. QED  BY <1>1, <2>1 DEF Gets, LineFeed, asked
<1>. QED  BY <1>1, <1>2, <1>3, <1>4, NextByteIs

\* A report that came whole sets what is shown of its load,
LEMMA ReportHeard ==
    ASSUME LightTypes, coming # <<>>, Dispatch(Coming), Head(coming).of = "load"
    PROVE  /\ UNCHANGED <<asking, answer>>
           /\ shown' = With(shown, Head(coming).load, Head(coming).level)
           /\ Head(coming).load \in LoadNumbers /\ Head(coming).level \in 0..99
<1> DEFINE m == Head(coming)
<1>1. m \in AnyMessage /\ IsMessage(system, m)
  BY HeadIs DEF LightTypes
<1>2. m.load \in LoadNumbers /\ m.load \in 0..999 /\ m.level \in 0..99
  BY <1>1 DEF AnyMessage, IsMessage, LoadNumbers
<1>3. Coming = LoadLine(system, m.load, m.level)
  BY DEF Coming, Said
<1>4. Coming # <<>>
  <2>1. Len(Coming) \in 7..96
    BY ComingIs DEF LightTypes
  <2>. QED  BY <2>1, NotEmpty
<1>5. /\ IsLoadLine(system, Coming) /\ IsReadable(system, Coming)
      /\ LoadIn(system, Coming) = m.load /\ LevelIn(system, Coming) = m.level
  <2> DEFINE n == m.load
             l == m.level
  <2>1. n \in 0..999 /\ l \in 0..99
    BY <1>2
  <2> HIDE DEF n, l
  <2>2. /\ IsLoadLine(system, LoadLine(system, n, l)) /\ IsReadable(system, LoadLine(system, n, l))
        /\ LoadIn(system, LoadLine(system, n, l)) = n
        /\ LevelIn(system, LoadLine(system, n, l)) = l
    BY <2>1, LoadLineRead, ZenonT(40)
  <2>. QED  BY <1>3, <2>2 DEF n, l
<1>6. shown' = With(shown, m.load, m.level) /\ UNCHANGED asked
  BY <1>4, <1>5 DEF Dispatch
<1>. QED  BY <1>2, <1>6 DEF asked

\* and any other line that came whole answers a request.
LEMMA ReplyHeard ==
    ASSUME LightTypes, coming # <<>>, Dispatch(Coming), Head(coming).of # "load"
    PROVE  Fulfils(Coming)
<1>1. Head(coming) \in AnyMessage /\ IsMessage(system, Head(coming))
  BY HeadIs DEF LightTypes
<1>2. Len(Coming) \in {48, 96} /\ system = "elegance"
  <2>1. Len(Coming) = Length(system, Head(coming))
    BY ComingIs DEF LightTypes
  <2>. QED  BY <1>1, <2>1 DEF IsMessage, Length
<1>3. Coming # <<>>
  <2>1. Len(Coming) \in 7..96
    BY ComingIs DEF LightTypes
  <2>. QED  BY <2>1, NotEmpty
<1>4. ~IsLoadLine(system, Coming)
  <2>1. Len(Prefix(system)) = 2
    BY <1>2, PrefixIs DEF PrefixLen
  <2>2. Len(Coming) # Len(Prefix(system)) + 5
    <3> DEFINE k == Len(Coming)
               p == Len(Prefix(system))
    <3>1. k \in {48, 96} /\ p = 2
      BY <1>2, <2>1
    <3> HIDE DEF k, p
    <3>2. k # p + 5
      BY <3>1
    <3>. QED  BY <3>2 DEF k, p
  <2>. QED  BY <2>2 DEF IsLoadLine
<1>. QED  BY <1>3, <1>4 DEF Dispatch

\* What is accepted of a line that came whole is what is on.
LEMMA WholeReply ==
    ASSUME LightTypes, coming # <<>>, asking # "none", Parsed(Coming).of # "error"
    PROVE  /\ Parsed(Coming).of = asking /\ Parsed(Coming).was = Head(coming).on
           /\ Head(coming).of # "load" => Parsed(Coming).is = Head(coming).on
<1> DEFINE m == Head(coming)
<1>1. m \in AnyMessage /\ IsMessage(system, m)
  BY HeadIs DEF LightTypes
<1>2. Len(Coming) = Length(system, m)
  BY ComingIs DEF LightTypes
<1>3. asking \in {"loads", "switches"}
  BY DEF LightTypes
<1>4. CASE asking = "loads"
  <2>1. /\ IsBitmap(Coming, 8, 3)
        /\ Parsed(Coming) = [of |-> "loads", is |-> SetBits(Coming, 8, 3), was |-> m.on]
    BY <1>4 DEF Parsed, NoAnswer
  <2>2. Len(Coming) = 48
    BY <2>1 DEF IsBitmap
  <2>3. m.of # "load" => m.of = "loads"
    <3>1. m.of \in {"load", "loads", "switches"}
      BY <1>1 DEF AnyMessage
    <3>2. Length(system, m) = 48
      BY <1>2, <2>2
    <3>. QED  BY <3>1, <3>2 DEF Length
  <2>4. m.of = "loads" => SetBits(Coming, 8, 3) = m.on
    <3> SUFFICES ASSUME m.of = "loads" PROVE SetBits(Coming, 8, 3) = m.on
      OBVIOUS
    <3>1. Coming = Bitmap(m.on, 8, 3)
      BY DEF Coming, Said
    <3>2. m.on \in SUBSET (1..192)
      BY <1>1 DEF IsMessage
    <3>. QED  BY <3>1, <3>2, LoadBitmap
  <2>. QED  BY <1>4, <2>1, <2>3, <2>4
<1>5. CASE asking = "switches"
  <2>1. /\ IsBitmap(Coming, 24, 2)
        /\ Parsed(Coming) = [of |-> "switches", is |-> SetBits(Coming, 24, 2), was |-> m.on]
    BY <1>5 DEF Parsed, NoAnswer
  <2>2. Len(Coming) = 96
    BY <2>1 DEF IsBitmap
  <2>3. m.of # "load" => m.of = "switches"
    <3>1. m.of \in {"load", "loads", "switches"}
      BY <1>1 DEF AnyMessage
    <3>2. Length(system, m) = 96
      BY <1>2, <2>2
    <3>. QED  BY <3>1, <3>2 DEF Length
  <2>4. m.of = "switches" => SetBits(Coming, 24, 2) = m.on
    <3> SUFFICES ASSUME m.of = "switches" PROVE SetBits(Coming, 24, 2) = m.on
      OBVIOUS
    <3>1. Coming = Bitmap(m.on, 24, 2)
      BY DEF Coming, Said
    <3>2. m.on \in SUBSET (1..384)
      BY <1>1 DEF AnyMessage
    <3>. QED  BY <3>1, <3>2, SwitchBitmap
  <2>. QED  BY <1>5, <2>1, <2>3, <2>4
<1>. QED  BY <1>3, <1>4, <1>5

\* What is set, seen from a load that is on after it.
LEMMA WithIn ==
    ASSUME NEW f, NEW n, NEW l, NEW g, g = With(f, n, l), NEW m \in DOMAIN g
    PROVE  /\ m = n => l # 0
           /\ m # n => m \in DOMAIN f
           /\ g[m] = IF m = n THEN l ELSE f[m]
<1>1. m \in IF l = 0 THEN DOMAIN f \ {n} ELSE DOMAIN f \cup {n}
  BY WithDomain
<1>2. g[m] = IF m = n THEN l ELSE f[m]
  BY WithAt
<1>. QED  BY <1>1, <1>2

\* The last word on a load when a line is added,
LEMMA LastAppend ==
    ASSUME NEW S, NEW q \in Seq(S), NEW m \in S, NEW n, NEW l
    PROVE  /\ Speaks(m, n) /\ m.level = l => LastSays(Append(q, m), n, l)
           /\ ~Speaks(m, n) /\ LastSays(q, n, l) => LastSays(Append(q, m), n, l)
           /\ Silent(Append(q, m), n) => Silent(q, n) /\ ~Speaks(m, n)
<1> DEFINE r == Append(q, m)
           k == Len(q)
<1>1. /\ k \in Nat /\ Len(r) = k + 1
      /\ r[k + 1] = m /\ \A i \in 1..k : r[i] = q[i]
  BY AppendIs
<1> HIDE DEF r, k
<1>2. /\ \A i \in 1..k : i \in 1..k + 1 /\ k + 1 > i
      /\ k + 1 \in 1..k + 1 /\ \A i \in 1..k + 1 : i \in 1..k \/ i = k + 1
  BY <1>1
<1>3. ASSUME Speaks(m, n), m.level = l PROVE LastSays(r, n, l)
  <2> SUFFICES ASSUME NEW i \in 1..Len(r), Speaks(r[i], n)
               PROVE  r[i].level = l \/ \E j \in 1..Len(r) : j > i /\ Speaks(r[j], n)
    BY DEF LastSays
  <2>1. CASE i = k + 1
    BY <1>1, <1>3, <2>1
  <2>2. CASE i # k + 1
    BY <1>1, <1>2, <1>3, <2>2
  <2>. QED  BY <2>1, <2>2
<1>4. ASSUME ~Speaks(m, n), LastSays(q, n, l) PROVE LastSays(r, n, l)
  <2> SUFFICES ASSUME NEW i \in 1..Len(r), Speaks(r[i], n)
               PROVE  r[i].level = l \/ \E j \in 1..Len(r) : j > i /\ Speaks(r[j], n)
    BY DEF LastSays
  <2>1. i \in 1..k /\ r[i] = q[i]
    BY <1>1, <1>2, <1>4
  <2>2. q[i].level = l \/ \E j \in 1..k : j > i /\ Speaks(q[j], n)
    BY <1>4, <2>1 DEF LastSays, k
  <2>. QED  BY <1>1, <1>2, <2>1, <2>2
<1>5. ASSUME Silent(r, n) PROVE Silent(q, n) /\ ~Speaks(m, n)
  BY <1>1, <1>2, <1>5 DEF Silent, k
<1>. QED  BY <1>3, <1>4, <1>5 DEF r

\* and when the first one is taken.
LEMMA LastTail ==
    ASSUME NEW S, NEW q \in Seq(S), q # <<>>, NEW n, NEW l
    PROVE  /\ LastSays(q, n, l) => LastSays(Tail(q), n, l)
           /\ LastSays(q, n, l) /\ Silent(Tail(q), n) /\ Speaks(Head(q), n) => Head(q).level = l
           /\ Silent(Tail(q), n) /\ ~Speaks(Head(q), n) => Silent(q, n)
<1> DEFINE t == Tail(q)
           k == Len(q)
<1>1. /\ k \in Nat \ {0} /\ Len(t) = k - 1 /\ Head(q) = q[1]
      /\ \A i \in 1..k - 1 : t[i] = q[i + 1]
  BY TailIs, HeadTailProperties
<1> HIDE DEF t, k
<1>2. /\ 1 \in 1..k
      /\ \A i \in 1..k - 1 : i + 1 \in 1..k /\ i + 1 # 1
      /\ \A i \in 1..k : i # 1 => i - 1 \in 1..k - 1 /\ (i - 1) + 1 = i
      /\ \A i \in 1..k - 1 : \A j \in 1..k : j > i + 1 => j - 1 > i /\ j # 1
  BY <1>1
<1>3. \A j \in 1..k : j # 1 => t[j - 1] = q[j]
  BY <1>1, <1>2
<1>4. ASSUME LastSays(q, n, l) PROVE LastSays(t, n, l)
  <2> SUFFICES ASSUME NEW i \in 1..Len(t), Speaks(t[i], n)
               PROVE  t[i].level = l \/ \E j \in 1..Len(t) : j > i /\ Speaks(t[j], n)
    BY DEF LastSays
  <2>1. i \in 1..k - 1 /\ i + 1 \in 1..k /\ t[i] = q[i + 1]
    BY <1>1, <1>2
  <2>2. q[i + 1].level = l \/ \E j \in 1..k : j > i + 1 /\ Speaks(q[j], n)
    BY <1>4, <2>1 DEF LastSays, k
  <2>3. ASSUME NEW j \in 1..k, j > i + 1, Speaks(q[j], n)
        PROVE  \E h \in 1..Len(t) : h > i /\ Speaks(t[h], n)
    <3>1. j - 1 \in 1..k - 1 /\ j - 1 > i /\ t[j - 1] = q[j]
      BY <1>2, <1>3, <2>1, <2>3
    <3>. QED  BY <1>1, <2>3, <3>1
  <2>. QED  BY <2>1, <2>2, <2>3
<1>5. ASSUME LastSays(q, n, l), Silent(t, n), Speaks(Head(q), n) PROVE Head(q).level = l
  <2>1. q[1].level = l \/ \E j \in 1..k : j > 1 /\ Speaks(q[j], n)
    BY <1>1, <1>2, <1>5 DEF LastSays, k
  <2>2. ASSUME NEW j \in 1..k, j > 1, Speaks(q[j], n) PROVE FALSE
    <3>1. j # 1
      BY <2>2
    <3>2. j - 1 \in 1..k - 1 /\ t[j - 1] = q[j]
      BY <1>2, <1>3, <3>1
    <3>. QED  BY <1>1, <1>5, <2>2, <3>2 DEF Silent
  <2>. QED  BY <1>1, <2>1, <2>2
<1>6. ASSUME Silent(t, n), ~Speaks(Head(q), n) PROVE Silent(q, n)
  <2> SUFFICES ASSUME NEW j \in 1..k, Speaks(q[j], n) PROVE FALSE
    BY DEF Silent, k
  <2>1. j # 1
    BY <1>1, <1>6
  <2>2. j - 1 \in 1..k - 1 /\ t[j - 1] = q[j]
    BY <1>2, <1>3, <2>1
  <2>. QED  BY <1>1, <1>6, <2>2 DEF Silent
<1>. QED  BY <1>4, <1>5, <1>6 DEF t

-----------------------------------------------------------------------------
(* Each step keeps WordInv.                                                  *)

\* An order to a light: the light has the level it was asked for,
LEMMA TurnsAsked ==
    ASSUME LineInv, Asked, NEW n, NEW b, NEW l, Turns(n, b, l)
    PROVE  Asked'
<1>1. /\ n \in Lights /\ b \in 0..255 /\ levels' = With(levels, n, l)
      /\ wanted' = With(wanted, n, b)
      /\ l = IF b = 0 THEN 0 ELSE IF n \in Relays THEN 99 ELSE LevelOf(b)
  BY DEF Turns
<1>2. DOMAIN wanted' \subseteq Lights
  <2> SUFFICES ASSUME NEW m \in DOMAIN wanted' PROVE m \in Lights
    OBVIOUS
  <2>1. m # n => m \in DOMAIN wanted
    BY <1>1, WithIn
  <2>. QED  BY <1>1, <2>1 DEF Asked
<1>3. ASSUME NEW m \in DOMAIN wanted' PROVE wanted'[m] \in 1..255
  <2>1. wanted'[m] = IF m = n THEN b ELSE wanted[m]
    BY <1>1, <1>3, WithIn
  <2>2. CASE m = n
    <3>1. b # 0
      BY <1>1, <1>3, <2>2, WithIn
    <3>. QED  BY <1>1, <2>1, <2>2, <3>1
  <2>3. CASE m # n
    <3>1. m \in DOMAIN wanted
      BY <1>1, <1>3, <2>3, WithIn
    <3>. QED  BY <2>1, <2>3, <3>1 DEF Asked
  <2>. QED  BY <2>2, <2>3
<1>4. ASSUME NEW m \in DOMAIN wanted' \ Relays PROVE Level(levels', m) = LevelOf(wanted'[m])
  <2>1. wanted'[m] = IF m = n THEN b ELSE wanted[m]
    BY <1>1, <1>4, WithIn
  <2>2. Level(levels', m) = IF m = n THEN l ELSE Level(levels, m)
    BY <1>1, LevelWith
  <2>3. CASE m = n
    <3>1. b # 0
      BY <1>1, <1>4, <2>3, WithIn
    <3>. QED  BY <1>1, <2>1, <2>2, <2>3, <3>1
  <2>4. CASE m # n
    <3>1. m \in DOMAIN wanted
      BY <1>1, <1>4, <2>4, WithIn
    <3>. QED  BY <2>1, <2>2, <2>4, <3>1 DEF Asked
  <2>. QED  BY <2>3, <2>4
<1>. QED  BY <1>2, <1>3, <1>4 DEF Asked

\* its report is due,
LEMMA TurnsDue ==
    ASSUME LineInv, NEW n, NEW b, NEW l, Turns(n, b, l)
    PROVE  /\ n \in LoadNumbers /\ Report(n, l) \in AnyMessage
           /\ Due \in Seq(AnyMessage) /\ Due' = Append(Due, Report(n, l))
<1>1. /\ LightTypes /\ SoFar /\ WireTypes /\ n \in Lights /\ l \in 0..99
      /\ Tells(Report(n, l)) /\ system' = system
  BY DEF LineInv, LightTypes, Turns
<1>2. n \in 1..192
  BY <1>1, LightAssumption DEF LoadNumbers
<1>3. Report(n, l) \in AnyMessage /\ IsMessage(system, Report(n, l))
  BY <1>1, <1>2 DEF Report, AnyMessage, IsMessage
<1>. QED  BY <1>1, <1>2, <1>3, DueIs, DueAppend DEF LoadNumbers

\* and is the last word on the light.
LEMMA TurnsQuiet ==
    ASSUME LineInv, Quiet, NEW n, NEW b, NEW l, Turns(n, b, l)
    PROVE  Quiet'
<1> DEFINE m == Report(n, l)
<1>1. /\ levels' = With(levels, n, l) /\ wanted' = With(wanted, n, b)
      /\ asking = "none" /\ UNCHANGED <<asking, shown, torn>>
  BY DEF Turns, Tells
<1>2. /\ n \in LoadNumbers /\ m \in AnyMessage
      /\ Due \in Seq(AnyMessage) /\ Due' = Append(Due, m)
  BY TurnsDue
<1>3. /\ m.of = "load" /\ m.level = l /\ \A x : Speaks(m, x) <=> x = n
  BY DEF Report, Speaks
<1>4. torn' = FALSE /\ \A x \in DOMAIN shown' : shown'[x] \in 1..99
  BY <1>1 DEF Quiet
<1> HIDE DEF m
<1>5. Replying(Due)'
  <2>1. ASSUME NEW i \in 1..Len(Due') PROVE Due'[i].of = "load"
    <3>1. /\ Len(Due') = Len(Due) + 1 /\ Len(Due) \in Nat
          /\ Due'[Len(Due) + 1] = m /\ \A j \in 1..Len(Due) : Due'[j] = Due[j]
      BY <1>2, AppendIs
    <3>2. \A j \in 1..Len(Due) : Due[j].of = "load"
      <4>1. ASSUME NEW j \in 1..Len(Due), Due[j].of # "load" PROVE FALSE
        <5>1. Due[j].of = "none"
          BY <1>1, <4>1 DEF Quiet, Replying
        <5>2. Due[j] \in AnyMessage
          BY <1>2, LenProperties, ElementOfSeq
        <5>. QED  BY <5>1, <5>2 DEF AnyMessage
      <4>. QED  BY <4>1
    <3>3. CASE i = Len(Due) + 1
      BY <1>3, <3>1, <3>3
    <3>4. CASE i # Len(Due) + 1
      <4>1. i \in 1..Len(Due)
        BY <3>1, <3>4
      <4>. QED  BY <3>1, <3>2, <4>1
    <3>. QED  BY <3>3, <3>4
  <2>. QED  BY <2>1 DEF Replying
<1>6. ASSUME NEW x \in LoadNumbers PROVE LastSays(Due', x, Level(levels', x))
  <2>1. Level(levels', x) = IF x = n THEN l ELSE Level(levels, x)
    BY <1>1, LevelWith
  <2>2. LastSays(Due, x, Level(levels, x))
    BY DEF Quiet, Words
  <2>3. CASE x = n
    BY <1>2, <1>3, <2>1, <2>3, LastAppend
  <2>4. CASE x # n
    BY <1>2, <1>3, <2>1, <2>2, <2>4, LastAppend
  <2>. QED  BY <2>3, <2>4
<1>7. ASSUME NEW x \in DOMAIN wanted', Silent(Due', x)
      PROVE  Level(shown', x) = Level(levels', x)
  <2>1. Silent(Due, x) /\ x # n
    BY <1>2, <1>3, <1>7, LastAppend
  <2>2. x \in DOMAIN wanted
    BY <1>1, <1>7, <2>1, WithIn
  <2>3. Level(levels', x) = Level(levels, x)
    BY <1>1, <2>1, LevelWith
  <2>4. Level(shown, x) = Level(levels, x)
    BY <2>1, <2>2 DEF Quiet, Words
  <2>. QED  BY <1>1, <2>3, <2>4
<1>8. Words'
  BY <1>6, <1>7 DEF Words
<1>. QED  BY <1>4, <1>5, <1>8 DEF Quiet

\* A query: the reply is the last line that is due, and says what is on.
LEMMA QueriesQuiet ==
    ASSUME LineInv, Quiet, NEW of, NEW on, Queries(of, on)
    PROVE  Quiet'
<1> DEFINE m == Reply(of, on)
<1>1. /\ LightTypes /\ SoFar /\ WireTypes /\ Tells(m) /\ DeviceTypes
      /\ of \in {"loads", "switches"} /\ on \subseteq 1..384 /\ asking' = of
      /\ (of = "loads" => on = DOMAIN levels) /\ asking = "none"
      /\ UNCHANGED <<system, levels, shown, wanted, torn>> /\ system = "elegance"
  BY DEF LineInv, LightTypes, Queries, Tells
<1>2. of = "loads" => on \subseteq 1..192
  <2>1. DOMAIN levels \subseteq 1..192
    BY <1>1 DEF DeviceTypes
  <2>2. of = "loads" => on = DOMAIN levels
    BY <1>1
  <2>. QED  BY <2>1, <2>2
<1>3. m \in AnyMessage /\ IsMessage(system, m)
  BY <1>1, <1>2 DEF Reply, AnyMessage, IsMessage
<1>4. Due \in Seq(AnyMessage) /\ Due' = Append(Due, m)
  BY <1>1, <1>3, DueIs, DueAppend
<1>5. m.of = of /\ m.on = on /\ \A x : ~Speaks(m, x)
  BY <1>1 DEF Reply, Speaks
<1> HIDE DEF m
<1>6. torn' = FALSE /\ \A x \in DOMAIN shown' : shown'[x] \in 1..99
  BY <1>1 DEF Quiet
<1>7. Replying(Due)'
  <2>1. /\ Len(Due') = Len(Due) + 1 /\ Len(Due) \in Nat
        /\ Due'[Len(Due) + 1] = m /\ \A j \in 1..Len(Due) : Due'[j] = Due[j]
    BY <1>3, <1>4, AppendIs
  <2>2. ASSUME NEW j \in 1..Len(Due) PROVE Due[j].of = "load"
    <3> SUFFICES ASSUME Due[j].of # "load" PROVE FALSE
      OBVIOUS
    <3>1. Due[j].of = "none"
      BY <1>1 DEF Quiet, Replying
    <3>2. Due[j] \in AnyMessage
      BY <1>4, LenProperties, ElementOfSeq
    <3>. QED  BY <3>1, <3>2 DEF AnyMessage
  <2>3. ASSUME NEW i \in 1..Len(Due'), Due'[i].of # "load"
        PROVE  i = Len(Due') /\ Due'[i] = m
    <3>1. CASE i = Len(Due) + 1
      BY <2>1, <3>1
    <3>2. CASE i # Len(Due) + 1
      <4>1. i \in 1..Len(Due)
        BY <2>1, <3>2
      <4>. QED  BY <2>1, <2>2, <2>3, <4>1
    <3>. QED  BY <3>1, <3>2
  <2>4. m.of = asking' /\ (asking' = "loads" => m.on = DOMAIN levels')
    BY <1>1, <1>5
  <2>. QED  BY <2>3, <2>4 DEF Replying
<1>8. ASSUME NEW x \in LoadNumbers PROVE LastSays(Due', x, Level(levels', x))
  <2>1. LastSays(Due, x, Level(levels, x))
    BY DEF Quiet, Words
  <2>. QED  BY <1>1, <1>3, <1>4, <1>5, <2>1, LastAppend
<1>9. ASSUME NEW x \in DOMAIN wanted', Silent(Due', x)
      PROVE  Level(shown', x) = Level(levels', x)
  <2>1. Silent(Due, x) /\ x \in DOMAIN wanted
    BY <1>1, <1>3, <1>4, <1>9, LastAppend
  <2>. QED  BY <1>1, <2>1 DEF Quiet, Words
<1>10. Words'
  BY <1>8, <1>9 DEF Words
<1>. QED  BY <1>6, <1>7, <1>10 DEF Quiet

\* A reply that came whole leaves what is shown of the lights that were asked.
LEMMA ReplyShows ==
    ASSUME LineInv, Quiet, Asked, coming # <<>>, Due = coming,
           Dispatch(Coming), Head(coming).of # "load"
    PROVE  /\ Len(coming) = 1
           /\ \A n \in DOMAIN shown' : shown'[n] \in 1..99
           /\ \A n \in DOMAIN wanted :
                 Level(shown, n) = Level(levels, n) /\ Level(shown', n) = Level(levels, n)
<1> DEFINE m == Head(coming)
<1>1. /\ LightTypes /\ WireTypes /\ DeviceTypes /\ coming \in Seq(AnyMessage)
  BY DEF LineInv, LightTypes, WireTypes
<1>2. m = coming[1] /\ m \in AnyMessage /\ 1 \in 1..Len(coming)
  BY <1>1, HeadIs
<1>3. Len(coming) = 1 /\ m.of = asking /\ (asking = "loads" => m.on = DOMAIN levels)
  BY <1>2 DEF Quiet, Replying
<1>5. asking # "none"
  BY <1>2, <1>3 DEF AnyMessage
<1>6. ASSUME NEW n \in DOMAIN wanted PROVE Level(shown, n) = Level(levels, n)
  <2>1. Silent(Due, n)
    BY <1>2, <1>3 DEF Silent, Speaks
  <2>. QED  BY <2>1 DEF Quiet, Words
<1>7. /\ answer' = Parsed(Coming)
      /\ shown' = IF answer'.of # "loads" THEN shown
                  ELSE [n \in answer'.is |-> IF n \in DOMAIN shown THEN shown[n] ELSE 99]
  BY <1>1, <1>5, ReplyHeard DEF Fulfils
<1>8. \A n \in DOMAIN shown : shown[n] \in 1..99
  BY DEF Quiet
<1>9. CASE answer'.of # "loads"
  BY <1>3, <1>6, <1>7, <1>8, <1>9
<1>10. CASE answer'.of = "loads"
  <2>1. Parsed(Coming).of = asking /\ Parsed(Coming).is = m.on
    BY <1>1, <1>5, <1>7, <1>10, WholeReply
  <2>2. answer'.is = DOMAIN levels
    BY <1>3, <1>7, <1>10, <2>1
  <2>3. shown' = [n \in DOMAIN levels |-> IF n \in DOMAIN shown THEN shown[n] ELSE 99]
    BY <1>7, <1>10, <2>2
  <2>4. \A n \in DOMAIN shown' : shown'[n] \in 1..99
    BY <1>8, <2>3
  <2>5. ASSUME NEW n \in DOMAIN wanted PROVE Level(shown', n) = Level(levels, n)
    <3>1. \A k \in DOMAIN levels : levels[k] \in 1..99
      BY <1>1 DEF DeviceTypes
    <3>2. CASE n \in DOMAIN levels
      <4>0. levels[n] \in 1..99
        BY <3>1, <3>2
      <4>1. Level(levels, n) = levels[n] /\ levels[n] # 0
        <5>1. Level(levels, n) = levels[n]
          BY <3>2, Zenon DEF Level
        <5>2. \A k \in 1..99 : k # 0
          OBVIOUS
        <5>. QED  BY <4>0, <5>1, <5>2
      <4>2. n \in DOMAIN shown /\ shown[n] = levels[n]
        BY <1>6, <4>1 DEF Level
      <4>. QED  BY <2>3, <3>2, <4>1, <4>2 DEF Level
    <3>3. CASE n \notin DOMAIN levels
      BY <2>3, <3>3 DEF Level
    <3>. QED  BY <3>2, <3>3
  <2>. QED  BY <1>3, <1>6, <2>4, <2>5
<1>. QED  BY <1>9, <1>10

\* The end of a line that came whole: what it says is shown, or was shown before.
LEMMA EndQuiet ==
    ASSUME LineInv, Quiet, Asked, Reads, EndByte
    PROVE  Quiet'
<1>1. /\ LightTypes /\ WireTypes /\ coming # <<>> /\ IsThrough /\ torn = FALSE
      /\ UNCHANGED <<system, levels, wanted>>
  BY DEF LineInv, LightTypes, Reads, device, Quiet
<1>2. torn' = FALSE /\ Dispatch(Coming)
  BY <1>1, ReadsWhole
<1>3. Due = coming /\ Due' = Tail(coming) /\ coming \in Seq(AnyMessage)
  BY <1>1, DueEnds DEF WireTypes
<1>4. /\ Len(coming) \in Nat \ {0} /\ Len(Due') = Len(coming) - 1
      /\ \A i \in 1..Len(coming) - 1 : Due'[i] = coming[i + 1]
  BY <1>1, <1>3, TailIs
<1>5. ASSUME NEW n \in LoadNumbers PROVE LastSays(Due', n, Level(levels', n))
  <2>1. LastSays(coming, n, Level(levels, n))
    BY <1>3 DEF Quiet, Words
  <2>. QED  BY <1>1, <1>3, <2>1, LastTail
<1>6. CASE Head(coming).of = "load"
  <2> DEFINE m == Head(coming)
  <2>1. /\ UNCHANGED <<asking, answer>> /\ shown' = With(shown, m.load, m.level)
        /\ m.load \in LoadNumbers /\ m.level \in 0..99
    BY <1>1, <1>2, <1>6, ReportHeard
  <2>2. Replying(Due)'
    <3>1. \A i \in 1..Len(coming) : coming[i].of # "load" =>
             i = Len(coming) /\ coming[i].of = asking
                /\ (asking = "loads" => coming[i].on = DOMAIN levels)
      BY <1>3 DEF Quiet, Replying
    <3>2. ASSUME NEW i \in 1..Len(Due'), Due'[i].of # "load"
          PROVE  i = Len(Due') /\ Due'[i].of = asking
                    /\ (asking = "loads" => Due'[i].on = DOMAIN levels)
      <4>1. i \in 1..Len(coming) - 1 /\ i + 1 \in 1..Len(coming) /\ Due'[i] = coming[i + 1]
        BY <1>4
      <4>2. i + 1 = Len(coming) /\ coming[i + 1].of = asking
               /\ (asking = "loads" => coming[i + 1].on = DOMAIN levels)
        BY <3>1, <3>2, <4>1
      <4>. QED  BY <1>4, <4>1, <4>2
    <3>. QED  BY <1>1, <2>1, <3>2 DEF Replying
  <2>3. ASSUME NEW n \in DOMAIN shown' PROVE shown'[n] \in 1..99
    <3>1. /\ n = m.load => m.level # 0
          /\ n # m.load => n \in DOMAIN shown
          /\ shown'[n] = IF n = m.load THEN m.level ELSE shown[n]
      BY <2>1, <2>3, WithIn
    <3>. QED  BY <2>1, <3>1 DEF Quiet
  <2>4. ASSUME NEW n \in DOMAIN wanted', Silent(Due', n)
        PROVE  Level(shown', n) = Level(levels', n)
    <3>1. Level(shown', n) = IF n = m.load THEN m.level ELSE Level(shown, n)
      BY <2>1, LevelWith
    <3>2. CASE n = m.load
      <4>1. LastSays(coming, n, Level(levels, n)) /\ Speaks(m, n)
        BY <1>3, <1>6, <2>1, <3>2 DEF Quiet, Words, Speaks
      <4>2. m.level = Level(levels, n)
        BY <1>1, <1>3, <2>4, <4>1, LastTail
      <4>. QED  BY <1>1, <3>1, <3>2, <4>2
    <3>3. CASE n # m.load
      <4>1. ~Speaks(m, n)
        BY <3>3 DEF Speaks
      <4>2. Silent(coming, n)
        BY <1>1, <1>3, <2>4, <4>1, LastTail
      <4>3. Level(shown, n) = Level(levels, n)
        BY <1>1, <1>3, <2>4, <4>2 DEF Quiet, Words
      <4>. QED  BY <1>1, <3>1, <3>3, <4>3
    <3>. QED  BY <3>2, <3>3
  <2>5. Words'
    BY <1>5, <2>4 DEF Words
  <2>. QED  BY <1>2, <2>2, <2>3, <2>5 DEF Quiet
<1>7. CASE Head(coming).of # "load"
  <2>1. /\ Len(coming) = 1
        /\ \A n \in DOMAIN shown' : shown'[n] \in 1..99
        /\ \A n \in DOMAIN wanted : Level(shown', n) = Level(levels, n)
    BY <1>1, <1>2, <1>3, <1>7, ReplyShows
  <2>2. Len(Due') = 0
    BY <1>4, <2>1
  <2>3. Replying(Due)'
    BY <2>2 DEF Replying
  <2>4. Words'
    BY <1>1, <1>5, <2>1 DEF Words
  <2>. QED  BY <1>2, <2>1, <2>3, <2>4 DEF Quiet
<1>. QED  BY <1>6, <1>7

\* What stays the same keeps it.
LEMMA QuietKept ==
    ASSUME Quiet, Due' = Due, torn' = FALSE, UNCHANGED <<levels, asking, shown, wanted>>
    PROVE  Quiet'
<1>1. Words'
  BY DEF Quiet, Words
<1>2. Replying(Due)'
  BY DEF Quiet, Replying
<1>. QED  BY <1>1, <1>2 DEF Quiet

\* A byte that is read keeps WordInv.
LEMMA ReadsWord == ASSUME LineInv, WordInv, Reads PROVE WordInv'
<1>1. UNCHANGED <<orders, system, levels, pressed, losses, wanted>>
  BY DEF Reads, device
<1>2. Asked'
  BY <1>1 DEF WordInv, Asked
<1>3. ASSUME losses = 0 PROVE Quiet'
  <2>1. Quiet /\ torn = FALSE /\ LightTypes /\ coming # <<>> /\ IsThrough /\ Asked
    BY <1>3 DEF WordInv, Quiet, LineInv, Reads
  <2>2. CASE EndByte
    BY <2>1, <2>2, EndQuiet
  <2>3. CASE TextByte \/ AfterByte
    <3>1. torn' = FALSE /\ UNCHANGED <<asking, answer, shown>>
      BY <2>1, <2>3, ReadsWhole
    <3>2. Due' = Due
      BY <1>1, <2>1, <2>3, DueSame
    <3>. QED  BY <1>1, <2>1, <3>1, <3>2, QuietKept
  <2>. QED  BY <2>1, <2>2, <2>3, NextByteIs
<1>. QED  BY <1>1, <1>2, <1>3 DEF WordInv

\* So does a lost one, after which only the levels are known.
LEMMA LosesWord == ASSUME LineInv, WordInv, Loses PROVE WordInv'
<1>1. UNCHANGED <<levels, wanted>> /\ losses' = losses + 1 /\ losses \in Nat
  BY DEF Loses, device, LineInv, LightTypes
<1>2. Asked' /\ losses' # 0
  BY <1>1 DEF WordInv, Asked
<1>. QED  BY <1>2 DEF WordInv

\* WordInv holds at first,
LEMMA WordInvInit == ASSUME LightInit PROVE WordInv
<1>1. /\ coming = <<>> /\ torn = FALSE /\ shown = <<>> /\ wanted = <<>>
  BY DEF LightInit
<1>2. Due = <<>> /\ DOMAIN shown = {} /\ DOMAIN wanted = {}
  BY <1>1 DEF Due
<1>3. Asked
  BY <1>2 DEF Asked
<1>4. Replying(Due) /\ \A n \in LoadNumbers : LastSays(Due, n, Level(levels, n))
  BY <1>2 DEF Replying, LastSays
<1>. QED  BY <1>1, <1>2, <1>3, <1>4 DEF WordInv, Quiet, Words

\* every step keeps it,
LEMMA WordInvNext == ASSUME LineInv, WordInv, [LightNext]_lightVars PROVE WordInv'
<1>0. LightTypes
  BY DEF LineInv
<1>1. CASE TurnOn \/ TurnOff
  <2>1. PICK n, b, l : Turns(n, b, l)
    BY <1>0, <1>1, TurnIs
  <2>2. Asked' /\ losses' = losses
    BY <2>1, TurnsAsked DEF WordInv, Turns, Tells
  <2>3. losses = 0 => Quiet'
    BY <2>1, TurnsQuiet DEF WordInv
  <2>. QED  BY <2>2, <2>3 DEF WordInv
<1>2. CASE AsksLoads \/ AsksSwitches
  <2>1. PICK of, on : Queries(of, on)
    BY <1>0, <1>2, AsksIs
  <2>2. UNCHANGED <<levels, wanted, losses>>
    BY <2>1 DEF Queries, Tells
  <2>3. losses = 0 => Quiet'
    BY <2>1, QueriesQuiet DEF WordInv
  <2>4. Asked'
    BY <2>2 DEF WordInv, Asked
  <2>. QED  BY <2>2, <2>3, <2>4 DEF WordInv
<1>3. CASE GivesUp \/ UNCHANGED lightVars
  <2>1. /\ UNCHANGED <<system, levels, coming, at, torn, losses, shown, wanted>>
        /\ asking' = asking \/ coming = <<>>
    BY <1>3 DEF GivesUp, lightVars, device, wire, asked
  <2>2. Asked'
    BY <2>1 DEF WordInv, Asked
  <2>3. Due' = Due
    BY <2>1 DEF Due, Coming
  <2>4. ASSUME Quiet PROVE Quiet'
    <3>1. CASE asking' = asking
      <4>1. torn' = FALSE
        BY <2>1, <2>4 DEF Quiet
      <4>. QED  BY <2>1, <2>3, <2>4, <3>1, <4>1, QuietKept
    <3>2. CASE coming = <<>>
      <4>1. Due' = <<>>
        BY <2>3, <3>2 DEF Due
      <4>2. Replying(Due)'
        BY <4>1 DEF Replying
      <4>3. Words'
        BY <2>1, <2>3, <2>4 DEF Quiet, Words
      <4>. QED  BY <2>1, <2>4, <4>2, <4>3 DEF Quiet
    <3>. QED  BY <2>1, <3>1, <3>2
  <2>. QED  BY <2>1, <2>2, <2>4 DEF WordInv
<1>. QED  BY <1>1, <1>2, <1>3, ReadsWord, LosesWord DEF LightNext

\* and when no line is due all lights are shown as they were asked.
LEMMA WordInvKept == ASSUME WordInv PROVE BrightnessKept
<1> SUFFICES ASSUME losses = 0, coming = <<>>, NEW n \in DOMAIN wanted \ Relays
             PROVE  LET b == BrightnessOf(Level(shown, n)) IN
                    /\ b \in 1..255 /\ b - wanted[n] \in -2..2
                    /\ LevelOf(b) = Level(levels, n)
  BY DEF BrightnessKept
<1>1. Quiet /\ Asked /\ Due = <<>>
  BY DEF WordInv, Due
<1>2. Level(shown, n) = Level(levels, n)
  <2>1. Silent(Due, n)
    BY <1>1 DEF Silent
  <2>. QED  BY <1>1, <2>1 DEF Quiet, Words
<1>3. wanted[n] \in 1..255 /\ Level(levels, n) = LevelOf(wanted[n])
  BY <1>1 DEF Asked
<1>. QED  BY <1>2, <1>3, BrightnessOfLevel

\* Once all reports are in, each light shows a brightness at most 2 off the one it
\* was asked for and not 0, also after a poll (light.py, _safety_poll).
THEOREM BrightnessIsKept == LightSpec => []BrightnessKept
<1>1. LightInit => LineInv /\ WordInv
  BY LineInvInit, WordInvInit
<1>2. LineInv /\ WordInv /\ [LightNext]_lightVars => LineInv' /\ WordInv'
  BY LineInvNext, WordInvNext
<1>3. WordInv => BrightnessKept
  BY WordInvKept
<1>. QED  BY <1>1, <1>2, <1>3, PTL DEF LightSpec

-----------------------------------------------------------------------------
(* What a lost byte leaves behind.                                           *)

\* What the buffer holds beyond the line that is on its way: one byte is missing,
\* or an earlier line is in front, less what a full buffer gave away.
Lag  == Len(buf) - at
Lags == {-1, 7, 48, 96, 7 - ReadMax, 48 - ReadMax, 96 - ReadMax}

\* A reply is the last of the lines, and is to the request that is out.
Orderly(q, of) == \A i \in 1..Len(q) : q[i].of # "load" => i = Len(q) /\ q[i].of = of

TornInv ==
    /\ losses = 0 => torn = FALSE
    /\ Len(buf) < ReadMax
    /\ torn /\ system = "elegance" => Lag \in Lags
    /\ system = "elegance" /\ (losses = 0 \/ (torn /\ Lag = 48)) => Orderly(coming, asking)
    /\ BitmapRight

\* A line that a lost end of line put together is as long as no bitmap, but for
\* two bitmaps of loads.
LEMMA LagEnds ==
    ASSUME NEW k \in {7, 48, 96}, NEW a \in Nat, NEW b \in Nat, a = k,
           b - a \in Lags, ReadMax # 144
    PROVE  b # 48 /\ (b = 96 => k = 48 /\ b - a = 48)
BY LightAssumption DEF Lags

\* A full buffer is given away with its torn line, and leaves less than it had.
LEMMA LagFull ==
    ASSUME NEW a \in 0..95, NEW b \in Nat, b - a \in Lags, b < ReadMax, b + 1 >= ReadMax
    PROVE  0 - (a + 1) \in Lags /\ 0 - (a + 1) # 48
BY LightAssumption DEF Lags

\* A byte that is kept changes nothing of that.
LEMMA LagNext ==
    ASSUME NEW a \in Nat, NEW b \in Nat
    PROVE  (b + 1) - (a + 1) = b - a
OBVIOUS

\* Where no request is out, any line may be added,
LEMMA OrderlyAppend ==
    ASSUME NEW q \in Seq(AnyMessage), Orderly(q, "none"), NEW m \in AnyMessage,
           NEW of, m.of \in {"load", of}
    PROVE  Orderly(Append(q, m), of)
<1> DEFINE r == Append(q, m)
           k == Len(q)
<1>1. /\ k \in Nat /\ Len(r) = k + 1
      /\ r[k + 1] = m /\ \A i \in 1..k : r[i] = q[i]
  BY AppendIs
<1>2. ASSUME NEW i \in 1..k PROVE q[i].of = "load"
  <2>1. q[i] \in AnyMessage
    BY <1>2, LenProperties, ElementOfSeq
  <2>2. q[i].of # "none"
    BY <2>1 DEF AnyMessage
  <2>. QED  BY <2>2 DEF Orderly
<1> HIDE DEF r, k
<1>3. ASSUME NEW i \in 1..Len(r), r[i].of # "load" PROVE i = Len(r) /\ r[i].of = of
  <2>1. CASE i = k + 1
    BY <1>1, <1>3, <2>1
  <2>2. CASE i # k + 1
    <3>1. i \in 1..k
      BY <1>1, <2>2
    <3>. QED  BY <1>1, <1>2, <1>3, <3>1
  <2>. QED  BY <2>1, <2>2
<1>. QED  BY <1>3 DEF Orderly, r

\* and a reply that is first is the only line.
LEMMA OrderlyTail ==
    ASSUME NEW q \in Seq(AnyMessage), q # <<>>, NEW of, Orderly(q, of)
    PROVE  /\ Orderly(Tail(q), of)
           /\ Head(q).of # "load" => Head(q).of = of /\ Tail(q) = <<>>
<1> DEFINE t == Tail(q)
           k == Len(q)
<1>1. /\ t \in Seq(AnyMessage) /\ k \in Nat \ {0} /\ Len(t) = k - 1 /\ Head(q) = q[1]
      /\ \A i \in 1..k - 1 : t[i] = q[i + 1]
  BY TailIs, HeadTailProperties
<1>2. \A i \in 1..k : q[i].of # "load" => i = k /\ q[i].of = of
  BY DEF Orderly
<1> HIDE DEF t, k
<1>3. ASSUME NEW i \in 1..Len(t), t[i].of # "load" PROVE i = Len(t) /\ t[i].of = of
  <2>1. i \in 1..k - 1 /\ i + 1 \in 1..k /\ t[i] = q[i + 1]
    BY <1>1
  <2>2. i + 1 = k /\ q[i + 1].of = of
    BY <1>2, <1>3, <2>1
  <2>. QED  BY <1>1, <2>1, <2>2
<1>4. ASSUME Head(q).of # "load" PROVE Head(q).of = of /\ t = <<>>
  <2>1. 1 \in 1..k
    BY <1>1
  <2>2. k = 1 /\ q[1].of = of
    BY <1>1, <1>2, <1>4, <2>1
  <2>3. Len(t) = 0
    BY <1>1, <2>2
  <2>. QED  BY <1>1, <2>2, <2>3, EmptySeq
<1>. QED  BY <1>3, <1>4 DEF Orderly, t

\* Elegance says reports of 7 characters and bitmaps of 48 and 96.
LEMMA ElegantLength ==
    ASSUME LightTypes, coming # <<>>, system = "elegance"
    PROVE  /\ Len(Coming) \in {7, 48, 96}
           /\ Len(Coming) = 48 => Head(coming).of = "loads"
<1>1. Len(Coming) = Length(system, Head(coming)) /\ PrefixLen(system) = 2
  BY ComingIs DEF LightTypes, PrefixLen
<1>2. PrefixLen(system) + 5 = 7
  BY <1>1
<1>. QED  BY <1>1, <1>2 DEF Length

\* A line that is no bitmap leaves the answer, or is an error.
LEMMA NotAccepted ==
    ASSUME NEW s, Dispatch(s), BitmapRight,
           Len(s) = 48 => asking # "loads", Len(s) = 96 => asking # "switches"
    PROVE  BitmapRight'
<1>1. Parsed(s) = [NoAnswer EXCEPT !.of = "error"]
  <2>1. IsBitmap(s, 8, 3) => Len(s) = 48
    BY DEF IsBitmap
  <2>2. IsBitmap(s, 24, 2) => Len(s) = 96
    BY DEF IsBitmap
  <2>. QED  BY <2>1, <2>2 DEF Parsed
<1>2. Parsed(s).of = "error"
  BY <1>1 DEF NoAnswer
<1>3. answer' = answer \/ answer' = Parsed(s)
  BY DEF Dispatch, Fulfils, asked
<1>. QED  BY <1>2, <1>3 DEF BitmapRight

\* A line that came whole answers rightly.
LEMMA WholeAnswer ==
    ASSUME LightTypes, coming # <<>>, Dispatch(Coming), BitmapRight
    PROVE  BitmapRight'
<1>1. CASE Head(coming).of = "load"
  <2>1. answer' = answer
    BY <1>1, ReportHeard
  <2>. QED  BY <2>1 DEF BitmapRight
<1>2. CASE Head(coming).of # "load"
  <2>1. Fulfils(Coming)
    BY <1>2, ReplyHeard
  <2>2. CASE asking = "none"
    <3>1. answer' = answer
      BY <2>1, <2>2 DEF Fulfils, asked
    <3>. QED  BY <3>1 DEF BitmapRight
  <2>3. CASE asking # "none"
    <3>1. answer' = Parsed(Coming)
      BY <2>1, <2>3 DEF Fulfils
    <3> SUFFICES ASSUME answer'.of \in {"loads", "switches"} PROVE answer'.is = answer'.was
      BY DEF BitmapRight
    <3>2. Parsed(Coming).of # "error"
      BY <3>1
    <3>. QED  BY <1>2, <2>3, <3>1, <3>2, WholeReply
  <2>. QED  BY <2>2, <2>3
<1>. QED  BY <1>1, <1>2

\* A bridge without bulk queries is asked nothing.
LEMMA SilentBridge ==
    ASSUME LightTypes, system # "elegance", NEW s, Dispatch(s), BitmapRight
    PROVE  BitmapRight'
<1>1. system = "jetstream"
  BY DEF LightTypes, DeviceTypes, Systems
<1>2. answer' = answer
  BY <1>1 DEF LightTypes, Dispatch, Fulfils, asked
<1>. QED  BY <1>2 DEF BitmapRight

\* What the bridge says keeps TornInv,
LEMMA TellsTorn ==
    ASSUME LightTypes, TornInv, asking = "none", NEW m \in AnyMessage, Tells(m),
           m.of \in {"load", asking'}, UNCHANGED <<system, answer>>
    PROVE  TornInv'
<1>1. /\ coming \in Seq(AnyMessage) /\ coming' = Append(coming, m)
      /\ at' = at /\ buf' = buf /\ torn' = torn /\ losses' = losses
  BY DEF Tells, LightTypes, WireTypes
<1>2. Lag' = Lag /\ BitmapRight'
  BY <1>1 DEF Lag, BitmapRight, TornInv
<1>3. ASSUME system = "elegance", losses = 0 \/ (torn /\ Lag = 48)
      PROVE  Orderly(coming', asking')
  <2>1. Orderly(coming, "none")
    BY <1>3 DEF TornInv
  <2>. QED  BY <1>1, <2>1, OrderlyAppend
<1>. QED  BY <1>1, <1>2, <1>3 DEF TornInv

\* so does the one byte that may be lost,
LEMMA LosesTorn ==
    ASSUME LineInv, TornInv, MaxLost <= 1, Loses
    PROVE  TornInv'
<1>1. /\ LightTypes /\ WireTypes /\ SoFar /\ coming # <<>> /\ IsThrough
      /\ losses \in Nat /\ losses < MaxLost /\ losses' = losses + 1
      /\ torn' = (torn \/ NextByte # LF) /\ at \in Nat /\ buf \in Seq(Nat)
      /\ UNCHANGED <<system, buf, asking, answer>> /\ coming \in Seq(AnyMessage)
  BY DEF LineInv, LightTypes, WireTypes, Loses, device, asked
<1>2. losses = 0 /\ losses' # 0
  BY <1>1, LightAssumption
<1>3. torn = FALSE /\ BitmapRight'
  BY <1>1, <1>2 DEF TornInv, BitmapRight
<1>4. Len(buf') < ReadMax
  BY <1>1 DEF TornInv
<1>5. CASE system # "elegance"
  BY <1>1, <1>2, <1>3, <1>4, <1>5 DEF TornInv
<1>6. CASE system = "elegance"
  <2>1. Len(Coming) \in {7, 48, 96} /\ (Len(Coming) = 48 => Head(coming).of = "loads")
    BY <1>1, <1>6, ElegantLength
  <2>2. Orderly(coming, asking)
    BY <1>2, <1>6 DEF TornInv
  <2>3. Coming \in Seq(Nat)
    BY <1>1, ComingIs
  <2>4. CASE TextByte
    <3>1. at' = at + 1 /\ coming' = coming /\ at < Len(Coming)
      BY <1>1, <2>4, Through DEF TextByte
    <3>2. Len(buf) = at
      <4>1. buf = SubSeq(Coming, 1, at)
        BY <1>1, <1>3, <2>1, <3>1 DEF SoFar
      <4>2. at \in 0..Len(Coming)
        BY <1>1, <2>1, <3>1
      <4>3. \A i \in 1..Len(Coming) : Coming[i] \in Nat
        BY <2>3, ElementOfSeq
      <4>4. Len(SubSeq(Coming, 1, at)) = at
        BY <2>3, <4>2, <4>3, SubSeqProperties
      <4>. QED  BY <4>1, <4>4
    <3>3. Lag' = -1
      <4>1. Len(buf') = at /\ at' = at + 1
        BY <1>1, <3>1, <3>2
      <4>2. at - (at + 1) = -1
        BY <1>1
      <4>. QED  BY <4>1, <4>2 DEF Lag
    <3>4. Lag' \in Lags /\ Lag' # 48
      BY <3>3 DEF Lags
    <3>. QED  BY <1>2, <1>3, <1>4, <3>4 DEF TornInv
  <2>5. CASE EndByte
    <3>1. at' = 0 /\ coming' = Tail(coming) /\ at = Len(Coming)
      BY <1>1, <1>6, <2>5, Through DEF EndByte
    <3>2. buf = Coming
      <4>1. buf = SubSeq(Coming, 1, Len(Coming))
        BY <1>1, <1>3, <2>1, <3>1 DEF SoFar
      <4>. QED  BY <2>3, <4>1, SubSeqFull
    <3>3. Lag' = Len(Coming)
      <4>1. Len(buf') = Len(Coming) /\ at' = 0
        BY <1>1, <3>1, <3>2
      <4>2. Len(Coming) - 0 = Len(Coming)
        BY <2>1
      <4>. QED  BY <4>1, <4>2 DEF Lag
    <3>4. Lag' \in Lags
      BY <2>1, <3>3 DEF Lags
    <3>5. Orderly(coming', asking')
      BY <1>1, <2>2, <3>1, OrderlyTail
    <3>. QED  BY <1>2, <1>3, <1>4, <3>4, <3>5 DEF TornInv
  <2>. QED  BY <1>1, <1>6, <2>4, <2>5, NextByteIs DEF AfterByte
<1>. QED  BY <1>5, <1>6

\* and so does a byte that is read.
LEMMA ReadsTorn ==
    ASSUME LineInv, TornInv, ReadMax # 144, Reads
    PROVE  TornInv'
<1>1. /\ LightTypes /\ WireTypes /\ SoFar /\ coming # <<>> /\ IsThrough /\ Gets(NextByte)
      /\ losses' = losses /\ system' = system /\ at \in Nat
      /\ buf \in Seq(Nat) /\ torn \in BOOLEAN /\ Len(buf) < ReadMax /\ BitmapRight
      /\ coming \in Seq(AnyMessage)
  BY DEF LineInv, LightTypes, WireTypes, Reads, device, TornInv
<1>2. losses' = 0 => torn' = FALSE
  BY <1>1, ReadsWhole DEF TornInv
<1>3. 0 < ReadMax /\ Len(<<>>) = 0
  BY LightAssumption
<1>4. CASE TextByte
  <2>1. at' = at + 1 /\ coming' = coming /\ at < Len(Coming)
    BY <1>1, <1>4, Through DEF TextByte
  <2>2. NextByte \in Nat /\ NextByte \notin {CR, LF}
    BY <1>4 DEF TextByte
  <2> DEFINE b == Append(buf, NextByte)
  <2>3. Len(b) = Len(buf) + 1 /\ Len(buf) \in Nat
    BY <1>1, <2>2, AppendIs
  <2>4. \/ FullBuffer(b) /\ Returns(b) /\ torn' = TRUE
        \/ ~FullBuffer(b) /\ buf' = b /\ UNCHANGED <<torn, returned, asking, answer, shown>>
    BY <1>1, <2>2 DEF Gets, asked
  <2> HIDE DEF b
  <2>5. CASE FullBuffer(b) /\ Returns(b) /\ torn' = TRUE
    <3>1. buf' = <<>> /\ Dispatch(b)
      BY <2>5 DEF Returns
    <3>2. torn = TRUE /\ losses' # 0
      <4>1. torn
        BY <1>1, <1>4, <2>5, BufferHolds DEF b
      <4>. QED  BY <1>2, <2>5, <4>1
    <3>3. Len(buf) + 1 >= ReadMax
      BY <2>3, <2>5 DEF FullBuffer
    <3>4. BitmapRight'
      <4>1. Len(b) # 48 /\ Len(b) # 96
        BY <2>3, <3>3, LightAssumption
      <4>. QED  BY <1>1, <3>1, <4>1, NotAccepted
    <3>5. system = "elegance" => Lag' \in Lags /\ Lag' # 48
      <4> SUFFICES ASSUME system = "elegance" PROVE Lag' \in Lags /\ Lag' # 48
        OBVIOUS
      <4>1. Len(buf) - at \in Lags
        BY <3>2 DEF TornInv, Lag
      <4>2. at \in 0..95
        <5> DEFINE k == Len(Coming)
        <5>1. k \in 7..96 /\ at < k
          BY <1>1, <2>1, ComingIs
        <5> HIDE DEF k
        <5>. QED  BY <1>1, <5>1
      <4>3. 0 - (at + 1) \in Lags /\ 0 - (at + 1) # 48
        <5> DEFINE k == Len(buf)
        <5>1. k \in Nat /\ k - at \in Lags /\ k < ReadMax /\ k + 1 >= ReadMax
          BY <1>1, <2>3, <3>3, <4>1
        <5> HIDE DEF k
        <5>. QED  BY <4>2, <5>1, LagFull
      <4>4. Len(buf') = 0 /\ at' = at + 1
        BY <1>3, <2>1, <3>1
      <4>. QED  BY <4>3, <4>4 DEF Lag
    <3>6. Len(buf') < ReadMax
      BY <1>3, <3>1
    <3>. QED  BY <1>1, <3>2, <3>4, <3>5, <3>6 DEF TornInv
  <2>6. CASE ~FullBuffer(b) /\ buf' = b /\ UNCHANGED <<torn, returned, asking, answer, shown>>
    <3>1. Len(buf') = Len(buf) + 1 /\ Len(buf') < ReadMax
      <4>1. ~(Len(b) >= ReadMax)
        BY <2>6 DEF FullBuffer
      <4>. QED  BY <2>3, <2>6, <4>1, LightAssumption
    <3>2. Lag' = Lag
      BY <1>1, <2>1, <2>3, <3>1, LagNext DEF Lag
    <3>3. BitmapRight'
      BY <1>1, <2>6 DEF BitmapRight
    <3>. QED  BY <1>1, <1>2, <2>1, <2>6, <3>1, <3>2, <3>3 DEF TornInv
  <2>. QED  BY <2>4, <2>5, <2>6
<1>5. CASE EndByte
  <2>1. at = Len(Coming) /\ NextByte = CR /\ CR # LF
    BY <1>5 DEF EndByte, CR, LF
  <2>2. buf' = <<>> /\ Dispatch(buf) /\ torn' = FALSE
    BY <1>1, <2>1 DEF Gets, Returns
  <2>3. Len(buf') < ReadMax
    BY <1>3, <2>2
  <2>4. BitmapRight'
    <3>1. CASE torn = FALSE
      <4>1. Dispatch(Coming)
        BY <1>1, <1>5, <3>1, ReadsWhole
      <4>. QED  BY <1>1, <4>1, WholeAnswer
    <3>2. CASE system # "elegance"
      BY <1>1, <2>2, <3>2, SilentBridge
    <3>3. CASE torn = TRUE /\ system = "elegance"
      <4>1. Len(Coming) \in {7, 48, 96} /\ (Len(Coming) = 48 => Head(coming).of = "loads")
        BY <1>1, <3>3, ElegantLength
      <4>2. Len(buf) - at \in Lags /\ (Len(buf) - at = 48 => Orderly(coming, asking))
        BY <3>3 DEF TornInv, Lag
      <4>3. Len(buf) \in Nat
        BY <1>1
      <4>4. Len(buf) # 48 /\ (Len(buf) = 96 => Len(Coming) = 48 /\ Len(buf) - at = 48)
        <5> DEFINE k == Len(Coming)
                   b == Len(buf)
        <5>1. k \in {7, 48, 96} /\ at = k /\ b \in Nat /\ b - at \in Lags /\ at \in Nat
          BY <1>1, <2>1, <4>1, <4>2, <4>3
        <5> HIDE DEF k, b
        <5>2. b # 48 /\ (b = 96 => k = 48 /\ b - at = 48)
          BY <5>1, LagEnds
        <5>. QED  BY <5>2 DEF k, b
      <4>5. Len(buf) = 96 => asking # "switches"
        <5> SUFFICES ASSUME Len(buf) = 96 PROVE asking = "loads"
          OBVIOUS
        <5>1. Orderly(coming, asking) /\ Head(coming).of = "loads"
          BY <4>1, <4>2, <4>4
        <5>2. Head(coming).of = asking
          BY <1>1, <5>1, OrderlyTail
        <5>. QED  BY <5>1, <5>2
      <4>. QED  BY <1>1, <2>2, <4>4, <4>5, NotAccepted
    <3>. QED  BY <1>1, <3>1, <3>2, <3>3
  <2>5. ASSUME system = "elegance", losses = 0 PROVE Orderly(coming', asking')
    <3>1. Orderly(coming, asking) /\ torn = FALSE
      BY <2>5 DEF TornInv
    <3>2. Orderly(Tail(coming), asking)
          /\ (Head(coming).of # "load" => Tail(coming) = <<>>)
      BY <1>1, <3>1, OrderlyTail
    <3>3. coming' = Tail(coming) /\ Dispatch(Coming)
      BY <1>1, <1>5, <2>5, <3>1, Through, ReadsWhole
    <3>4. CASE Head(coming).of = "load"
      <4>1. asking' = asking
        BY <1>1, <3>3, <3>4, ReportHeard
      <4>. QED  BY <3>2, <3>3, <4>1
    <3>5. CASE Head(coming).of # "load"
      <4>1. coming' = <<>>
        BY <3>2, <3>3, <3>5
      <4>. QED  BY <4>1 DEF Orderly
    <3>. QED  BY <3>4, <3>5
  <2>. QED  BY <1>1, <2>2, <2>3, <2>4, <2>5 DEF TornInv
<1>6. CASE AfterByte
  <2>1. NextByte = LF /\ CR # LF /\ system = "jetstream"
    BY <1>6 DEF AfterByte, CR, LF
  <2>2. UNCHANGED <<buf, torn, asking, answer>>
    BY <1>1, <2>1 DEF Gets, LineFeed, asked
  <2>3. Len(buf') < ReadMax /\ BitmapRight' /\ system' # "elegance"
    BY <1>1, <2>1, <2>2 DEF BitmapRight
  <2>. QED  BY <1>2, <2>3 DEF TornInv
<1>. QED  BY <1>1, <1>4, <1>5, <1>6, NextByteIs

\* TornInv holds at first,
LEMMA TornInvInit == ASSUME LightInit PROVE TornInv
<1>1. /\ coming = <<>> /\ torn = FALSE /\ buf = <<>> /\ answer = NoAnswer
  BY DEF LightInit
<1>2. Len(buf) < ReadMax
  BY <1>1, LightAssumption
<1>3. Orderly(coming, asking)
  BY <1>1 DEF Orderly
<1>4. BitmapRight
  BY <1>1 DEF BitmapRight, NoAnswer
<1>. QED  BY <1>1, <1>2, <1>3, <1>4 DEF TornInv

\* and every step keeps it.
LEMMA TornInvNext ==
    ASSUME LineInv, TornInv, MaxLost <= 1, ReadMax # 144, [LightNext]_lightVars
    PROVE  TornInv'
<1>0. LightTypes
  BY DEF LineInv
<1>1. CASE TurnOn \/ TurnOff
  <2>1. PICK n, b, l : Turns(n, b, l)
    BY <1>0, <1>1, TurnIs
  <2>2. /\ asking = "none" /\ Tells(Report(n, l)) /\ UNCHANGED <<system, answer>>
        /\ Report(n, l) \in AnyMessage /\ Report(n, l).of = "load"
    BY <2>1, TurnsDue DEF Turns, Report
  <2>. QED  BY <1>0, <2>2, TellsTorn
<1>2. CASE AsksLoads \/ AsksSwitches
  <2>1. PICK of, on : Queries(of, on)
    BY <1>0, <1>2, AsksIs
  <2>2. /\ asking = "none" /\ Tells(Reply(of, on)) /\ UNCHANGED <<system, answer>>
        /\ Reply(of, on) \in AnyMessage /\ Reply(of, on).of = asking'
    BY <2>1 DEF Queries, Reply, AnyMessage
  <2>. QED  BY <1>0, <2>2, TellsTorn
<1>3. CASE GivesUp \/ UNCHANGED lightVars
  <2>1. /\ UNCHANGED <<system, coming, at, buf, torn, losses, answer>>
        /\ asking' = asking \/ coming = <<>>
    BY <1>3 DEF GivesUp, lightVars, device, wire, asked
  <2>2. Lag' = Lag /\ BitmapRight'
    BY <2>1 DEF Lag, BitmapRight, TornInv
  <2>3. Orderly(coming, asking) => Orderly(coming', asking')
    BY <2>1 DEF Orderly
  <2>. QED  BY <2>1, <2>2, <2>3 DEF TornInv
<1>. QED  BY <1>1, <1>2, <1>3, ReadsTorn, LosesTorn DEF LightNext

\* With at most one byte lost, a bitmap that is accepted says what was on
\* (parse_load_bitmap, parse_switch_bitmap). Only its length guards a bitmap, so some
\* bound is needed: if the end of a reply and all the text of the next are lost, the
\* first is taken for the second. And a buffer of 144 bytes would leave the length of
\* a bitmap of loads of two bitmaps of switches; it has 100.
THEOREM BitmapsAreRight ==
    ASSUME MaxLost <= 1, ReadMax # 144
    PROVE  LightSpec => []BitmapRight
<1>1. LightInit => LineInv /\ TornInv
  BY LineInvInit, TornInvInit
<1>2. LineInv /\ TornInv /\ [LightNext]_lightVars => LineInv' /\ TornInv'
  BY LineInvNext, TornInvNext
<1>3. TornInv => BitmapRight
  BY DEF TornInv
<1>. QED  BY <1>1, <1>2, <1>3, PTL DEF LightSpec

=============================================================================
