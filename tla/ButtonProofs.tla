---------------------------- MODULE ButtonProofs ----------------------------
(* What holds of buttons and scenes for any wall, any entry and any number of *)
(* lines on their way. The argument for what is shown: the last word on the   *)
(* line about a button or a scene is right (LastWordsRight), and where there   *)
(* is none the one before was (ShownRight).                                   *)
EXTENDS Buttons, TLAPS

\* The lines that say something of a button, or of a scene, and those of them that
\* are true now. A button that is held down or was tapped is to be shown on.
ButtonLines(k) ==
    [of : {"button"}, idx : {k[1]}, button : {k[2]}, action : {"tap", "press", "release"}]
OddLines(k) == [of : {"button"}, idx : {k[1]}, button : {k[2]}, action : {"odd"}]
SceneLines(s)  == [of : {"scene"}, idx : {s}, action : BOOLEAN]
RightOnes(k)   == {l \in ButtonLines(k) : (l.action # "release") <=> wall[k] # "up"}
RightScenes(s) == {l \in SceneLines(s) : l.action <=> lit[s]}

Lines ==
    (UNION {ButtonLines(k) \cup OddLines(k) : k \in Keys})
    \cup (UNION {SceneLines(s) : s \in Scenes})

\* The last of the lines of M on q, if there is one, is in R; and: there is none.
LastIn(q, M, R) ==
    \A i \in DOMAIN q : q[i] \in M /\ (\A j \in DOMAIN q : j > i => q[j] \notin M) => q[i] \in R
Silent(q, M) == \A i \in DOMAIN q : q[i] \notin M

LineOK ==
    /\ line \in Seq(Lines)
    /\ link = "down" => line = <<>>
    /\ system = "elegance" =>
          \A i \in DOMAIN line : line[i].of = "button" /\ line[i].action # "tap"

CallsOK == \A t \in Tasks[system] : task[t][1] \in {"on", "off"} => task[t][2] \in Scenes

LastWordsRight ==
    /\ \A k \in Keys : LastIn(line, ButtonLines(k), RightOnes(k))
    /\ \A s \in Scenes : LastIn(line, SceneLines(s), RightScenes(s))

ShownRight ==
    /\ \A k \in Keys : k \notin missed /\ Silent(line, ButtonLines(k)) => (switches[k] <=> wall[k] # "up")
    /\ \A s \in Scenes :
          SceneKey(s) \notin missed /\ Silent(line, SceneLines(s)) => (scenes[s] <=> lit[s])

\* An automation waits for the subtype of the button that somebody meant.
AutomationsOK ==
    \A t \in automations :
        t.device \in DeviceIds /\ t.of \in Nat \X Nat /\ t.subtype = Subtype(t.of[1], t.of[2])

-----------------------------------------------------------------------------
(* Lines in a row.                                                           *)

\* A line that is appended is the last word on what it concerns, and on nothing else.
LEMMA AppendWord ==
    ASSUME NEW S, NEW q \in Seq(S), NEW l \in S, NEW M, NEW R
    PROVE  /\ l \notin M /\ LastIn(q, M, R) => LastIn(Append(q, l), M, R)
           /\ l \in M /\ l \in R => LastIn(Append(q, l), M, R)
           /\ Silent(Append(q, l), M) => Silent(q, M) /\ l \notin M
<1> DEFINE a == Append(q, l)
<1>1. /\ a \in Seq(S) /\ Len(a) = Len(q) + 1 /\ Len(q) \in Nat
      /\ a[Len(q) + 1] = l /\ \A i \in 1..Len(q) : a[i] = q[i]
  OBVIOUS
<1>2. DOMAIN a = 1..Len(q) + 1 /\ DOMAIN q = 1..Len(q)
  BY <1>1
<1> HIDE DEF a
<1>3. ASSUME l \notin M, LastIn(q, M, R) PROVE LastIn(a, M, R)
  <2> SUFFICES ASSUME NEW i \in DOMAIN a, a[i] \in M,
                      \A j \in DOMAIN a : j > i => a[j] \notin M
               PROVE  a[i] \in R
    BY DEF LastIn
  <2>1. i \in 1..Len(q) /\ a[i] = q[i]
    BY <1>1, <1>2, <1>3
  <2>2. \A j \in DOMAIN q : j > i => q[j] \notin M
    BY <1>1, <1>2
  <2> QED
    BY <2>1, <2>2, <1>2, <1>3 DEF LastIn
<1>4. ASSUME l \in M, l \in R PROVE LastIn(a, M, R)
  <2> SUFFICES ASSUME NEW i \in DOMAIN a, \A j \in DOMAIN a : j > i => a[j] \notin M
               PROVE  a[i] \in R
    BY DEF LastIn
  <2>1. i = Len(q) + 1
    BY <1>1, <1>2, <1>4
  <2> QED
    BY <2>1, <1>1, <1>4
<1>5. ASSUME Silent(a, M) PROVE Silent(q, M) /\ l \notin M
  BY <1>1, <1>2, <1>5 DEF Silent
<1> QED
  BY <1>3, <1>4, <1>5 DEF a

\* A line that is taken off was the last word if nothing is left.
LEMMA TailWord ==
    ASSUME NEW S, NEW q \in Seq(S), q # <<>>, NEW M, NEW R, LastIn(q, M, R)
    PROVE  /\ Tail(q) \in Seq(S) /\ Head(q) \in S
           /\ LastIn(Tail(q), M, R)
           /\ Silent(Tail(q), M) /\ Head(q) \in M => Head(q) \in R
           /\ Silent(Tail(q), M) /\ Head(q) \notin M => Silent(q, M)
<1> DEFINE r == Tail(q)
<1>1. /\ r \in Seq(S) /\ Len(r) = Len(q) - 1 /\ Len(q) \in Nat \ {0}
      /\ \A i \in 1..Len(r) : r[i] = q[i + 1]
      /\ Head(q) = q[1] /\ Head(q) \in S
  OBVIOUS
<1>2. DOMAIN r = 1..Len(q) - 1 /\ DOMAIN q = 1..Len(q)
  BY <1>1
<1> HIDE DEF r
<1>3. LastIn(r, M, R)
  <2> SUFFICES ASSUME NEW i \in DOMAIN r, r[i] \in M,
                      \A j \in DOMAIN r : j > i => r[j] \notin M
               PROVE  r[i] \in R
    BY DEF LastIn
  <2>1. i + 1 \in DOMAIN q /\ q[i + 1] = r[i]
    BY <1>1, <1>2
  <2>2. ASSUME NEW j \in DOMAIN q, j > i + 1 PROVE q[j] \notin M
    <3>1. j - 1 \in DOMAIN r /\ j - 1 > i /\ r[j - 1] = q[j]
      BY <1>1, <1>2, <2>2
    <3> QED
      BY <3>1
  <2> QED
    BY <2>1, <2>2 DEF LastIn
<1>4. ASSUME Silent(r, M), NEW j \in DOMAIN q, j > 1 PROVE q[j] \notin M
  <2>1. j - 1 \in DOMAIN r /\ r[j - 1] = q[j]
    BY <1>1, <1>2, <1>4
  <2> QED
    BY <2>1, <1>4 DEF Silent
<1>5. ASSUME Silent(r, M), Head(q) \in M PROVE Head(q) \in R
  <2>1. 1 \in DOMAIN q
    BY <1>1, <1>2
  <2> QED
    BY <2>1, <1>1, <1>4, <1>5 DEF LastIn
<1>6. ASSUME Silent(r, M), Head(q) \notin M PROVE Silent(q, M)
  BY <1>1, <1>2, <1>4, <1>6 DEF Silent
<1> QED
  BY <1>1, <1>3, <1>5, <1>6 DEF r

\* Nothing is wrong, and nothing said, where no line is.
LEMMA EmptyWord == ASSUME NEW M, NEW R PROVE LastIn(<<>>, M, R) /\ Silent(<<>>, M)
  BY DEF LastIn, Silent

-----------------------------------------------------------------------------
(* Buttons and scenes.                                                       *)

\* A scene is never taken for a button, and a button is what its numbers say.
LEMMA KeysDiffer ==
    ASSUME system \in Systems
    PROVE  /\ \A k \in Keys : k \in Nat \X Nat /\ k = <<k[1], k[2]>>
           /\ \A s : SceneKey(s) \notin Keys
<1>1. Keys \subseteq Nat \X Nat
  BY WallAssumption DEF WallAssumption, Keys
<1>2. ASSUME NEW s PROVE SceneKey(s) \notin Nat \X Nat
  <2>1. Len(SceneKey(s)) = 1
    BY DEF SceneKey
  <2>2. \A k \in Nat \X Nat : Len(k) = 2
    OBVIOUS
  <2> QED
    BY <2>1, <2>2
<1> QED
  BY <1>1, <1>2

\* A line is of a button or of a scene.
LEMMA LineIs ==
    ASSUME NEW l \in Lines
    PROVE  \/ \E k \in Keys : l \in ButtonLines(k) \cup OddLines(k)
           \/ \E s \in Scenes : l \in SceneLines(s)
  BY DEF Lines

\* What a line of a button is, and what it does not say.
LEMMA OfButton ==
    ASSUME system \in Systems, NEW l \in Lines, l.of = "button"
    PROVE  /\ Key(l) \in Keys /\ Key(l) = <<l.idx, l.button>>
           /\ l.action \in Touches
           /\ l.action # "odd" => l \in ButtonLines(Key(l))
           /\ \A k \in Keys : l \in ButtonLines(k) => k = Key(l) /\ l.action # "odd"
           /\ \A s \in Scenes : l \notin SceneLines(s)
<1>1. PICK k \in Keys : l \in ButtonLines(k) \cup OddLines(k)
  <2>1. ASSUME NEW s \in Scenes PROVE l \notin SceneLines(s)
    BY DEF SceneLines
  <2> QED
    BY <2>1, LineIs
<1>2. k = <<k[1], k[2]>> /\ \A m \in Keys : m = <<m[1], m[2]>>
  BY KeysDiffer
<1>3. l.idx = k[1] /\ l.button = k[2] /\ Key(l) = k
  BY <1>1, <1>2 DEF ButtonLines, OddLines, Key
<1>4. l.action \in Touches /\ (l.action # "odd" => l \in ButtonLines(k))
  BY <1>1 DEF ButtonLines, OddLines, Touches
<1>5. ASSUME NEW m \in Keys, l \in ButtonLines(m) PROVE m = k /\ l.action # "odd"
  <2>1. l.idx = m[1] /\ l.button = m[2] /\ l.action \in {"tap", "press", "release"}
    BY <1>5 DEF ButtonLines
  <2> QED
    BY <2>1, <1>2, <1>3
<1>6. \A s \in Scenes : l \notin SceneLines(s)
  BY DEF SceneLines
<1>7. Key(l) = <<l.idx, l.button>>
  BY DEF Key
<1> QED
  BY <1>3, <1>4, <1>5, <1>6, <1>7

\* The same of a line of a scene.
LEMMA OfScene ==
    ASSUME NEW l \in Lines, l.of = "scene"
    PROVE  /\ l.idx \in Scenes /\ Key(l) = SceneKey(l.idx)
           /\ l.action \in BOOLEAN
           /\ l \in SceneLines(l.idx)
           /\ \A s \in Scenes : l \in SceneLines(s) => s = l.idx
           /\ \A k \in Keys : l \notin ButtonLines(k)
<1>1. ASSUME NEW k \in Keys PROVE l \notin ButtonLines(k) /\ l \notin OddLines(k)
  BY DEF ButtonLines, OddLines
<1>2. PICK s \in Scenes : l \in SceneLines(s)
  BY <1>1, LineIs
<1>3. l.idx = s /\ l.action \in BOOLEAN
  BY <1>2 DEF SceneLines
<1>4. \A r \in Scenes : l \in SceneLines(r) => r = l.idx
  BY DEF SceneLines
<1>5. Key(l) = SceneKey(l.idx)
  BY DEF Key
<1> QED
  BY <1>1, <1>2, <1>3, <1>4, <1>5

-----------------------------------------------------------------------------
(* Steps.                                                                    *)

\* What a step has to keep of lines and of what is shown.
Words == LineOK /\ LastWordsRight /\ ShownRight

\* A clean slate: nothing is on, nothing is said.
LEMMA StartsWell == Init => TypeOK /\ Words /\ CallsOK
<1> SUFFICES ASSUME Init PROVE TypeOK /\ Words /\ CallsOK
  OBVIOUS
<1>1. TypeOK
  BY DEF Init, TypeOK
<1>2. LineOK
  BY DEF Init, LineOK
<1>3. LastWordsRight
  BY EmptyWord DEF Init, LastWordsRight
<1>4. ShownRight
  BY DEF Init, ShownRight
<1>5. CallsOK
  BY DEF Init, CallsOK, Idle
<1> QED
  BY <1>1, <1>2, <1>3, <1>4, <1>5 DEF Words

\* The buttons, and so the lines, of an entry never change.
LEMMA SameKeys == system' = system => Keys' = Keys /\ Lines' = Lines
  BY DEF Keys, Lines

\* A step that neither says, hears nor shows anything.
LEMMA StillKeeps ==
    ASSUME Words, system' = system, line' = line, link' = link \/ link' = "up",
           UNCHANGED <<house, shown>>
    PROVE  Words'
<1>1. Keys' = Keys /\ Lines' = Lines
  BY SameKeys
<1>2. wall' = wall /\ lit' = lit /\ switches' = switches /\ scenes' = scenes /\ missed' = missed
  BY DEF house, shown
<1>3. LineOK'
  BY <1>1 DEF Words, LineOK
<1>4. LastWordsRight'
  BY <1>1, <1>2 DEF Words, LastWordsRight, RightOnes, RightScenes
<1>5. ShownRight'
  BY <1>1, <1>2 DEF Words, ShownRight
<1> QED
  BY <1>3, <1>4, <1>5 DEF Words

\* A touch is the last word on its button, or it is missed.
LEMMA TouchKeeps ==
    ASSUME TypeOK, Words, NEW k \in Keys, NEW a \in Touches, Touched(k, a)
    PROVE  Words'
<1> DEFINE l == [of |-> "button", idx |-> k[1], button |-> k[2], action |-> a]
<1>1. /\ system \in Systems /\ system' = system /\ link' = link
      /\ lit' = lit /\ switches' = switches /\ scenes' = scenes
      /\ wall \in [Keys -> {"up", "down", "tapped"}]
      /\ wall' = [wall EXCEPT ![k] = Leaves(a, wall[k])]
  BY DEF Touched, TypeOK
<1>2. Keys' = Keys /\ Lines' = Lines
  BY <1>1, SameKeys
<1>3. \A m \in Keys : m # k \/ a = "odd" => wall'[m] = wall[m] /\ RightOnes(m)' = RightOnes(m)
  <2>1. ASSUME NEW m \in Keys, m # k \/ a = "odd" PROVE wall'[m] = wall[m]
    <3>1. CASE m # k
      BY <1>1, <3>1
    <3>2. CASE m = k /\ a = "odd"
      BY <1>1, <3>2 DEF Leaves
    <3> QED
      BY <2>1, <3>1, <3>2
  <2> QED
    BY <2>1 DEF RightOnes
<1>4. \A s \in Scenes : RightScenes(s)' = RightScenes(s)
  BY <1>1 DEF RightScenes
<1>5. CASE link = "up"
  <2>1. line' = Append(line, l) /\ missed' = missed
    BY <1>5 DEF Touched, Reports, Pushes
  <2>2. l \in ButtonLines(k) \cup OddLines(k) /\ (a # "odd" => l \in ButtonLines(k))
    BY DEF ButtonLines, OddLines, Touches
  <2>3. l \in Lines /\ l.of = "button" /\ l.action = a /\ Key(l) = k
    <3>1. Key(l) = <<k[1], k[2]>>
      BY DEF Key
    <3> QED
      BY <2>2, <3>1, <1>1, KeysDiffer DEF Lines
  <2> HIDE DEF l
  <2>4. LineOK'
    <3>1. line \in Seq(Lines) /\ line' \in Seq(Lines)
      BY <2>1, <2>3 DEF Words, LineOK
    <3>2. \A i \in DOMAIN line' : line'[i] = l \/ (i \in DOMAIN line /\ line'[i] = line[i])
      BY <2>1, <2>3, <3>1
    <3>3. system = "elegance" => a # "tap"
      BY DEF Touched
    <3> QED
      BY <3>1, <3>2, <3>3, <1>1, <1>2, <1>5, <2>3 DEF Words, LineOK
  <2>5. \A m \in Keys : l \in ButtonLines(m) => m = k /\ a # "odd"
    BY <2>3, <1>1, OfButton
  <2>6. \A s \in Scenes : l \notin SceneLines(s)
    BY <2>3, <1>1, OfButton
  <2>7. ASSUME NEW m \in Keys PROVE LastIn(line', ButtonLines(m), RightOnes(m)')
    <3>0. LastIn(line, ButtonLines(m), RightOnes(m)) /\ line \in Seq(Lines)
      BY DEF Words, LastWordsRight, LineOK
    <3>1. CASE m = k /\ a # "odd"
      <4>1. wall'[k] # "up" <=> a # "release"
        <5>1. wall'[k] = Leaves(a, wall[k])
          BY <1>1
        <5> QED
          BY <5>1, <3>1 DEF Leaves, Touches
      <4>2. l \in RightOnes(k)'
        BY <4>1, <2>2, <2>3, <3>1 DEF RightOnes
      <4> QED
        BY <4>2, <3>0, <3>1, <2>1, <2>2, <2>3, AppendWord
    <3>2. CASE m # k \/ a = "odd"
      BY <3>0, <3>2, <1>3, <2>1, <2>3, <2>5, AppendWord
    <3> QED
      BY <3>1, <3>2
  <2>8. ASSUME NEW s \in Scenes PROVE LastIn(line', SceneLines(s), RightScenes(s)')
    BY <1>4, <2>1, <2>3, <2>6, AppendWord DEF Words, LastWordsRight, LineOK
  <2>9. ASSUME NEW m \in Keys, m \notin missed', Silent(line', ButtonLines(m))
        PROVE  switches'[m] <=> wall'[m] # "up"
    <3>1. Silent(line, ButtonLines(m)) /\ l \notin ButtonLines(m)
      BY <2>1, <2>3, <2>9, AppendWord DEF Words, LineOK
    <3>2. m # k \/ a = "odd"
      BY <3>1, <2>2
    <3> QED
      BY <3>1, <3>2, <2>1, <2>9, <1>1, <1>3 DEF Words, ShownRight
  <2>10. ASSUME NEW s \in Scenes, SceneKey(s) \notin missed', Silent(line', SceneLines(s))
         PROVE  scenes'[s] <=> lit'[s]
    <3>1. Silent(line, SceneLines(s))
      BY <2>1, <2>3, <2>10, AppendWord DEF Words, LineOK
    <3> QED
      BY <3>1, <2>1, <2>10, <1>1 DEF Words, ShownRight
  <2>11. LastWordsRight'
    BY <1>2, <2>7, <2>8 DEF LastWordsRight
  <2>12. ShownRight'
    BY <1>2, <2>9, <2>10 DEF ShownRight, SceneKey
  <2> QED
    BY <2>4, <2>11, <2>12 DEF Words
<1>6. CASE link # "up"
  <2>1. line' = line /\ missed' = missed \cup {k} /\ line = <<>>
    BY <1>6 DEF Touched, Reports, TypeOK, Words, LineOK
  <2>2. LineOK'
    BY <2>1, <1>1, <1>2 DEF Words, LineOK
  <2>3. LastWordsRight'
    BY <2>1, EmptyWord DEF LastWordsRight
  <2>4. \A m \in Keys : Silent(line', ButtonLines(m)) => Silent(line, ButtonLines(m))
    BY <2>1
  <2>5. ShownRight'
    BY <2>1, <1>1, <1>2, <1>3 DEF Words, ShownRight, SceneKey
  <2> QED
    BY <2>2, <2>3, <2>5 DEF Words
<1> QED
  BY <1>5, <1>6

\* JetStream tells of a scene: the last word on it.
LEMMA ToldKeeps ==
    ASSUME TypeOK, Words, NEW s \in Scenes, NEW on \in BOOLEAN,
           system = "jetstream", link = "up", Tells(s, on),
           UNCHANGED <<system, link, wall, switches, scenes>>,
           lit' = [lit EXCEPT ![s] = on]
    PROVE  Words'
<1> DEFINE l == [of |-> "scene", idx |-> s, action |-> on]
<1>1. line' = Append(line, l) /\ missed' = missed
  BY DEF Tells, Pushes
<1>2. Keys' = Keys /\ Lines' = Lines
  BY SameKeys
<1>3. l \in SceneLines(s) /\ l \in Lines /\ l.of = "scene" /\ l.idx = s
  BY DEF SceneLines, Lines
<1>4. lit \in [Scenes -> BOOLEAN] /\ (lit'[s] <=> on)
  BY DEF TypeOK
<1>5. l \in RightScenes(s)'
  <2>1. l.action <=> on
    OBVIOUS
  <2> QED
    BY <1>3, <1>4, <2>1 DEF RightScenes
<1> HIDE DEF l
<1>6. \A r \in Scenes \ {s} : lit'[r] = lit[r] /\ RightScenes(r)' = RightScenes(r)
  BY <1>4 DEF RightScenes
<1>7. \A k \in Keys : RightOnes(k)' = RightOnes(k) /\ l \notin ButtonLines(k)
  BY <1>3, OfScene DEF RightOnes
<1>8. \A r \in Scenes : l \in SceneLines(r) => r = s
  BY <1>3, OfScene
<1>9. line \in Seq(Lines)
  BY DEF Words, LineOK
<1>10. LineOK'
  BY <1>1, <1>2, <1>3, <1>9 DEF LineOK
<1>11. ASSUME NEW k \in Keys PROVE LastIn(line', ButtonLines(k), RightOnes(k)')
  BY <1>1, <1>3, <1>7, <1>9, AppendWord DEF Words, LastWordsRight
<1>12. ASSUME NEW r \in Scenes PROVE LastIn(line', SceneLines(r), RightScenes(r)')
  <2>0. LastIn(line, SceneLines(r), RightScenes(r))
    BY DEF Words, LastWordsRight
  <2>1. CASE r = s
    BY <2>0, <2>1, <1>1, <1>3, <1>5, <1>9, AppendWord
  <2>2. CASE r # s
    BY <2>0, <2>2, <1>1, <1>3, <1>6, <1>8, <1>9, AppendWord
  <2> QED
    BY <2>1, <2>2
<1>13. ASSUME NEW k \in Keys, k \notin missed', Silent(line', ButtonLines(k))
       PROVE  switches'[k] <=> wall'[k] # "up"
  <2>1. Silent(line, ButtonLines(k))
    BY <1>1, <1>3, <1>9, <1>13, AppendWord
  <2> QED
    BY <1>1, <1>13, <2>1 DEF Words, ShownRight
<1>14. ASSUME NEW r \in Scenes, SceneKey(r) \notin missed', Silent(line', SceneLines(r))
       PROVE  scenes'[r] <=> lit'[r]
  <2>1. Silent(line, SceneLines(r)) /\ l \notin SceneLines(r)
    BY <1>1, <1>3, <1>9, <1>14, AppendWord
  <2>2. r # s
    BY <2>1, <1>3
  <2> QED
    BY <1>1, <1>6, <1>14, <2>1, <2>2 DEF Words, ShownRight
<1>15. LastWordsRight'
  BY <1>2, <1>11, <1>12 DEF LastWordsRight
<1>16. ShownRight'
  BY <1>2, <1>13, <1>14 DEF ShownRight, SceneKey
<1> QED
  BY <1>10, <1>15, <1>16 DEF Words

\* What becomes of a scene without a word to us is missed, or shown at once.
LEMMA UntoldKeeps ==
    ASSUME TypeOK, Words, NEW s \in Scenes,
           system = "elegance" \/ link = "down",
           UNCHANGED <<system, link, line, wall, switches>>,
           missed' \cup {SceneKey(s)} = missed \cup {SceneKey(s)},
           \A r \in Scenes \ {s} : scenes'[r] = scenes[r] /\ lit'[r] = lit[r],
           SceneKey(s) \in missed' \/ (scenes'[s] <=> lit'[s])
    PROVE  Words'
<1>1. Keys' = Keys /\ Lines' = Lines
  BY SameKeys
<1>2. LineOK'
  BY <1>1 DEF Words, LineOK
<1>3. \A i \in DOMAIN line : line[i].of = "button"
  BY DEF Words, LineOK
<1>4. \A r \in Scenes : Silent(line, SceneLines(r))
  BY <1>3 DEF Silent, SceneLines
<1>5. LastWordsRight'
  <2>1. ASSUME NEW k \in Keys PROVE RightOnes(k)' = RightOnes(k)
    BY DEF RightOnes
  <2>2. ASSUME NEW r \in Scenes PROVE LastIn(line, SceneLines(r), RightScenes(r)')
    BY <1>4 DEF LastIn, Silent
  <2> QED
    BY <1>1, <2>1, <2>2 DEF Words, LastWordsRight
<1>6. ASSUME NEW k \in Keys, k \notin missed', Silent(line, ButtonLines(k))
      PROVE  switches'[k] <=> wall'[k] # "up"
  <2>1. k # SceneKey(s)
    BY KeysDiffer DEF TypeOK
  <2>2. k \notin missed
    BY <2>1, <1>6
  <2> QED
    BY <2>2, <1>6 DEF Words, ShownRight
<1>7. ASSUME NEW r \in Scenes, SceneKey(r) \notin missed' PROVE scenes'[r] <=> lit'[r]
  <2>1. CASE r # s
    <3>1. SceneKey(r) # SceneKey(s)
      BY <2>1 DEF SceneKey
    <3>2. SceneKey(r) \notin missed
      BY <3>1, <1>7
    <3> QED
      BY <3>2, <2>1, <1>4 DEF Words, ShownRight
  <2>2. CASE r = s
    BY <2>2, <1>7
  <2> QED
    BY <2>1, <2>2
<1>8. ShownRight'
  BY <1>1, <1>6, <1>7 DEF ShownRight, SceneKey
<1> QED
  BY <1>2, <1>5, <1>8 DEF Words

\* A line of a button is heard: its button is shown as the line says.
LEMMA ButtonKeeps == ASSUME TypeOK, Words, ButtonArrives PROVE Words'
<1> DEFINE l == Head(line)
<1>1. /\ system \in Systems /\ line \in Seq(Lines) /\ line # <<>> /\ line' = Tail(line)
      /\ l \in Lines /\ l.of = "button"
  BY TailWord DEF ButtonArrives, TypeOK, Words, LineOK
<1>2. /\ UNCHANGED <<system, link, wall, lit, scenes>>
      /\ switches \in [Keys -> BOOLEAN]
      /\ SwitchEvent(l)
  BY DEF ButtonArrives, house, TypeOK
<1> HIDE DEF l
<1>3. /\ Key(l) \in Keys /\ StateKey(l) = Key(l)
      /\ l.action # "odd" => l \in ButtonLines(Key(l))
      /\ \A k \in Keys : l \in ButtonLines(k) => k = Key(l) /\ l.action # "odd"
      /\ \A s \in Scenes : l \notin SceneLines(s)
  BY <1>1, OfButton DEF StateKey
<1>4. Keys' = Keys /\ Lines' = Lines
  BY <1>2, SameKeys
<1>5. LineOK'
  <2>1. line' \in Seq(Lines)
    BY <1>1
  <2>2. \A i \in DOMAIN line' : i + 1 \in DOMAIN line /\ line'[i] = line[i + 1]
    BY <1>1
  <2> QED
    BY <1>1, <1>2, <1>4, <2>1, <2>2 DEF Words, LineOK
<1>6. \A k \in Keys : RightOnes(k)' = RightOnes(k)
  BY <1>2 DEF RightOnes
<1>7. \A s \in Scenes : RightScenes(s)' = RightScenes(s)
  BY <1>2 DEF RightScenes
<1>8. LastWordsRight'
  <2>1. ASSUME NEW k \in Keys PROVE LastIn(line', ButtonLines(k), RightOnes(k)')
    BY <1>1, <1>6, TailWord DEF Words, LastWordsRight
  <2>2. ASSUME NEW s \in Scenes PROVE LastIn(line', SceneLines(s), RightScenes(s)')
    BY <1>1, <1>7, TailWord DEF Words, LastWordsRight
  <2> QED
    BY <1>4, <2>1, <2>2 DEF LastWordsRight
<1>9. ASSUME NEW k \in Keys, k \notin missed', Silent(line', ButtonLines(k))
      PROVE  switches'[k] <=> wall'[k] # "up"
  <2>0. LastIn(line, ButtonLines(k), RightOnes(k))
    BY DEF Words, LastWordsRight
  <2>1. CASE k = Key(l) /\ l.action # "odd"
    <3>1. switches' = [switches EXCEPT ![k] = l.action # "release"]
      BY <1>2, <1>3, <2>1 DEF SwitchEvent
    <3>2. switches'[k] <=> (l.action # "release")
      BY <1>2, <3>1
    <3>3. l \in RightOnes(k)
      BY <1>1, <1>3, <1>9, <2>0, <2>1, TailWord DEF l
    <3>4. (l.action # "release") <=> wall[k] # "up"
      BY <3>3 DEF RightOnes
    <3> QED
      BY <3>2, <3>4, <1>2
  <2>2. CASE k # Key(l) \/ l.action = "odd"
    <3>1. l \notin ButtonLines(k)
      BY <1>3, <2>2
    <3>2. Silent(line, ButtonLines(k))
      BY <1>1, <1>9, <2>0, <3>1, TailWord DEF l
    <3>3. switches'[k] = switches[k] /\ k \notin missed
      BY <1>2, <1>3, <1>9, <2>2 DEF SwitchEvent
    <3> QED
      BY <1>2, <3>2, <3>3 DEF Words, ShownRight
  <2> QED
    BY <2>1, <2>2
<1>10. ASSUME NEW s \in Scenes, SceneKey(s) \notin missed', Silent(line', SceneLines(s))
       PROVE  scenes'[s] <=> lit'[s]
  <2>1. Silent(line, SceneLines(s))
    BY <1>1, <1>3, <1>10, TailWord DEF l, Words, LastWordsRight
  <2>2. SceneKey(s) \notin missed
    <3>1. SceneKey(s) # Key(l)
      BY <1>1, <1>3, KeysDiffer
    <3> QED
      BY <3>1, <1>2, <1>10 DEF SwitchEvent
  <2> QED
    BY <1>2, <2>1, <2>2 DEF Words, ShownRight
<1>11. ShownRight'
  BY <1>4, <1>9, <1>10 DEF ShownRight, SceneKey
<1> QED
  BY <1>5, <1>8, <1>11 DEF Words

\* A line of a scene is heard.
LEMMA SceneKeeps == ASSUME TypeOK, Words, SceneArrives PROVE Words'
<1> DEFINE l == Head(line)
<1>1. /\ system \in Systems /\ line \in Seq(Lines) /\ line # <<>> /\ line' = Tail(line)
      /\ l \in Lines /\ l.of = "scene"
  BY TailWord DEF SceneArrives, TypeOK, Words, LineOK
<1>2. /\ UNCHANGED <<system, link, wall, lit, switches>>
      /\ scenes \in [Scenes -> BOOLEAN]
      /\ scenes' = [scenes EXCEPT ![l.idx] = l.action]
      /\ missed' = missed \ {Key(l)}
  BY DEF SceneArrives, house, TypeOK
<1> HIDE DEF l
<1>3. /\ l.idx \in Scenes /\ Key(l) = SceneKey(l.idx) /\ l.action \in BOOLEAN
      /\ l \in SceneLines(l.idx)
      /\ \A s \in Scenes : l \in SceneLines(s) => s = l.idx
      /\ \A k \in Keys : l \notin ButtonLines(k)
  BY <1>1, OfScene
<1>4. Keys' = Keys /\ Lines' = Lines
  BY <1>2, SameKeys
<1>5. LineOK'
  <2>1. line' \in Seq(Lines)
    BY <1>1
  <2>2. \A i \in DOMAIN line' : i + 1 \in DOMAIN line /\ line'[i] = line[i + 1]
    BY <1>1
  <2> QED
    BY <1>1, <1>2, <1>4, <2>1, <2>2 DEF Words, LineOK
<1>6. \A k \in Keys : RightOnes(k)' = RightOnes(k)
  BY <1>2 DEF RightOnes
<1>7. \A s \in Scenes : RightScenes(s)' = RightScenes(s)
  BY <1>2 DEF RightScenes
<1>8. LastWordsRight'
  <2>1. ASSUME NEW k \in Keys PROVE LastIn(line', ButtonLines(k), RightOnes(k)')
    BY <1>1, <1>6, TailWord DEF Words, LastWordsRight
  <2>2. ASSUME NEW s \in Scenes PROVE LastIn(line', SceneLines(s), RightScenes(s)')
    BY <1>1, <1>7, TailWord DEF Words, LastWordsRight
  <2> QED
    BY <1>4, <2>1, <2>2 DEF LastWordsRight
<1>9. ASSUME NEW k \in Keys, k \notin missed', Silent(line', ButtonLines(k))
      PROVE  switches'[k] <=> wall'[k] # "up"
  <2>1. Silent(line, ButtonLines(k))
    BY <1>1, <1>3, <1>9, TailWord DEF l, Words, LastWordsRight
  <2>2. k \notin missed
    <3>1. k # Key(l)
      BY <1>1, <1>3, KeysDiffer
    <3> QED
      BY <3>1, <1>2, <1>9
  <2> QED
    BY <1>2, <2>1, <2>2 DEF Words, ShownRight
<1>10. ASSUME NEW s \in Scenes, SceneKey(s) \notin missed', Silent(line', SceneLines(s))
       PROVE  scenes'[s] <=> lit'[s]
  <2>0. LastIn(line, SceneLines(s), RightScenes(s))
    BY DEF Words, LastWordsRight
  <2>1. CASE s = l.idx
    <3>1. scenes'[s] <=> l.action
      BY <1>2, <1>3, <2>1
    <3>2. l \in RightScenes(s)
      BY <1>1, <1>3, <1>10, <2>0, <2>1, TailWord DEF l
    <3>3. l.action <=> lit[s]
      BY <3>2 DEF RightScenes
    <3> QED
      BY <3>1, <3>3, <1>2
  <2>2. CASE s # l.idx
    <3>1. Silent(line, SceneLines(s))
      BY <1>1, <1>3, <1>10, <2>0, <2>2, TailWord DEF l
    <3>2. scenes'[s] = scenes[s]
      BY <1>2, <1>3, <2>2
    <3>3. SceneKey(s) \notin missed
      BY <1>2, <1>3, <1>10, <2>2 DEF SceneKey
    <3> QED
      BY <1>2, <3>1, <3>2, <3>3 DEF Words, ShownRight
  <2> QED
    BY <2>1, <2>2
<1>11. ShownRight'
  BY <1>4, <1>9, <1>10 DEF ShownRight, SceneKey
<1> QED
  BY <1>5, <1>8, <1>11 DEF Words

\* What was on the line when the link dropped is missed.
LEMMA DropKeeps == ASSUME TypeOK, Words, LinkDrops PROVE Words'
<1>1. /\ UNCHANGED <<system, wall, lit, switches, scenes>> /\ line' = <<>>
      /\ missed' = missed \cup {Key(line[i]) : i \in DOMAIN line}
  BY DEF LinkDrops, house
<1>2. Keys' = Keys /\ Lines' = Lines
  BY <1>1, SameKeys
<1>3. LineOK'
  BY <1>1 DEF LineOK
<1>4. LastWordsRight'
  BY <1>1, EmptyWord DEF LastWordsRight
<1>5. ASSUME NEW k \in Keys, k \notin missed' PROVE switches'[k] <=> wall'[k] # "up"
  <2>1. ASSUME NEW i \in DOMAIN line, line[i] \in ButtonLines(k) PROVE FALSE
    <3>1. Key(line[i]) = k
      BY <2>1, KeysDiffer DEF ButtonLines, Key, TypeOK
    <3> QED
      BY <3>1, <1>1, <1>5
  <2> QED
    BY <2>1, <1>1, <1>5 DEF Words, ShownRight, Silent
<1>6. ASSUME NEW s \in Scenes, SceneKey(s) \notin missed' PROVE scenes'[s] <=> lit'[s]
  <2>1. ASSUME NEW i \in DOMAIN line, line[i] \in SceneLines(s) PROVE FALSE
    <3>1. Key(line[i]) = SceneKey(s)
      BY <2>1 DEF SceneLines, Key
    <3> QED
      BY <3>1, <1>1, <1>6
  <2> QED
    BY <2>1, <1>1, <1>6 DEF Words, ShownRight, Silent
<1>7. ShownRight'
  BY <1>2, <1>5, <1>6 DEF ShownRight, SceneKey
<1> QED
  BY <1>3, <1>4, <1>7 DEF Words

\* A service call that is served.
LEMMA ServedKeeps ==
    ASSUME TypeOK, Words, CallsOK, NEW t \in Tasks[system], Served(t)
    PROVE  Words'
<1>1. UNCHANGED <<system, link, wall, switches>>
  BY DEF Served
<1>2. CASE (Presses(t) \/ Releases(t) \/ Taps(t)) /\ UNCHANGED <<line, lit, scenes, missed>>
  BY <1>1, <1>2, StillKeeps DEF house, shown
<1>3. ASSUME NEW on \in BOOLEAN, task[t][1] = IF on THEN "on" ELSE "off",
             Switches(t, task[t][2], on)
      PROVE  Words'
  <2> DEFINE s == task[t][2]
  <2>1. s \in Scenes
    BY <1>3 DEF CallsOK
  <2>2. /\ lit' = IF link = "up" THEN [lit EXCEPT ![s] = on] ELSE lit
        /\ scenes' = IF system = "jetstream" THEN scenes ELSE [scenes EXCEPT ![s] = on]
        /\ IF system = "jetstream" /\ link = "up" THEN Tells(s, on)
           ELSE /\ missed' = IF link = "up" THEN missed \ {SceneKey(s)}
                                            ELSE missed \cup {SceneKey(s)}
                /\ UNCHANGED line
    BY <1>3 DEF Switches, Publish
  <2>3. lit \in [Scenes -> BOOLEAN] /\ scenes \in [Scenes -> BOOLEAN]
        /\ system \in Systems /\ link \in {"up", "down"}
    BY DEF TypeOK
  <2> HIDE DEF s
  <2>4. CASE system = "jetstream" /\ link = "up"
    BY <1>1, <2>1, <2>2, <2>4, ToldKeeps
  <2>5. CASE ~(system = "jetstream" /\ link = "up")
    <3>1. \A r \in Scenes \ {s} : scenes'[r] = scenes[r] /\ lit'[r] = lit[r]
      BY <2>2, <2>3
    <3>2. SceneKey(s) \in missed' \/ (scenes'[s] <=> lit'[s])
      BY <2>1, <2>2, <2>3, <2>5 DEF Systems
    <3>3. missed' \cup {SceneKey(s)} = missed \cup {SceneKey(s)} /\ line' = line
      BY <2>2, <2>5
    <3>4. system = "elegance" \/ link = "down"
      BY <2>3, <2>5 DEF Systems
    <3> QED
      BY <1>1, <2>1, <3>1, <3>2, <3>3, <3>4, UntoldKeeps
  <2> QED
    BY <2>4, <2>5
<1> QED
  BY <1>2, <1>3 DEF Served

\* A scene that goes on or off on the wall.
LEMMA TurnKeeps ==
    ASSUME TypeOK, Words, NEW s \in Scenes, NEW on \in BOOLEAN, SceneTurns(s, on)
    PROVE  Words'
<1>1. UNCHANGED <<system, link, wall, switches, scenes>> /\ lit' = [lit EXCEPT ![s] = on]
  BY DEF SceneTurns
<1>2. lit \in [Scenes -> BOOLEAN] /\ system \in Systems /\ link \in {"up", "down"}
  BY DEF TypeOK
<1>3. CASE system = "jetstream" /\ link = "up"
  BY <1>1, <1>3, ToldKeeps DEF SceneTurns
<1>4. CASE ~(system = "jetstream" /\ link = "up")
  <2>1. missed' = missed \cup {SceneKey(s)} /\ line' = line
    BY <1>4 DEF SceneTurns, Tells
  <2>2. \A r \in Scenes \ {s} : scenes'[r] = scenes[r] /\ lit'[r] = lit[r]
    BY <1>1, <1>2
  <2>3. system = "elegance" \/ link = "down"
    BY <1>2, <1>4 DEF Systems
  <2>4. missed' \cup {SceneKey(s)} = missed \cup {SceneKey(s)} /\ SceneKey(s) \in missed'
    BY <2>1
  <2> QED
    BY <1>1, <2>1, <2>2, <2>3, <2>4, UntoldKeeps
<1> QED
  BY <1>3, <1>4

\* All steps together.
LEMMA StepsKeepWords == ASSUME TypeOK, Words, CallsOK, [Next]_vars PROVE Words'
<1>1. CASE Attaches
  BY <1>1, StillKeeps DEF Attaches
<1>2. CASE \E d \in DeviceIds : Registers(d)
  BY <1>2, StillKeeps DEF Registers
<1>3. CASE \E k \in Keys, a \in Touches : Touched(k, a)
  BY <1>3, TouchKeeps
<1>4. CASE \E s \in Scenes, on \in BOOLEAN : SceneTurns(s, on)
  BY <1>4, TurnKeeps
<1>5. CASE ButtonArrives
  BY <1>5, ButtonKeeps
<1>6. CASE SceneArrives
  BY <1>6, SceneKeeps
<1>7. CASE LinkDrops
  BY <1>7, DropKeeps
<1>8. CASE Reconnects
  BY <1>8, StillKeeps DEF Reconnects
<1>9. CASE \E t \in Tasks[system] : \E c \in Commands : Called(t, c)
  BY <1>9, StillKeeps DEF Called
<1>10. CASE \E t \in Tasks[system] : Served(t)
  BY <1>10, ServedKeeps
<1>11. CASE \E t \in Tasks[system] : Fails(t)
  BY <1>11, StillKeeps DEF Fails
<1>12. CASE \E t \in Tasks[system] : PauseEnds(t)
  BY <1>12, StillKeeps DEF PauseEnds
<1>13. CASE UNCHANGED vars
  BY <1>13, StillKeeps DEF vars, house, shown
<1> QED
  BY <1>1, <1>2, <1>3, <1>4, <1>5, <1>6, <1>7, <1>8, <1>9, <1>10, <1>11, <1>12, <1>13 DEF Next

-----------------------------------------------------------------------------
(* Types, and the calls.                                                     *)

\* A call that waits to switch a scene has one.
LEMMA StepsKeepCalls == ASSUME CallsOK, [Next]_vars PROVE CallsOK'
<1>1. system' = system
  BY DEF Next, vars, Attaches, Registers, Touched, SceneTurns, ButtonArrives, SceneArrives,
         LinkDrops, Reconnects, Called, Served, Fails, PauseEnds
<1>2. CASE task' = task
  BY <1>1, <1>2 DEF CallsOK
<1>3. ASSUME NEW t \in Tasks[system], NEW c, task' = [task EXCEPT ![t] = c],
             c[1] \in {"on", "off"} => c[2] \in Scenes
      PROVE  CallsOK'
  BY <1>1, <1>3 DEF CallsOK
<1>4. ASSUME NEW t \in Tasks[system], NEW c \in Commands, Called(t, c) PROVE CallsOK'
  <2>1. c[1] \in {"on", "off"} => c[2] \in Scenes
    BY DEF Commands
  <2> QED
    BY <1>3, <1>4, <2>1 DEF Called, Becomes
<1>5. ASSUME NEW t \in Tasks[system], Served(t) \/ Fails(t) PROVE CallsOK'
  <2>1. task' = [task EXCEPT ![t] = Idle] \/ task' = [task EXCEPT ![t] = <<"pause", task[t][2]>>]
    BY <1>5 DEF Served, Fails, Presses, Releases, Taps, Switches, Becomes
  <2> QED
    BY <1>3, <2>1 DEF Idle
<1>6. ASSUME NEW t \in Tasks[system], PauseEnds(t) PROVE CallsOK'
  <2>1. task' = [task EXCEPT ![t] = <<"release", task[t][2]>>]
    BY <1>6 DEF PauseEnds, Becomes
  <2> QED
    BY <1>3, <2>1
<1> QED
  BY <1>2, <1>4, <1>5, <1>6
     DEF Next, vars, calls, Attaches, Registers, Touched, SceneTurns, ButtonArrives, SceneArrives,
         LinkDrops, Reconnects

\* Every variable keeps to its type.
LEMMA StepsKeepTypes == ASSUME TypeOK, Words, CallsOK, [Next]_vars PROVE TypeOK'
<1> USE DEF TypeOK, house, shown, calls
<1>1. CASE Attaches
  BY <1>1 DEF Attaches, Keys
<1>2. CASE \E d \in DeviceIds : Registers(d)
  BY <1>2 DEF Registers, Keys
<1>3. ASSUME NEW k \in Keys, NEW a \in Touches, Touched(k, a) PROVE TypeOK'
  <2>1. Leaves(a, wall[k]) \in {"up", "down", "tapped"}
    BY DEF Leaves, Touches
  <2>2. wall' \in [Keys -> {"up", "down", "tapped"}]
    BY <1>3, <2>1 DEF Touched
  <2>3. missed' \subseteq Keys \cup {SceneKey(s) : s \in Scenes}
    BY <1>3 DEF Touched, Reports, Pushes
  <2> QED
    BY <1>3, <2>2, <2>3 DEF Touched, Keys
<1>4. ASSUME NEW s \in Scenes, NEW on \in BOOLEAN, SceneTurns(s, on) PROVE TypeOK'
  <2>1. missed' \subseteq Keys \cup {SceneKey(r) : r \in Scenes} /\ lit' \in [Scenes -> BOOLEAN]
    BY <1>4 DEF SceneTurns, Tells, Pushes
  <2> QED
    BY <1>4, <2>1 DEF SceneTurns, Keys
<1>5. CASE ButtonArrives
  <2>1. switches' \in [Keys -> BOOLEAN] /\ missed' \subseteq missed
    BY <1>5 DEF ButtonArrives, SwitchEvent
  <2> QED
    BY <1>5, <2>1 DEF ButtonArrives, Keys
<1>6. CASE SceneArrives
  <2>1. line \in Seq(Lines) /\ line # <<>>
    BY <1>6 DEF SceneArrives, Words, LineOK
  <2>2. Head(line).action \in BOOLEAN
    BY <1>6, <2>1, OfScene DEF SceneArrives
  <2>3. scenes' \in [Scenes -> BOOLEAN] /\ missed' \subseteq missed
    BY <1>6, <2>2 DEF SceneArrives
  <2> QED
    BY <1>6, <2>3 DEF SceneArrives, Keys
<1>7. CASE LinkDrops
  <2>1. \A i \in DOMAIN line : Key(line[i]) \in Keys \cup {SceneKey(s) : s \in Scenes}
    <3>1. ASSUME NEW i \in DOMAIN line
          PROVE  Key(line[i]) \in Keys \cup {SceneKey(s) : s \in Scenes}
      <4>1. line[i] \in Lines
        BY DEF Words, LineOK
      <4>2. CASE line[i].of = "button"
        BY <4>1, <4>2, OfButton
      <4>3. CASE line[i].of = "scene"
        BY <4>1, <4>3, OfScene
      <4>4. line[i].of \in {"button", "scene"}
        BY <4>1, LineIs DEF ButtonLines, OddLines, SceneLines
      <4> QED
        BY <4>2, <4>3, <4>4
    <3> QED
      BY <3>1
  <2>2. missed' \subseteq Keys \cup {SceneKey(s) : s \in Scenes}
    BY <1>7, <2>1 DEF LinkDrops
  <2>3. held' \in [SwitchIds -> {"no", "held", "stuck"}]
    BY <1>7 DEF LinkDrops
  <2> QED
    BY <1>7, <2>2, <2>3 DEF LinkDrops, Keys
<1>8. CASE Reconnects
  BY <1>8 DEF Reconnects, Keys
<1>9. ASSUME NEW t \in Tasks[system], NEW c \in Commands, Called(t, c) PROVE TypeOK'
  BY <1>9 DEF Called, Keys
<1>10. ASSUME NEW t \in Tasks[system], Served(t) PROVE TypeOK'
  <2>1. /\ UNCHANGED <<system, link, wall, switches, device>>
    BY <1>10 DEF Served
  <2>2. held' \in [SwitchIds -> {"no", "held", "stuck"}]
    BY <1>10 DEF Served, Presses, Releases, Taps, Arrives
  <2>3. /\ lit' \in [Scenes -> BOOLEAN] /\ scenes' \in [Scenes -> BOOLEAN]
        /\ missed' \subseteq Keys \cup {SceneKey(s) : s \in Scenes}
    <3>1. CASE Presses(t) \/ Releases(t) \/ Taps(t)
      BY <1>10, <3>1 DEF Served, Presses, Releases, Taps
    <3>2. ASSUME NEW on \in BOOLEAN, NEW s \in Scenes, Switches(t, s, on)
          PROVE  /\ lit' \in [Scenes -> BOOLEAN] /\ scenes' \in [Scenes -> BOOLEAN]
                 /\ missed' \subseteq Keys \cup {SceneKey(r) : r \in Scenes}
      BY <3>2 DEF Switches, Publish, Tells, Pushes
    <3> QED
      BY <1>10, <3>1, <3>2 DEF Served, CallsOK
  <2> QED
    BY <2>1, <2>2, <2>3 DEF Keys
<1>11. ASSUME NEW t \in Tasks[system], Fails(t) \/ PauseEnds(t) PROVE TypeOK'
  BY <1>11 DEF Fails, PauseEnds, Keys
<1>12. CASE UNCHANGED vars
  BY <1>12 DEF vars, Keys
<1> QED
  BY <1>1, <1>2, <1>3, <1>4, <1>5, <1>6, <1>7, <1>8, <1>9, <1>10, <1>11, <1>12 DEF Next

-----------------------------------------------------------------------------
(* Automations.                                                              *)

\* A subtype is of one button only.
LEMMA SubtypesDiffer ==
    ASSUME NEW i, NEW b, NEW j, NEW d
    PROVE  Subtype(i, b) = Subtype(j, d) <=> i = j /\ b = d
  BY DEF Subtype

\* What is listed for the bridge means what it says, and every button that the
\* entry has is in it with all its actions.
LEMMA ListedRight ==
    ASSUME TypeOK
    PROVE  /\ \A t \in Listed : /\ t.device \in DeviceIds /\ t.of \in Nat \X Nat
                               /\ t.subtype = Subtype(t.of[1], t.of[2])
           /\ \A k \in Keys, a \in {"tap", "press", "release"} :
                 /\ Configured(k) /\ device # NoDevice
                 /\ system = "elegance" => a # "tap"
                 => \E t \in Listed : t.type = a /\ t.of = k
<1>1. /\ SwitchIds \subseteq Nat /\ LoadIds \subseteq Nat /\ ButtonIds \subseteq Nat \X (1..3)
      /\ system \in Systems /\ device \in DeviceIds \cup {NoDevice}
  BY WallAssumption DEF WallAssumption, TypeOK
<1>2. \A a \in {"tap", "press", "release"}, i \in Nat, b \in Nat :
          LET t == Trigger(device, a, i, b) IN
          /\ t.device = device /\ t.type = a /\ t.of = <<i, b>> /\ t.of \in Nat \X Nat
          /\ t.subtype = Subtype(t.of[1], t.of[2])
  BY DEF Trigger
<1>3. ASSUME NEW t \in Listed
      PROVE  /\ t.device \in DeviceIds /\ t.of \in Nat \X Nat
             /\ t.subtype = Subtype(t.of[1], t.of[2])
  <2>1. device \in DeviceIds
    BY <1>1, <1>3 DEF Listed
  <2>2. PICK a \in {"tap", "press", "release"}, i \in Nat, b \in Nat :
             t = Trigger(device, a, i, b)
    <3>1. CASE system = "jetstream"
      <4>1. PICK a \in {"tap", "press", "release"},
                 i \in LoadIds \cup {p[1] : p \in ButtonIds}, b \in 1..3 :
                 t = Trigger(device, a, i, b)
        BY <1>3, <2>1, <3>1 DEF Listed
      <4>2. i \in Nat
        BY <1>1, <4>1
      <4> QED
        BY <4>1, <4>2
    <3>2. CASE system # "jetstream"
      <4>1. PICK a \in {"press", "release"}, i \in SwitchIds : t = Trigger(device, a, i, 0)
        BY <1>3, <2>1, <3>2 DEF Listed
      <4> QED
        BY <1>1, <4>1
    <3> QED
      BY <3>1, <3>2
  <2> QED
    BY <1>2, <2>1, <2>2
<1>4. ASSUME NEW k \in Keys, NEW a \in {"tap", "press", "release"},
             Configured(k), device # NoDevice, system = "elegance" => a # "tap"
      PROVE  \E t \in Listed : t.type = a /\ t.of = k
  <2>1. k \in Nat \X Nat /\ k = <<k[1], k[2]>>
    BY <1>1, KeysDiffer
  <2>2. CASE system = "jetstream"
    <3>1. k[2] \in 1..3
      BY <2>2, WallAssumption DEF WallAssumption, Keys
    <3>2. k[1] \in LoadIds \cup {p[1] : p \in ButtonIds}
      BY <1>4, <2>2 DEF Configured
    <3>3. Trigger(device, a, k[1], k[2]) \in Listed
      BY <1>4, <2>2, <3>1, <3>2 DEF Listed
    <3>4. LET t == Trigger(device, a, k[1], k[2]) IN t.type = a /\ t.of = k
      BY <2>1 DEF Trigger
    <3> QED
      BY <3>3, <3>4
  <2>3. CASE system = "elegance"
    <3>1. k[2] = 0
      BY <2>3, WallAssumption DEF WallAssumption, Keys
    <3>2. k[1] \in SwitchIds /\ a \in {"press", "release"}
      BY <1>4, <2>3 DEF Configured
    <3>3. Trigger(device, a, k[1], 0) \in Listed
      BY <1>4, <2>3, <3>2 DEF Listed
    <3>4. LET t == Trigger(device, a, k[1], 0) IN t.type = a /\ t.of = k
      BY <2>1, <3>1 DEF Trigger
    <3> QED
      BY <3>3, <3>4
  <2> QED
    BY <1>1, <2>2, <2>3 DEF Systems
<1> QED
  BY <1>3, <1>4

\* Automations are made from what is listed.
LEMMA StepsKeepAutomations ==
    ASSUME TypeOK, AutomationsOK, [Next]_vars
    PROVE  AutomationsOK'
<1>1. CASE Attaches
  BY <1>1, ListedRight DEF Attaches, AutomationsOK
<1>2. CASE ~Attaches
  <2>1. automations' = automations
    BY <1>2 DEF Next, vars, Registers, Touched, SceneTurns, ButtonArrives, SceneArrives,
           LinkDrops, Reconnects, Called, Served, Fails, PauseEnds
  <2> QED
    BY <2>1 DEF AutomationsOK
<1> QED
  BY <1>1, <1>2

\* The step in which a button is heard runs the automations that mean it.
LEMMA HeardRight ==
    ASSUME TypeOK, Words, AutomationsOK, AutomationsRunAsPressed, [Next]_vars
    PROVE  AutomationsRunAsPressed'
<1>1. CASE ButtonArrives
  <2> DEFINE l == Head(line)
  <2>1. /\ system' = system /\ device' = device /\ automations' = automations
        /\ heard' = [key |-> Key(l), action |-> l.action]
        /\ ran' = IF l.action = "odd" THEN {} ELSE Fired(l)
    BY <1>1 DEF ButtonArrives
  <2>2. /\ line \in Seq(Lines) /\ line # <<>> /\ l \in Lines /\ l.of = "button"
        /\ l = line[1] /\ 1 \in DOMAIN line
    BY <1>1 DEF ButtonArrives, Words, LineOK
  <2>3. system = "elegance" => l.action # "tap"
    BY <2>2 DEF Words, LineOK
  <2> HIDE DEF l
  <2>4. Key(l) \in Keys /\ Key(l) = <<l.idx, l.button>> /\ l.action \in Touches
    BY <2>2, OfButton DEF TypeOK
  <2>5. device \in DeviceIds \cup {NoDevice} /\ Key(l) \in Nat \X Nat
    BY <2>4, KeysDiffer DEF TypeOK
  <2>6. ASSUME l.action # "odd", NEW t \in automations
        PROVE  t \in Fired(l) <=> t.device = device /\ t.type = l.action /\ t.of = Key(l)
    <3>1. /\ t.device \in DeviceIds /\ t.of \in Nat \X Nat
          /\ t.subtype = Subtype(t.of[1], t.of[2])
      BY <2>6 DEF AutomationsOK
    <3>2. t.subtype = Subtype(l.idx, l.button) <=> t.of[1] = l.idx /\ t.of[2] = l.button
      BY <3>1, SubtypesDiffer
    <3>3. t.of = Key(l) <=> t.of[1] = l.idx /\ t.of[2] = l.button
      BY <3>1, <2>4, <2>5
    <3> QED
      BY <3>1, <3>2, <3>3, <2>5, <2>6, DeviceAssumption DEF Fired, DeviceAssumption
  <2>7. ASSUME l.action # "odd"
        PROVE  Fired(l) = {t \in automations :
                             t.device = device /\ t.type = l.action /\ t.of = Key(l)}
    <3>1. Fired(l) \subseteq automations
      BY DEF Fired
    <3> QED
      BY <2>6, <2>7, <3>1
  <2>8. ASSUME l.action # "odd", Configured(Key(l)), device # NoDevice
        PROVE  \E t \in Listed : t.type = l.action /\ t.of = Key(l)
    BY <2>3, <2>4, <2>8, ListedRight DEF Touches
  <2>9. Listed' = Listed /\ \A k : Configured(k)' = Configured(k)
    BY <2>1 DEF Listed, Configured
  <2> QED
    BY <2>1, <2>7, <2>8, <2>9 DEF AutomationsRunAsPressed
<1>2. CASE heard' = Nothing
  BY <1>2 DEF AutomationsRunAsPressed, Nothing
<1>3. CASE UNCHANGED vars
  BY <1>3 DEF vars, AutomationsRunAsPressed, Listed, Configured
<1> QED
  BY <1>1, <1>2, <1>3
     DEF Next, Quiet, Attaches, Registers, Touched, SceneTurns, SceneArrives,
         LinkDrops, Reconnects, Called, Served, Fails, PauseEnds

-----------------------------------------------------------------------------
(* The theorems.                                                             *)

\* What holds of every state: types, words, calls and automations.
THEOREM Invariance == Spec => [](TypeOK /\ Words /\ CallsOK)
<1>1. Init => TypeOK /\ Words /\ CallsOK
  BY StartsWell
<1>2. TypeOK /\ Words /\ CallsOK /\ [Next]_vars => (TypeOK /\ Words /\ CallsOK)'
  BY StepsKeepTypes, StepsKeepWords, StepsKeepCalls
<1> QED
  BY <1>1, <1>2, PTL DEF Spec

\* Every variable of the buttons keeps to its type.
THEOREM TypeCorrect == Spec => []TypeOK
  BY Invariance, PTL

\* A press on the wall runs the automations for that button and that action of the
\* bridge as it is registered now, and no others (_fire_button_event, button_subtype),
\* for any keypads, device ids and automations.
THEOREM PressesRunTheirAutomations == Spec => []AutomationsRunAsPressed
<1>1. Init => AutomationsOK /\ AutomationsRunAsPressed
  BY DEF Init, AutomationsOK, AutomationsRunAsPressed, Nothing
<1>2. TypeOK /\ Words /\ AutomationsOK /\ AutomationsRunAsPressed /\ [Next]_vars
        => (AutomationsOK /\ AutomationsRunAsPressed)'
  BY StepsKeepAutomations, HeardRight
<1> QED
  BY <1>1, <1>2, Invariance, PTL DEF Spec

\* A button whose lines have arrived is shown on if it is held down and off if it was
\* released; if it was tapped it is shown on, though nobody holds it. The exception
\* is a touch while the link was down (_on_switch_event). For any number of buttons.
THEOREM ButtonsAreShown == Spec => []ButtonsAsLeft
<1>1. TypeOK /\ Words => ButtonsAsLeft
  <2> SUFFICES ASSUME TypeOK, Words, NEW k \in Keys \ missed,
                      \A i \in DOMAIN line : Key(line[i]) # k
               PROVE  switches[k] <=> wall[k] # "up"
    BY DEF ButtonsAsLeft
  <2>1. Silent(line, ButtonLines(k))
    BY KeysDiffer DEF Silent, ButtonLines, Key, TypeOK
  <2> QED
    BY <2>1 DEF Words, ShownRight
<1> QED
  BY <1>1, Invariance, PTL

\* A scene is shown as it was switched, by what the bridge tells or by what was
\* commanded (activate_scene, _on_scene_event), for any number of scenes and calls.
THEOREM ScenesAreShown == Spec => []ScenesAsSwitched
<1>1. TypeOK /\ Words => ScenesAsSwitched
  <2> SUFFICES ASSUME TypeOK, Words, NEW s \in Scenes, SceneKey(s) \notin missed,
                      \A i \in DOMAIN line : Key(line[i]) # SceneKey(s)
               PROVE  scenes[s] = lit[s]
    BY DEF ScenesAsSwitched
  <2>1. Silent(line, SceneLines(s))
    BY DEF Silent, SceneLines, Key
  <2>2. scenes[s] <=> lit[s]
    BY <2>1 DEF Words, ShownRight
  <2>3. scenes[s] \in BOOLEAN /\ lit[s] \in BOOLEAN
    BY DEF TypeOK
  <2> QED
    BY <2>2, <2>3
<1> QED
  BY <1>1, Invariance, PTL
=============================================================================
