------------------------------ MODULE LightLine ------------------------------
(* From a light's slider to the bridge and back, byte by byte: the command,   *)
(* the report of the load, the reader that puts lines together (_read_line),  *)
(* and the state that is shown. Bytes may be lost on the way.                 *)
EXTENDS Codecs

CONSTANTS
    ReadMax,    \* READ_MAX_BUFFER
    Lights,     \* the loads that are lights
    Relays,     \* OPT_NONDIMMABLE_LOADS
    Days,       \* what is asked of the lights and of the bridge, in order, and
                \* the loads and switches that are on at first
    MaxLost,    \* bound: bytes lost in all
    MaxComing   \* bound: lines on the way

\* JetStream has no bulk queries (supports_bulk_query).
Systems == {"elegance", "jetstream"}
Orders(s) ==
    [op : {"turn_on"}, load : Lights, brightness : 1..255]
        \cup [op : {"turn_off"}, load : Lights]
        \cup [op : IF s = "elegance" THEN {"loads", "switches"} ELSE {}]

LoadNumbers   == 1..192
SwitchNumbers == 1..384

\* The longest reply has 96 digits.
ASSUME LightAssumption ==
    /\ ReadMax \in Nat /\ ReadMax > 96
    /\ MaxLost \in Nat /\ MaxComing \in Nat
    /\ Lights \subseteq LoadNumbers /\ Relays \subseteq Lights
    /\ \A d \in Days :
          /\ d.system \in Systems /\ d.orders \in Seq(Orders(d.system))
          /\ d.lit \subseteq LoadNumbers /\ d.pressed \subseteq SwitchNumbers

VARIABLES
    system,     \* the kind of bridge
    orders,     \* what is yet to be asked
    levels,     \* external: the level of each load that is on
    pressed,    \* external: the switches that are on
    coming,     \* external: what the bridge says, as far as it did not arrive
    at,         \* the bytes of the first of it that arrived or were lost
    buf,        \* the buffer of _read_line
    torn,       \* ghost: bytes of the line that is read were lost or given away
    losses,     \* ghost: the bytes lost in all
    returned,   \* the line returned last, and what was sent
    asking,     \* the request that is out, "none" if there is none
    answer,     \* what the last request came to, and what the line was to say
    shown,      \* data["loads"], the level of each load that is on
    wanted      \* ghost: the brightness last asked of each light

device    == <<system, levels, pressed>>
wire      == <<coming, at, buf, torn, losses>>
asked     == <<asking, answer>>
lightVars == <<orders, device, wire, returned, asked, shown, wanted>>

Level(f, n) == IF n \in DOMAIN f THEN f[n] ELSE 0
With(f, n, l) ==
    [m \in IF l = 0 THEN DOMAIN f \ {n} ELSE DOMAIN f \cup {n} |->
        IF m = n THEN l ELSE f[m]]

NoLine   == [line |-> <<>>, whole |-> FALSE, said |-> <<>>]
NoAnswer == [of |-> "none", is |-> {}, was |-> {}]

LightInit ==
    \E d \in Days :
        /\ system = d.system /\ orders = d.orders
        /\ levels = [n \in d.lit |-> 99] /\ pressed = d.pressed
        /\ coming = <<>> /\ at = 0 /\ buf = <<>>
        /\ torn = FALSE /\ losses = 0 /\ returned = NoLine
        /\ asking = "none" /\ answer = NoAnswer
        /\ shown = <<>> /\ wanted = <<>>

-----------------------------------------------------------------------------
(* Orders, and what the bridge says to them.                                 *)

\* The bridge reports the level of a load, or answers what is on.
Report(n, l)  == [of |-> "load", load |-> n, level |-> l, on |-> {}]
Reply(of, on) == [of |-> of, load |-> 0, level |-> 0, on |-> on]

\* The bytes of it, and those that end each line.
Said(s, m) ==
    IF m.of = "load" THEN LoadLine(s, m.load, m.level)
    ELSE IF m.of = "loads" THEN Bitmap(m.on, 8, 3) ELSE Bitmap(m.on, 24, 2)
Ending(s) == IF s = "jetstream" THEN <<CR, LF>> ELSE <<CR>>

Tells(m) ==
    /\ coming' = Append(coming, m)
    /\ UNCHANGED <<at, buf, torn, losses>>

\* A command takes its turn once the request that is out is answered (_lock).
Ordered(op) ==
    /\ orders # <<>> /\ Head(orders).op = op
    /\ asking = "none" /\ Len(coming) < MaxComing
    /\ orders' = Tail(orders)

\* A load that is switched or dimmed reports its level.
Becomes(n, l) ==
    /\ levels' = With(levels, n, l)
    /\ Tells(Report(n, l))

\* async_turn_on with a brightness: ^E, or ^A for a relay.
TurnOn ==
    /\ Ordered("turn_on")
    /\ LET o == Head(orders) IN
       /\ Becomes(o.load, IF o.load \in Relays THEN 99 ELSE LevelOf(o.brightness))
       /\ wanted' = With(wanted, o.load, o.brightness)
    /\ UNCHANGED <<system, pressed, returned, asked, shown>>

\* async_turn_off: ^B.
TurnOff ==
    /\ Ordered("turn_off")
    /\ LET n == Head(orders).load IN Becomes(n, 0) /\ wanted' = With(wanted, n, 0)
    /\ UNCHANGED <<system, pressed, returned, asked, shown>>

\* get_all_load_states and get_all_switch_states.
Query(of, on) ==
    /\ Ordered(of)
    /\ asking' = of
    /\ Tells(Reply(of, on))
    /\ UNCHANGED <<device, returned, answer, shown, wanted>>
AsksLoads    == Query("loads", DOMAIN levels)
AsksSwitches == Query("switches", pressed)

\* The time-out of a request whose reply never became a line.
GivesUp ==
    /\ asking # "none" /\ coming = <<>>
    /\ asking' = "none"
    /\ UNCHANGED <<orders, device, wire, returned, answer, shown, wanted>>

-----------------------------------------------------------------------------
(* The answer to a request.                                                  *)

\* parse_load_bitmap and parse_switch_bitmap: what is not a bitmap is an error.
Parsed(s) ==
    IF asking = "loads" /\ IsBitmap(s, 8, 3)
    THEN [of |-> "loads", is |-> SetBits(s, 8, 3), was |-> Head(coming).on]
    ELSE IF asking = "switches" /\ IsBitmap(s, 24, 2)
    THEN [of |-> "switches", is |-> SetBits(s, 24, 2), was |-> Head(coming).on]
    ELSE [NoAnswer EXCEPT !.of = "error"]

\* _try_fulfill; then the caller parses, and _safety_poll merges what is lit: a
\* load that is on keeps its level, or has 99 where none is known.
Fulfils(s) ==
    IF asking = "none" THEN UNCHANGED <<asked, shown>>
    ELSE /\ asking' = "none"
         /\ answer' = Parsed(s)
         /\ shown' = IF answer'.of # "loads" THEN shown
                     ELSE [n \in answer'.is |-> IF n \in DOMAIN shown THEN shown[n] ELSE 99]

-----------------------------------------------------------------------------
(* The reader.                                                               *)

\* _dispatch, of a line that is not empty.
Dispatch(s) ==
    IF s = <<>> THEN UNCHANGED <<asked, shown>>
    ELSE IF IsLoadLine(system, s)
    THEN /\ shown' = IF IsReadable(system, s)
                     THEN With(shown, LoadIn(system, s), LevelIn(system, s)) ELSE shown
         /\ UNCHANGED asked
    ELSE Fulfils(s)

Returns(s) ==
    /\ buf' = <<>>
    /\ returned' = [line |-> s, whole |-> ~torn, said |-> Said(system, Head(coming))]
    /\ Dispatch(s)

\* The next byte is through.
NextByte ==
    LET text == Said(system, Head(coming))
    IN IF at < Len(text) THEN text[at + 1] ELSE Ending(system)[at + 1 - Len(text)]
IsThrough ==
    IF at + 1 < Len(Said(system, Head(coming))) + Len(Ending(system))
    THEN at' = at + 1 /\ UNCHANGED coming
    ELSE at' = 0 /\ coming' = Tail(coming)

\* _read_line, for one byte: CR ends the line, LF is skipped, and a full buffer is
\* returned as it is.
FullBufferEarly(s) == Len(s) >= ReadMax - 5                  \* mutant
FullBuffer(s) == Len(s) >= ReadMax
LineFeedKept(c) ==                                           \* mutant
    buf' = Append(buf, c) /\ UNCHANGED <<torn, returned, asked, shown>>
LineFeed(c) == UNCHANGED <<buf, torn, returned, asked, shown>>

Gets(c) ==
    \/ c = CR /\ Returns(buf) /\ torn' = FALSE
    \/ c = LF /\ LineFeed(c)
    \/ /\ c \notin {CR, LF} /\ FullBuffer(Append(buf, c))
       /\ Returns(Append(buf, c)) /\ torn' = TRUE
    \/ /\ c \notin {CR, LF} /\ ~FullBuffer(Append(buf, c))
       /\ buf' = Append(buf, c) /\ UNCHANGED <<torn, returned, asked, shown>>

Reads ==
    /\ coming # <<>>
    /\ IsThrough /\ Gets(NextByte)
    /\ UNCHANGED <<orders, device, losses, wanted>>

\* External: a byte is lost on the line.
Loses ==
    /\ coming # <<>> /\ losses < MaxLost
    /\ IsThrough
    /\ losses' = losses + 1
    /\ torn' = (torn \/ NextByte # LF)
    /\ UNCHANGED <<orders, device, buf, returned, asked, shown, wanted>>

-----------------------------------------------------------------------------
LightNext == TurnOn \/ TurnOff \/ AsksLoads \/ AsksSwitches \/ GivesUp \/ Reads \/ Loses

LightSpec == LightInit /\ [][LightNext]_lightVars

-----------------------------------------------------------------------------
(* Safety.                                                                   *)

\* A line is returned as it was sent, whatever was lost before it: one that is as
\* long as any reply is not cut, CR and CRLF both end it, and nothing of an
\* earlier line is in it (_read_line).
LinesWhole == returned.whole => returned.line = returned.said

\* Once all reports are in, a light that was asked for a brightness shows one that
\* is at most 2 off and not 0, and asking for what is shown would not change its
\* level, also after a poll: "a low brightness must never round down to level 0"
\* (light.py).
BrightnessKept ==
    losses = 0 /\ coming = <<>> =>
        \A n \in DOMAIN wanted \ Relays :
            LET b == BrightnessOf(Level(shown, n)) IN
            /\ b \in 1..255 /\ b - wanted[n] \in -2..2
            /\ LevelOf(b) = Level(levels, n)

\* A bitmap that is accepted says what the bridge said was on in the line it came
\* in, at the borders of bytes and boards as elsewhere; a reply that lost a byte is
\* an error (parse_load_bitmap, parse_switch_bitmap). For MaxLost = 1: with 49 bytes
\* lost, the end of one reply and the text of the next, the older one is accepted.
BitmapRight == answer.of \in {"loads", "switches"} => answer.is = answer.was

=============================================================================
