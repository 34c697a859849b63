---------------------------- MODULE MCLightLine ----------------------------
(* The days of the run "lights": every brightness of one light, bitmaps with    *)
(* the loads and switches at the borders of bytes and boards, and days where    *)
(* reports and replies meet.                                                  *)
EXTENDS LightLine

Ask(op) == [op |-> op]
On(n, b) == [op |-> "turn_on", load |-> n, brightness |-> b]
Off(n) == [op |-> "turn_off", load |-> n]

Day(s, os, on, down) == [system |-> s, orders |-> os, lit |-> on, pressed |-> down]

SomeDays ==
    {Day(s, <<On(192, b)>>, {}, {}) : s \in Systems, b \in 1..255}
    \cup {Day("elegance", <<Ask("loads")>>, on, {}) : on \in SUBSET {1, 8, 9, 24, 25, 192}}
    \cup {Day("elegance", <<Ask("switches")>>, {}, down) :
             down \in SUBSET {1, 8, 9, 16, 17, 384} }
    \cup {Day("elegance", <<Ask("switches"), Ask("switches")>>, {}, {4, 380}),
          Day("elegance", <<On(25, 1), Ask("loads"), On(25, 128), Off(2)>>, {2, 24}, {}),
          Day("elegance", <<Off(24), On(1, 200), Ask("loads"), Ask("switches")>>, {24}, {5}),
          Day("jetstream", <<On(1, 2), Off(1), On(2, 100), On(1, 254)>>, {}, {})}
=============================================================================
