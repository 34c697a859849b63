----------------------------- MODULE MCButtons -----------------------------
(* Instances of Buttons for TLC.                                              *)
EXTENDS Buttons

\* Elegance: one switch, which is configured. JetStream: device 1 is a load, device 2
\* a keypad of two buttons, which both report; the first is configured.
SmallWall == [elegance |-> {<<1, 0>>}, jetstream |-> {<<2, 1>>, <<2, 2>>}]
\* Two calls at once where a press takes two commands.
SomeTasks == [elegance |-> {1, 2}, jetstream |-> {1}]
SomeButtons == {<<2, 1>>}
=============================================================================
