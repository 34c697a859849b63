---------------------------- MODULE RequestLine ----------------------------
(* What the serial protocol promises those who call it: they stand in one     *)
(* line, are served in the order they came, and only the head of the line is  *)
(* ever answered, once. SerialProtocol implements this.                       *)
EXTENDS Sequences

CONSTANT Callers

VARIABLES
    line,       \* the callers, the head being served
    outcome     \* what the head has come to: "open", "reply" or "error"

vars == <<line, outcome>>

InLine(c) == \E i \in DOMAIN line : line[i] = c

Init == line = <<>> /\ outcome = "open"

Join(c) ==
    /\ ~InLine(c)
    /\ line' = Append(line, c)
    /\ UNCHANGED outcome

Answer ==
    /\ line # <<>> /\ outcome = "open"
    /\ outcome' = "reply"
    /\ UNCHANGED line

\* A time-out may still overtake an answer that was not picked up.
Fail ==
    /\ line # <<>> /\ outcome # "error"
    /\ outcome' = "error"
    /\ UNCHANGED line

Leave ==
    /\ line # <<>>
    /\ line' = Tail(line)
    /\ outcome' = "open"

Next == (\E c \in Callers : Join(c)) \/ Answer \/ Fail \/ Leave

Spec == Init /\ [][Next]_vars
=============================================================================
