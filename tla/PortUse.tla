------------------------------ MODULE PortUse ------------------------------
(* What one coordinator does with the serial port, as far as others notice:  *)
(* it opens the port when it is set up and reopens it after a drop. Once told  *)
(* to shut down it closes its transport and fires no further attempt; but one  *)
(* that is under way runs to its end. Even if it has yet to clear the lost     *)
(* transport it goes on to open the port, and closes what it opened after.     *)
(* Coordinator implements this; EntryLifecycle puts several on one port.      *)
VARIABLE use

Uses == [wire : {"none", "up", "cut", "closing"},
         work : {"idle", "clearing", "opening", "priming", "failed"},
         told : BOOLEAN]

\* A coordinator that async_init has just begun to connect.
Fresh == [wire |-> "none", work |-> "opening", told |-> FALSE]

\* What is left of wire `w` when an attempt of a coordinator that was told to
\* shut down ends: it closes what it opened, unless that is known to be lost.
Discards(w) ==
    CASE w = "up"  -> {"closing"}
      [] w = "cut" -> {"cut", "closing"}
      [] OTHER     -> {w}

\* An attempt, or the connect() of a set-up, comes to its end.
Ended(u) ==
    {[u EXCEPT !.work = "idle", !.wire = w] :
        w \in IF u.told THEN Discards(u.wire) ELSE {u.wire}}

Opens(u) ==
    LET open == [u EXCEPT !.wire = "up"] IN
    IF u.work = "opening" /\ u.wire = "none"
    THEN Ended(open) \cup {[open EXCEPT !.work = "priming"]}
    ELSE {}

Fails(u) ==
    IF u.work = "opening" THEN {[u EXCEPT !.work = w] : w \in {"idle", "failed"}} ELSE {}

Primed(u) == IF u.work = "priming" THEN Ended(u) ELSE {}

\* The reconnect timer fires: what is left of the lost transport goes first.
Retries(u) ==
    IF u.told \/ u.work # "idle" THEN {}
    ELSE CASE u.wire = "none" -> {[u EXCEPT !.work = "opening"]}
           [] u.wire = "cut"  -> {[u EXCEPT !.work = "clearing", !.wire = "closing"]}
           [] OTHER           -> {}

\* A transport is closed. An attempt that cleared it goes on to open the port, told
\* or not: between disconnect() and connect() nobody looks at _shutting_down.
Closed(u) ==
    IF u.wire # "closing" THEN {}
    ELSE {[u EXCEPT !.wire = "none",
                    !.work = IF @ = "clearing" THEN "opening" ELSE @]}

\* Told to shut down: the transport is closed, the attempt goes on.
Told(u) ==
    IF u.told THEN {}
    ELSE {[u EXCEPT !.told = TRUE,
                    !.wire = IF @ \in {"up", "cut"} THEN "closing" ELSE @]}

Dropped(u) == IF u.wire = "up" THEN {[u EXCEPT !.wire = "cut"]} ELSE {}

Steps(u) ==
    UNION {Opens(u), Fails(u), Primed(u), Retries(u), Closed(u), Told(u), Dropped(u)}

Init == use = Fresh
Next == use' \in Steps(use)
Spec == Init /\ [][Next]_use
=============================================================================
