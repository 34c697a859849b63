--------------------------- MODULE EntryLifecycle ---------------------------
(* One config entry (__init__.py): set-up, retry, and the reload that follows *)
(* every change of its options. Each set-up makes a coordinator of its own;   *)
(* one that was unloaded may still be at work when the next opens the port.   *)
(* Home Assistant runs set-up, unload and reload of an entry one at a time    *)
(* (entry.setup_lock); options may be saved at any moment.                    *)
EXTENDS Naturals

CONSTANTS
    Coords,     \* bound: coordinators that are not yet gone at the same time
    Options,    \* what the options may be
    MaxReloads  \* bound: reloads that wait for their turn

ASSUME EntryAssumption == Coords # {} /\ Options # {} /\ MaxReloads \in Nat

VARIABLES
    port,       \* external: can the serial port be opened, if nobody has it?
    entry,      \* how far the entry is
    current,    \* the coordinator in set-up, or in hass.data
    uses,       \* what each coordinator does with the port
    options,    \* entry.options
    built,      \* the options that the entities were made with
    heard,      \* _async_options_updated is registered
    reloads,    \* reloads that wait
    missed      \* ghost: options were saved after the entities had been made and
                \* before the listener was registered

outside == <<port, options>>
vars    == <<port, entry, current, uses, options, built, heard, reloads, missed>>

Port == INSTANCE PortUse WITH use <- uses

TypeOK ==
    /\ port \in {"ok", "gone"}
    /\ entry \in {"idle", "opening", "priming", "forwarding", "built", "loaded",
                  "retry", "unloading", "closing"}
    /\ current \in Coords
    /\ uses \in [Coords -> Port!Uses]
    /\ options \in Options /\ built \in Options
    /\ heard \in BOOLEAN /\ missed \in BOOLEAN
    /\ reloads \in 0..MaxReloads

\* A coordinator that will do nothing any more.
Spent == [wire |-> "none", work |-> "failed", told |-> FALSE]
Gone(u) ==
    \/ u.work = "failed"
    \/ u.told /\ u.work = "idle" /\ u.wire \in {"none", "cut"}

Init ==
    /\ port \in {"ok", "gone"}
    /\ entry = "idle"
    /\ current \in Coords
    /\ uses = [c \in Coords |-> Spent]
    /\ options \in Options /\ built = options
    /\ heard = FALSE /\ reloads = 0 /\ missed = FALSE

Becomes(c, after) == \E u \in after : uses' = [uses EXCEPT ![c] = u]

\* The serial port is exclusive (docs/UPGRADE_TESTING.md). A transport that lost
\* its cable may still stand in the way of the next, as long as somebody uses it.
Held(c)    == \E d \in Coords \ {c} : uses[d].wire \in {"up", "closing"}
MayFail(c) ==
    \/ port = "gone"
    \/ \E d \in Coords \ {c} : uses[d].wire # "none" /\ ~Gone(uses[d])
CanOpen(c) == port = "ok" /\ ~Held(c)

-----------------------------------------------------------------------------
(* async_setup_entry.                                                        *)

\* A new protocol and a new coordinator; async_init begins to connect.
SetsUp(c) ==
    /\ entry \in {"idle", "retry"}
    /\ Gone(uses[c])
    /\ uses' = [uses EXCEPT ![c] = Port!Fresh]
    /\ current' = c
    /\ entry' = "opening"
    /\ UNCHANGED <<outside, built, heard, reloads, missed>>

SetupOpens ==
    /\ entry = "opening" /\ CanOpen(current)
    /\ Becomes(current, Port!Opens(uses[current]))
    /\ entry' = "priming"
    /\ UNCHANGED <<outside, current, built, heard, reloads, missed>>

\* connect() raises, and ConfigEntryNotReady has the set-up tried again later.
SetupFails ==
    /\ entry = "opening" /\ MayFail(current)
    /\ uses' = [uses EXCEPT ![current].work = "failed"]
    /\ entry' = "retry"
    /\ UNCHANGED <<outside, current, built, heard, reloads, missed>>

\* async_init is done, whatever became of the prime, the clock or the link.
Primed ==
    /\ entry = "priming"
    /\ entry' = "forwarding"
    /\ UNCHANGED <<outside, current, uses, built, heard, reloads, missed>>

\* The platforms make their entities, each with its name from the options.
BuildsEntities ==
    /\ entry = "forwarding"
    /\ entry' = "built"
    /\ built' = options /\ missed' = FALSE
    /\ UNCHANGED <<outside, current, uses, heard, reloads>>

RegistersNothing == UNCHANGED heard                          \* mutant
Registers == heard' = TRUE

Loads ==
    /\ entry = "built"
    /\ entry' = "loaded"
    /\ Registers
    /\ UNCHANGED <<outside, current, uses, built, reloads, missed>>

-----------------------------------------------------------------------------
(* Options, reload, async_unload_entry.                                      *)

\* The options dialog is submitted; the listener, if there is one, starts a
\* reload, which waits for its turn.
Saves(o) ==
    /\ o # options
    /\ heard => reloads < MaxReloads
    /\ options' = o
    /\ reloads' = IF heard THEN reloads + 1 ELSE reloads
    /\ missed' = (missed \/ entry = "built")
    /\ UNCHANGED <<port, entry, current, uses, built, heard>>

\* A reload gets its turn. One that finds the set-up about to be retried tries
\* it at once.
Reloads ==
    /\ reloads > 0 /\ entry \in {"loaded", "retry"}
    /\ reloads' = reloads - 1
    /\ entry' = IF entry = "loaded" THEN "unloading" ELSE "idle"
    /\ UNCHANGED <<outside, current, uses, built, heard, missed>>

\* The platforms are gone: async_shutdown of the coordinator that hass.data had.
ForgetsShutdown(u) == {u}                                    \* mutant
ShutsDown(u) == Port!Told(u)

\* The unload is over: so is the listener.
Unloaded ==
    /\ entry' = "idle"
    /\ heard' = FALSE

Unloads ==
    /\ entry = "unloading"
    /\ Becomes(current, ShutsDown(uses[current]))
    /\ IF uses[current].wire = "none"
       THEN Unloaded
       ELSE entry' = "closing" /\ UNCHANGED heard
    /\ UNCHANGED <<outside, current, built, reloads, missed>>

-----------------------------------------------------------------------------
(* The coordinators and the cable.                                           *)

\* An attempt of an unloaded coordinator that succeeds closes what it opened.
EndsOpen(u) ==                                               \* mutant
    IF u.work = "priming" THEN {[u EXCEPT !.work = "idle"]} ELSE {}
Ends(u) == Port!Primed(u)

\* A reconnect opens the port, or fails to.
Reopens(c) ==
    /\ ~(c = current /\ entry = "opening")
    /\ \/ CanOpen(c) /\ Becomes(c, Port!Opens(uses[c]))
       \/ MayFail(c) /\ Becomes(c, Port!Fails(uses[c]) \cap {[uses[c] EXCEPT !.work = "idle"]})
    /\ UNCHANGED <<outside, entry, current, built, heard, reloads, missed>>

EndsAttempt(c) ==
    /\ Becomes(c, Ends(uses[c]))
    /\ UNCHANGED <<outside, entry, current, built, heard, reloads, missed>>

Retries(c) ==
    /\ Becomes(c, Port!Retries(uses[c]))
    /\ UNCHANGED <<outside, entry, current, built, heard, reloads, missed>>

\* wait_closed returns to an attempt, and to the unload that waits for it.
Closes(c) ==
    /\ Becomes(c, Port!Closed(uses[c]))
    /\ IF c = current /\ entry = "closing"
       THEN Unloaded ELSE UNCHANGED <<entry, heard>>
    /\ UNCHANGED <<outside, current, built, reloads, missed>>

PortGoes ==
    /\ port = "ok" /\ port' = "gone"
    /\ uses' = [c \in Coords |-> IF uses[c].wire = "up"
                                 THEN [uses[c] EXCEPT !.wire = "cut"] ELSE uses[c]]
    /\ UNCHANGED <<entry, current, options, built, heard, reloads, missed>>

PortReturns ==
    /\ port = "gone" /\ port' = "ok"
    /\ UNCHANGED <<entry, current, uses, options, built, heard, reloads, missed>>

-----------------------------------------------------------------------------
Setup == \/ \E c \in Coords : SetsUp(c)
         \/ SetupOpens \/ SetupFails \/ Primed \/ BuildsEntities \/ Loads
Works(c) == Reopens(c) \/ EndsAttempt(c) \/ Closes(c)

Next ==
    \/ Setup
    \/ \E o \in Options : Saves(o)
    \/ Reloads \/ Unloads
    \/ \E c \in Coords : Works(c) \/ Retries(c)
    \/ PortGoes \/ PortReturns

\* Home Assistant goes on with what it began and retries a set-up; timers fire;
\* connect(), the prime and the close of a transport end. Nothing is assumed of
\* the cable, or of those who save options.
Fairness ==
    /\ WF_vars(Setup) /\ WF_vars(Reloads) /\ WF_vars(Unloads)
    /\ \A c \in Coords : WF_vars(Works(c)) /\ WF_vars(Retries(c))

Spec     == Init /\ [][Next]_vars
FairSpec == Spec /\ Fairness

-----------------------------------------------------------------------------
(* Safety.                                                                   *)

\* Whoever has the port while it is not the entry's own coordinator is about to
\* let go of it: it was told to, and closes or has yet to end its attempt. A
\* reload that finds the port taken is late, never shut out.
HolderLetsGo ==
    \A c \in Coords \ {current} :
        uses[c].wire \in {"up", "closing"} =>
            uses[c].told /\ (uses[c].work # "idle" \/ uses[c].wire = "closing")

\* Entities have the names of the options, or a reload is on its way to give
\* them; options that are saved before the listener is registered are the one
\* exception (_async_options_updated: "so renames [...] take effect").
OptionsInForce ==
    entry = "loaded" => built = options \/ reloads > 0 \/ missed

(* Liveness, under FairSpec.                                                 *)

\* Once the port stays openable and nobody saves options any more, the entry is
\* loaded and connected for good, whatever earlier coordinators were up to.
ReloadSucceeds ==
    <>[](port = "ok") /\ <>[][UNCHANGED options]_vars
        => <>[](entry = "loaded" /\ uses[current].wire = "up")

=============================================================================
