# A specification of centralite-ha

TLA+ modules, model-checking runs and machine-checked proofs for the Home
Assistant integration of Centralite lighting bridges (Elegance and JetStream)
over RS-232. Paths below are relative to `src/custom_components/centralite/`
unless they start with `src/`.

## 1. Inventory

The program is one Python process under asyncio: one coroutine runs at a time
and can be overtaken only where it awaits. What runs side by side for one
bridge is the reader task, the safety poll, the reconnect attempt, the commands
given by users and automations, and the set-up or unload of the config entry.

| Part | State it keeps | Operations | What is hard, what makes it correct |
|---|---|---|---|
| **Coordinator, connection** `coordinator.py` | `_poll_unsub`, `_reconnect_unsub`, `_reconnect_delay`, `_reconnecting`, `_shutting_down`, `last_update_success` | `async_init`, `_on_disconnect`, `_schedule_reconnect`, `_try_reconnect`, `_schedule_safety_poll`, `_safety_poll`, `activate_scene`, `async_shutdown` | A drop, a poll, an attempt and an unload in any order. One reconnect at a time and never none, the poll armed on every live link, nothing armed after an unload, no transport left open, availability that follows the link |
| **Coordinator, data** `coordinator.py` | `data["loads"]`, `data["switches"]`, `data["scenes"]` | `_prime_loads`, the merge in `_safety_poll`, `_on_load_event`, `_on_switch_event`, `_on_scene_event` | Pushes and answers to queries that overtake each other. On and level agree; a load is shown as it was last reported; the poll repairs what was missed |
| **Serial protocol** `protocol/_base.py` | `_reader`, `_writer`, `_reader_task`, `_lock`, `_pending`, `_lost` | `connect`, `disconnect`, `_send`, `_sendrecv`, `_reader_loop`, `_notify_disconnect`, `_read_line`, `_try_fulfill` | Time-out, late reply, lost link and release of the lock race. Requests do not mix, the lock is always released, every call returns |
| **Elegance protocol** `protocol/elegance.py` | none of its own | commands `^A`..`^L`, dispatch of `P`/`R`/`^K` lines, clock encoding | Any line that is not an event fulfils a request; a press and its release are two commands |
| **JetStream protocol** `protocol/jetstream.py` | none of its own | commands, matchers per device, name scan, ping, dispatch of `DEV`/`ACT`/`SCN` lines | An event and a reply look alike; a scan must not take a lost link for empty slots |
| **Bitmaps** `protocol/common.py` | none | `parse_load_bitmap`, `parse_switch_bitmap` | Bit and byte order |
| **Entry** `__init__.py` | `hass.data[DOMAIN]`, the options listener | set-up, unload, reload on a change of options | A reload opens a port that the old coordinator may hold; the port comes free, and saved options reach the entities |
| **Entities** `light.py`, `switch.py`, `button.py`, `entity.py` | views of `coordinator.data` | turn on and off, brightness | Rounding must not turn the dimmest light off; a press is followed by its release |
| **Device triggers** `device_trigger.py`, `const.py` | none | list and attach triggers | The listed subtypes are those that events carry; a bridge that is registered anew has another id |
| **Config and options flow** `config_flow.py` | `_data`, `_options` of a flow, the config entries | user and import steps, name scan, options | Several dialogs at a time; a form that is rejected and submitted again leaves nothing behind; ids within the limits; edits of options lose none |
| **Migration** `migrate.py` | the entity registry, the Repairs issue | `classify`, `async_migrate_entries` | Two systems in one registry, exceptions half way, retries and reloads; no row lost, none doubled, a completed run complete |
| **Import parsers** `parsers/elg.py`, `parsers/jts.py` | the section that is read, what was found | text to ids and names | Sections that are judged when the next begins; stray sections; a result the config flow can work with |
| `repairs.py`, `scene.py`, translations | none | | Nothing to model |

How they interact: the entry creates a protocol object and a coordinator;
the coordinator registers four callbacks with the protocol and calls its
commands; the reader task calls the callbacks synchronously, so an event or the
report of a lost link is a step of the reader and of the coordinator at once;
entities read the coordinator's data and call protocol and coordinator.

`PROJECT.json` lists the hazards, each at its line, with the properties that
guard it; where none does, its note says why.

## 2. Plan

All of it is done. The order was that of importance:

1. `Coordinator`, `CoordinatorProofs`: the connection life cycle.
2. `SerialProtocol`, its abstract specification `RequestLine`, `SerialProofs`.
3. `LoadState`, `LoadProofs`: what is shown of the loads.
4. `Migration`, `MCMigration`, `MigrationProofs`: the adoption of v1 entities.
5. `ConfigFlow`, `ConfigProofs`: both flows and what they store.
6. `PortUse`, what a coordinator promises to others on the port, which
   `Coordinator` implements; `EntryLifecycle` and `EntryProofs`, which put several
   such coordinators on one port.
7. `NameScan`, `MCNameScan`, `ScanProofs`: the scan of the config flow, composed
   with `SerialProtocol`.
8. `Buttons`, `MCButtons`, `ButtonProofs`: buttons, scenes, triggers and presses.
9. `Codecs`, `LightLine`, `MCLightLine`: bytes, lines, bitmaps and brightness;
    their proofs are in `LoadProofs`, beside those of the lines they refine.
10. `ImportText`, `Imports`: the parsers of exports, whose result is the input of
    `ConfigFlow`; their proofs are in `ConfigProofs`. `MCSetup` composes the two.

How the modules hang together:

    RequestLine <-implements- SerialProtocol <-EXTENDS- NameScan
    PortUse     <-implements- Coordinator
    PortUse     <-INSTANCE--- EntryLifecycle
    ImportText  <-EXTENDS---- Imports, ConfigFlow <-EXTENDS- MCSetup
    Codecs      <-EXTENDS---- LightLine

Three runs show where the code does not do what a document, a test or the change
log says: `coordinator_stale_state`, `coordinator_unload` and
`migration_left_entry`. What else was met is told under section 4.

## 3. The modules

Conventions. An action is what one coroutine does between two awaits. `drain()`
does not wait below the transport's high-water mark, which the short commands
of this program never reach, so a write belongs to the step it is in. A write
to a transport whose cable is gone may raise or be swallowed: both happen.
`wait_closed()` resumes everyone who awaits it. A comment `\* mutant` marks a
faulty variant of the operator that follows it; no specification uses it.

### `Coordinator` (with `CoordinatorProofs`)

| State | In the code |
|---|---|
| `wire`, `listening`, `lost` | `_writer` and the health of its transport, the reader task, `_lost` |
| `setup`, `attempt`, `shutdown` | where `async_init`, `_try_reconnect` and `async_shutdown` await; `Reconnecting` and `ShuttingDown` are the flags that follow from it |
| `retryTimers`, `delay`, `pollTimer` | `_reconnect_unsub`, `_reconnect_delay`, `_poll_unsub` |
| `polls` | the running `_safety_poll` tasks: asked, or answered and about to resume |
| `tails` | reconnects that await the clock write before they arm the poll |
| `command` | a scene command that met a held transmit lock |
| `avail` | `last_update_success`, which is what entities show |

`AttemptEnds` is the tail of `_try_reconnect` from its `finally` to its next
await, with the branches for an unload, a success and a failure in the code's
order. `ReaderNotices` is `_notify_disconnect` with `_on_disconnect`, one step.
The lines of a request are coarse here: it ends in success only while the reader
listens, and may fail at any time. The transmit lock is present only in so far
as a scene command has to wait for it, which is where a command meets a drop.

`PushEvent` on a live reader covers the three event callbacks. `SceneCalled`
requires an available entity, as Home Assistant does for service calls, and a
held lock: with a free lock the command is done within the call.

### `SerialProtocol` and `RequestLine` (with `SerialProofs`)

`pc` and `wants` say where each caller stands in `_send` or `_sendrecv`; `lock`
and `waiters` are `asyncio.Lock` with its line of waiters; `fut` and `answer`
are the future in `_pending` and what fulfilled it; `due` is what the bridge
still owes. `due[i].fresh` is a ghost that says whether the request a reply
answers is still the pending one. `system` is the subclass: `Keyed` tells JetStream
(a matcher per device) from Elegance (`_match_any`), `Delayed` whether there is a
pause after a command. `Init` leaves the choice open, so that both are checked.

`Begins` is the body of `async with self._lock` up to the first await: command
written, or request pending and written, or an exception. `Ends` is the
`finally` with the release of the lock. `TimesOut` may overtake a reply that was
not picked up: `wait_for` then drops it.

`connect` and `disconnect` touch neither the lock nor `_pending`; a request may
outlive the connection it was sent on. The model keeps this.

`RequestLine` is what a caller can rely on: one line, first come first served,
one outcome at its head. The refinement mapping is the lock's holder in front
of the waiters, and the state of the future.

### `LoadState` (with `LoadProofs`)

`data` is `coordinator.data["loads"]`; an absent load reads as off. `bridge` is
what the loads really are. `line` is the serial stream from the bridge, which
keeps its order; a drop loses what is on it. `query`, `answered` and `got` are the
bulk query: the transmit lock admits one, and `answered` holds from the
moment the reader fulfils the future until the caller resumes, while the reader
may go on with the rest of its buffer. `Primed`, `Polled` and `Pushed` are what
`_prime_loads`, `_safety_poll` and `_on_load_event` make of one load. `stale`,
`guessed` and `overtaken` are ghosts that say why a shown state may be wrong.

### `Migration` (with `MCMigration`, `MigrationProofs`)

`async_migrate_entries` awaits nothing, so nothing overtakes it; but an exception
can end it in the middle, and a second entry, a retry or a reload may follow in
any order. The loop is therefore one action per row: `Skip`, `Delete`, `Rename`
or `RenameRaises` for a row on the platform of v2, `Move` or `MoveRefused` for one
of another platform, in any order of the rows, for the registry promises none.
`SetUp` takes the candidates, `Finish` writes the Repairs issue, `NotReady`,
`Connected` and `Unload` are what `async_setup_entry` does after the migration.

| State | In the code |
|---|---|
| `registry`, `restored`, `issue` | external: the entity registry, the states restored for rows without an entity, the one Repairs issue `v1_migration` |
| `status` | how far the set-up of each entry is |
| `todo`, `log` | the candidates left, and `migrated` with `deleted` |
| `changed`, `purged`, `from` of a row | ghosts: what runs ever changed, what went with a deleted entry, which v1 id a row had |

A unique id is a record of system, tag, index and form (its case and padding):
two ids that differ in case only have one new id. `Rules` and `Classify` are the
tables and `classify`. `restored` is empty at a cold boot or has every v1 id.

### `ConfigFlow` (with `MCSetup`, `ConfigProofs`)

`step`, `uid` and `stored` are a flow's step, unique id and `_data` with
`_options`; once created, `stored` is the entry. `form` is the form that the
import step works on while it scans. A flow that ended gives way to another in
its place. What a parser makes of a pasted text is an input (`IsText`).

`Identifies` is the user step, `Submits` the import step up to a scan or its
end, `ScanEnds` and `ScanFails` the rest. `Result` is what a form amounts to;
`StoresIds`, `StoresAll` and `Rejected` are the assignments to `_data` and
`_options` in the code's order, with the second range check in between and
`Kept` for what is stored only when it is not empty. `EditsOptions` is the
options flow. The tests of Home Assistant for a flow or an entry with the same
unique id are `Free`, a guard: an attempt that fails them changes nothing.

### `PortUse`

The state of one coordinator as others on the port notice it: `wire`, its
transport; `work`, what it is about (`opening` and `priming` of a set-up or an
attempt, `clearing` the lost transport first, `failed` once a set-up gave up);
`told`, whether it was shut down. `Steps` gives the states that may come next.
`UsesPort` says that `Coordinator` implements it, with `PortWork` as the view of
its phases, so `EntryLifecycle` may use `Steps` in its place. Being told stops
`Retries`, and nothing else of an attempt: one in `clearing` or `opening` still opens
the port, as `_try_reconnect` does, and `Ended` closes what it opened. It does not
if the link is lost by then and the reader has reported it (`Discards`).

### `EntryLifecycle` (with `EntryProofs`)

| State | In the code |
|---|---|
| `entry` | where `async_setup_entry` and `async_unload_entry` await, or what Home Assistant waits for between them |
| `current`, `uses` | the coordinator of this set-up, and what it and those before it do with the port |
| `options`, `built` | `entry.options`, and the options the entities were made with |
| `heard`, `reloads` | whether `_async_options_updated` is registered, and the reloads it began that wait for `entry.setup_lock` |
| `port` | external: whether the port can be opened |
| `missed` | ghost: options saved between `BuildsEntities` and `Loads` |

`SetupFails` is `ConfigEntryNotReady`; the coordinator of that set-up stays behind
and does nothing (`Spent`, `Gone`). Set-ups, unloads and reloads take turns
(Home Assistant's lock), saving does not. The port is exclusive
(`src/docs/UPGRADE_TESTING.md:14`): `CanOpen` asks that nobody else holds it, and a
transport that lost its cable may, but need not, stand in the way (`MayFail`).

### `NameScan` (with `MCNameScan`, `ScanProofs`)

`stage` is where `_scan_jetstream_names` stands, `at` and `found` the loop of
`scan_device_names`, `silent` a ghost for the probes that ended without an answer.
The requests, the lock, the time-out, late replies and the cut of the link are those of
`SerialProtocol`, with the scan as its one caller. The scan goes on without an
await between the end of a probe and the next write, so nothing else happens
while `Running`. `Takes` is the look at `_lost` and what follows it.

### `Buttons` (with `MCButtons`, `ButtonProofs`)

| State | In the code |
|---|---|
| `line`, `link` | what the bridge said and was not read yet; the connection |
| `switches`, `scenes` | `data["switches"]`, `data["scenes"]` |
| `device`, `automations` | external: the bridge in the device registry; the triggers somebody made automations of |
| `task` | where each service call stands; `"pause"` is the sleep between press and release |
| `wall`, `lit`, `held` | external: the buttons (down, up, or tapped: up after a press and release in one), scenes and pressed switches as the bridge has them |
| `missed`, `heard`, `ran` | ghosts: what changed without a word to us, the event of this step, the automations it ran |

`ButtonArrives` is `_dispatch_switch_event` with `_on_switch_event` and
`_fire_button_event`, one step. `Listed` is `async_get_triggers`; each trigger
remembers as a ghost which button it means, so that subtypes that two buttons
share show. Automations keep the device id they were made with. `LinkDrops`
loses what is on the line, and a press that is out then is `"stuck"`.

### `Codecs` and `LightLine` (with `MCLightLine`, `LoadProofs`)

`Codecs` has pure operators: brightness and level, the digits and hex digits,
the reports `^K` and `DEV`, and both bitmaps. `Bitmap` is what the manual that
`protocol/common.py` quotes says of the bridge, written for each digit; `SetBits` is
what the two parsers do. `LightLine` sends these bytes through `_read_line`:

| State | In the code |
|---|---|
| `coming`, `at` | external: the lines on the wire, and how much of the first is through; `NextByte` is its next byte, of the text or of `Ending` |
| `buf` | the buffer of `_read_line` |
| `returned`, `asking`, `answer` | the line returned last, the request that is out, what the last one came to |
| `shown` | `data["loads"]`, the level of each load that is on |
| `levels`, `pressed` | external: the loads and switches of the bridge |
| `orders` | what is yet to be asked of lights and bridge, a list given at the start, so that every brightness is tried once |
| `torn`, `losses`, `wanted`, `said` and `was` of a line | ghosts: whether the line that is read misses bytes, how many were lost in all, what was asked of a light, what was really said |

`Gets` is one round of the loop of `_read_line`, with the dispatch of the line it
returns; `Loses` takes a byte off the wire instead.

### `ImportText`, `Imports` (with `MCSetup`, `ConfigProofs`)

A line of a `.elg` is a header or a body with key and value; a device of a `.jts` is a
record. The three passes over a `.elg` (`parse_elg`, `_referenced_load_ids`,
`_named_switches`) each keep a section of their own and do not see each other, so
they are one walk here. `Text` is what the parsers return if the file ends after
the lines read so far, with both flushes of the last section; it is an `IsText`,
what `ConfigFlow` takes as its input. `HeaderAt`, `Lines`, `Last` and `Told` say for
`ElgIsRead` what a file means, section by section, without a walk: the last line of a
key in the sections of a load or button counts, a button's load is its last `#`,
and a `DIMMER` that says nothing makes a relay like any other than `Y`.

`MCSetup` composes parsers and dialogs. In the code a file is read in one step of a
dialog, so `ReadsFile` comes before any dialog; `TakesFile` is a dialog whose form
has the `Text` of a short file, and `Dialogs` are two at a time with the chosen
texts and ids of `SomeForms`.

## 4. Runs

| Run | Question | Result |
|---|---|---|
| `coordinator_elegance` | Does the coordinator of an Elegance entry keep its timers, transports and availability straight under any order of drops, polls, attempts, commands and an unload, and use the port as it promises? | holds, 16 254 states |
| `coordinator_stale_state` | `src/CHANGELOG.md:63`: no stale state for ever | **violated** |
| `coordinator_unload` | `src/tests/test_coordinator.py:304`: a reconnect that an unload overtakes does not re-open the link | **violated** |
| `serial` | Three callers on a line of either kind: do lock, line of waiters and pending future agree, is every JetStream reply of the right device, does every call return? | holds, 149 123 states |
| `load_elegance` | Is what is shown of the loads consistent, as reported, and repaired by polls? | holds, 268 152 states |
| `migration_mixed` | Three entries of two systems over a registry with ids that collide, foreign, owned and unknown rows: does each row go where it belongs or stay? | holds, 39 168 states |
| `migration_left_entry` | `src/docs/UPGRADE_TESTING.md:52`: are the rows of a v1 entry that is left in place consumed? | **violated** |
| `setup` | Is every `.elg` of five lines and `.jts` of two devices of a small stock read as its sections say? With these and with chosen forms, scans and edits of options: is an entry what was last submitted, within the limits, and one per bridge? | holds, 581 683 states |
| `entry_reload` | Three coordinators in turn on one port, reloads that wait, a cable that comes and goes: does the port come free, do saved options reach the entities, does the entry end up connected? | holds, 318 696 states |
| `name_scan` | Is a scan that succeeds whole, and does every scan end with the port closed? | holds, 5 351 states |
| `buttons` | Do touches run the right automations, are buttons and scenes shown as they are, is every press released? | holds, 289 440 states |
| `lights` | Every brightness and the borders of the bitmaps, byte by byte, with a byte lost anywhere: are lines whole, is brightness kept, are bitmaps right? | holds, 88 826 states |

What the violations show.

- `coordinator_stale_state`: a `^G` is out, a scene command waits behind it, the
  cable goes: entities become unavailable. The request fails, the command gets the
  lock, writes into a transport that swallows it, and publishes its state: all
  entities are available, and while the port stays gone nothing says otherwise, for
  a failed attempt does not report an error again.
- `coordinator_unload`: the link drops, the timer fires, and while `_try_reconnect`
  awaits `disconnect()` (`coordinator.py:256`) the entry is unloaded. Nobody looks at
  `_shutting_down` before `connect()`: the port of an unloaded entry is opened and
  primed, and only then closed. The test has the unload come after `connect()`
  returned, so it does not meet this. `NotReopened` takes the test's words in their
  weakest sense: it speaks only of attempts that had not begun to connect. What does
  hold: `NothingLeftOpen` and `HolderLetsGo` show that the port is given
  back, `ReloadSucceeds` that a set-up that finds it taken gets it later.
- `migration_left_entry`: both documents (`src/README.md:120`,
  `src/docs/UPGRADE_TESTING.md:48-54`) tell users of a v1 with a config entry to keep
  that entry, for its rows are then orphans, "which is what migration consumes". A
  row keeps the id of its entry when the code of the integration is removed, and
  only rows without one are candidates (`migrate.py:165`): the run of that system ends
  and the row is as before. v2 then makes a second one. `OthersUntouched` holds
  for these rows as for any that has an owner.

Seen while modelling, and kept in the models:

- `_safety_poll` ends in `_schedule_safety_poll` without a look at the link: the
  poll that was out at a drop arms the next against the dead link
  (`coordinator.py:325`; `src/CHANGELOG.md:36` says it is cancelled).
- An attempt that was overtaken by an unload and whose link dropped again does not
  close its transport (`coordinator.py:268-271`); it is gone with the object.
- Options that are saved between the making of the entities and
  `add_update_listener` (`__init__.py:67-68`) take effect with the next change only.
  `OptionsInForce` shows that this is the one gap.
- A `^G` answer that is merged after a newer push of the same load overwrites it
  (the reader handles the rest of its buffer first), and a prime replaces a
  known dim level by 99. The ghosts of `LoadState` name exactly these cases, and
  `ShownAsReported` shows that there are no others.
- After a time-out on Elegance, the late reply fulfils the next request: any line
  does. `OneReplyIsOwn` shows that what is owed earlier comes earlier, so that one
  silent period is enough to recover; `RightDevice` that JetStream's matchers
  bound the damage to replies of the same device.
- Only a loss that the reader noticed aborts a scan. Until then each probe costs
  its time-out and counts as an empty slot; `ScanIsWhole` names them `silent`.
- A press whose link drops before its release leaves the button pressed at the
  bridge: the release fails, and nobody repeats it (`"stuck"`).
- `NAME = x`, with blanks, names a load of a `.elg` but not a button
  (`parsers/elg.py:139` against `:192-195`).
- A button that was tapped is shown on until its next event, though nobody holds
  it (`coordinator.py:179-180` says so), and turning it off in Home Assistant sends
  nothing (`switch.py:107`). `ButtonsAsLeft` tells this case from a button that is held.
- The Repairs issue has one id (`migrate.py:241`): the log of a second entry
  replaces that of the first.
- `DIMMER=N` is looked up for the named and referenced loads of a file only
  (`config_flow.py:224`): a relay that the user adds by hand becomes dimmable.
- v1 ids that differ in case only: the second rename raises, the set-up fails, and
  so does every later one, for the row is still an orphan (`RenameRaises`). The
  move to another platform catches the same exception.
- `jetstream.SW044` becomes `switch_044`, an id that no JetStream entity has.
- A v2 entry that is deleted takes the adopted rows with it, after a failed
  set-up too (`Remove`, `purged`).
- The same port may be set up once for each system: the unique id has both.

### Bounds

- `PollSlots`: two safety polls at once. One is out, and a reconnect arms
  another that fires before the first ends. With one slot `PollFires` would be
  blocked there; a third brings nothing new, for polls do not see each other.
- `MaxTails = 1`: one reconnect in its clock write while the next attempt runs.
- One waiting scene command: commands act on `avail` alone, one at a time.
- `InitialDelay = 5, MaxDelay = 12` reaches the cap between two powers as 5 and
  300 do. `delay` influences nothing else.
- `Bulk = TRUE, ScenePush = FALSE` is an Elegance entry. A push-only JetStream
  entry (`Bulk = ClockSync = FALSE`, `ScenePush = TRUE`) has fewer steps: no prime,
  poll or clock. Its safety is proved (section 5); its liveness is not in a run.
- `MaxDue = 2` (serial): an abandoned reply and a fresh one. Three callers: a
  holder, and two in line to be ordered.
- `MaxLine = 3`, `MaxOwed = 2` (loads): an answer between two pushes, and the
  late answer of a query that timed out beside that of the next. Levels off,
  dimmed and full. One load reports its changes, one does not.
- `MixedRows` (migration): for each system a load in both cases, a switch or
  button and a scene; an id without a rule, a row with another owner, one of
  another integration. Three entries, two of one system, contend for them.
- `SomeForms`, `SomeFinds` (set-up): texts of both formats with named,
  referenced and unused loads, relays, names of every kind, too many loads, and
  nothing; typed ids of 0, within and past the limits; scans that find what is
  known, unknown and too much. JetStream has fewer switches than loads here, so
  that the second check, which the code makes not to rely on their equality, has
  something to reject. Two dialogs are what `OneEntryPerBridge` takes.
- `Coords`, three, and `MaxReloads = 2` (entry): two coordinators that were
  unloaded and still work beside the current one, and a reload that waits behind
  one that runs. A set-up takes a coordinator that is `Gone`; with two, a reload
  could wait for the bound instead of the port.
- Four slots and `MaxDue = 3` (scan): named, silent, without a name, named. The
  late answers of two probes can be out beside that of the third.
- `MaxLine = 1` (buttons): the reader handles lines one by one, and what is on
  the line is what a drop loses; more lines are in the proofs, which hold for any
  bound. Two calls at once on Elegance, where a press is two commands, one on
  JetStream. On JetStream one configured and one unconfigured button; two device ids.
- `SomeDays`, `MaxLost = 1` (lights): the days are chosen, not enumerated: each
  brightness alone, every subset of the loads and switches at the borders of bytes
  and boards, two bitmaps in a row (a lost CR between them fills the buffer of 100
  bytes), and days where reports and replies meet. `ReadMax` is the real one.
- `MaxLines`, `ShortFile` (set-up): dialogs take files of up to three lines; five lines make a section with the three fields of an active button
  and the header that ends it. The stock has a button in range, a stray one, both kinds of
  scene header, values that name and that clear. Files begin with a header or a
  stray body line.

No symmetry is used: several runs check liveness, the others are small. Deadlock
is checked where the system never stops: not in `migration_mixed`, where every
entry may be deleted, nor in `lights` and `setup`, where a day and a file end.

### Fairness

`Coordinator`: weak fairness of whatever the event loop runs by itself: timers,
the end of a request (at the latest `COMMAND_TIMEOUT`), opening and closing a
transport, the reader's report of a lost link. `RetryFires` is strongly fair
because a waiting command that becomes ready delays it for a moment, over and
over, and a clock does not stand still for that. Nothing is assumed of the cable,
of events, commands or unloads; `Recovers` says that the port stays openable.

`SerialProtocol`: tasks that are ready run, and time-outs run out. No reply and
no report of a lost link is counted on: `EveryCallReturns` holds without them.

`LoadState`: the reader reads and a caller whose future is done resumes. That
polls are answered and nothing changes any more is the premise of `PollsRepair`.

`EntryLifecycle`: Home Assistant goes on with a set-up, a reload or an unload it
began and retries a set-up that was not ready; each coordinator's timers fire and
its `connect()`, prime and close end. That the port stays openable and nobody
saves options any more is the premise of `ReloadSucceeds`.

`NameScan`: the task runs when it can, time-outs run out, the port opens or fails
to within its ten seconds, and closes. As in `SerialProtocol` no reply is counted on.

`Buttons`: a service call gets the lock in its turn, which is `EveryCallReturns` of
`SerialProtocol`; pauses end; the reader reads.

## 5. Proofs

TLAPS proves, for every value of the constants that meets the named assumptions:

- `CoordinatorProofs`: all seven invariants of the run, the action property
  `NoTransportForgotten` (`connect()` finds no transport), and that the coordinator
  implements `PortUse` (`UsesPort`). Assumed: `SystemAssumption` (flags are Boolean, only a
  bridge with a bulk query has a clock), `DelayAssumption`, `BoundAssumption`.
  The inductive invariant adds to the invariants themselves `Phases` (which
  state of the link goes with which phase of set-up, attempt and shutdown) and
  `AvailableFromTheStart`: availability during set-up, without which
  `LiveLinkIsAvailable` is not inductive. There is one lemma per invariant and
  one step per action; the refinement takes each action to a member of `Steps` or
  a stutter, and rests on the phases.
- `SerialProofs`: `LockDiscipline`, `OneReplyIsOwn`, `RightDevice`, for a bridge
  of either kind, and that the protocol implements `RequestLine`. Assumed: the names
  differ. The inductive invariant adds `Shape` (what a
  caller wants and what its future may be at each place); the refinement takes
  each action to `Join`, `Answer`, `Fail`, `Leave` or a stutter.
- `LoadProofs`: `OnMatchesLevel` and `ShownAsReported`. Assumed: 0 and `Full` are
  the ends of the levels, loads that report are loads. The argument: the stream
  keeps its order, so the last word on a load in any stretch of the line is right
  (`LastWordRight`), an answer is right until a newer report overtakes it
  (`AnswerRight`), and nothing comes from an earlier connection
  (`OneConnection`).
- `LoadProofs`, of `LightLine`: all three invariants of `lights`, for any lights,
  relays, orders, lines on the way and any buffer longer than a reply. Assumed:
  `LightAssumption` (a buffer of more than the 96 digits of a reply, 192 loads and
  384 switches, orders that are orders). There are three steps, each with an
  inductive invariant:
  - *Codecs.* `LoadBitmap` and `SwitchBitmap`: what is parsed of the bitmap of a set
    is the set. `BrightnessOfLevel`: the level of a brightness shows one at most 2
    off that has the same level. `LoadLineRead`: a report says its load and level.
  - *Lines*, `LineInv`: unless the line is torn, `buf` is the part of it that is
    through (`SoFar`). A line in the buffer is thus never as long as the buffer, and
    is returned as it was sent (`LinesAreWhole`).
  - *Words*, `WordInv`: what is asked of a light is its level (`Asked`, always);
    while nothing was lost (`Quiet`), a reply is the last of the lines that are due
    and says what is on (`Replying`), the last word on a load among them is its
    level, and a light without one is shown right (`Words`). When nothing is due,
    that is `BrightnessIsKept`. A poll leaves it alone because the lights that are on
    are then just those it names (`ReplyShows`).
  - *Losses*, `TornInv`, for `BitmapsAreRight`. Nothing but its length guards a
    bitmap. After one loss the buffer and the line differ by one of the `Lags`: a
    missing byte, or an earlier line of 7, 48 or 96 characters, or what a full
    buffer left of these. The only length of a bitmap that this makes is 96, of two
    answers to `^G`, and then it is not `^H` that is out (`Orderly`). The theorem
    says `MaxLost <= 1`, as the run does: 49 losses, the end of one answer and the
    text of the next, would pass the older one. It also says `ReadMax # 144`: that
    is where two answers to `^H` would overrun by an answer to `^G`;
    the code has 100.

- `MigrationProofs`: all six invariants of `migration_mixed`, for any registry,
  entries and wanted entities. Assumed: `RowsAssumption`, `IdsAssumption`,
  `KeysAssumption` (rows are rows of v1 with unique keys) and `NamesAssumption`.
  The invariants are inductive together with `RunInv`, what is known while a run
  is under way: what it has yet to handle are candidates, every other candidate is
  settled (has no rule, or an id in use), and there is one run at a time.
- `ConfigProofs`: the three invariants of the dialogs in `setup`, and `TypeOK`, for any
  dialogs, forms, scans and limits. Assumed: `FormsAssumption`, `FindsAssumption` (ids are
  integers, a text says nothing of loads it does not list), `LimitsAssumption`,
  `PollAssumption`. The inductive invariant is `FlowOK`, a predicate on the state
  of one flow, for each flow, and that no two have the same id. Its heart is
  `Blank`: a flow that has not created its entry holds nothing that is stored only
  if it is not empty. `OneFlowSteps` reduces every action to the flow that steps.
- `ConfigProofs`, of `Imports`: both invariants of the parsers in `setup`, for any headers,
  lines, devices, scenes and length of a file. Assumed: `HeadersAssumption`,
  `LinesAssumption` (a line is a header or not; digits are no negative number),
  `MaxLinesAssumption`, `StartsAssumption`. The walk over the lines is the behaviour, so
  the invariant does the induction: `ElgInv` says of each variable of each pass what
  it is in terms of the lines read so far (`SectionRight`, `LoadsRight`,
  `FieldsRight` for the open section, `EndedRight` for the closed ones). The lemmas
  tell how `HeaderAt`, `Lines` and `Last` change with a line that is added. For a
  `.jts`, `JtsInv`: ids are positive and relays and buttons are of listed loads.

- `EntryProofs`: `HolderLetsGo` and `OptionsInForce`, for any number of
  coordinators, options and reloads. Assumed: `EntryAssumption`. The inductive
  invariant adds `InCharge` (which state of a use of the port is sound, that every
  coordinator but the current one was told to stop or never started, and how far
  the entry was when that was so) and `Listened` (the listener is there while the
  entry is loaded). What a coordinator does comes from `PortUse` alone.
- `ButtonProofs`: the three invariants of `buttons`, for any wall, entities, calls
  and length of the line. Assumed: `WallAssumption` (an Elegance button has number
  0, a JetStream button 1 to 3), `DeviceAssumption`. As in `LoadProofs` the stream
  keeps its order, so the last word on a button on the line is right
  (`LastWordsRight`) and a button without one is shown right (`ShownRight`); for the
  automations, that subtypes differ where buttons do and each trigger that was
  attached was listed.
- `ScanProofs`: every step of a scan is a step of `SerialProtocol` or a stutter of
  its variables (`ScanIsACaller`), so the inductive invariant of `SerialProofs` carries over; with
  it `ScanInv`, whose heart is `Covers` (what the scan has after each slot), gives
  `ScanIsWhole`, for any slots and any bridge. Assumed: `ScanAssumption` (one caller, JetStream, slots
  without repetition).

The inductive invariants were checked with TLC on the instances of the runs
before they were proved.

Type correctness is a theorem of every component with proofs; only the coordinator's
is in a run too, where it bounds the delay.

Only model-checked: every liveness property (`Recovers`, `ShutdownCompletes`,
`EveryCallReturns`, `PollsRepair`, `ReloadSucceeds`, `ScanEnds`, `HeldIsReleased`),
since fairness and ENABLED are out of the prover's reach. Every invariant and every
action property of a passing run is a theorem, and so are both refinements.

## 6. Not modelled

- Names, titles, labels, log lines and the schemas of forms: data no property
  tells apart. Bytes and digits are modelled where they matter (`Codecs`).
- The digits of the clock (`encode_bcd_clock`, `parse_bcd_clock`): a rearrangement of fields
  without state. That a clock write is under way is modelled (`tails`).
- Commands that nothing in the integration calls: `^F` and `get_clock` of Elegance,
  `^P`, `^R`, increment, decrement and ping of JetStream. `^F` of JetStream stands in
  `SerialProtocol` for all requests with a matcher.
- The regular expressions and the XML syntax of the parsers, and `parse_csv_ids`:
  `Imports` begins with lines and devices, `ConfigFlow` with numbers.
- Platforms that refuse to unload, an exception from forwarding the set-up to the
  platforms, an entry that the user disables or removes while it works, an
  unknown system type.
- A service call that is cancelled while it pauses between press and release
  (`elegance.py:134-137` has no `finally`): the calls of `Buttons` run to their end.
- `LightLine` has no late replies and no drops; they are the subject of
  `SerialProtocol` and `LoadState`. `Buttons` has no lock; it is in `SerialProtocol`.
- Home Assistant itself is the environment: timers fire, service calls reach
  available entities only, an update with data clears an earlier error, one
  set-up, unload or reload of an entry at a time.
- A drop *during* `disconnect()`: the reader is cancelled first, so nobody
  reports it; the model therefore has no such step.
- `repairs.py`, `scene.py` and the translations: no behaviour.
