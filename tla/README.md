# Verification of the CubeLED firmware

TLA+ modules, TLC configurations and TLAPS proofs for the firmware in `src/`: an LED cube
on an ESP32-C3 with a button, an ADXL362 accelerometer, Wi-Fi and over-the-air updates.
The firmware is a set of cooperative tasks on one `embassy` executor. A task runs until it
awaits; interrupts (pin edges, timers) only mark a future as ready, and the task acts on it
when it is polled. That is where most of what can go wrong comes from, so the control
points of every task module are its awaits.

## Inventory

| component (source) | state it keeps | operations | interacts with |
|---|---|---|---|
| LED channel (`led_control.rs`) | FIFO of at most 4 commands | `send`, `receive` | every task |
| `led_task` (`led_control.rs`) | effect, enabled, overridden, ticker | one handler per command, a frame per tick | LED channel |
| effects (`led_control.rs`) | scanner position, direction and trail; palette index | one frame each | `led_task` |
| layout (`layout3d.rs`, `vec3.rs`) | iterator position | `points()`, `next()` | rainbow effect |
| `button_task` (`main.rs`) | pin edge wait, timer | short press, long press | LED channel, `WIFI_TOGGLE` |
| `sensor_task` (`main.rs`) | inactivity countdown | read INT2, tick, deep sleep | accelerometer, LED channel, `WIFI_ACTIVE` |
| deep sleep (`sleep_control.rs`) | wake-up cause | `classify_wakeup`, `enter_deep_sleep` | `main`, `sensor_task` |
| `wifi_task` (`main.rs`) | its control point, the radio | connect, retry, DHCP or static address, reconnect, stop | `WIFI_TOGGLE`, `WIFI_ACTIVE`, LED channel, driver, network stack |
| `ota_task` (`ota.rs`) | transfer progress, flash slots, otadata | mark valid, accept, receive, activate, restart | LED channel, socket, flash, bootloader |
| `ota_flash` (`bin/ota_flash.rs`) | what it has still to send | connect, write, exit | the socket |
| ADXL362 driver (`adxl362/`) | device registers | `init`, `configure_*`, `set_active`, `read_status` | `main`, `sensor_task` |
| `net_task`, the rest of `main`, logging, build script | | | see "Not modelled" |

What makes each correct, and what is hard about it:

- `led_task`: status colours, effects, the activity gate and darkness exclude each other
  for every order of commands; a paused ticker owes no frames; senders that wait for room
  get it.
- `button_task`: the release may come before the task has armed the wait for it. One press
  must never count twice, and every press that was seen must be answered.
- `sensor_task`: INT2 is a level, awaited by its edge. No countdown may go on past a motion
  that was read, and deep sleep must be one that motion can end. A motion whose edge is
  missed is never read: the countdown then runs on into deep sleep (SensorMissedInt2).
- `wifi_task`: a long press, a drop, a timeout or a failure can come at every await. Between
  it and the user is a latch, which merges presses that come too fast (WifiPressLost).
- power policy: `WIFI_ACTIVE` is the only thing that keeps the CPU awake for Wi-Fi.
- `ota_task`: power and connections may fail at any point, in the middle of a flash write
  included; the bootloader must always find a complete image, and may itself give up a new
  one that was not marked valid.
- status colours: `wifi_task` and `ota_task` share one override of the animation, ended by
  the same `ResumeAnimation`, whichever task set it; neither may leave it on.
- ADXL362 driver: settings share registers; a call is several transactions that may fail
  one by one; the device keeps its registers over a restart of the CPU.

`PROJECT.json` lists the hazards line by line, with the properties that cover each.

## Modules

```
abstract          component                    proofs                composition

              LedChannel
                ├─ LedTask              LedTask_proofs       ─┐  ButtonLeds   = LedTask + ButtonTask
                ├─ ButtonTask           (ButtonLeds_proofs)   │    ButtonLeds_proofs
                ├─ SensorTask           (PowerPolicy_proofs)  │  PowerPolicy  = SensorTask + WifiTask
                ├─ WifiTask             WifiTask_proofs      ─┤    PowerPolicy_proofs
ABStore      ←  └─ OtaTask              OtaTask_proofs       ─┘  StatusColors = LedTask + WifiTask + OtaTask
                                                                   StatusColors_proofs
                                                                 WifiToggle   = WifiTask + ButtonTask
AccelConfig  ←  Adxl362 ── AccelSetup   AccelSetup_proofs
                CubeLayout ─ LedEffects LedEffects_proofs
```

An arrow is a refinement that is checked and proved. A composition extends one of its parts
and instantiates the other; StatusColors instantiates its three parts. The proof modules of
the compositions extend or instantiate those of the parts as well, and cite their lemmas.

- **LedChannel**: the queue and the steps in which a `send` or a `receive` completes. A
  waiting sender is a task whose send is not enabled, so waiting senders need no state.
- **LedTask**: one action per command (`NextEffect`, `SetEnabled`, `ShowStatus`,
  `ResumeAnimation`), each followed by `Settle`, the end of the loop body; `RenderFrame`
  for a tick. `lag` counts periods the ticker still owes; `shown` is the effect or the
  colour on the strip. The environment sends every command some task sends.
- **ButtonTask**: the edge wait is `edge` (armed for `rise` or `fall`, or `fired`); `Down`
  and `Up` are the pin, which fires an armed edge whether or not the task is polled.
- **ButtonLeds**: the two over one channel, which the other tasks fill as well
  (`OthersSend`). WIFI_TOGGLE has its receiver in `ButtonEnvironment`.
- **SensorTask**: `pc` runs from `boot` (main up to the spawn) over the awaits to `asleep`.
  `phase` is the accelerometer in linked mode: which detector watches, and whether a
  detection waits to be read. `Tick` includes the decision to sleep.
- **WifiTask**: `wpc` is the await at which main or `wifi_task` stands. `EnterSelect` is a
  `select()` that begins with a press pending or not; `station`, `dropEvent`, `link` and
  `ip` are the driver and the stack. `wanted` (the parity of the latched presses;
  one that a pending press absorbs is not latched) and `unseenDrop` (a drop outside the
  await that watches for it) are histories.
- **WifiToggle**: WifiTask with the ButtonTask that signals WIFI_TOGGLE. `asked` is the
  parity of all long presses, absorbed or not; `QuickTasks` makes everything but the second
  of red too short for another long press, so a press is as hard to lose as it can be.
- **PowerPolicy**: SensorTask and WifiTask over one `WIFI_ACTIVE` and one channel. In the
  place of SensorTask's free writer of `WIFI_ACTIVE` stands the real one; deep sleep resets
  WifiTask (`WifiLost`). The properties of SensorTask and of WifiTask are checked here.
- **OtaTask**: the transfer loop, the two otadata entries (the newer one selects, an entry
  is rewritten by erasing it first), the socket, and `PowerFails`, which may cut any write.
  The host is `ota_flash`: it hands over the length and the image (`unsent`), `rx_buffer`
  bounds what is under way (`buffered`), and it exits without waiting for an answer. What
  had arrived when a connection ends can still be read. An image is identified by its
  length; a word of a slot says which image it is from. `FlashFaults` names the flash
  operations that may return an error. With `RollbackBootloader`, `Restart` may move a New
  image to PendingVerify, and give up one it finds there.
- **ABStore** is what OtaTask promises: one image runs, one is selected for the next start,
  the selection is replaced in one step, and until an installed image is kept a restart may
  bring back the one before it (`spare`). The refinement mapping `Store` reads the images
  out of the slots that are booted, selected, and named by the older otadata entry.
- **StatusColors**: LedTask, WifiTask and OtaTask over one channel. A step of another task
  needs `Ota!Suspended`: during flash operations and in a failing `accept()` the executor
  polls nobody else. The host reaches the device only over Wi-Fi (`Reachable`), but a
  connection outlives Wi-Fi until its timeout. `Restart` is OtaTask's, with all RAM lost.
- **Adxl362**: every call as its sequence of register writes, cut off by a failed
  transaction at any place; control registers are sets of bits. **AccelConfig** is what
  the driver promises: independent settings, where a call gives its own settings the values
  asked for and touches no others. `ConfigInForce` is the refinement mapping.
- **AccelSetup**: any calls, as an earlier session may have made them, then main's seven
  calls, restarted at any moment; its run checks the driver of Adxl362 as well.
- **CubeLayout**: the iterator over the six faces, on integers (the steps are whole).
- **LedEffects**: scanner and palette, frame by frame, and the rainbow frame's walk over
  the layout.

## Runs

Passing runs:

| run | question | bounds |
|---|---|---|
| ButtonLeds | does the strip always show what the mode says, do senders get through, is each press counted once, is each seen press answered, does a tap change the effect? | capacity 1, 2 owed frames |
| PowerPolicy | are countdown, sleep and wake-up right for every order of detections and ticks; does deep sleep spare the radio, and come when it may; is a running radio flagged, does Wi-Fi follow the latched presses and come back after a drop that was seen? | capacity 1, countdown 3, any user, any drop |
| OtaTask | is an update atomic (ABStore), does otadata always select a complete image, what can a failed transfer leave selected, does every transfer end? | slot of 4 words, chunk of 2, images of 2, 3 and 5 words; writing and switching may fail, the bootloader may roll back |
| StatusColors | does a status colour of either task ever stay on? | capacity 1, one image of one word, connections that end by timeout or by a host that stops early, commands of `sensor_task` |
| AccelSetup | does the driver keep settings apart, and do the tasks run with the configuration they rely on? | main's arguments, and a second range and noise mode |
| LedEffects | do scanner and palette move as promised, has each LED a place of its own? | the real cube: 150 LEDs, 5 columns |

Why the bounds are enough: a channel of capacity 1 is full and empty as often as one of 4,
and the proofs hold for every capacity. A countdown of 3 has a first, a middle and a
last step. An image of 3 words with chunks of 2 has a whole and a short chunk, one of 2
only a whole one, one of 5 does not fit the slot. `MaxLag` stops the count of owed frames
at 2: one owed frame and more than one are all `led_task` can tell apart. AccelSetup needs
main's own arguments among the calls; a second range and a second noise mode share the
registers FILTER_CTL and POWER_CTL with other settings, and both references of a detector
and both states of the measurement occur. StatusColors is about the order of
commands, so its transfer is as short as one can be (a length, a word, a restart) and is cut
off at each of its awaits; what its data can do, and power and flash failures, are OtaTask's
subject, and `NoStuckStatus` is proved for transfers of every size. Its other command is
`SetEnabled(true)`: that of `button_task` ends an override, which can only help. Other
counters do not grow. LedEffects shows one effect per behaviour, because the product of
their states says nothing new: the effects share no state. No configuration switches the deadlock check off.

Runs that end in a counterexample, each against a sentence of the repository:

| run | the sentence | what happens |
|---|---|---|
| OtaSpins | "a retry is always safe" (`ota_update.md:30`) | a host that closes after a failed transfer leaves the socket open; `accept()` fails without suspending, for ever |
| StatusYellowLost | "stop the current animation and turn solid yellow while connecting" (`ota_update.md:18-20`) | the access point drops the station during a transfer; the transfer fails while Wi-Fi reconnects, and its `ResumeAnimation` ends the yellow |
| WifiDropUnnoticed | "or the AP drops us (then reconnect)" (`main.rs:206`) | a drop during `wait_for_ip` is not noticed |
| WifiPressLost | "Repeatable — toggles on/off each time" (`ota_update.md:22`), "consumes every long press" (`main.rs:67-68`) | during the second of red after Wi-Fi went off one long press waits in WIFI_TOGGLE, and the next one is absorbed: two presses turn Wi-Fi on |
| OtaStateLost | "`otadata` is left untouched" (`ota_update.md:29-30`) | the write of the image state, which comes after the switch, fails: the transfer fails, and the next boot starts its image |
| SensorMissedInt2 | "the edge ... won't happen again" (`main.rs:119-120`) | only the start is handled, not later gaps; the motion is not read, and a countdown that was running goes on into deep sleep |

What remains true where OtaStateLost fails is `OnlyLostStateSwitches`: after a failed transfer
otadata selects the running firmware or the state write is what failed. OtaTask checks it with
the faults under which its other properties hold, and it is proved for all of them.

What the OtaTask model shows when a constant is changed, which no run repeats: with
`"setState"` among the `FlashFaults`, `SelectedIsComplete` is violated as well, since the
retry writes over the slot that otadata now selects, and power lost during that leaves a torn
image selected. With `"marking"` among them it is violated too: an image that stays New has
its entry rewritten by the next boot, and the older entry may by then select a slot that a
transfer has half written.

Other gaps between comments and code, seen while modelling and left without a run: nothing
ever raises LD_ON, which `main.rs:282` keeps low "until fully initialized"; a lease that
arrives after the last poll of `wait_for_ip` is replaced by the static address
(`main.rs:75`, `DhcpTimesOut`); Wi-Fi is toggled without looking at the pin, so a tap that is
over before `button_task` is polled counts as "still held" (`main.rs:94`, `HeldTooLong`);
between a long press and the completion of `start_async` the CPU may sleep
(`main.rs:56-57`, `SensorMoves`); `ResumeAnimation` ends a status colour as well as
`NextEffect` does (`led_control.rs:285-286`); in linked mode the accelerometer goes back to
watching for activity after an inactivity event, and stays in measurement mode, where the
driver says that it "returns to standby" (`adxl362/mod.rs:293-296`, `ReadStatus`); INT2 wakes
the CPU by its level, not "on a rising edge" (`sleep_control.rs:31-33`, against
`WakeupLevel::High` at 42-43), which is why a detection before the sleep is not lost
(`MotionWakes`).

## Fairness

Weak fairness of a task's steps: the executor polls a woken task, and no task but
`ota_task` in `accept()` loops without awaiting. OtaTask models that exception: while it
spins, no other task and no network step is enabled. Timers and tickers expire. The driver
ends every attempt to join, one way or the other, and `net_task` follows the link. Nothing
is assumed of users, hosts, motion, access points, the flash or the power supply, and no
order among tasks that wait for room in the channel: liveness of a sender is stated for the
case that the others stop sending, or holds because the channel drains. StatusColors asks
for strong fairness of the tasks that `ota_task` keeps from the executor: a task that was
woken stays woken while another one runs, and is polled in the executor's next round.
`StatusEnds` is stated for a user who leaves Wi-Fi off, for a cube left alone, and for an
executor that `ota_task` gives back again and again (`ExecutorTurns`): a host that stops early
takes that away (OtaSpins), and then the blue of its transfer stays on for ever, with the
`ResumeAnimation` unread in the channel. In PowerPolicy the properties of `wifi_task` that
need room in the channel are stated for a `sensor_task` that stops sending (`SensorQuiet`),
since nothing orders waiting senders. Where WifiTask has one fairness condition for all its steps, each control point has at most one
set of alternatives, so none can be starved by another control point.

## Proofs

The `*_proofs` modules prove, for all values of the constants, with no assumption but the
named ones in the modules:

- LedTask: types, `StripMatchesMode`, `StatusHeld`, `NoCatchUpBurst`. The invariant is
  inductive together with the types; every command goes through one lemma about `Settle`.
- ButtonLeds: types and `OnePressOneReaction` of `button_task`. The strengthening
  `PressBehindReaction` says that a fired wait for a press, and everything up to the reaction,
  has a fresh press behind it, and that such a wait is armed only where the task waits for a
  press. It is proved of ButtonTask's steps; each step of the cube is one of them
  (`CubeStepInButton`), and one of LedTask's (`CubeStepInLed`), so what is proved of LedTask
  holds beside `button_task` as well (`LedCorrectBesideButton`).
- WifiTask: types, `RunningRadioIsFlagged`, and `WifiFollowsPresses`. The flag needs
  to know at which control points the radio can run at all. `WifiFollowsPresses` is about
  latched presses; of all presses it is false (WifiPressLost).
- OtaTask: types, and `OnlyLostStateSwitches` for any flash faults (`SwitchIsAccountedFor`,
  whose `Selection` follows the selected slot and the image state through the end of a
  transfer). Unless setting an image state fails (`"setState"` and `"marking"` not in
  `FlashFaults`), `SelectedIsComplete`. The invariant says which words of the other slot are written at
  each point of the transfer, and that both otadata entries select complete images, since a
  torn write falls back to the older one. `UpdateImplementsStore`, from the same invariant:
  each of the three steps that write otadata maps to `Install`, `Keep` or `Restart`, every
  other one to a stutter, and a slot that a step leaves alone holds the image it held.
  `SuccessBootsNewImage` needs no assumption on the flash: its invariant (`Transfer`) follows
  the received words into the slot that the activation selects (`Installed`), and leaves out
  what failed transfers before this one did to otadata.
- SensorTask (in PowerPolicy_proofs, of its own specification): types,
  `CountdownNeedsInactivity`, `MotionCanWake`. A detection changes the phase while a countdown
  runs, so the invariant ties the countdown to the phases that follow a read inactivity
  (`waitAct`, and `actPending` for a motion not yet read), and sleep to the countdown. It does
  not say that every motion ends a countdown: one that is never read does not.
- PowerPolicy: `SleepNeverCutsRadio`: `sensor_task` goes to sleep only where it sees
  `WIFI_ACTIVE` false, and WifiTask's inductive invariant says that the radio is then
  stopped or only starting. Both parts keep what they keep alone: types,
  `CountdownNeedsInactivity` and `MotionCanWake` for `sensor_task` (`SensorCorrectBesideWifi`),
  `RunningRadioIsFlagged` and `WifiFollowsPresses` for `wifi_task` (`FlagCoversRadio`,
  `LatchedPressesDecide`). Each step of a part
  preserves the part's invariant by that part's own proof; deep sleep gives `wifi_task`
  its first state again, and no other step of one part touches what the other owns.
- StatusColors: `NoStuckStatus`. The strengthening `WillBeOn` follows the override through
  the channel, past all queued commands: when neither task has anything to show, nothing in
  the channel leaves it on either. And each part keeps beside the others what it keeps
  alone (`PartsStayCorrect`, `UpdateIsAtomicBesideOthers`, `SuccessBootsBesideOthers`): a
  step of a part is a step of its own module (`LedSteps`, `WifiSteps`, `OtaSteps`), so its
  inductive invariant holds after it by that module's proof; the steps of the others change
  nothing of it but the channel, and a restart gives it its first state again. Here no flash
  operation fails (so `FailureLeavesSelection` holds, in place of `OnlyLostStateSwitches`), and the bootloader has no rollback, as StatusColors is set up.
- AccelSetup: types, the refinement `SettingsAreIndependent` (for any client, and for main
  with its restarts), `RunningIsConfigured`, `NeverMeasuresHalfConfigured`. The refinement
  goes register by register: `SettingsRead` says from which bits of which registers a setting
  is read, and one lemma per call says which of them the call can have written when it stops
  after n writes, and what they hold after all of them; thresholds and times are put together
  again from their two halves, and every encoding is decoded as what it encodes. The two
  invariants of main's setup then need no register: `IInv` says that every setting has the
  value of the last call that returned Ok and owns the setting (`Settled`), except, after a
  panic, the settings of the call that failed. Start forgets the calls, and `init`, the first
  of them, owns every setting, which is why nothing an earlier session left survives.
- LedEffects: types, `DotMovesByOne`, `PaletteScrolls`, `PlacesAreDistinct`, for every length
  of the strip and number of columns that divides it. The meander is its own inverse
  (`MeanderInvolution`), so a dot is at one position; `DotIsLast` ties the trail to the
  position of the last frame, read off the next position and the direction; `IndicesRun` ties
  the palette indices to the time index. For the layout, `Places` works out the six grids,
  `PlacesDiffer` compares their pixels, and `PointsPassed` says that each point yielded is the
  place of a pixel the iterator has passed. `EveryPixelOnce` counts them.

The assumptions are those of the modules: a channel has room for one command, sizes are
positive, `FlashFaults` and `Endings` name what the model knows (StatusColors repeats what
OtaTask assumes), arguments have the types of the driver's parameters (a threshold has its
documented 11 bits), and main's calls are calls of the driver (`MainCallsAssumption`). TLC
evaluates each of them with the values of the runs.

Only model-checked: everything under fairness (`SendersUnblocked`, `StripSettles`,
`SeenPressIsAnswered`, `TapChangesEffect`, `PressIsTaken`, `PressTurnsOff`, `ReconnectsAfterDrop`, `TransferEnds`,
`MotionWakes`, `SleepFollowsWifiOff`, `StatusEnds`, `EveryLedIsSwept`, `OnePointPerLed`),
which is out of the prover's reach. Every invariant and action property of a passing run is
proved.

## Not modelled

- Colours of rainbow and pulse frames: functions of the clock through f32 and lib8tion arithmetic.
- `read_acceleration`: nothing calls it. `log_booted_partition`: logging only.
- Panics on hardware errors (`unwrap`, `expect`) outside the accelerometer setup.
- A controller on which `start_async`, `disconnect_async` or `stop_async` fails.
- Grids whose sides differ: `Grid::points` passes `horizontal_count` as the number of rows
  (`layout3d.rs:96-102`), which shows only there, and every grid of the firmware is square.
- How the host tool builds an image and parses its arguments, the build script, the Wi-Fi
  secrets.

## Plan

1. Done: the tasks, the power policy, the driver, layout and effects; type invariants and
   the main safety invariants of the tasks proved; OtaTask with its host, a rollback
   bootloader and the A/B store it implements; the status colours of two tasks on one
   executor; the power policy and the status colours proved from the invariants of their
   parts.
2. Done: ButtonTask with LedTask (ButtonLeds), and with WifiTask, where presses are merged
   (WifiToggle). Model: rainbow and pulse as integer functions of the clock.
3. Done: the refinement of AccelConfig, register by register, main's setup, the restart
   after a transfer, the effects and the layout proved.
4. Done: in StatusColors and PowerPolicy the safety invariants of the parts, and the A/B
   store, hold beside the other parts by the proofs of the parts.
