# Verification of WakeType (esp32-pc-controller)

WakeType is firmware for an ESP32-S3 that presses a PC's power and reset
buttons through two relays, senses the PC's power LED, and offers an HTTP API
and a setup page over Wi-Fi. This directory holds TLA+ models of the parts that
can hurt when they go wrong, TLC runs over small instances, and TLAPS proofs.

## 1. Inventory

### Tasks

| task | runs |
|---|---|
| main | `app_main`: prefs, relays, sense, network, HTTP server; ends |
| httpd | every HTTP handler, one request at a time, each to its end |
| esp_timer | `watchdog_cb`, `sta_retry_timer_cb` |
| sys_evt | `on_wifi`, `on_ip` |
| pc_state | `pc_state_task`, one sample every 50 ms |
| captive_dns | `captive_dns_task` |

The two cores run them truly in parallel; shared variables are plain or
`volatile`, and the only mutexes are the relay controller's `s_lock` (taken by
a pulse, not by a release or the watchdog) and that of diagnostics.

### Components

| component | state | operations | what makes it correct |
|---|---|---|---|
| relay controller (`relay_controller.c`) | levels of two GPIOs, `s_power_active`, `s_reset_active`, `s_cancel`, `s_busy`, `s_lock`, `s_watchdog`, the pin numbers | `early_init`, `init`, `pulse`, `release_all`, `set_pins`, `watchdog_cb` | never both contacts; a contact closed for its duration, never beyond the watchdog's window; nothing left behind |
| PC command policy (`pc_controller.c`) | none of its own | `power_press`, `power_hold`, `reset_press`, `release_all` | the local lock holds; holds are clamped |
| HTTP API (`local_api.c`) | none; writes the settings | 15 handlers | authorised commands only; every request comes to its end; an answer tells what the relays did; release in time |
| PC state (`pc_state.c`) | `s_state`, `s_gpio`; the task's `last`, `stable_count` | the task, `set_gpio` | a state is shown only after 1.5 s of steady samples, and is shown then |
| preferences (`nvs_prefs.c`) | `s_settings` in RAM, keys in flash | `init`, `save`, `ensure_api_token` | what was saved is loaded again; what is loaded after any crash is usable; a boot ends with a device key |
| boot (`main.c`) | - | `app_main` | relays off first; no saved setting stops it |
| network (`network.c`) | `s_sta_connected`, `s_ap_active`, `s_want_sta`, `s_retry`, retry timer, setup activity | `network_init`, `on_wifi`, `on_ip`, retry timer, `save_and_connect`, `retry_saved_sta`, `apply_static_or_dhcp` | the device can always be reached: by the home network or the SoftAP, at its static address or by DHCP |
| captive DNS (`captive_dns.c`) | `s_running`, `s_sock`, `s_task` | task, `start`, `stop` | at most one task answers; stop stops it |
| mDNS (`mdns_service.c`) | `s_started` | `start`, `update_txt` | started once |
| OTA (`ota_http.c`) | the two slots, the one to boot | `handle_ota` | the update is atomic; what was answered with ok runs |
| diagnostics (`diagnostics.c`) | `s_last_cmd` | `note_command` | reports the last command |
| HID stub, web UI, Home Assistant package | - | - | no logic of the device |

### How they interact

The HTTP server calls a handler on the httpd task; the handler checks the key,
calls `pc_controller`, which asks the settings for the lock and the times and
calls the relay controller; the call returns when the pulse is over, and only
then is the answer sent and the next request read. The watchdog's callback runs
on another core at any time. `settings` and `config` write `s_settings`, save it
to flash and then move the pins of the relay controller and of the PC state task
(a call from httpd against the task's own loop). Wi-Fi events and the boot share
the network's flags without a lock.

### What is hard

The `hazards` of `PROJECT.json` list it line by line. In short: accesses of a
pulse, of a release and of the watchdog in any order; a watchdog callback that
begins as the pulse ends; the tick counter's wrap; starved tasks; the single
HTTP task in front of an emergency release; settings saved before they are
known to work, or torn by a crash, or changed by the fallback to DHCP from
inside; an upload or a first boot that is cut short; clients that do not wait; a
sense pin moved under a running debounce;
and the network's time-outs and requests against its events.

## 2. Modules

| module | models |
|---|---|
| `RelayController` | `relay_controller_pulse`, `relay_controller_release_all`, `watchdog_cb` and the passage of time, for any set of calling tasks |
| `RelayTiming` | `RelayController` with a history of the watchdog's writes, to say how long pulses last |
| `RelayContract` | abstract: at most one contact closed, for at most `Limit` ticks, and it opens |
| `RelayControllerProofs`, `RelayTimingProofs` | theorems about `RelayController` and `RelayTiming` |
| `PcController` | HTTP clients, the httpd task, `pc_controller.c`, the lock and the times of the settings; `Relay == INSTANCE RelayController` with httpd as the only caller |
| `CommandContract` | abstract: a command closes its contact at most once, alone, and its answer tells whether it did |
| `PcControllerProofs` | theorems about `PcController`, on top of those about `RelayController` |
| `PcState`, `PcStateProofs` | `pc_state.c`; theorems about it |
| `RelayPins` | the pin numbers: `nvs_prefs_init` and `save`, `early_init`, `set_pins`, `pc_state_init`, restarts |
| `RelayPinsProofs` | theorems about `RelayPins` |
| `Network` | `network.c`: boot, event handlers, retry timer, Wi-Fi requests, restarts; when the captive DNS runs |
| `NetworkProofs` | theorems about `Network` |
| `Firmware` | `ota_http.c`: the upload, the choice of the slot, the restart |
| `AtomicUpdate` | abstract: one build, exchanged in one step for one that was offered |
| `Settings` | the static address and the device key: `nvs_prefs_init`, `save` and `ensure_api_token`, `apply_static_or_dhcp`, the handlers that change or apply them, restarts |
| `Upkeep` | `Firmware` and `Settings` on one device: one httpd task, one power supply, a build that brings its key |
| `UpkeepProofs` | theorems about `Upkeep` |
| `MCRelay`, `MCRelayOne`, `MCPc`, `MCPcState`, `MCPins`, `MCUpkeep` | values for TLC |

Definitions whose comment begins with "Slip" are plausible mistakes, used
only to see that a property notices them; nothing else refers to them.

### RelayController

Variables are the statics of the file under their names; `level[c]` says that
the GPIO of channel `c` is at the active level; `pc[t]` is the line that task
`t` is about to execute. Each action is one access to shared state:

| label | line | action |
|---|---|---|
| lock, check | 236, 242-251 | `TakeLock`, `LockTimeout`, `CheckOther` |
| clear, busy, arm | 253-261 | `ClearCancel`, `RaiseBusy`, `ArmWatchdog` |
| drive, mark | 267 (29, 32-34) | `DriveActive`, `MarkActive` |
| start, poll, peek, nap | 269-275 | `StartTiming`, `ReadTick`, `ReadCancel`, `Wake` |
| drop, unmark | 278 | `DriveInactive`, `MarkInactive` |
| disarm, unbusy, uncancel, give | 279-283 | `Disarm`, `ClearBusy`, `UnCancel`, `GiveLock` |
| cancel ... free | 197-207, 46-53 | `Cancel`, `StopWatchdog` (release only), `ForceInactiveBoth`, `FreeBusy` |

Time: `tick` is the FreeRTOS tick counter modulo `TickMod`. A task that is
running may be held up by at most `Preempt` ticks before each access, a sleep
and a timer may be late by as many; `Tick` is disabled while someone has used
up the allowance. `wd_left` is what is left of the watchdog's window, `held[c]`
(a history variable) for how long the contact has been closed. While nothing
runs, `IdleTime` moves the counter to any value of `StartTicks`. esp_timer's
microseconds and the tick are one clock here.

`RelayTiming` adds `forced`: `watchdog_cb` has cancelled a pulse or driven a relay
off since a pulse last cleared `s_cancel`. Its callback may be that of an earlier
pulse, so a pulse that is cut short by it is no mistake of the loop.

The check of `s_lock == NULL` and the NULL test of `s_watchdog` never fail
after boot and are left out.

### PcController

`inbox[c]` is the request on a connection, `job` the connection whose handler
runs. A client may close its connection (`GiveUp`): the request stays, is served,
and is answered to nobody. A request that waits may be lost with its socket
(`Lose`), by a reset or because the server, configured with `lru_purge_enable`,
closes the socket for another. A client that repeats its request does so on
another connection. The settings, `last_command` and the request in hand belong to the httpd
task, so all of a handler up to its call of the relay controller is one action.
Posted times are JSON numbers and are counted in halves, so that 0.5 is one of
them: the cast to an integer makes it 0. The answer of a settings request is
left open between success, a failing flash and the 400 of a bad GPIO, because
the lock and the times have been changed in all three cases; so is that of one
which moves pins (`SettingsMovePins`), between success and a pin that refuses its
new role after the release (`SendResult`).

`ImplementsContract` maps each connection to the phase of its command: asked,
closed while its relay is on, opened when the pulse has ended the way that will be
answered with `ESP_OK`. A command that another request overtook, that the lock,
a zero time or a lost socket stopped, goes from asked to none; one of which the
client was told `ESP_OK` has been closed once and is open.

### PcState

The task's loop is three steps (read `s_gpio`, read the level and count, commit),
`pc_state_set_gpio` two. `run` records how many of the latest samples agree
(`agree`), and how many of these are of one pin (`steady`).

### RelayPins

The boot and the two handlers that move pins are straight programs over labels;
`configure_relay_gpio` is two steps (`half` is set in between), since the order
of `gpio_config` and `gpio_set_level` is what matters. `Restart` may happen at
every step and keeps only `saved`. Pins that a handler refuses with 400 change no
pin and are left out. The direction and the output latch of a GPIO, both reset
by a restart, and the pins that the ESP32-S3 lacks are external facts.

### Network

`pc[t]` is the next write or call of task `t`: `main` in `network_init`, `sys_evt` in
`on_wifi` and `on_ip`, `esp_timer` in `sta_retry_timer_cb`, `httpd` in
`network_save_and_connect` and `network_retry_saved_sta`. `start_ap` may run on
`main` and `sys_evt` at once. The driver is external: `SetMode` posts the events of
a mode that starts or stops, `Connect` is refused unless the link is down, a
join ends with `GOT_IP` or `DISCONNECTED`, the link is lost when its network
leaves the `air`. `events` is the queue of the default event loop. `running` holds
the timers that run, since two tasks may both create one. `setup_open` says that
the setup page was polled in the last 8 s, and ends at any time; so does the wait
of 25 s. A request can arrive only while the device can be reached.

Assumed: calls of the driver succeed (one that fails under `ESP_ERROR_CHECK` is a
`Restart`).

### Firmware, Settings and Upkeep

`ota` is how far `handle_ota` has come, `slots` what the two OTA slots hold, `boot`
the slot that otadata selects, `running` the one that was booted. A write leaves
`Garbage` in the slot until the last one; `esp_ota_end` accepts members of
`Builds` only; every call may fail and is answered with 500. `promised` (history)
is the build of the last update that was answered with ok. That a build which
validates also boots is assumed: the device has no rollback.

In `Settings` one task runs, main until the boot is over and httpd after it. `pc` is
where it is (`load`, `key`: the boot; `save`: `nvs_prefs_save`, with `todo` the
fields still to write; `apply`, `dhcp`: `apply_static_or_dhcp`), `broken` tells the
save of `disable_broken_static_config` from that of a handler. A `nvs_set` that fails
is ignored, `nvs_open` and `nvs_commit` that fail end the save; in the boot, the
save of the key aborts. `wifi_ip` stands for the address fields that must all be
well-formed (the address, the gateway, the mask); `netif` is what the station's
interface does. `stored` (history) says that what is in RAM was loaded or was
saved without a failing write. The pins that make a POST fail are not in this
module, so `PostRefused` may happen to any body.

In `Upkeep` a handler runs only while no other does; `Restart` may happen at every
step while the power is unsteady and always at the end of an update; `BuiltIn` is
the `WAKETYPE_DEVICE_KEY` of each build, so that updates change the rule for the key.

Assumed: `esp_netif_dhcpc_start` does not fail on an interface that exists
(`network_init` creates it first); opening the flash for reading does not fail but
for a restart. `BodyAssumption` says only that what is posted has the right type:
`copy_json_str` copies any text, the empty one included. The module is about a
device that has a network saved: without an SSID `network_init` does not run
`apply_static_or_dhcp` (`network.c:397`), so that after such a boot `InForce` says
nothing about the firmware; nor does `ComesUp` speak of pins (see `pins_absent`).

## 3. Runs

| run | instance | shows |
|---|---|---|
| `relay_one` | 1 caller, window 13, counter modulo 32, started at 0 and around its wrap | pulses last as long as asked and end in time; the watchdog spares those that fit and cuts those that do not; calls return; the contract is implemented, with liveness |
| `relay_two` | 2 callers, symmetric | exclusion and clean-up in all interleavings of two pulses or releases and the watchdog |
| `relay_wrap` | 1 caller, counter modulo 16 | **violated**: a pulse across the wrap is cut to nothing |
| `commands` | 2 connections, 9 requests, clients that give up, requests that are lost | the command path, under fairness; it implements `CommandContract` |
| `release_late` | 2 clients, a hold and a release | **violated**: the release waits for the hold |
| `pc_state` | 2 pins, 4 samples needed, cap 5 | the debounce and its convergence |
| `pc_state_stale` | the same | **violated**: the count survives a move of the pin, and the first sample of the new one commits |
| `pins` | 6 pins, 6 trios | moves of the pins, failures, restarts |
| `pins_absent` | one absent pin | **violated**: a saved pin that stops every boot |
| `network` | 1 network, 1 failed attempt before the SoftAP | flags and driver agree; the retry timer finds the network |
| `network_lost` | the same | **violated**: on no network, not trying, the SoftAP off |
| `upkeep` | 2 builds, 2 addresses, 2 keys, 3 posted bodies and an import, empty keys among them | the update is atomic; the address and what was saved survive what happens; a boot ends with the build's key or some key; no address and no key stops one |

Bounds, and why they are enough:

- `Preempt = 1` lets every access be overtaken by a tick and by any number of
  steps of the others. In `relay_one` a duration of 2 fits the window
  (`Fits`: `dur + PollTicks + 9 * Preempt <= WatchdogTicks`), 5 does not and may be
  cut, 6 and 0 are refused; with the real numbers (8000 ms, 10 ms polls, 8500 ms)
  the delays may be up to 54 ms each. Calls begin at tick 0 and at the last 7 ticks
  before the wrap: with `TickMod = 32` no pulse outlasts a period, as none outlasts
  2^32 ticks, and deadlines lie on both sides of the wrap. The timing properties
  except the pulses that meet the wrap (`Unwrapped`, `JumpedOver`); those are the
  matter of `relay_wrap`, of `HeldWithinLimit` and of `CallReturns`.
- `relay_two` needs two callers (one in the pulse, one waiting, releasing or
  timing out): a third would only wait as the second does. Windows are as small
  as they can be while the lock may time out and the watchdog may fire.
- `commands` has `Preempt = 0`: delays inside a pulse are the matter of the
  relay runs, here they only multiply states. `MaxHold = 3` with posted times
  0, 1/2, 2, 4, 4 1/2 and 5 ticks has every case of the clamp. One connection is
  served while the other waits, is lost, or has been given up.
- `pc_state`: `Needed = 3` and `CountCap = 5` stand for 30 and 1000: the count
  starts again, reaches the threshold, and stays at the cap.
- `pins`: rotations of the three pins, a refused pin, and an absent pin in each
  of the three places, from every mixture that a torn save leaves.
- `network`: one network that comes and goes, and the empty SSID, tell all cases of
  saved, configured and joined apart. One failed attempt before the SoftAP stands
  for ten: `s_retry` starts again, is counted, and reaches its limit. The radio
  reports while fewer than `MaxEvents = 1` events wait; mode changes queue further
  ones. The invariants hold as well with `MaxEvents` 2 and 3, with 0 and 2 failed
  attempts, and with two networks (2 to 9 million states each).
- `upkeep`: a build with a key and one without, in both directions; a well-formed
  address with a new key, a malformed one, the flag with an empty key, an import
  that nobody has looked at, with an empty key; the random key of a first boot may
  be either key;
  two addresses tell the new one from the old. Requests, updates and restarts are
  not bounded.

No run switches the deadlock check off: an idle device can always be called.

Fairness. `RelayController`: weak fairness for each task's own steps (FreeRTOS
runs a ready task; none of these tasks is starved for ever), for the timer, and
for time. Nobody is obliged to call. `PcController`: besides, strong fairness for
serving each client, because esp_http_server goes round all sockets with data
and no waiting one is passed over for ever; a client need not send. `PcState`: the
task and the call of `pc_state_set_gpio` go on; `Converges` assumes that the LED
and the choice of the pin settle. `RelayPins` states safety only.
`Network`: the four tasks go on, the timer fires, an attempt to join ends; `Rejoins`
assumes that the network stays in the air and the setup page closed.
`Upkeep`: the boot and the handlers go on, `esp_restart` happens, and a flash that
fails does not fail always (strong fairness of a save that gets past `nvs_open` and
`nvs_commit`; the single `nvs_set` may fail for ever); the power need not become steady, and `ComesUp` is about devices whose power
does. No client is obliged to finish an upload.

## 4. What the violated properties say

Each is a sentence of the repository that the code does not keep
(`findings` in `PROJECT.json` quotes them): the wrap of the tick counter
(`relay_controller.c:269`), the release that queues behind a hold
(`local_api.c:599`), the stale debounce count (`pc_state.c:105`: in the trace `pc_state_set_gpio` has
returned, and the first sample of the new pin, equal in level to those of the old
one, is committed as a state), the GPIOs 22 to
25 that `waketype_gpio_allowed` accepts (`configuration.h:50`), and a race of
`network_init` against `on_ip` (`network.c:300`): `on_ip` sets `WIFI_CONNECTED_BIT`
last; when the 25 s run out before that, `start_ap` in the main task and
`leave_ap_for_sta` in the event task interleave. If the link is lost in between,
its event is handled after `AP_START`, which has set `s_ap_active`, and is ignored;
the `AP_STOP` behind it clears the flag, and nothing is left that would connect or
open the SoftAP.

More things that these models show, without a run of their own:

- in the same race `start_ap` may set the mode last: the device is on its network
  with the SoftAP open until the link is lost;
- `handle_config_post` stores `wifi_ssid` without `s_want_sta`: imported in setup
  mode, a network is not tried before a restart;
- `network_retry_saved_sta` does not start the retry timer (`network.c:483`): if the
  SoftAP came up without a saved network, and one was stored since by an import or
  by a request that failed to save, a manual retry that fails is the last one,
  where `README.md:60` has one every 30 seconds. `Rejoins` does not contradict it,
  as `Hoping` asks for a running timer;
- `configure_relay_gpio` enables the output before it writes the inactive level:
  at boot an active-low relay is driven on in between
  (`relay_controller.c:64`). `OneDriven` and `DrivenInv` bound this to one pin.

- `nvs_prefs_ensure_api_token` overwrites a stored key that differs from the
  build's, whatever `WAKETYPE_FORCE_DEVICE_KEY` says (`nvs_prefs.c:184`):
  `secrets.env.example:10` says "set FORCE=1 once to overwrite", and `README.md:48`
  agrees. A key that was set on the settings page lasts until the next boot of such
  a build. `HasKey` says that it is the build's from then on;
- an empty `api_token` is taken over by `handle_settings_post` (`local_api.c:323`), and
  by `handle_config_post` when the body asks for secrets (`local_api.c:483`), and saved:
  the device is then up without a key until the next boot, where
  `nvs_prefs_ensure_api_token` gives it one. With "a device that is up has a key" in
  the place of `HasKey`, TLC's counterexample is a boot and one such request. No
  line of the repository promises a key at all times, so `HasKey` is stated for what
  the code does ensure: every boot ends with the key of the build, or some key;
- a POST that is refused with 400 has changed the settings in RAM: a later save
  stores them, a retry puts them in force (`PostRefused`);
- a crash in the middle of a save mixes old and new fields: the next boot may use
  the new address with the old flag, and if the fields are not well-formed it
  falls back to DHCP (`Addressed`, `ComesUp`);
- a failing `nvs_set` is ignored: the request is answered with `ESP_OK`, and the next
  boot finds the old field. `Durable` excludes it by `stored`.

## 5. Proofs

`RelayControllerProofs` proves, for every number of callers, every set of
durations and every timing allowed by `TaskAssumption` and `TimeAssumption`:

- `TypeCorrect`: `[]TypeOK`.
- `OwnerCorrect`: `[]OwnerInv`, and from it `MutualExclusionHolds`,
  `HolderNeverRefusedHolds` and `IdleMeansOffHolds`. `MutualExclusion` alone is not
  inductive: it does not say why the other contact is open when `DriveActive`
  closes one. `OwnerInv` says it: whatever is up (a level, a flag, `s_busy`, the
  watchdog) is up while the mutex has an owner, for the owner's channel, and in
  the stretch of the pulse between its raising and its lowering. A release or
  the watchdog only lowers variables (lemma `Outside`), so it cannot break this;
  the owner's own steps stay inside (`Inside`) or give the mutex back with
  everything lowered (`Leaving`). A consequence: the flag tests at lines 242-251
  and the error path at 257-261 are never taken.

and, assuming `SoleCaller` (one calling task, which is how the firmware uses the
file):

- `CoverCorrect`: `[]CoverInv`, and from it `WatchdogCoversHolds` and
  `HeldWithinLimitHolds`. `CoverInv` adds up time: the age of a contact and what is
  left of the watchdog's window never exceed the window, and once the callback
  has begun, the age, what is left of the delay at its label and the labels still
  to come never exceed `HoldLimit`.
- `RefinesContract`: `SafetySpec => Contract!SafetySpec`, step by step: closing
  and opening steps map to `Close` and `Open`, a tick with a closed contact to
  `Age`, everything else to a stutter.

`RelayPinsProofs` proves, for every set of pins, every build configuration and
every requested trio (`PinAssumption`, `DefaultAssumption`: the build's own pins
are usable), with failing saves and restarts anywhere:

- `PinsTypeCorrect`: `[]TypeOK`, whose part `TrioOk(settings)` says that no torn
  save gets past `nvs_prefs_init`.
- `DrivenCorrect`: `[]DrivenInv`, and from it `RestQuietHolds` and `OneDrivenHolds`.
  `OneDriven` is not inductive: a pin on which the output has just been enabled
  is at the active level. `DrivenInv` says which pin that is (`Target`), that only
  `half` of `configure_relay_gpio` exposes it, and that outside a pulse there is
  no other.
- `WiringCorrect`: `[]WiringInv`, and from it `ComesUpSoundHolds` and
  `AppliedWhenOkHolds`. It says, label by label, which outputs are enabled and
  whether the relays are on the saved pins yet.

`UpkeepProofs` proves, for all builds, keys, addresses and bodies
(`ImageAssumption`, `SettingsAssumption`, `BuiltInAssumption`, `BodyAssumption`), with failing
calls and restarts anywhere:

- `FirmwareCorrect`: `[]FirmwareInv`, and from it `UpdateRunsHolds` and
  `UpdateIsAtomicHolds`. The properties alone do not say that the slot about to be
  chosen holds a validated upload, nor why the slot that boots may differ from the
  one that runs; `StageInv` says it for each stage of `handle_ota`. Writes go to
  the other slot (`FillOther`), so before the choice they cannot touch what boots.
- `SettingsCorrect`: `[]SettingsInv`, and from it `AddressedHolds`, `InForceHolds` and
  `DurableHolds`. `PlaceInv` says for each place of the task what holds
  there: the interface is without an address only on the way to DHCP, that way
  begins with the flag cleared, no handler runs before the boot is over, and
  (`Written`) a save that has not failed has written the fields before the one it
  is at. It needs `FirmwareInv`: what runs is a build, so the key it brings is one.
- `HasKeyHolds`, from `[]KeyInv` on top of both: nothing that the boot does after
  `nvs_prefs_ensure_api_token`, the save that falls back to DHCP included, touches
  the key; uploads do not touch the slot that runs (`FittingStays`), so what fits it
  stays; and a request ends with an answer. What is posted is not restricted.
- `TypeCorrect`: `[]TypeOK` from both.

`RelayTimingProofs` proves, assuming `SoleCaller`:

- `UncutCorrect`: `[]UncutInv`, and from it `UncutRunsItsLengthHolds`. `UncutInv` says
  for every label of the pulse that, as long as the watchdog has not forced
  anything, the contact is closed, and at least as old as the time since the start
  that `end` stands for.
- `LengthCorrect` (any number of callers): no pulse longer than `MaxHold` is started.
- `PacedCorrect`, assuming also `WideCounter` (no pulse lasts a period of the tick
  counter; 2^32 ticks in the firmware): a closed contact and a started watchdog are
  clocks. `PacedInv` says that either keeps step with the time since the start
  (`Elapsed`, which survives the wrap) to within the delays, and bounds label by
  label how far it may be past the duration (`Slack`). From it follow `PulseEndsOnTimeHolds` and `WatchdogSparesHolds`.

Proving `WatchdogSpares` showed that `Fits` was too generous for delays of more
than one tick: it had eight delays, and the watchdog's own was missing. A run with
`Preempt = 1` cannot tell the two apart.

`PcControllerProofs` proves, for all clients, requests and timings:

- `TypeCorrect`: `[]TypeOK`.
- `RelayBelow`: `SafetySpec => R!SafetySpec`, where `R` instantiates
  `RelayControllerProofs` with httpd as the only caller. Each step of the
  composition is a step of the relay controller or leaves it alone, so all its
  theorems hold here without a second proof, those under `SoleCaller` included.
- `JobCorrect`: `[]JobInv`, and from it `ClosedOnRequestHolds`, `LockHonouredHolds`
  and `HoldAcceptedHolds`. `JobInv` ties the label that httpd is at in the relay
  controller to the request in hand: a pulse label means an authorised command that
  the lock lets through, on its channel, and the status already names it.
- `RefinesContract`: `SafetySpec => ImplementsContract`. The mapping needs `OwnerInv`
  (closing is one step, alone, inside the pulse) and `JobInv` (for which request).

`PcStateProofs` proves, for every set of pins, every `Needed <= CountCap` and a
pin that moves at any time:

- `TypeCorrect`, and `RunCorrect`: `[]RunInv`, which says that `last` and
  `stable_count` describe the latest run of equal samples. `CommitsAgreedHolds`, an
  action property, is what the step that commits does in a state of `RunInv`.

`NetworkProofs` proves, for all networks, any number of attempts before the SoftAP
and any length of the queue (`NetworkAssumption`: the empty SSID and the two states
of a link that is not up are no networks):

- `TypeCorrect`: `[]TypeOK`. Both tasks that run `start_ap` may find no timer and
  create one each; `TypeInv` says why there is never a third.
- `ApFlagAgreesHolds`: `[]ApFlagAgrees`. The property speaks of states in which
  nothing is under way, so it is far from inductive; the proof builds up, each
  layer using those before it, what is under way in the others:
  `BootInv` (nothing happens before the driver is started, no handler before
  `network_init` is through), `OfflineInv` (a device without a saved network gets no
  address meanwhile), `QueueInv` (the last report about the SoftAP in the queue
  agrees with the driver, and a station on a network has reported it since the last
  loss), `FlagInv` (when `s_ap_active` and the mode differ, an event waits or a step is
  under way that settles it, also when `start_ap` runs in the middle of
  `network_save_and_connect`: `Raised`) and `DnsInv` (the same for the captive portal). The hard
  case of `FlagInv` is `Recovering`: `network_save_and_connect` has lowered the flag
  after `start_ap` had turned the SoftAP on; then the station is trying to join, and
  a success ends in `leave_ap_for_sta`, failures in a new attempt or in `start_ap`.

The theorems talk of the model: the grain of accesses, the bounded delays, a
timer that fires once, and the order in which the driver reports are assumptions.
Those about the relay controller except the last two of `RelayTimingProofs` need no
assumption on the wrap, and none but `WatchdogSpares` a bound on durations against
the window.

Every invariant and every action property that a run shows to hold is also
proved. Only model-checked is what rests on fairness, which is beyond the prover:
`CallReturns`, the liveness half of the relay board's `ImplementsContract`,
`RequestsAnswered`, `Converges`, `Rejoins` and `ComesUp`.

## 6. Not modelled

mDNS: its state is that of a library the repository does not hold, and what two
overlapping `mdns_service_start` do is that library's choice. The captive DNS's
task: it is started only while no network is saved, minutes after the stop before
it. IPv6 and scans, which read and report; failing calls of the Wi-Fi driver that
are not under `ESP_ERROR_CHECK`; the setup-mode rule of the GET endpoints; JSON
parsing, what a cast of an out-of-range number yields, HTML and logging; the HID
stub, which has no state; failures of allocation at boot. A second
calling task of the relay controller exists in `relay_two` only: the firmware has
none, and `WatchdogCovers` and `HeldWithinLimit` would not hold with one (a
release by another task may clear or stop what a pulse has just set).

## 7. Plan

Modelled as planned so far: the relay controller, the command path with clients
that do not wait and its contract, the PC state, the pins, the network, the static
address and the device key, and the update. The safety of all of them is proved.
What is left:

1. What of the liveness the prover can reach: that each step of a task's pulse
   or release brings it closer to its end (a measure that no step of another
   task raises), the fact `CallReturns` rests on.
2. `Network` against an abstract specification of the setup portal: off, on, or
   on its way, as the API reports it.
3. `Settings`: that what a torn save mixes is fields of two saves and no others.
