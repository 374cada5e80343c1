# TLA+ model of the Tinkwell device SDK

This directory models the firmware in `src/`: a C SDK (`tw-device-sdk`) that
runs a sensor or actuator device, talks CoAP to an edge hub, takes firmware and
applet updates from it, and can be provisioned from a separate factory
application. The code is the reference. Where a comment, a header or a guide
says something else, the difference is listed under *Findings*.

The modules are checked with TLC on small instances; the core ones have
theorems that TLAPS checks for every value of their constants.

## 1. The system

### Parts and what they keep

| Part | Source | State | Operations |
|---|---|---|---|
| OTA receiver | `svc_ota.c`, `pal_ota*.c` | `s_state`, write session, byte count, block number, running SHA-256; two flash slots and the boot choice | begin, block, commit, status, init, mark_valid |
| Applet receiver and runtime | `svc_applet.c`, `wasm_runtime.c`, `wasm_host_api.c` | transfer state, byte count, version; flash partition | push, commit, status; load at start |
| Device main loop | `svc_device.c` | shutdown flag, next tick, next heartbeat, resource table | run, request_shutdown |
| Heartbeat | `svc_heartbeat.c` | hub address, pending count | send, set_address |
| Power | `svc_power.c` | command flag | listen window, enter sleep, notify |
| Telemetry | `svc_telemetry.c` | interval, next send time | send, is_due, schedule |
| Sensors | `svc_sensor.c` | eight slots under a lock | register, poll, read |
| Commands | `svc_cmd.c` | none of its own (writes NVS) | reboot, set-config, ota-available, app |
| Configuration | `svc_config.c` | NVS | get, set |
| Identity | `svc_identity.c` | identity record, provisioning flags, NVS | init, set_uuid, set_field, set_factory |
| Provisioning | `svc_provision.c`, `factory/main/app_main.c` | staged record, done flag, NVS | factory, hub, set, info; run loop |
| Reset button | `svc_reset_button.c` | holding flag, press time | poll |
| Utilities | `tw_block.c`, `tw_button.c`, `tw_led.c`, `tw_safety.c`, `tw_kvtext.c` | a small record each | feed, poll, set_pattern, check, parse |
| Protocol | `proto_coap.c`, `proto_mqtt.c` | CoAP context, resource table; client context per send | init, poll, send, deinit |
| Transports | `transport_*.c` | connected flag, retry count | init, deinit, events |
| PAL | `pal/esp-idf`, `pal/posix`, `pal/mock` | flash, NVS, clock | thin wrappers |
| Thermostat example | `examples/thermostat` | mode, relay, request | tick, button, CoAP resources |

### How they interact

`tw_device_run` initialises every service, builds the table of resources and
then either runs one wake cycle (deep sleep) or loops: tick, heartbeat,
telemetry, poll. Requests are served only inside `proto->poll()`, one at a
time, on the same thread. Everything the services share goes through NVS (flags
and settings), through flash (OTA slots, applet partition) and through the
return value of a heartbeat (the number of commands the hub holds for the
device, which decides how long a sleeping device listens). Losing power is
possible between any two statements; what was committed to NVS or written to
flash survives, statics do not. On ESP-IDF, provisioning is a different program
in a different partition: the main application reboots into it when it finds
itself unprovisioned.

### What is hard here

* **Transfers.** Firmware and applets arrive in numbered blocks over a network
  that loses, repeats and delays; a begin may replace a transfer at any point.
* **Power loss.** Between sealing an image, choosing it for boot and rebooting;
  between two NVS writes that belong together; between two wake cycles.
* **Trial boots.** New firmware must be confirmed or given up, and the image to
  fall back to must stay intact meanwhile.
* **Two programs, one NVS.** The factory and the main application each decide
  from persistent flags whether to run or to hand over to the other.
* **Stale values.** Values kept from the last cycle, the last transfer or the
  last request (pending count, version, staged provisioning record, relay
  request).
* **Time.** Intervals, windows and hold times on a wrapping 32-bit clock.
* **Two tasks.** The Bluetooth task handles what a companion writes while the
  main task waits for a flag it sets; ESP-IDF's event task and the Thread worker
  write the connected flag while `tw_transport_init` waits; applications may
  register and read sensors while a report walks over them.

### What makes each part correct

* OTA: bookkeeping equals flash; only a complete image that matches its digest
  becomes bootable; a reset always finds an image and, during a trial, a
  fallback; a commit ends; progress is a percentage.
* Applet: a running applet's code is the one that was committed; a reset
  should never run a partial applet, which the code does not keep (section 5).
* Main loop and heartbeat: ticks and heartbeats keep coming, shutdown is
  honoured, the listen window reflects the last heartbeat.
* Provisioning: the factory lock holds, whatever is refused or interrupted; a
  provisioned device reaches the main application and an unprovisioned one the
  factory application.
* Thermostat: the relay is where safety wants it, else where mode and request
  do; the mode is the user's.
* Sensors and reports: a slot belongs to one sensor, a value that is reported was
  read, a report has every sensor, goes to the hub that was set, and ends.
* Identity and announcements: a restart finds the identity the device had, and
  what was cut off can be told from what is whole.
* Transports: once its events are delivered the flag says what the link is;
  bringing it up comes to an end.
* A provisioning session: it ends when it is committed, cuts no handler off, and
  until then the device can be found.

## 2. Modules

| Module | Models | Kind |
|---|---|---|
| `FirmwareUpdate` | what an update promises, in four variables | abstract specification |
| `Ota` | `svc_ota.c` over the A/B slots of `pal_ota_esp.c` | component |
| `OtaProgress` | the progress accessor against a begin that is under way | component |
| `Provisioning` | what provisioning promises, in four variables | abstract specification |
| `Provision` | `svc_provision.c`, the factory application and the main application's hand-over, over NVS and the boot partition | composition of two programs |
| `Applet` | `svc_applet.c` over the applet partition, and what the runtime finds there at start | component |
| `Device` | `tw_device_run` with heartbeat, telemetry and power | composition of services |
| `Thermostat` | `thermostat.c` over the SDK's safety monitor, button and settings, and `/tw/set-config` | composition of the application with utilities |
| `Transport` | the five `transport_*.c` over the events of a link | component |
| `Settings` | `svc_identity.c`, `svc_config.c` and `/tw/ota-available` over both NVS backends | composition of services with their store |
| `Sensors` | `svc_sensor.c`, one load or store a step | component |
| `Reporting` | payload, address and request of heartbeat and telemetry over `Sensors` and `coap_send_fn` | composition, a refinement of `Sensors` |
| `Session` | one `svc_provision_run`, by each bearer | composition of two tasks, stack and companion |
| `MCOta`, `MCProvision`, `MCApplet`, `MCDevice`, `MCThermostat`, `MCTransport`, `MCSettings`, `MCReporting`, `MCSession` | small instances | TLC |
| `OtaProofs`, `ProvisionProofs`, `AppletProofs`, `DeviceProofs` (with `OtaProgress`), `ThermostatProofs`, `TransportProofs`, `ConfigurationProofs` (`Settings` and `Session`), `ReportingProofs` | inductive invariants, theorems | TLAPS |

### `Ota` and `FirmwareUpdate`

Variables with the names of `svc_ota.c` are its statics: `s_state`, `s_handle`
(which slot is open, or `NULL`), `s_received`, `s_expected_size`,
`s_expected_block`, `s_expected_sha256`, `s_sha_ctx` (what was hashed). `slot`,
`img` and `boot` are the flash and the otadata of ESP-IDF; `running` is the slot
that was booted. An image is a short sequence of bytes and a digest is the
sequence it was taken of, so two digests agree exactly when the contents do.

`OnBegin`, `OnBlock` and `OnCommit` are the handlers. Begin and block are one
action per outcome. Commit is cut into the steps between which power can be
lost: the guards (`OnCommit`), the comparison and `pal_ota_finish`
(`CommitMismatch`, `CommitFinish`), the boot choice (`CommitSetBoot`), the
restart (`CommitReboot`). `Reset` may come anywhere and boots as the bootloader
does: an image on trial is given up when it starts a second time.
`MarkValid` is the application's call. `BeginFault` is the crash of a begin
that aborts a session that is not there.

`FirmwareUpdate` knows the image that boots next, the one beside it, whether
the former is on trial, and what was offered. Its steps are: accept an
offer, drop it, write to the spare image, install, confirm, fall back. `Ota`
implements it (`UpdateSpec`): only what was offered, complete and with the
offered digest, is ever chosen for boot, and the image to fall back to is left
alone during a trial.

### `OtaProgress`

`on_begin` stores the new size many lines before it resets the count. The
module cuts the begin into those statements and reads the two statics the way
`tw_ota_progress_pct` does, with its tests and its divisor, `size / 100 + 1`.
`Threaded = FALSE` reads between handlers only, `TRUE` at any point. Its
specification is `ProgressSpec`, a name of its own, because `DeviceProofs` extends it beside `Device`.

### `Provision` and `Provisioning`

`nvs` is what a read returns, `flash` what a reset leaves, `pending` the writes
between the two, in order. ESP-IDF writes each value at once, other backends at
`pal_nvs_commit`; `Flush` lets any prefix of the pending writes be durable when
power fails (`Crash`), which covers both. `running` and `boot` are the two
programs: `FactoryBoot`, `FactorySwitch` and `MainBoot` are how they start and
hand over, and the rest are the handlers of `/tw/provision/*` in the protobuf
and the kvtext build (`wire`), split in their writes and their commit, and the
reset button. Fields that are written alike share one key. `Heard` is what CoAP
and BLE do alike with a message once it is merged into `s_prov`.

`Provisioning` knows only what a loss of power would leave (identity, settings, whether
commissioned) and whether the main application works. A device is provided for
only while it does not work, a locked identity stays, it starts only when
commissioned, and only the reset button, pressed while it works, makes it forget.
`Provision` implements it (`ProvisioningSpec`). A hub address that `tw_hub_set_address`
refuses (`RefusedHubs`: 64 characters or more in front of a port) is not written; as
nobody looks at the result, the flag still is. What an application writes itself by
way of `tw_identity_set_*` while it works is not in either: nothing in the SDK does.

### `Applet`

The statics of `svc_applet.c`, the bytes written since the last erase (`flash`),
what that erase left in place if it failed (`left`), and what the runtime took for an
applet at the last start (`loaded`). What is read is the one over the other
(`Partition`): where nothing was written the old bytes are still there, and where
something was, `Over` says what became of it (the new byte in a file, less than
either in NOR flash). `acked` and `installed` are history variables: the
payloads answered 2.31, 2.01 or 2.04 by block number, and the image committed last. A
handler is one action per outcome; flash writes may fail half way. A restart
interrupts the model only between handlers: a restart inside one leaves the
partition as a failed write does, which `WriteFails` followed by `Boot` covers.

### `Device`

`pc` is the place in `tw_device_run`; `due` is the time left until the next
tick, heartbeat and telemetry; `since` the time since the loop read its clock, or
since a sleeping device woke. Time is relative, so the state is finite
without a bound on how long the device runs. Every call that blocks takes any time up to its bound,
which is a constant. Requests arrive in polls: one that is served ends the poll
early (`PollServes`, `ListenServes`) and may restart the device.

### `Thermostat`

The statics of `thermostat.c`, the monitor's limits and state, and the button's
last level and press. `Tick` is the whole of `thermostat_tick`, button and
monitor included; the hub's requests and `/tw/set-config` come between ticks and
`Restart` is `thermostat_init` after any of them. Settings are numbers or texts,
and a text is the number it spells (the parsing is left out; texts that spell
none read as 0 on POSIX). `typed` chooses the store: ESP-IDF refuses to read a
text as a number, and a later write replaces an earlier one of the other type;
POSIX reads a number out of any text. `seen` (what the last tick went by) and
`saved` (whether the last write of the mode worked) are history variables.

### `Transport`

`kind` is the build. WiFi, Ethernet and BLE have `events`, a queue the driver
fills as the link changes and the event task empties; `Init`, the wait with its
time-out, the static address after it (`StaticAddress`) and `deinit` are the
caller's. Thread has a worker instead, whose read of the role (`TaskTest`) and
store into `s_connected` (`TaskAssign`) are two steps. A second `init` restarts
the device, as `ESP_ERROR_CHECK` does. `fallback` and `tries` are history
variables. Nothing under `src/` calls `tw_transport_init`
(`overview.md:74` names a `svc_transport.c` that does not exist), so the caller here is
one that keeps to `tw_transport.h`.

### `Settings`

`s_id` is the identity in RAM, `nvs` what a read returns, `disk` what a start
finds. A handler changes `s_id` and leaves its NVS calls in `todo`, and they are
made one by one: any of them may fail, and the device may restart before any.
On POSIX a commit truncates the file (`rewriting`) and then writes it; on ESP-IDF each
value is written at once. `Loaded` is `tw_identity_init`, with what either
backend does to a name that is too long.

### `Sensors` and `Reporting`

`Sensors` is the registry alone: each task registers, reads or polls under the
mutex, storing the fields of a slot one by one, in either order for those the
compiler may swap. `Reporting` extends it with the main task's reports: a walk
over the slots that takes no mutex (`scan`), the address (`Parsed`, and again
from its text in `Target`), the stored host and port, and the request with its
polls (`remaining`, `answer`). Every action of `Reporting` is one of
`Sensors` or leaves the registry alone, which `ReportingIsRegistry` proves.

### `Session`

`main` is where the main task is in `svc_provision_run`, `handler` what the
handler that runs does next: it applies, or stores, and answers. CoAP handlers
run in the main task, inside a poll; BLE's are callbacks in the Bluetooth task,
which takes `queue` in order, while the main task waits for `s_prov_done`. Bluedroid is
disabled by a message in the same queue, so it goes down between two callbacks.
`StackAnswers` is Bluedroid, which has the characteristic (`listed`) before it says
so. A write response is handed to Bluedroid by the callback; whether it is sent before
the stack goes down is up to Bluedroid and not modelled. On POSIX
`RunEnvironment` stages the UUID of `TW_UUID` and then of `TW_HUB_UUID`.
`Provision` has what applying writes, and power loss in between. Its
specification is `SessionSpec`: `ConfigurationProofs` extends it beside `Settings`.

## 3. Runs

| Run | Instance | What it shows |
|---|---|---|
| `ota` | two byte values, images up to two bytes, blocks up to two, all failures | count, hash and flash agree (`SessionAccounting`); a reset finds an image, and during a trial a fallback (`AlwaysBootable`); `Ota` implements `FirmwareUpdate` (`UpdateSpec`); a commit ends (`CommitSettles`) |
| `ota_progress_serial` | sizes 50, 100, 250, blocks 50, 200 | between handlers the progress is 0..100 |
| `prov` | two values, one hub address that is refused, the commands of a factory, a hub and a companion app, the wrong ones included | the factory lock (`FactoryLock`); the main application works on a provisioned device (`OperativeProvisioned`); the flag comes after all that its commit stores (`CommitBeforeFlag`); `Provision` implements `Provisioning` (`ProvisioningSpec`) |
| `applet` | images up to three bytes in up to three blocks, sizes wrong in both directions | the partition, if it was erased, is what was acknowledged (`PushMatchesReplies`); what is announced is complete (`RunsWhatWasDeclared`) |
| `device` | tick 0, long, and too long for an `int`; intervals of 3 and 4 ms; windows 1 and 4 | deadlines are kept (`DeadlinesKept`); awake time is bounded (`AwakeBounded`); heartbeats keep coming (`KeepsReporting`); a stop is honoured (`ShutdownHonoured`); the device goes back to sleep (`GoesToSleep`) |
| `thermostat` | limits 1 and 3 or the texts 1 and 3 for either, readings 1..3, both stores | the relay is where safety, mode and request want it (`SafeRelay`); only the button chooses OFF or ON (`ModeIsTheUsers`) |
| `transport` | all five builds, two retries, three events under way | the flag settles to the link (`SettlesToLink`); attempts are bounded (`RetriesBounded`); init returns (`InitReturns`); a loss is noticed (`LossIsNoticed`) |
| `settings` | names that fit and do not, a table too small for all keys, two announcements, one refused write at a time | a start loads the identity the device had (`RestartKeepsIdentity`); announcements and factory passes are cut off in order (`AnnouncementOrdered`, `FactoryIsWhole`) |
| `reporting` | two slots, two tasks, four forms of address, builds with and without protobuf | `OwnSlot`, `LatestSample`; reports have every sensor (`ReportComplete`), go to the hub that was set, before and after a restart (`ReachesHub`), and end (`ReportEnds`); the pending count is the last one (`PendingIsAnswered`) |
| `session` | every bearer, both wire formats, two messages in the queue | a companion's write is heard (`WritesAreHeard`); no restart in a handler (`RestartsWhole`); no torn UUID (`AppliedAsGiven`); sessions end (`SessionEnds`); the device can be found (`KeepsAdvertising`) |
| `prov_switch` | as `prov` | a disagreement of section 5 |
| `applet_loads` | images and payloads of one or two bytes, a size of 3, no flash call fails | a disagreement of section 5 |

The types of every module are proved (section 4); the runs of `Ota`, `Provision`,
`Device`, `Transport` and `Session` do not check them as well.

### Bounds, and why they are enough

* **Images of two or three bytes.** The code compares counts, numbers and
  digests only. Two bytes give one block or two, an early end, an overrun, a
  wrong byte and a wrong size; three give a push of an applet a middle block.
* **Block numbers 0..2.** A repeated, a late, an early and a right one exist
  for every point of such a transfer.
* **Pending NVS writes.** `MaxPending` (2) stops new requests while more writes
  than that wait. Two requests can leave their writes behind each
  other, and `Flush` and `Crash` cut them at every point. The proofs need no
  such bound.
* **Sizes in `OtaProgress`.** The divisor is 1 for 50, 2 for 100 and 3 for 250,
  so a count of one transfer meets a smaller and a larger divisor.
* **Intervals in `Device`.** A send takes 0 or 1, a poll 1 or 2, a heartbeat is due every
  4: the order of any two deadlines and a delay that spans an iteration both
  occur. `IntMax` is 7, so the tick of 9 has a wait that does not fit and the tick of 7 has one
  that just does. The proofs keep all of these as parameters.
* **Readings 1..3 and texts 1 and 3 in `Thermostat`.** They lie on, between and
  beyond the limits, and the limits are in order, equal or crossed. As a mode, 1
  is one and 3 is none. Of the time since the last press only whether
  `DebounceMs` has passed counts: gaps of 1 and 2 fall on both sides.
* **Pending commands 0 or 1.** The code only asks whether there are any.
* **`Transport`.** Two retries give a first, a middle and a last one; three
  queued events let a loss, an address and another loss wait together. The proofs
  leave both open.
* **`Settings`.** A name of one character fits, one of three does not, nor does
  the compiled one. Five keys fill the POSIX table before all seven are in it.
  `MaxRefused` (1): one key at a time has lost its last write. A second
  announcement meets the digest of the first.
* **`Reporting`.** Two tasks and two slots give every race for a slot; the
  address forms are a host that is reached, one in brackets, one that is cut off
  and one that is refused. A time-out of 150 in steps of 100 ends on a step that is not full. The proofs
  leave tasks and slots open.
* **`Session`.** Two messages wait beside the stack's events, so a companion's
  write meets a commit that is being applied. A message commits, resets, gives
  another command with a good UUID, or gives a bad one.

### Fairness, and why the code justifies it

* `Ota`: weak fairness of the steps of a commit. They follow each other in one
  handler, which nothing but a reset interrupts. No fairness for requests,
  for `MarkValid` or for anything a hub does.
* `Device`: weak fairness of the device's own steps, and strong fairness of
  `PollIdle` and `ListenIdle`: now and then no packet cuts a poll short. Under
  packets without end, every poll could end after no time, and neither the
  heartbeat interval nor the listen window would ever pass in the model. A real
  packet takes time, and the model lets it take none. `RequestShutdown` has no
  fairness.
* `Transport`: weak fairness of the caller (its wait has a time-out), of the
  delivery of events, of the worker, and of clearing the flag in `deinit`; none
  of the link.
* `Reporting`: weak fairness of the main task's own steps while no answer is
  there. Its walk takes no mutex, so another task that never releases it does
  not matter. None of tasks, drivers or the hub.
* `Session`: weak fairness of both tasks' steps and of the stack's answers, and
  strong fairness of `LoopEnds`: every poll returns, and the loop looks at
  `s_prov_done` after each, however many requests come. None of the companion.
* A deadlock is an error in every run but those of `Device`, where
  `tw_device_run` may return, and of `Session`, where a device whose stack refuses to
  advertise waits until it is switched off.

## 4. Proofs

| Theorem | States |
|---|---|
| `OtaProofs!TypeCorrect`, `AccountingIsExact`, `ResetIsSafe` | `TypeOK`, `SessionAccounting`, `AlwaysBootable` |
| `OtaProofs!Refinement` | `Ota` implements `FirmwareUpdate` |
| `DeviceProofs!SerialProgress` | `ProgressInRange`, read between handlers |
| `ProvisionProofs!TypeCorrect`, `OperativeIsProvisioned`, `FlagComesLast`, `FactoryLockHolds` | `TypeOK`, `OperativeProvisioned`, `CommitBeforeFlag`, `FactoryLock` |
| `ProvisionProofs!Refinement` | `Provision` implements `Provisioning` |
| `AppletProofs!TypeCorrect`, `SizesAlwaysAgree`, `AnnouncedIsComplete`, `PartitionHoldsThePush` | `TypeOK`, `SizesAgree`, `RunsWhatWasDeclared`, `PushMatchesReplies` |
| `DeviceProofs!TypeCorrect`, `DeadlinesAreKept`, `AwakeIsBounded` | `TypeOK`, `DeadlinesKept`, `AwakeBounded` |
| `ThermostatProofs!TypeCorrect`, `RelayIsSafe`, `ModeChangesByButton` | `TypeOK`, `SafeRelay`, `ModeIsTheUsers` |
| `TransportProofs!TypeCorrect`, `ConnectedSettlesToLink`, `StationGivesUp` | `TypeOK`, `SettlesToLink`, `RetriesBounded` |
| `ConfigurationProofs!SettingsTypes`, `IdentitySurvives`, `AnnouncementsAreOrdered`, `FactoryComesWhole` | `Settings!TypeOK`, `RestartKeepsIdentity`, `AnnouncementOrdered`, `FactoryIsWhole` |
| `ConfigurationProofs!SessionTypes`, `EveryWriteIsHeard`, `HandlersFinish`, `NothingTornIsApplied` | `SessionTypeOK`, `WritesAreHeard`, `RestartsWhole`, `AppliedAsGiven` |
| `ReportingProofs!ReportingIsRegistry` | `Reporting` implements `Sensors` (`RegistrySpec`) |
| `ReportingProofs!EachOwnsItsSlot`, `CacheIsLatest`, `PendingIsTheHubs` | `OwnSlot`, `LatestSample`, `PendingIsAnswered` |
| `ReportingProofs!ReportingTypes`, `NoSensorIsLeftOut`, `ReportsReachTheHub` | `TypeOK`, `ReportComplete`, `ReachesHub` |

They hold for every value of the constants that meets the module's named
assumption (`OtaAssumption`, `ProgressAssumption`, `ProvisionAssumption`,
`AppletAssumption`, `DeviceAssumption`, `ThermostatAssumption`,
`TransportAssumption`, `SettingsAssumption`, `SessionAssumption`,
`SensorsAssumption`, `ReportingAssumption`): these give the constants their types,
say that no model value is taken for data, and order the bounds that the
configuration orders (`PollMin <= PollMax`, `WindowIdle <= WindowFull`).
`ReportingAssumption` has two more parts. A report has a place for every sensor
(`MaxSensors <= MaxReadings`: 8 in `svc_sensor.c:14`, 32 in
`tw_protocol.options:44-45`). And texts are made of tokens in which a colon is a
token of its own: it is no port, and a numeric host has none. `SerialProgress` is
about `Threaded = FALSE`, the reading its run checks.

**Ota.** `AlwaysBootable` alone is not inductive: that the sealed slot may be
chosen rests on its being complete, and that on the counters of the
session. `IInv` adds `SessionStates` (which states have a session),
`CommitProgress` (past the digest the data is what was declared) and
`BootChoice` (what otadata may select). The refinement then maps each action to
a step of `FirmwareUpdate` or to a stutter.

**OtaProgress.** Between handlers the count is at most the size, and less than
100 times the divisor, whatever the size (so 100 itself is never shown).

**Provision.** `FactoryLock` speaks of flash, handlers read `nvs`, and a handler's
writes reach flash later and one by one. `LockInv` bridges that: reads are
flash overlaid with the pending writes (`Overlay`); whoever reads sees the lock as soon as
it is written (`LockIsSeen`); nothing of the factory identity is pending behind
it (`LockIsLast`); and a kvtext build, which does not look at the lock, never
sets it (`KvtextUnlocked`). One lemma per handler shows that its writes keep
these, whatever the command. `OperativeProvisioned` needs `Settled`: while the main application
works, nothing is pending. `CommitBeforeFlag` is about the order of pending writes:
`FlagIsVouched` says that in a kvtext build nothing is pending but the writes of one
commit, that the flag is the last of them, and that all of the commit that could be
stored is read as soon as the flag is pending. When the flag reaches flash nothing is pending any
more, so flash is what was read (`Overlay`). The refinement of `Provisioning`
has to know that no write takes the commission away before the button is
pressed: `FlagIsKept` says that until then every pending write of the flag sets it
and whoever reads sees it, and that afterwards its erasure is all that is pending.
With that every step of flash is a `Provide` or a `Forget`, and the rest starts, ends
or is not seen.

**Applet.** `IInv` is the types, `SizesAgree` (the next write is at the end of what is
there), `Numbered` (the next block is the first that was not acknowledged) and
`Written`: while a push runs and after it, what was written is the acknowledged
payloads put together, which is the partition where nothing was left
(`PartitionType`). That one more payload adds its bytes at the end of the
whole is an induction over their number. The library's induction theorem takes an
operator; here the set of numbers for which it fails has a least element
(`WellFoundedInduction`), and that element is refuted.

**Device.** The deadlines are compared at different points of an iteration, so
`LoopProgress` says how late each may be at every place, and the bound of
`DeadlinesKept` is what adds up at the end of one. `CycleProgress` does the same
for the time a cycle has been awake. The proof is where the bound for telemetry
got its second case: an `on_init` that takes long delays the first push by more
than an iteration.

**Thermostat.** The tick leaves the relay alone while the monitor overrides, and
the monitor calls back only when it enters a state. So `SafeRelay` rests on
`MonitorSees`: the monitor's state is the class of the last reading, and the pin is
the relay's state; limits change only at a restart, which clears both.
`ModeIsTheUsers` has to know what a restart restores: `ModeStored` says it is
the mode or AUTO, and `NumbersAreModes` that a stored number is a mode.

**Transport.** What the flag says now and what it will say once the queue is
empty are different things: the invariant relates the last queued event that
speaks of the link to the link itself, and bounds the attempts by the retry counter and
the events that may still start one.

**Settings.** A handler's NVS calls are made one by one from `todo`, any may fail,
and a restart may come before any. `SettingsInv` says of each call that it writes what
the RAM has (`AsKept`), and that whatever must precede it is settled in NVS or
earlier in the list (`Behind`). A key is settled when it has its value or when
NVS refused it, and on POSIX a full table refuses a new key until the restart.
`TableInv` then says the same of a table without calls: digest, size and URL in
their order, the factory flag behind what was given. It holds of NVS and of
what a start would find, so a restart at any call keeps it. `RamInv` (an
identity field is in NVS or has a call to come) gives `RestartKeepsIdentity`.

**Session.** Two facts about who waits for whom. `HandlerIsAwaited`: no handler runs
before the main task waits nor once it leaves `svc_provision_run`, and when the
device goes down none but the one that restarts it.
`WritesFollow`: the announcement of the characteristic is in `queue` ahead of any write
to it, unless it has been taken already. `RestartsWhole` and `WritesAreHeard` follow, for
queues of any length; `AppliedAsGiven` needs that a UUID marked as given is whole
(`GivenIsWhole`).

**Reporting.** The registry's invariant is proved for `Sensors` by itself: the
mutex is held by exactly the task that is in a call that stores, and what a slot
lacks is what that call has still to store. `ReportingIsRegistry` carries it over,
so `OwnSlot` and `LatestSample` hold in `Reporting` without a second proof.
`PendingIsAnswered` has an invariant of its own: an answer is in flight only while
a request waits. `ReportComplete` is about a walk without the mutex. `Ranked`
says that slots are given out in their order, without gaps; so the slots a walk has
counted are all filled, and the n-th sensor it passes is the one in slot n.
`WalkInv` then knows of every sensor that was there when the walk began that it is
behind the walk and in the report, or ahead of it and within its limit.
`ReachesHub` follows from `HubInv`, which relates the address that is owed to the
hub, the one in NVS, and the one in use. Telemetry writes that one into a text and
parses it again: `ParsedAgain` shows that, if the host it gets is one that can be
reached, it is the same address.

**Only model-checked.** The liveness properties, which are beyond the prover
(`CommitSettles`, `KeepsReporting`, `ShutdownHonoured`, `GoesToSleep`,
`InitReturns`, `LossIsNoticed`, `ReportEnds`, `SessionEnds`, `KeepsAdvertising`), and
the counterexamples of section 5. Every safety property of a passing run is a theorem.

## 5. Findings

Each of these is shown by a run that TLC ends with a counterexample:

| Run | The repository says | The code does |
|---|---|---|
| `prov_switch` | "Set boot partition to OTA-0" (`app_main.c:78`) | nothing sets it; the factory application starts again |
| `applet_loads` | a push goes to a staging area, copied after the commit (`applet-runtime.md:74`, `78`) | the applet partition itself is erased and written; a restart before the commit loads the part that has arrived, and the image before it is gone |

Met while modelling, without a run of their own:

* A begin answered 4.00 during a transfer closes the session and leaves
  RECEIVING behind (`svc_ota.c:85`), although `tw_ota.h:22` says that image bytes
  are being written; the next begin aborts `NULL` (line 83; `BeginFault` in `Ota`).
* A begin the bootloader refuses during a trial sets ERROR, and
  `svc_ota_mark_valid` then does nothing (`svc_ota.c:148`, `370`), although
  `tw_ota.h:25` keeps PENDING_VERIFY until the confirmation.
* `tw_ota_progress_pct` divides the old count by the new size when another
  thread reads it during a begin (`svc_ota.c:103`, `153`); `tw_ota.h:41` says 0
  through 100 and `svc_ota.c:50` that accessors are thread-safe. `OtaProgress`
  shows it with `Threaded = TRUE`.
* Thresholds are provisioned as texts (`svc_provision.c:421`) and read as numbers
  (`thermostat.c:114`): ESP-IDF refuses and the defaults are used, although
  `provisioning.md:72` and `thermostat.c:109` say that they can be customized so.
* `/tw/provision/set` asks neither for a factory pass (`svc_provision.c:427`;
  `provisioning.md:55`) nor for network settings before it sets `id_hubprov`
  (the kvtext path does, line 210).
* A hub address `tw_hub_set_address` refuses (`svc_heartbeat.c:94`) still makes the
  device provisioned: `apply_provisioning` and `/set` drop the result
  (`svc_provision.c:202`, `419`), and where the commit brought no network
  `id_hubprov` is then all that is in flash.
* A second kvtext commit that is cut off leaves values of both behind the flag of the
  first.
* `tw_safety_create` takes limits that cross (`tw_safety.c:13`), although
  `tw_safety.h:50` promises `TW_ERR_INVAL` for low > high. `SafeRelay` holds for them
  too: a reading that is both too low and too high is treated as too low.
* A factory command refused for having two keys (`svc_provision.c:291`) has
  already written its other fields, and the next commit keeps them.
* Nothing calls `svc_power_notify_cmd_received`: no request extends the listen
  window (`kconfig.md:75`).
* On POSIX, `/tw/set-config` can store a mode that does not exist; the thermostat restores it
  unchecked and indexes three LED patterns with it (`thermostat.c:105`, `166`).
* `on_get_status` uses `temp`, which is declared nowhere (`thermostat.c:232`).
* A relay request outlives the automatic mode it was made in; a reading that
  fails counts as 0, which is freezing.
* The id acknowledged by `/tw/provision/hub` waits for a later commit (362).
* Once `id_factory` is set, the factory application leaves without listening
  (`app_main.c:61`), so a device whose hub provisioning was cleared cannot be
  provisioned again.
* The kvtext command is kept after a commit (843), so every later message is
  applied, with a command or without.
* Info replies show the identity of the last start (448).
* `svc_ota.c:306` waits so that the client can read the reply, inside the
  handler, before libcoap can send it; `/tw/reboot` is the same.
* A begin without a digest is not verified (`svc_ota.c:260`; `kconfig.md:82`).
* Nothing confirms new firmware after the first heartbeat, and no rollback timer exists
  (`ota-updates.md:85`, `86`).
* A commit of an applet without a version keeps the old one; an erase that fails is
  ignored, and what it left in place is loaded with what was written over it;
  nothing polls `tw_applet_state` (`svc_applet.c:268`); the state numbers in
  `applet-protocol.md:83` are not those of `tw_applet.h`.
* A request to stop made before `tw_device_run` is lost, and one made during a
  deep-sleep cycle has no effect (`svc_device.c:139`, `221`).
* Sensors: a name registered twice gets two slots (`tw_sensor.h` promises BUSY);
  `tw_sensor_available` does not ask for a successful sample, and
  `tw_sensor_read_int` samples where the header speaks of a cached value. The mutex is
  not recursive: a driver that reads another sensor waits for itself. The result
  of `tw_lock_init` is dropped.
* Hub address: `[::1]` without a port becomes host `[:`, port 1, against the comment at
  `svc_heartbeat.c:81`; only numeric IPv4 hosts are reached. An address in NVS whose
  second write failed is a mixture, and a start prefers it.
* Any answer counts as success, an error too (`proto_coap.c:449`). A heartbeat
  with eight readings of long names does not fit into its 512 bytes
  (`svc_heartbeat.c:201`) and is never sent again.
* The resources of `svc_ota.c:350` are registered by nobody, and a table of
  resources that is full is cut off silently (`svc_device.c:91`).
* NVS: the POSIX commit is not atomic (`pal_nvs.h:143`): it truncates first.
  `pal_nvs_init` of ESP-IDF erases everything when no page is free
  (`pal_nvs_esp.c:56`). `tw_identity_set_factory` is called atomic by
  `tw_identity.h` and writes field by field; a second pass that is cut off mixes
  two identities.
* Session: a `TW_HUB_UUID` that is not hexadecimal discards a good `TW_UUID`
  (`svc_provision.c:580`); with a hub address and no WiFi the device warns that it goes on "without
  hub provisioning" although `id_hubprov` is set; an advertising start that fails is only
  logged (678), and the device cannot be found any more.
* Transports: WiFi never tries again after `MAX_RETRY`, while the static address
  makes `tw_transport_connected` true; a Thread worker may store TRUE once more after
  `deinit`, for good; Ethernet's `deinit` leaves the driver running; the BLE transport
  registers no service and never advertises.

## 6. What is not modelled

* **Message formats** (protobuf, kvtext, CoAP options): commands are records of what was
  decoded; what fails to decode is one action.
* **libcoap, ESP-IDF, nanopb, mbedTLS**: not in the repository; the actions
  marked external in the map are what the code relies on.
* **Applet code**: the interpreter is not integrated.
* **MQTT**: an `#error`.
* **SoftAP bring-up**: calls into ESP-IDF that abort when they fail, with no
  decision of the SDK's. For BLE the same calls are one step (`RunBle`).
* **Read-only handlers** (info, status, sensors' GET): they change nothing.
* **The POSIX backend of OTA**: for development. That of NVS is in `Settings`.
* **Block transfer (`tw_block.c`) and LED**: nothing under `src/` outside their tests
  and examples uses the former, and the latter is display.
* **How long the reset button is held**: `Provision` has its effect. The time is a
  difference of two 32-bit readings.

## 7. Plan

Done, in this order: `Ota` with `FirmwareUpdate`, `OtaProgress`, `Provision`,
`Applet`, `Device`, `Thermostat`, `Transport`, `Settings`, `Sensors` with
`Reporting`, `Session`, `Provisioning`; with proofs for all of them.

Next, most important first:

1. What the liveness properties rest on, as far as it can be proved: a measure of a
   report and of a provisioning session that every step of theirs lowers.
2. An abstract `AppletStore` for `Applet`.
3. A composition of `Thermostat` with `Device`: from a reading beyond the limit to
   the relay within one tick interval and one iteration.
4. `ResetButton`: hold time over the tick, composed with `Provision`'s flags.
5. `tw_block.c`, next to the block handling of `Ota` and `Applet`.
