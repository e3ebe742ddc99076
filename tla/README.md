# fnordlicht: specifications and proofs

fnordlicht is a chain of RGB lamps. Each lamp is an ATmega8 with a serial line
in and a serial line out; a controller at the head of the chain, which may be
one of the lamps, sends packets that every lamp passes on. This directory
models the C code of the lamps (`src/fnordlicht-firmware`), of their boot loader
(`src/fnordlicht-bootloader`) and of a hand-held controller
(`src/fnordlicht-controller`) in TLA+. TLC checks the models on small instances,
and TLAPS proves theorems about some of them for every value of the constants.

Every definition is translated from the source; `PROJECT.json` names the lines
it stands for (`map`), the runs, the mutants that show that each property can
fail, the disagreements found between code and documents (`findings`), and the
places where the code is hard to test (`hazards`).

    tlc -workers 2 -config MCStorage.cfg MCStorage.tla
    tlapm StorageProofs.tla

## The system

Three programs share some files: the firmware of a lamp, its boot loader, and
the firmware of a hand-held controller. A lamp has one main loop
(`fnordlicht.c:89-114`), which polls its parts in a fixed order (with a call of
`pwm_poll` in between), and four interrupts.

| component | state | operations | interacts with |
|---|---|---|---|
| main loop (`fnordlicht.c`) | none; `startup()` picks the first program | polls, in order: remote, script, fading, storage | everything below |
| serial bus (`remote.c`) | `address`, `sync`, `synced`, `buf`, master mode, two protothreads | `remote_poll`: one byte passed on, sync detection, packet reception; `send_resync`, `send_msg` | neighbours, through the UART |
| UART (`uart.c`, `fifo.c`) | rings `rx` and `tx` of 64 bytes, interrupt enable | receive and data interrupts, `uart_putc`, `fifo_*` | interrupts against main loop |
| EEPROM storage (`storage.c`) | buffer, cursors, protothread; the EEPROM itself | `storage_save_config`, `storage_save_color`, `storage_poll`, `storage_init` | commands, INT line, `startup()` |
| INT line (`remote.c:336-366`) | `int_state`, `int_timer`, the pin | `remote_pull_int`, `remote_release_int`, PULL_INT | storage, timers, the controller |
| software timers (`timer.c`) | an 8 bit counter; a `timer_t` per user | `timer_set`, `timer_expired`, counter interrupt | INT line, fading, scripts |
| fading and colors (`pwm.c`) | `current`, `target`, `fade_delay`, `fade_step`, `fading.running` | `pwm_fade_rgb`, `pwm_fade_hsv`, `pwm_modify_*`, `pwm_stop_fading`, `pwm_poll_fading` | commands, programs, offsets |
| PWM timeslots (`pwm.c`) | a ring of ten slots, `pwm_next_bitmask` | `update_pwm_timeslots`, `pwm_poll`, the timer 1 interrupts | interrupt against main loop |
| programs (`script.c`, `static_programs.c`) | `global_script.disable`, one task, its protothread and locals | `script_start`, `script_stop`, `script_poll`; color wheel, random, replay | commands, fading, storage |
| boot loader (`fboot.c`) | buffer, crc result, address, delays, flash | CONFIG, INIT, DATA, CRC_CHECK, CRC_FLASH, FLASH, ENTER_APP; a timer; `check_startup` | bus, INT line, the application |
| buttons and LEDs (`ui.c`) | `btn_state`, `btn_last_sample`, `btn_press`, the sequences of the LEDs, `current_program`, three protothreads | `ui_poll`: sample, blink, answer a press with sync, STOP, START_PROGRAM; `ui_blink` | the transmit ring; the infrared receiver blinks |
| USB bridge (`usb.c`, V-USB) | the driver's receive and transmit buffers, `bytes_remaining`, `usbMsgPtr` | requests SEND, IR_STATE, IR_READ; `usbFunctionSetup`, `usbFunctionWrite`, `usbPoll` | the host; the transmit ring; the recording |
| infrared receiver (`ir.c`, `ir-cluster.c`) | `mode`, `state`, `time[]`, `pos`, `last` | edge interrupt, timeout flag, `ir_poll`, `ir_set_mode`, `ir_cluster` | USB, LEDs |

What is hard about it, and what makes each part correct:

* **Bus.** There is no framing: a packet starts 15 bytes after the last one, a
  sync sequence is 15 ESC bytes in a row. Bytes get lost when a lamp restarts,
  packets are cut short, and a lamp in master mode talks in between. Correct:
  after a sync each lamp's address is its position, and each lamp executes the
  packets meant for it, once and in order, and nothing else.
* **UART.** Two interrupts share two rings with the main loop, and the data
  interrupt switches itself off. Correct: a lamp is two queues; no byte is lost,
  repeated, reordered or left behind.
* **Storage.** A record is written byte by byte while packets arrive and the
  power may fail. Correct: a save changes only its record; after it the checksum
  matches; a power failure is all or nothing; a save ends.
* **INT line.** Two users pull and release one pin, and a POWERDOWN takes it
  away from both for a while. Correct: the pin is down while the PULL_INT timer
  runs and the lamp is awake, and is released in the end.
* **Fading and programs.** Fades are stopped and replaced half-way, on unsigned
  8 bit arithmetic, while a program waits for them; a program that does not
  yield stops the whole lamp. Correct: no channel moves away from its target;
  channels arrive; after a STOP nothing moves; a program that is started begins
  at its beginning; the main loop always comes round again.
* **PWM timeslots.** The interrupt consumes slots that `pwm_poll` is still
  computing. Correct: the ring neither overflows nor runs dry, every PWM period
  shows one color for its whole length.
* **Boot loader.** The host gets no answer but the INT line; packets get lost,
  and FLASH is executed whatever the crc check said. Correct: what is flashed is
  what was received, in order and at the right address, and nothing else
  changes; the INT line tells of flashing and of failed checks, and is released.
* **Controller: buttons and USB.** A button bounces, the host repeats packets
  whose acknowledgment got lost and gives transfers up; both write into one ring
  that does not check for room. Correct: a message stays whole, a transfer that
  succeeds has put as many bytes on the bus as it announced, a press is answered
  once and in full.
* **Controller: infrared.** The edge interrupt stores durations between any two
  statements with which `ir_poll` ends a recording, and the host reads the
  recording packet by packet while all of that goes on. Correct: a recording
  fits its array, holds the code, ends, is decoded to the nearest clusters, and
  is read whole.

## The modules

| module | models | |
|---|---|---|
| `Timer` | `timer.c` | operators only: a timer counts observed changes of the counter |
| `Storage` | `storage.c`, the INT line of `remote.c`, `startup()` | `MCStorage` instantiates it, `StorageProofs` holds its theorems |
| `Bus` | the byte level of `remote.c`, N lamps in a chain | `MCBus` instantiates it, `BusProofs` holds its theorems |
| `Fifo` | `fifo.c` | operators only: a ring and its single steps |
| `Uart` | `uart.c` with `Fifo`, both interrupts | `UartProofs` holds its theorems |
| `ByteQueues` | the promise of a lamp's serial line: two queues | abstract, implemented by `Uart` |
| `Color` | the arithmetic on colors, offsets and speeds | operators only |
| `Fading` | the fading engine of `pwm.c` | the actions that commands and programs call |
| `Timeslots` | the software PWM of `pwm.c`: frames, ring, timer 1 interrupts | `MCTimeslots` instantiates it, `TimeslotsProofs` holds its theorems |
| `Bootloader` | `fboot.c` from the packet on | `MCBootloader` instantiates it, `BootloaderProofs` holds its theorems |
| `Scripts` | `script.c`, `static_programs.c`, the color commands of `remote.c` | `MCScripts` instantiates it, `ScriptsProofs` holds its theorems |
| `TxRing` | the transmit ring as the controller's main loop sees it | used by `Ui` and `Usb` |
| `Blink` | `ui_blink` and the sequences of the LEDs | used by `Ui` and `Infrared` |
| `Ui` | `ui.c` | the three protothreads |
| `Usb` | `usb.c` (request SEND), the control transfers of V-USB | host, interrupt, `usbPoll` |
| `Controller` | the main loop of `fcontrol.c`: `Ui` and `Usb` on one ring | `MCController` instantiates it, `ControllerProofs` holds its theorems |
| `Cluster` | `ir-cluster.c`, and a definition of clusters to compare it with | operators only |
| `Infrared` | `ir.c`, the requests IR_STATE and IR_READ of `usb.c` | `MCInfrared` instantiates it, `InfraredProofs` holds its theorems |

**Storage.** The main loop alternates between `RemoteCommand` or `RemoteQuiet`
(`remote_poll` with its INT timer check) and `StoragePoll`, whose disjuncts are
the segments of the storage protothread between two yields; `lc` is where it
continues. The EEPROM hardware is an actor of its own: a byte that is being
programmed (`pending`) is stored by `EepromDone` some time later.
`eeprom_write_word` blocks between its two bytes, so `StorageWriteSum` leaves
the main loop inside `storage_poll`. `Restart` is a power failure at any
moment, or the watchdog that a BOOTLOADER command has started; a byte being
programmed then holds anything. `PowerDown` is a POWERDOWN up to the sleep, with
all pins turned into inputs, `WakeUp` writes the saved pins back, and
`RemoteGoesOn` is the rest of that `remote_poll`; the EEPROM goes on meanwhile,
the clock does not. `Tick` is the counter interrupt. The CRC-16 of a memory is represented by the memory itself, so
collisions are left out: a torn record is never accepted by accident.

**Bus.** `dev[i]` is the state of `remote.c` in lamp i, `rx[i]` all bytes under
way to it. `RemotePoll(i)` is one round of `remote_poll`: the byte, the packet
it completes, the master thread. A controller sends packets (`SendPacket`) and
syncs, possibly in the middle of a packet (`SendSync`); `Restart(i)` loses any
part of what is in the lamp and its rings. The history variable `trust` says
what can be expected of the bus: "armed" once a recognisable sync sequence was
sent on a bus that was at rest, "settled" once it has arrived everywhere. `log`
and `done` are the packets sent and executed since.

**Uart.** The main loop is cut into its single statements (`pc`), the interrupts
come between any two of them. `rx` and `tx` are the rings of `Fifo`; `line` is
what was sent. The refinement mapping to `ByteQueues` takes the contents of the
rings for the queues, and counts a byte that `fifo_dequeue` has read but not
yet removed as already taken.

**Color, Fading, Scripts.** `Color` has the formulas of `pwm.c` with their
widths (8 and 16 bit, an `int` of 16 bits, division towards zero). `Fading` has
one action per function of the engine, which `Scripts` calls from commands and
programs. `Scripts` goes round the main loop with `at`; while `at = "program"`
the program keeps the processor, and `lc` is where its protothread goes on.
Every loop of a program that does not yield is visible as a cycle of states in
which `at` stays "program".

**Timeslots.** `FrameBegin`, `SkipChannel`, `InsertMiddle`, `AddChannel` and
`FrameEnd` are `update_pwm_timeslots` cut at the slots it enters, as the timer
interrupt may come between any two of them; `PollDone` ends a `pwm_poll`. The
interrupt is `CompareA` or `CompareB` (show the slot loaded before, take the
next), `Spin` for slots that follow too closely to return, and `Return`, which
loads the timer. Time goes from event to event of the timer: the main loop may
do anything between two events, or nothing for as long as `GAP` allows. Each
slot carries the frame it belongs to (history), so that what is lit can be
compared with what a frame's color asks for at that time.

**Bootloader.** One action per packet of `remote_parse_msg`, the timer tick of
the main loop, and `flash()` page by page, during which nothing else runs.
`Restart` is a reset at any moment, also in the middle of `flash()`; then
`check_startup` decides between boot loader and application. `received`, `dest`
and `image` are history: what a host that knows which packets were received
expects in the flash memory. The packets come in any order, so that losses need
no actions of their own.

**Ui, Usb, Controller.** `place` says which part of the main loop comes next:
`usb_poll`, then the sampling and blinking of `ui_poll`, then its `ui_input`.
Between any two steps the data interrupt may take a byte out of the ring, the
button may change, and the host may act. `Usb` cuts `usbPoll` where it touches
the ring (`usb_thread`): usbFunctionWrite waits for room before each byte. A
lost acknowledgment (`AckLost`) leaves the packet with the driver and makes the
host send it again; `GiveUp` ends a transfer at any point. `Ui` has one action
per message of `ui_input`, each of which waits for an empty ring. `TxRing` is
the queue that the proofs of `Uart` justify; unlike there it may be overrun, and
then looks empty, so that a missing wait would show. `Emitted` is all that was
put into it, and `passed` tells where in it the bytes of a transfer are; the
messages of `Ui` carry the program of the answer they belong to, so that an
answer that mixed two would show. The debouncing of `ui.c:101`
asks for two equal samples to see a *release*; a press is taken on a single low
sample, since `btn_last_sample` then still holds the level before. So
`OnePressPerRelease` says what the code does promise: two high samples in a row
between any two presses.

Two things that the model shows as they are in the code. `usbFunctionWrite`
returns `len` after `while (len--)`, which is 0xff, to the driver an error
(`usb.c:130`, `usbdrv.c:477`): unless the packet just written was the last, the
endpoint stalls until the next SETUP, so a transfer of several packets succeeds
only if its last one overwrites the stall before the host asks (`WriteEnd`,
`Status`). And `start_program` (`ui.c:216-222`) reads the 12 bytes of a record
with a stride of 11; the parameters are abstract here.

**Infrared.** `at` is the statement of `ir_poll`, or of `usb_poll`, that comes
next; `Edge` (the capture interrupt) and `Silence` (the timer reaches 20 ms, a
flag) may come before any of them. `mode`, `state` and `time` are the fields of
`ir_global_t`, `time` cut at `pos`. `burst` and `clean` are history: the
durations since the line was last silent, and whether the recording is entitled
to hold just these. Two kinds of recording are not `clean`, and the code makes
no better of them: after a lone pulse `pos` stays at 1, which shifts the next
recording by one (`ir.c:140-149`), and a code that begins before `ir_poll` has
noticed the silence is appended to the one before. `Clusters` and `Nearest` in
`Cluster` define by groups and means what `IrCluster` and `IrMinCluster` compute
by walking through the array.

## The runs

| run | shows | bounds |
|---|---|---|
| `storage` | Saves accepted, dropped or cut by a power failure leave whole records and a fresh checksum, or are rejected at the next start; a save changes nothing else and ends; the PULL_INT timer holds the line and releases it, over a POWERDOWN too. | 1 config record of 3 bytes, 1 slot of 2, 3 byte values, 3 commands, 1 power failure, a counter of 3 values |
| `storage_int_stuck` | Refuted: the INT line is released after a save. | 2 commands |
| `storage_torn` | Refuted: a lamp starts with parameters somebody configured. | 3 commands, 2 power failures |
| `bus` | After a recognisable sync addresses are positions, packets arrive once and in order, and a sync reaches the end, also with the first lamp in master mode. | 2 lamps, syncs and packets of 3 bytes; 3 sends, 1 burst of the master, 1 restart, of weight 4 together (a burst counts for two) |
| `bus_esc` | Refuted: a sync is detected wherever it comes. | 2 sends |
| `uart` | All interleavings of the two interrupts with the main loop: `Uart` implements `ByteQueues` and every byte leaves. | rings of 4, a backlog of 3, 5 bytes |
| `scripts` | Nothing moves past its target or after a STOP, programs begin at their beginning, replays stay in their slots, also one of a single slot and one that goes round from 255 to 0, and with a sleep in its parameters every program gives the processor back. | 7 programs, one of each command, any 2 commands after any start |
| `timeslots` | The ring keeps up with the interrupt, what is lit is at any time what the shown color asks for, a period shows one frame, and a color that stays is shown. | 9 levels of brightness, 7 colors, any 2 changes, halves of 20 counts, a main loop that may stand still for a half |
| `bootloader` | Flash memory holds what was received, at its address, and nothing else changes; INT tells of flashing and failed checks, and is released. | a buffer of 2 pages of 2 bytes, packets of 3, 4 pages, 3 byte values, 7 packets, 1 restart |
| `controller` | Messages of the user interface stay whole and in order among the bytes of the host, transfers are exact, a bouncing button is pressed once, a press is answered once the host falls silent. | a ring of 4, messages and packets of 2 bytes, transfers of 0, 2, 3 and 4 (refused) bytes, 1 fault, 3 movements of the button or transfers |
| `infrared` | Recordings fit, hold the code, end, are decoded to the nearest clusters and are read whole, wherever edges and timeouts meet `ir_poll` and `usb_poll`. | 6 elements, 2 clusters, packets of 4, pulses of 3 durations, pauses of 2 |
| `fade_ends` | Refuted: a fade with a step arrives. | 1 fade |

Why these bounds are enough to meet the interesting cases: three bytes tell the
first, an inner and the last byte of a record apart, and two records give a
save something to damage; the third command can meet a save in progress that
followed another one. On the bus, the two packets are chosen so that ESC bytes
meet at packet borders and that the end of one and the beginning of the other,
taken for one, make a packet for the second lamp; a chain of two has a lamp
that receives from the controller and one that receives from a lamp, and 3
sends allow sync, packet, sync or a sync in the middle of two packets, with a
restart, or 2 sends with a burst of the master in between. A ring
of 4 slots with a backlog of 3 wraps round, becomes full and becomes empty
within 5 bytes. The colors of `MCScripts` are real 8 bit values with large
steps, so that fades are short; the commands meet every program in every state
of a wait, a sleep and a fade. The colors of `MCTimeslots` need no slot of
their own, all five that a frame can have in either half of the period, one for
several channels, and the slot in the middle before, between and after others; slots follow
each other closely (the interrupt spins) and at a distance (it returns). In
`MCBootloader` a packet ends inside a page, the second one does not fit the
buffer, and 7 packets are enough to flash two areas one behind the other and to
have a check fail before, in between or after. The ring of `MCController` holds
one message and a byte, so that a message or a packet that did not wait would
overrun it; 3 inputs are a press with a bounce, or a press during a transfer, or
a transfer given up (the fault) with another behind it. In `MCInfrared` a code
fills the array, or ends just before it is full; pulses make one cluster more
than there is room for, pauses lie at the limit where a cluster ends, and a
recording of 6 takes two packets, one of 4 a packet that is full and an empty one.

Runs that may stop say so (`CHECK_DEADLOCK FALSE`): a bus on which nobody sends
any more, a UART with nothing to pass on, and a boot loader that waits for
packets or has started the application.

### Refuted statements

Each of these is a sentence of a document or a comment that the code does not
keep. `findings` quotes them.

1. The INT line stays down after a save (`remote.c:347-366`):
   `remote_pull_int` does not set `int_state`, so `remote_release_int` returns.
2. A configuration torn by a power failure becomes valid when a later save
   recomputes the checksum over the whole EEPROM (`storage.c:98`).
3. A sync sequence after bytes that end in ESC is taken one byte early
   (`remote.c:302`).
4. `compute_speed` overflows to a delay of 0 (`pwm.c:533`), and `pwm_fade_hsv`
   lacks the correction of a delay of 0 that `pwm_fade_rgb` has (`pwm.c:573`):
   such fades never arrive.

Some flaws contradict no sentence of a document and are no runs. A color wheel
without a sleep whose colors do not differ never yields, nor does a replay
without one (`static_programs.c:63`), and the random program looks for ever for
a hue farther away than 180: the main loop stands still. `pwm_rgb2hsv` overflows
(`pwm.c:463`): MODIFY_CURRENT with all offsets 0 changes some colors.
A replay of one slot in reverse order steps down from it (`static_programs.c:180`)
and then runs through all 256 positions, down and up.
When a replay that is not to repeat has ended, `script_poll` clears its
`task.enable`, but nothing sets `disable` (`script.c:99`): MODIFY_CURRENT, which
asks for `disable`, is refused until the next STOP. The end of a save would
release the line in the middle of a PULL_INT delay (`storage.c:103`); `Storage`
has that in the step of the protothread, and `TimerHoldsLine` shows that the
timer is stopped with it. A POWERDOWN in the middle of a save lets the line go
though the record is not written (`remote.c:567`); the save goes on when the
lamp is woken up, with the line down again.

## Fairness

The main loop has no way to stop short of a power failure or a POWERDOWN, so its
steps are weakly fair wherever they are enabled: `RemoteQuiet`, `RemoteGoesOn` and
`StoragePoll` in `Storage`, whose `SaveEnds` allows for a lamp that nobody wakes
up, `Receive(i)` in `Bus`, the statements of `Uart`, `Next` in
`Scripts`, `PwmPoll` in `Timeslots`, and `flash()` and the polling of the timer
in `Bootloader`, `Loop` in `Controller`. In `Infrared` the fair action is
`Turn`, that `at` moves on: every step of the main loop moves it and one is
always possible, whatever edges come. Hardware: an EEPROM byte or a flash page gets done, a timer
interrupt comes, a register is shifted out, a pending data interrupt is taken
(`Transmit`), and on the infrared line there is an edge, or there is none for
20 ms (`Line`); which of the two is not promised. Nor is any command, byte,
restart, key or step of a host.

Three assumptions are strong fairness. In `Uart`, `PollRead` competes with the
lamp's own bytes for the main loop, which polls the ring again and again. In
`Scripts` a timer that runs is seen to have expired at some poll, because the
counter goes on whatever the main loop does; a poll that finds it not expired
does not disable it for ever. And the random program meets, sooner or later,
a hue that is far enough from the last one (`RandomAccepts`), because its
generator runs through all hues; that there is one at all is a condition on
`min_distance` (at most 180), which the programs of the run satisfy.

## Assumptions that are not in the code

* `Uart`: the line is paced, at most `Backlog` <= SIZE - 1 bytes are in a lamp
  at a time. `fifo_enqueue` does not check; a controller has to leave gaps.
* `Uart`: at most one data interrupt comes between the last two statements of
  `uart_putc`, as the next one is a byte time (0.5 ms) away.
* `Storage`: a round of the main loop takes less than 2.56 s, so that the
  counter does not lap a timer (`Tick`).
* `Bus`: the rings do not overflow (that is `Uart`'s subject).
* `Timeslots`: the main loop completes a `pwm_poll` in every `GAP` <= one half of
  a period (4 ms). A little more is too much: with `GAP = HALF + COST + 1` TLC
  finds the ring run dry, where three channels end in the first half of a frame
  (two slots behind its first are then enough for `timeslots_fill` not to ask
  for another frame). `eeprom_write_word` blocks for 8.5 ms, 2.1 halves (see
  hazards): during a save the assumption does not hold. Loading a
  slot takes the interrupt `COST` < `NEAR` counts, and it has returned before
  its next event, which is what the comparison with `NEAR` in the code is for.
* `Infrared`: at most one edge comes between two statements of `ir_poll`, some
  microseconds apart; the pulses of remote controls are hundreds of microseconds
  long. The interrupt is one step: no edge comes while it runs, though it allows
  nesting. A round of the main loop with its `usb_poll` may take any time. The
  checksum of a code is a parameter. The host asks for another request only
  after the last one is answered or given up.
* `Controller`: the host has one transfer under way at a time, as USB has it.
  `PressAnswered` has a condition of its own, `HostFallsSilent`. `ui_input` waits
  for an empty ring, and a host that sends without end can fill it again each
  time before `ui_poll` comes round, at 19200 baud easily: the press is then not
  answered, as long as the host goes on. `MaxInputs` makes every host of the run
  fall silent, so the run says nothing of one that does not; what it does show
  is that neither the transfer the host was in the middle of nor further presses
  and bounces keep the answer away. A press adds nothing to the ring before it
  is answered, so the user alone cannot starve it.
* `Bootloader`: the host flashes within the application section and asks for
  checksums over what the buffer and the flash memory hold; neither is checked.
* `ReplayInRange` leaves out replays with start = end in reverse order
  (`RunsAway`), and `LoopReturns` holds for programs that contain a sleep or a
  pause; the code does not enforce either (see hazards). With end below start
  the slots of a replay are those from start to 255 and from 0 to end.

## Proofs

`StorageProofs` proves, for every EEPROM layout, set of byte values, delay
table and number of commands and power failures:

* `TypeCorrect`, `LineHeld`: `Loop == TypeOK /\ TimerHoldsLine /\ Cursors` is
  inductive. `Cursors` says what the write loop relies on wherever its thread
  may continue: `address`, `index` and `bytes_remaining` count in step, the
  byte being programmed is the one before them, and an idle thread has nothing
  pending. Without it types are not inductive: `address` would leave the EEPROM.
* `SaveConfined`, `ChecksumFresh`: `Data == SaveWritesOnlyItsRecord /\
  ChecksumFollows /\ ChecksumFreshWhenIdle` is inductive relative to `Loop`.
  `ChecksumFollows` tracks the two checksum bytes separately through the save.
* `CrashAtomicity`, an action property: if the checksum matched when a save was
  accepted and matches again after a power failure, either no byte of the record
  was written, or all of them (`CompleteRecords`); a byte half-written makes the
  checksum fail.
* `RecordsWhole`: `Served` says that the records will be whole once the save
  under way is complete; only the start of a save changes what they will be.

`BusProofs` proves, for every length of the chain, sync and packet length, byte
size, first address, set of commands and set of packets (such as `BusAssumption`
has them):

* `AddressesArePositions`, `ExecutedInOrder`, `AllDelivered`. Nothing on the
  wire tells what a byte means, each lamp finds out by counting, and whether it
  counts right shows only many bytes later. The invariant therefore says that
  there *is* a meaning, the same along the whole chain, with which everything
  agrees: for each link a sequence of tags, for the byte its lamp took last and
  for each byte under way. A tag has the byte's role (of a packet, of an ESC
  run, the address), its place there, and the number of the packet in the log.
  `Streams` says that the tags fit the bytes and follow one another as packets
  and syncs do; `Tied` that the tag a lamp took last is the latest one on the
  next link, but behind a master; `Counts` that the ESC counter of each lamp is
  what the tag says, so that none takes a packet for a sync; `AllInStep` that
  address, buffer and executed packets are those of the tag; `Numbered`,
  `OneSync`, `CaughtUp` and `Reached` relate tags and `trust`.
  As the invariant hides the tags behind an existential quantifier, the lemma of
  each action starts from a meaning and shows the next one: `SendPacketMeans`
  and `SendSyncMeans` append tags to the first link, `ConsumeMeans` moves one
  tag on, `BurstMeans` adds those of a master to the second link, `StartMeans`
  gives the first meaning to a bus at rest. A restart or a cut that leaves an
  open ESC run ends it all, as `trust` does, until the bus is at rest again.

`UartProofs` proves, for every ring size, backlog and set of byte values:

* `RingsTyped`, `InterruptEnabled`, `NoByteLost`: `IInv` adds to the checked
  invariants a `Window` (between the last two statements of `uart_putc` the ring
  is not empty, and an interrupt that was already enabled has at least two
  bytes) and a `Handover` (the byte in the hands of `fifo_dequeue` and
  `fifo_enqueue` is the one at the end of the ring). The lemmas `Enqueue` and
  `Dequeue` say what the steps of `fifo.c` do to the contents of a ring.
* `PassesBytesOn`: `Uart` implements `ByteQueues`; each step maps to a step of
  the queues or to none.

`BootloaderProofs` proves, for every size of pages, packets and buffer, every set
of packets and any number of resets:

* `BootTyped`, `FlashedAsReceived`: `IInv` adds to the checked invariants that
  buffer, length and address agree with what the host may count on (`Agrees`),
  and, while `flash()` runs, that the pages before the one it has come to hold
  the bytes of the buffer and nothing outside of the area has changed
  (`AreaAtWork`). Neither property is inductive without them: the flash memory
  gets its bytes many steps after the buffer did. `PagesHold` is the arithmetic
  of rounding up to pages; `DataAppends` that of a packet that does not fit.
* `LineTells`: the INT line is down during `flash()` and while the delay of a
  failed check runs.

`InfraredProofs` proves, for every even length of `time[]`, size of packets, number
of clusters and set of timings:

* `Fits`: `Recording` is inductive. It adds where `at` stands: the recording is
  longer than 1 where it is closed, is stopped before its last element is set to
  zero, and between the decision to listen again and its execution only a single
  edge can come (`hit`), so that the length stays within 2.
* `RecordsCode`: `Exact == Burst /\ ExactRecording`. `Burst` relates `time` and
  the history while the recording is made: equal until the line is silent, then
  a prefix, with the closing 0 at the end.
* `ReadsRecording`: `Reading` says that the packets already read, the one that
  waits and the part of `time` behind `usbMsgPtr` are `wanted`. The lemmas
  `BlockIs`, `PartsJoin` and `PartIsWhole` are about cutting a sequence into
  packets.

`ScriptsProofs` proves, for every set of commands, programs, stored colors and
offsets with the types of their structs, and every number of commands:

* `MovesTowards`: `Typed` says that colors, targets and steps are bytes, that
  offsets and programs have the types of their structs, and that the state the
  programs keep stays in its width. That the targets are bytes is what the color
  arithmetic has to show: `HsvToRgbIs`, `RgbToHsvIs` (an `int` of 16 bits that
  may overflow) and `ModifiedIs` say so of each conversion for all its inputs.
  Only from there does it follow that the last, shorter step of a fade ends at
  the target and none goes round through 0 or 255.
* `Stops`: `Light` says of a lamp that was stopped that its scripts are disabled
  and no program has the processor, and that every channel is at its target and
  no timer of a channel runs. Any part alone is not inductive: a program would
  start the next fade, a timer take the next step of the last one.
* `WheelInStep`, `ReplayStays`: the lemma `Begins` says that a thread that is not
  at its beginning was enabled before, with the same program; `Rests` that
  nothing but the program itself touches the state it keeps between two yields.
  `StepAdds` carries the hue over the wrap of its 16 bits, `MovesInRange` the
  position of a replay through its turns at either end, for start < end, for
  end < start, where it goes round from 255 to 0, and for start = end. In the
  last case `ReplayInRange` is inductive only together with `ReplayTurns`, that
  such a replay never turns round. A replay that `RunsAway` is no subject of the
  theorem.

`TimeslotsProofs` proves, for every color, every table of top values in order,
every length of a half and number of levels of brightness:

* `KeepsUp`, `ShownAsAsked`, `FramesAreWhole` (an action property). The ring
  holds masks and top values and nothing of frames, so the invariant says that
  there *is* a sequence `t` of slots, of which the first is shown, the second is
  with the interrupt and the others are in the ring (`Holds`), each with a role:
  it begins a frame, begins its second half, or ends channels of a brightness.
  They follow one another as the sorted channels demand (`Chained`), `Working`
  says how far `update_pwm_timeslots` has come with the last one, and `OnTime`
  that the timer stands between the first and the second. Two places in `t` then
  bound the ring: `Counted` has one where the newest frame begins, at most the
  seventh, so that its five slots still fit; `Supplied` has one where the last
  frame begins that was complete at the last complete `pwm_poll` and whose second
  half is still to come. As a half of a period is no shorter than `GAP`, that
  second half does not begin before the next `pwm_poll` is complete.
  The fill of the ring alone is far from inductive: whether five slots are enough
  depends on how long each of them is shown. `LitIs` is the lemma behind
  `ShownAsAsked`: between two slots the channels that have ended are those whose
  top value the timer has passed. `ColorIsShown` is liveness and stays with TLC.

`ControllerProofs` proves, for every size of the ring, length of messages and
packets, number of programs and limit, and any presses, transfers and faults:

* `AnswersInOrder`: `Turn` ties the place where `ui_input` waits to the last
  message in `Emitted`. `MessageAdds` is the lemma for a message, `HostByteAdds`
  for a byte of the host; both rest on `PutcAdds`, that `uart_putc` adds at the
  end as long as there is room, which is what the waits are for.
* `TransfersExact`: nothing about a transfer can be read off one variable, as
  buffers and lengths may be left over from a transfer the host gave up.
  `Account` balances the bytes announced from the moment `usbPoll` has read the
  SETUP, and says that success (a `usbMsgLen` or `usbTxLen` of 0) is prepared
  only when nothing remains; `SetUp` that a SETUP in the buffer is that of this
  transfer; `AsSent` follows the bytes one by one until an acknowledgment is
  lost; `Places` that the bytes of the host in `Emitted`, from the first one of
  the transfer on, are the ones passed on and no others.
* `PressedOnce`, an action property: `Buttons` says that the state of the button
  is `released` only after two samples that found it so.

The assumptions are the named `ASSUME`s of the modules; TLC evaluates them in
the runs. A module has a type invariant where its proofs need one. Liveness
under fairness is checked by TLC and not proved; `DecodesToNearest` rests on
folds over data, whose induction is out of the prover's reach. Every other
property of a passing run is a theorem.

## Not modelled

* V-USB beyond control transfers with data from or for the host: descriptors,
  standard requests, reset and suspend, the other endpoints, the bit level. It
  is third-party code, as are the protothread macros; the modules model what a
  protothread does between two yields.
* Of the controller's requests: the question for the mode of the receiver, which
  changes nothing, and the host's limit on the length of an answer.
* Of the power commands (POWERDOWN, BOOTLOADER) the wait for the transmitter, and
  the byte in its shift register that a POWERDOWN cuts off. `Scripts` has no
  POWERDOWN, as its clock stands still with the lamp; what a sleeping lamp does
  not pass on are lost bytes for `Bus`.
* Register names, port macros and the build configuration have no state; their
  values are constants.
* The Ruby scripts of `tests` run on a host. `Bus` takes them for a controller
  that may send any packet of a set and stop in the middle.
* In the modelled parts: crc collisions, the duration of a delay (a timer
  expires at any poll), the pseudo-random numbers, wording and hardware set-up.

## Plan

What is left, in this order; each with its mutants and its hazards.

1. `ir_cluster` as the steps of its loops instead of folds, with an invariant
   from which `DecodesToNearest` can be proved.
2. `Scripts` with the records of `Storage` instead of constant slots.
3. The byte in the shift register that a POWERDOWN cuts off.
4. A run of `Color` against a reference definition of the conversions.
