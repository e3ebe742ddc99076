------------------------------- MODULE Storage -------------------------------
(***************************************************************************)
(* EEPROM storage of one device (fnordlicht-firmware/storage.c) with the   *)
(* INT line it shares with the PULL_INT command (remote.c).                *)
(*                                                                         *)
(* Two flows of control touch this state.  The main loop runs remote_poll, *)
(* whose handlers may accept a save, and then storage_poll, which moves    *)
(* the storage protothread one EEPROM byte at a time.  The EEPROM hardware *)
(* programs each byte on its own (8.5 ms), and the power may fail at any   *)
(* moment; the restarted device trusts what it finds if the checksum over  *)
(* the records matches.                                                    *)
(*                                                                         *)
(* Abstractions: a record is a tuple of abstract bytes; the CRC-16 of a    *)
(* memory is represented by the memory itself, i.e. collisions are left    *)
(* out, and each half of the checksum word counts as torn on its own.      *)
(***************************************************************************)
EXTENDS Timer, Integers

CONSTANTS
    CFG_LEN,       \* bytes of struct storage_config_t, magic byte first (13)
    SLOT_LEN,      \* bytes of struct storage_color_t (8)
    COLORS,        \* CONFIG_EEPROM_COLORS (60)
    BUF_SIZE,      \* STORAGE_BUFFER_SIZE (13)
    Byte,          \* values of a byte
    MAGIC,         \* EEPROM_MAGIC_BYTE
    ZERO,          \* the byte 0x00
    Params,        \* startup parameters a CONFIG_STARTUP can carry
    Slots,         \* values of the slot byte of a SAVE command
    Colors,        \* color records a SAVE command can carry
    Delays,        \* values of the delay byte of a PULL_INT
    DELAY_UNIT,    \* ticks per unit of that byte (5)
    DELAY_LIMIT,   \* largest delay byte that is multiplied (51)
    DELAY_MAX,     \* ticks for every larger delay byte (255)
    NoSum,         \* a checksum half that matches no memory
    NoWrite,       \* "the EEPROM is not programming a byte"
    Default,       \* what a device starts with when no configuration is valid
    MaxCommands,   \* bound on the commands explored
    MaxRestarts    \* bound on the power failures explored

SIZE == CFG_LEN + COLORS * SLOT_LEN        \* sizeof(struct storage_t) - 2
Address == 0 .. SIZE - 1
Memory == [Address -> Byte]
ConfigRecord == [0 .. CFG_LEN - 1 -> Byte]
ColorRecord == [0 .. SLOT_LEN - 1 -> Byte]

ASSUME LayoutAssumption ==
    /\ CFG_LEN \in Nat \ {0} /\ SLOT_LEN \in Nat \ {0} /\ COLORS \in Nat
    /\ BUF_SIZE \in Nat /\ CFG_LEN <= BUF_SIZE /\ SLOT_LEN <= BUF_SIZE

ASSUME DataAssumption ==
    /\ MAGIC \in Byte /\ ZERO \in Byte
    /\ Params \subseteq [1 .. CFG_LEN - 1 -> Byte]
    /\ Colors \subseteq ColorRecord
    /\ Slots \subseteq Nat
    /\ NoSum \notin Memory
    /\ NoWrite \notin [cell : 0 .. SIZE + 1, val : Byte \cup Memory]

ASSUME BoundAssumption == MaxCommands \in Nat /\ MaxRestarts \in Nat

ASSUME DelayAssumption ==
    /\ DELAY_UNIT \in Nat \ {0} /\ DELAY_LIMIT \in Nat /\ DELAY_MAX \in Nat
    /\ DELAY_LIMIT * DELAY_UNIT <= DELAY_MAX /\ DELAY_UNIT <= DELAY_MAX
    /\ \A d \in Delays : d \in Nat

VARIABLES
    \* EEPROM, survives a restart
    mem,               \* the records
    sum,               \* the two checksum bytes: <<low, high>>
    pending,           \* the byte the EEPROM is programming, or NoWrite
    \* storage.c
    eeprom_good, startup_config, buf, index, address, bytes_remaining,
    state,             \* "idle" or "write"
    lc,                \* where the storage protothread continues
    at,                \* the main loop's next poll
    \* remote.c and timer.c
    int_low,           \* this device pulls the INT line down
    int_state, int_timer, internal_counter,
    ddr,               \* the pull on the line that parse_powerdown saved
    \* observed by startup()
    started,           \* the parameters the device came up with
    \* history of the request being served, and bounds
    req,               \* [base, len] of the last accepted save
    before,            \* the records when it was accepted
    fresh,             \* the checksum matched the records at that time
    commands, restarts

eepromVars == <<mem, sum>>
jobVars == <<buf, index, address, bytes_remaining>>
intVars == <<int_low, int_state, int_timer>>
ghostVars == <<req, before, fresh>>
otherVars == <<eeprom_good, startup_config, buf, internal_counter, ddr, started,
               ghostVars, commands, restarts>>
vars == <<mem, sum, pending, eeprom_good, startup_config, buf, index, address,
          bytes_remaining, state, lc, at, int_low, int_state, int_timer,
          internal_counter, ddr, started, req, before, fresh, commands, restarts>>

SlotBase(position) == CFG_LEN + position * SLOT_LEN

-----------------------------------------------------------------------------
(* Start-up *)

\* Faulty variant: the magic byte alone decides.
MagicMatches(m, s) == m[0] = MAGIC

\* The comparison of storage_init.
ChecksumMatches(m, s) == s[1] = m /\ s[2] = m

LoadedConfig(m, good) ==
    [i \in 0 .. CFG_LEN - 1 |-> IF good THEN m[i] ELSE ZERO]

\* startup(): the stored parameters, or the default program.
StartedWith(m, good) ==
    IF good /\ m[0] = MAGIC THEN [i \in 1 .. CFG_LEN - 1 |-> m[i]] ELSE Default

EmptyBuffer == [i \in 0 .. BUF_SIZE - 1 |-> ZERO]
NoRequest == [base |-> 0, len |-> 0]

\* A device comes from the factory with an erased EEPROM, or from an earlier
\* life with one whose checksum matches.
Init ==
    /\ mem = [a \in Address |-> ZERO]
    /\ sum \in {<<NoSum, NoSum>>, <<mem, mem>>}
    /\ pending = NoWrite
    /\ eeprom_good = ChecksumMatches(mem, sum)
    /\ startup_config = LoadedConfig(mem, eeprom_good)
    /\ started = StartedWith(mem, eeprom_good)
    /\ buf = EmptyBuffer /\ index = 0 /\ address = 0 /\ bytes_remaining = 0
    /\ state = "idle" /\ lc = "begin" /\ at = "remote_poll"
    /\ int_low = FALSE /\ int_state = "idle"
    /\ int_timer = ZeroTimer /\ internal_counter = 0 /\ ddr = FALSE
    /\ req = NoRequest /\ before = mem /\ fresh = eeprom_good
    /\ commands = 0 /\ restarts = 0

-----------------------------------------------------------------------------
(* The INT line *)

\* remote_pull_int: the pin is pulled, int_state is left to the caller.
PullInt == int_low' = IF int_state = "idle" THEN TRUE ELSE int_low

\* Faulty variant: the pin is released, int_state is not reset.
ReleasePinOnly ==
    /\ int_low' = IF int_state = "idle" THEN int_low ELSE FALSE
    /\ UNCHANGED int_state

\* remote_release_int
ReleaseInt ==
    IF int_state = "idle"
    THEN UNCHANGED <<int_low, int_state>>
    ELSE int_low' = FALSE /\ int_state' = "idle"

\* The delay byte of a PULL_INT command in ticks (parse_pull_int).
PullDelay(d) ==
    IF d = 0 THEN DELAY_UNIT
    ELSE IF d <= DELAY_LIMIT THEN d * DELAY_UNIT
    ELSE DELAY_MAX

\* Faulty variant: the check looks for the state that nobody sets.
CheckPulledOnly ==
    IF int_state = "pulled" THEN ReleaseInt /\ UNCHANGED int_timer
    ELSE UNCHANGED intVars

\* The int timer check at the end of remote_poll.
CheckIntTimer ==
    IF int_state = "pulled_timer"
    THEN IF TimerExpired(int_timer)
         THEN ReleaseInt /\ UNCHANGED int_timer
         ELSE /\ int_timer' = TimerObserve(int_timer, internal_counter)
              /\ UNCHANGED <<int_low, int_state>>
    ELSE UNCHANGED intVars

-----------------------------------------------------------------------------
(* remote_poll: one command handler at most, then the int timer check *)

NextPoll == at = "remote_poll" /\ at' = "storage_poll"

\* Common to storage_save_config and storage_save_color: copy the record to
\* the buffer and start the write.
StartSave(base, len, data) ==
    /\ buf' = [i \in 0 .. BUF_SIZE - 1 |-> IF i < len THEN data[i] ELSE buf[i]]
    /\ index' = 0
    /\ bytes_remaining' = len
    /\ address' = base
    /\ state' = "write"
    /\ req' = [base |-> base, len |-> len]
    /\ before' = mem
    /\ fresh' = ChecksumMatches(mem, sum)

\* Faulty variants: no check of the slot, no check for a save in progress.
AcceptAnySlot(slot) == state = "idle"
AcceptWhileBusy(slot) == slot < COLORS

\* SAVE_RGB, SAVE_HSV, SAVE_CURRENT: dropped for a slot that does not exist
\* and while an earlier save is still being written.
SaveAccepted(slot) == slot < COLORS /\ state = "idle"

SaveColor(slot, c) ==
    /\ IF SaveAccepted(slot)
       THEN StartSave(SlotBase(slot), SLOT_LEN, c)
       ELSE UNCHANGED <<jobVars, state, ghostVars>>
    /\ UNCHANGED <<startup_config, eeprom_good>>
    /\ CheckIntTimer

\* CONFIG_STARTUP: the parameters reach the RAM copy even when the save is
\* dropped; an accepted save resets the RAM copy's magic byte.
ConfigStartup(p) ==
    /\ IF state = "idle"
       THEN /\ StartSave(0, CFG_LEN, [i \in 0 .. CFG_LEN - 1 |->
                                         IF i = 0 THEN MAGIC ELSE p[i]])
            /\ eeprom_good' = TRUE
       ELSE UNCHANGED <<jobVars, state, ghostVars, eeprom_good>>
    /\ startup_config' = [i \in 0 .. CFG_LEN - 1 |->
            IF i > 0 THEN p[i]
            ELSE IF state = "idle" THEN ZERO ELSE startup_config[0]]
    /\ CheckIntTimer

\* PULL_INT: pull the line and arm the timer, whoever pulls it already.  The
\* check that follows finds the fresh timer neither expired nor advanced.
PullIntCommand(d) ==
    /\ PullInt
    /\ int_timer' = TimerSet(internal_counter, PullDelay(d))
    /\ int_state' = "pulled_timer"
    /\ UNCHANGED <<jobVars, state, ghostVars, startup_config, eeprom_good>>

RemoteCommand ==
    /\ NextPoll
    /\ commands < MaxCommands
    /\ commands' = commands + 1
    /\ \/ \E slot \in Slots, c \in Colors : SaveColor(slot, c)
       \/ \E p \in Params : ConfigStartup(p)
       \/ \E d \in Delays : PullIntCommand(d)
    /\ UNCHANGED <<eepromVars, pending, lc, internal_counter, ddr, started, restarts>>

RemoteQuiet ==
    /\ NextPoll
    /\ CheckIntTimer
    /\ UNCHANGED <<eepromVars, pending, eeprom_good, startup_config, jobVars,
                   state, lc, internal_counter, ddr, started, ghostVars,
                   commands, restarts>>

\* POWERDOWN, once the transmitter is empty: all pins become inputs, the line
\* among them, and the clock stops; EEPROM and storage thread are not asked.
PowerDown ==
    /\ at = "remote_poll" /\ at' = "asleep"
    /\ commands < MaxCommands /\ commands' = commands + 1
    /\ ddr' = int_low /\ int_low' = FALSE
    /\ UNCHANGED <<eepromVars, pending, eeprom_good, startup_config, jobVars,
                   state, lc, int_state, int_timer, internal_counter, started,
                   ghostVars, restarts>>

\* Someone else pulls the line, or has pulled it all the time: the device
\* wakes up and writes the saved pins back.
WakeUp ==
    /\ at = "asleep" /\ at' = "awake"
    /\ int_low' = ddr
    /\ UNCHANGED <<eepromVars, pending, jobVars, state, lc, int_state, int_timer, otherVars>>

\* remote_poll goes on behind the handler.
RemoteGoesOn ==
    /\ at = "awake" /\ at' = "storage_poll"
    /\ CheckIntTimer
    /\ UNCHANGED <<eepromVars, pending, jobVars, state, lc, otherVars>>

-----------------------------------------------------------------------------
(* storage_poll: the storage protothread up to its next yield *)

StorageReturns == at = "storage_poll" /\ at' = "remote_poll"

\* Faulty variant: the cursors are not advanced.
WriteSameByte ==
    /\ pending' = [cell |-> address, val |-> buf[index]]
    /\ lc' = "byte"
    /\ UNCHANGED <<address, index, bytes_remaining>>

\* One round of the loop over the record: eeprom_write_byte, then yield until
\* the EEPROM is ready.
WriteByte ==
    /\ pending' = [cell |-> address, val |-> buf[index]]
    /\ address' = address + 1
    /\ index' = index + 1
    /\ bytes_remaining' = bytes_remaining - 1
    /\ lc' = "byte"

\* Faulty variant: while (--bytes_remaining).
OneByteShort == bytes_remaining <= 1

\* The end of the loop while (bytes_remaining--).
RecordDone == bytes_remaining = 0

\* storage_poll with nothing to write.
StoragePollIdle ==
    /\ StorageReturns
    /\ state = "idle"
    /\ UNCHANGED <<eepromVars, pending, jobVars, state, lc, intVars, otherVars>>

\* The thread finds a new job, pulls the INT line and writes the first byte.
StorageBegin ==
    /\ StorageReturns
    /\ state = "write" /\ lc = "begin"
    /\ PullInt
    /\ WriteByte
    /\ UNCHANGED <<eepromVars, state, int_state, int_timer, otherVars>>

\* The EEPROM is still busy: the thread yields again.
StorageWait ==
    /\ StorageReturns
    /\ lc \in {"byte", "sum"} /\ pending # NoWrite
    /\ UNCHANGED <<eepromVars, pending, jobVars, state, lc, intVars, otherVars>>

StorageNextByte ==
    /\ StorageReturns
    /\ lc = "byte" /\ pending = NoWrite /\ ~RecordDone
    /\ WriteByte
    /\ UNCHANGED <<eepromVars, state, intVars, otherVars>>

\* All bytes are written: compute the checksum and write its low byte.
\* eeprom_write_word does not return before it can write the high byte, so
\* the main loop stays in storage_poll.  bytes_remaining-- wrapped around.
StorageWriteSum ==
    /\ at = "storage_poll"
    /\ lc = "byte" /\ pending = NoWrite /\ RecordDone
    /\ pending' = [cell |-> SIZE, val |-> mem]
    /\ bytes_remaining' = 255
    /\ lc' = "sumlow"
    /\ UNCHANGED <<eepromVars, buf, index, address, state, at, intVars,
                   eeprom_good, startup_config, internal_counter, ddr, started,
                   ghostVars, commands, restarts>>

\* Faulty variant: only the low byte of the checksum is written.
SkipSumHigh ==
    /\ StorageReturns
    /\ lc = "sumlow" /\ pending = NoWrite
    /\ lc' = "sum"
    /\ UNCHANGED <<eepromVars, pending, jobVars, state, intVars, otherVars>>

StorageWriteSumHigh ==
    /\ StorageReturns
    /\ lc = "sumlow" /\ pending = NoWrite
    /\ pending' = [cell |-> SIZE + 1, val |-> mem]
    /\ lc' = "sum"
    /\ UNCHANGED <<eepromVars, jobVars, state, intVars, otherVars>>

\* The checksum is written: release the INT line, ready for the next job.
StorageFinish ==
    /\ StorageReturns
    /\ lc = "sum" /\ pending = NoWrite
    /\ ReleaseInt
    /\ state' = "idle"
    /\ lc' = "begin"
    /\ UNCHANGED <<eepromVars, pending, jobVars, int_timer, otherVars>>

StoragePoll ==
    \/ StoragePollIdle \/ StorageBegin \/ StorageWait \/ StorageNextByte
    \/ StorageWriteSum \/ StorageWriteSumHigh \/ StorageFinish

-----------------------------------------------------------------------------
(* Hardware *)

\* EEPROM contents once the byte w is stored.
Programmed(w) ==
    IF w.cell < SIZE
    THEN <<[mem EXCEPT ![w.cell] = w.val], sum>>
    ELSE <<mem, [sum EXCEPT ![w.cell - SIZE + 1] = w.val]>>

\* The EEPROM finishes the byte it is programming (eeprom_is_ready).
EepromDone ==
    /\ pending # NoWrite
    /\ mem' = Programmed(pending)[1]
    /\ sum' = Programmed(pending)[2]
    /\ pending' = NoWrite
    /\ UNCHANGED <<jobVars, state, lc, at, intVars, otherVars>>

\* The 10 ms interrupt.  A round of the main loop takes less than COUNTER
\* ticks (2.56 s), so the counter never laps a timer that is being polled.
\* It stands still while the device is powered down.
Tick ==
    /\ at # "asleep"
    /\ int_state = "pulled_timer" => NextTick(internal_counter) # int_timer.current
    /\ internal_counter' = NextTick(internal_counter)
    /\ UNCHANGED <<eepromVars, pending, jobVars, state, lc, at, intVars,
                   eeprom_good, startup_config, buf, ddr, started, ghostVars,
                   commands, restarts>>

\* What a power failure may leave in the EEPROM: a byte that was being
\* programmed holds anything.
Survivors ==
    IF pending = NoWrite THEN {<<mem, sum>>}
    ELSE IF pending.cell < SIZE
    THEN {<<[mem EXCEPT ![pending.cell] = v], sum>> : v \in Byte}
    ELSE {<<mem, [sum EXCEPT ![pending.cell - SIZE + 1] = v]>> :
              v \in {sum[pending.cell - SIZE + 1], pending.val, NoSum}}

\* The power fails, or the watchdog fires 120 ms after a BOOTLOADER command,
\* and the device starts again.
Restart ==
    /\ restarts < MaxRestarts
    /\ restarts' = restarts + 1
    /\ \E s \in Survivors :
          /\ mem' = s[1]
          /\ sum' = s[2]
          /\ before' = s[1]
          /\ eeprom_good' = ChecksumMatches(s[1], s[2])
          /\ startup_config' = LoadedConfig(s[1], eeprom_good')
          /\ started' = StartedWith(s[1], eeprom_good')
    /\ fresh' = eeprom_good'
    /\ pending' = NoWrite
    /\ buf' = EmptyBuffer
    /\ index' = 0 /\ address' = 0 /\ bytes_remaining' = 0
    /\ state' = "idle" /\ lc' = "begin" /\ at' = "remote_poll"
    /\ int_low' = FALSE /\ int_state' = "idle"
    /\ int_timer' = ZeroTimer /\ internal_counter' = 0 /\ ddr' = FALSE
    /\ req' = NoRequest
    /\ UNCHANGED commands

Next ==
    \/ RemoteCommand \/ RemoteQuiet
    \/ PowerDown \/ WakeUp \/ RemoteGoesOn
    \/ StoragePoll
    \/ EepromDone \/ Tick \/ Restart

\* The main loop never stops while the device is awake, the EEPROM finishes
\* every byte, time passes.  Nobody has to wake a device up.
Fairness ==
    /\ WF_vars(RemoteQuiet) /\ WF_vars(RemoteGoesOn) /\ WF_vars(StoragePoll)
    /\ WF_vars(EepromDone) /\ WF_vars(Tick)

Spec == Init /\ [][Next]_vars /\ Fairness

-----------------------------------------------------------------------------
(* Properties *)

Sums == Memory \cup {NoSum}
Writes == [cell : Address, val : Byte]
          \cup [cell : {SIZE, SIZE + 1}, val : Memory]

\* Every variable has the type the C declarations give it.
TypeOK ==
    /\ mem \in Memory /\ sum \in Sums \X Sums /\ before \in Memory
    /\ pending \in Writes \cup {NoWrite}
    /\ eeprom_good \in BOOLEAN /\ fresh \in BOOLEAN /\ int_low \in BOOLEAN
    /\ startup_config \in ConfigRecord
    /\ buf \in [0 .. BUF_SIZE - 1 -> Byte]
    /\ index \in 0 .. BUF_SIZE /\ address \in 0 .. SIZE
    /\ bytes_remaining \in 0 .. BUF_SIZE \cup {255}
    /\ state \in {"idle", "write"}
    /\ lc \in {"begin", "byte", "sumlow", "sum"}
    /\ at \in {"remote_poll", "storage_poll", "asleep", "awake"} /\ ddr \in BOOLEAN
    /\ int_state \in {"idle", "pulled_timer"}
    /\ int_timer \in Timers(DELAY_MAX) /\ internal_counter \in Counter
    /\ started \in [1 .. CFG_LEN - 1 -> Byte] \cup {Default}
    /\ req \in [base : 0 .. SIZE, len : 0 .. BUF_SIZE]
    /\ commands \in 0 .. MaxCommands /\ restarts \in 0 .. MaxRestarts

\* The cells of the record being saved.
Record == req.base .. req.base + req.len - 1

\* The records once the save being served is complete.
After == [a \in Address |-> IF a \in Record THEN buf[a - req.base] ELSE before[a]]

\* The byte of cell a is still being programmed.
InProgress(a) == pending # NoWrite /\ pending.cell = a

\* A save leaves every other record alone, and what it has written so far is
\* the prefix of the accepted record, although commands that arrive meanwhile
\* offer other data: the three cursors of the write loop stay in step.
SaveWritesOnlyItsRecord ==
    \A a \in Address :
        mem[a] = IF a \in Record /\ a < address /\ ~InProgress(a)
                 THEN buf[a - req.base]
                 ELSE before[a]

\* What the write loop relies on at each point where the thread may continue.
Cursors ==
    /\ req.base + req.len <= SIZE
    /\ state = "idle" =>
         lc = "begin" /\ pending = NoWrite /\ address = req.base + req.len
    /\ state = "write" => req.len # 0
    /\ state = "write" /\ lc = "begin" =>
         /\ index = 0 /\ address = req.base /\ bytes_remaining = req.len
         /\ pending = NoWrite
    /\ lc = "byte" =>
         /\ index \in 1 .. req.len
         /\ address = req.base + index /\ bytes_remaining = req.len - index
         /\ pending \in {NoWrite, [cell |-> address - 1, val |-> buf[index - 1]]}
    /\ lc \in {"sumlow", "sum"} => address = req.base + req.len
    /\ lc = "sumlow" => pending \in {NoWrite, [cell |-> SIZE, val |-> mem]}
    /\ lc = "sum" => pending \in {NoWrite, [cell |-> SIZE + 1, val |-> mem]}

\* How far the checksum word follows the records: while bytes are written it
\* is the one of the old records, afterwards its halves become new in turn.
ChecksumFollows ==
    /\ state = "write" /\ lc \in {"begin", "byte"} /\ fresh =>
         ChecksumMatches(before, sum)
    /\ lc = "sumlow" /\ pending = NoWrite => sum[1] = mem
    /\ lc = "sum" => sum[1] = mem /\ (pending = NoWrite => sum[2] = mem)

\* Whenever the storage is idle after a save, or after a start-up that found a
\* good EEPROM, the stored checksum is the one of the stored records: the next
\* start-up will not fall back to the default program.
ChecksumFreshWhenIdle ==
    state = "idle" /\ (fresh \/ req # NoRequest) => ChecksumMatches(mem, sum)

\* Each record of the memory m is one that was never written, or one that a
\* command carried.
WholeConfig(m) ==
    \/ \A i \in 0 .. CFG_LEN - 1 : m[i] = ZERO
    \/ m[0] = MAGIC /\ [i \in 1 .. CFG_LEN - 1 |-> m[i]] \in Params
WholeColor(m, p) ==
    [i \in 0 .. SLOT_LEN - 1 |-> m[SlotBase(p) + i]]
        \in Colors \cup {[i \in 0 .. SLOT_LEN - 1 |-> ZERO]}
WholeRecords(m) == WholeConfig(m) /\ \A p \in 0 .. COLORS - 1 : WholeColor(m, p)

\* Without a power failure no reader of the EEPROM ever finds half a record
\* once the storage is idle, in particular not after saves that were dropped.
WholeRecordsWhenIdle == state = "idle" /\ restarts = 0 => WholeRecords(mem)

\* While the PULL_INT timer runs the line is down: no interplay with the
\* storage thread, which pulls and releases the same pin, lets it go and
\* leaves the timer running.  A POWERDOWN in between lets the line go, and the
\* device pulls it again when it wakes up, for the rest of the time.
TimerHoldsLine ==
    int_state = "pulled_timer" => IF at = "asleep" THEN ddr ELSE int_low

\* A power failure during a save is all or nothing, provided the checksum was
\* fresh when the save was accepted: if the restarted device accepts its EEPROM,
\* every record is as it was before the save or as it is after it.
CrashIsAllOrNothing ==
    [][restarts' # restarts /\ fresh /\ eeprom_good' => mem' \in {before, After}]_vars

\* Every accepted save comes to an end (or dies with the power), the ones that
\* a POWERDOWN interrupts once the device is awake again.
SaveEnds == state = "write" ~> state = "idle" \/ at = "asleep"

\* A line pulled by PULL_INT is released again.
PulledLineIsReleased == int_state = "pulled_timer" ~> ~int_low

\* Refuted: with no PULL_INT pending, an idle storage has released the INT line
\* it pulled for writing (storage.c:102, doc/PROTOCOL:166).
LineReleasedAfterSave ==
    state = "idle" /\ int_state = "idle" => ~int_low

\* Refuted: the parameters a device starts with were configured as a whole by
\* one CONFIG_STARTUP, or are the default (storage.h:50, storage.h:88).
StartsWithConfiguredParams ==
    started \in Params \cup {Default}
==============================================================================
