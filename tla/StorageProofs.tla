---------------------------- MODULE StorageProofs ----------------------------
(***************************************************************************)
(* Machine-checked theorems about Storage, for every EEPROM layout, every  *)
(* set of byte values and any number of commands and power failures.       *)
(***************************************************************************)
EXTENDS Storage, TLAPS

-----------------------------------------------------------------------------
(* The layout of struct storage_t *)

\* A color slot that exists lies behind the configuration record and in front
\* of the checksum.
LEMMA SlotInside ==
    ASSUME NEW slot \in Nat, slot < COLORS
    PROVE  /\ SlotBase(slot) \in 0 .. SIZE
           /\ SlotBase(slot) + SLOT_LEN <= SIZE
<1>1. COLORS \in Nat /\ SLOT_LEN \in Nat /\ CFG_LEN \in Nat
    BY LayoutAssumption
<1>2. COLORS - slot - 1 \in Nat
    BY <1>1
<1>3. (COLORS - slot - 1) * SLOT_LEN \in Nat
    BY <1>1, <1>2
<1>4. slot * SLOT_LEN \in Nat /\ COLORS * SLOT_LEN \in Nat
    BY <1>1
<1>5. (COLORS - slot - 1) * SLOT_LEN
        = COLORS * SLOT_LEN - slot * SLOT_LEN - SLOT_LEN
    BY <1>1
<1> QED
    BY <1>1, <1>3, <1>4, <1>5 DEF SlotBase, SIZE

\* The EEPROM has a size.
LEMMA SizeIsNat == SIZE \in Nat
BY LayoutAssumption DEF SIZE

\* The absent write is told from every write to a cell.
LEMMA NoWriteIsNoWrite == NoWrite \notin Writes
<1>1. Writes \subseteq [cell : 0 .. SIZE + 1, val : Byte \cup Memory]
    BY SizeIsNat DEF Writes, Address
<1> QED
    BY <1>1, DataAssumption

\* Timers stay within their type.
LEMMA TimerTypes ==
    ASSUME NEW t \in Timers(DELAY_MAX), NEW c \in Counter
    PROVE  /\ TimerObserve(t, c) \in Timers(DELAY_MAX)
           /\ NextTick(c) \in Counter
BY CounterAssumption, DelayAssumption
   DEF Timers, Counter, TimerObserve, NextTick

\* A PULL_INT delay is a timeout a timer can hold.
LEMMA PullDelayFits ==
    ASSUME NEW d \in Delays
    PROVE  PullDelay(d) \in 0 .. DELAY_MAX
<1>1. d \in Nat /\ DELAY_UNIT \in Nat /\ DELAY_LIMIT \in Nat /\ DELAY_MAX \in Nat
    BY DelayAssumption
<1>2. CASE d > DELAY_LIMIT
    BY <1>1, <1>2, DelayAssumption DEF PullDelay
<1>3. CASE d <= DELAY_LIMIT
    <2>1. d * DELAY_UNIT \in Nat /\ DELAY_LIMIT * DELAY_UNIT \in Nat
        BY <1>1
    <2>2. (DELAY_LIMIT - d) * DELAY_UNIT \in Nat
        BY <1>1, <1>3
    <2>3. (DELAY_LIMIT - d) * DELAY_UNIT = DELAY_LIMIT * DELAY_UNIT - d * DELAY_UNIT
        BY <1>1
    <2>4. d * DELAY_UNIT <= DELAY_MAX
        BY <1>1, <2>1, <2>2, <2>3, DelayAssumption
    <2> QED
        BY <1>1, <1>3, <2>1, <2>4, DelayAssumption DEF PullDelay
<1> QED
    BY <1>1, <1>2, <1>3

-----------------------------------------------------------------------------
(* The INT line *)

IntTypeOK ==
    /\ int_low \in BOOLEAN
    /\ int_state \in {"idle", "pulled_timer"}
    /\ int_timer \in Timers(DELAY_MAX) /\ internal_counter \in Counter

\* The three operations on the line keep the types, and keep it down while
\* the PULL_INT timer runs and the device is awake.
LEMMA LineOperations ==
    ASSUME IntTypeOK, TimerHoldsLine, at # "asleep", at' # "asleep"
    PROVE  /\ CheckIntTimer =>
                /\ int_low' \in BOOLEAN /\ int_state' \in {"idle", "pulled_timer"}
                /\ int_timer' \in Timers(DELAY_MAX) /\ TimerHoldsLine'
           /\ ReleaseInt =>
                /\ int_low' \in BOOLEAN /\ int_state' = "idle" /\ TimerHoldsLine'
           /\ PullInt => int_low' = TRUE \/ int_low' = int_low
<1>1. TimerObserve(int_timer, internal_counter) \in Timers(DELAY_MAX)
    BY TimerTypes DEF IntTypeOK
<1>2. ReleaseInt => /\ int_low' \in BOOLEAN /\ int_state' = "idle"
                    /\ TimerHoldsLine'
    BY DEF ReleaseInt, IntTypeOK, TimerHoldsLine
<1>3. CheckIntTimer =>
          /\ int_low' \in BOOLEAN /\ int_state' \in {"idle", "pulled_timer"}
          /\ int_timer' \in Timers(DELAY_MAX) /\ TimerHoldsLine'
    BY <1>1, <1>2 DEF CheckIntTimer, intVars, IntTypeOK, TimerHoldsLine
<1>4. PullInt => int_low' = TRUE \/ int_low' = int_low
    BY DEF PullInt
<1> QED
    BY <1>2, <1>3, <1>4

-----------------------------------------------------------------------------
(* Types and the cursors of the write loop *)

Loop == TypeOK /\ TimerHoldsLine /\ Cursors

\* What storage_init and startup compute from any EEPROM contents is well typed.
LEMMA BootTypes ==
    ASSUME NEW m \in Memory, NEW s \in Sums \X Sums, NEW good \in BOOLEAN
    PROVE  /\ ChecksumMatches(m, s) \in BOOLEAN
           /\ LoadedConfig(m, good) \in ConfigRecord
           /\ StartedWith(m, good) \in [1 .. CFG_LEN - 1 -> Byte] \cup {Default}
           /\ EmptyBuffer \in [0 .. BUF_SIZE - 1 -> Byte]
           /\ ZeroTimer \in Timers(DELAY_MAX) /\ 0 \in Counter
           /\ NoRequest \in [base : 0 .. SIZE, len : 0 .. BUF_SIZE]
<1> SIZE \in Nat /\ BUF_SIZE \in Nat /\ CFG_LEN \in Nat
    BY SizeIsNat, LayoutAssumption
<1>1. 0 .. CFG_LEN - 1 \subseteq Address
    <2>1. COLORS * SLOT_LEN \in Nat
        BY LayoutAssumption
    <2> QED
        BY <2>1 DEF Address, SIZE
<1>2. \A i \in 0 .. CFG_LEN - 1 : m[i] \in Byte
    BY <1>1 DEF Memory
<1>3. ChecksumMatches(m, s) \in BOOLEAN
    BY DEF ChecksumMatches
<1>4. LoadedConfig(m, good) \in ConfigRecord
    BY <1>2, DataAssumption DEF LoadedConfig, ConfigRecord
<1>5. StartedWith(m, good) \in [1 .. CFG_LEN - 1 -> Byte] \cup {Default}
    BY <1>2 DEF StartedWith
<1>6. EmptyBuffer \in [0 .. BUF_SIZE - 1 -> Byte]
    BY DataAssumption DEF EmptyBuffer
<1>7. ZeroTimer \in Timers(DELAY_MAX) /\ 0 \in Counter
    BY CounterAssumption, DelayAssumption DEF ZeroTimer, Timers, Counter
<1>8. NoRequest \in [base : 0 .. SIZE, len : 0 .. BUF_SIZE]
    BY DEF NoRequest
<1> QED
    BY <1>3, <1>4, <1>5, <1>6, <1>7, <1>8

\* startup() establishes the invariant of the main loop.
LEMMA LoopInit == Init => Loop
<1> SUFFICES ASSUME Init PROVE Loop
    OBVIOUS
<1> SIZE \in Nat /\ BUF_SIZE \in Nat
    BY SizeIsNat, LayoutAssumption
<1>1. mem \in Memory /\ sum \in Sums \X Sums
    BY DataAssumption DEF Init, Memory, Sums
<1>2. eeprom_good \in BOOLEAN
    BY <1>1, BootTypes DEF Init
<1>3. /\ startup_config \in ConfigRecord
      /\ started \in [1 .. CFG_LEN - 1 -> Byte] \cup {Default}
    BY <1>1, <1>2, BootTypes DEF Init
<1>4. /\ buf \in [0 .. BUF_SIZE - 1 -> Byte]
      /\ int_timer \in Timers(DELAY_MAX) /\ internal_counter \in Counter
      /\ req \in [base : 0 .. SIZE, len : 0 .. BUF_SIZE]
    BY <1>1, <1>2, BootTypes DEF Init
<1>5. /\ pending \in Writes \cup {NoWrite}
      /\ before \in Memory /\ fresh \in BOOLEAN
    BY <1>1, <1>2 DEF Init
<1>6. TypeOK
    <2>1. /\ index \in 0 .. BUF_SIZE /\ address \in 0 .. SIZE
          /\ bytes_remaining \in 0 .. BUF_SIZE \cup {255}
          /\ commands \in 0 .. MaxCommands /\ restarts \in 0 .. MaxRestarts
        BY BoundAssumption DEF Init
    <2>2. /\ state \in {"idle", "write"}
          /\ lc \in {"begin", "byte", "sumlow", "sum"}
          /\ at \in {"remote_poll", "storage_poll", "asleep", "awake"} /\ ddr \in BOOLEAN
          /\ int_low \in BOOLEAN /\ int_state \in {"idle", "pulled_timer"}
        BY DEF Init
    <2> QED
        BY <1>1, <1>2, <1>3, <1>4, <1>5, <2>1, <2>2 DEF TypeOK
<1>7. TimerHoldsLine /\ Cursors
    BY DEF Init, TimerHoldsLine, Cursors, NoRequest
<1> QED
    BY <1>6, <1>7 DEF Loop

\* An accepted save of a record that lies inside the EEPROM.
LEMMA StartSaveLoop ==
    ASSUME Loop, state = "idle",
           NEW base \in 0 .. SIZE, NEW len \in 1 .. BUF_SIZE,
           base + len <= SIZE, NEW data, \A i \in 0 .. len - 1 : data[i] \in Byte,
           StartSave(base, len, data), UNCHANGED <<mem, sum, pending, lc>>
    PROVE  /\ buf' \in [0 .. BUF_SIZE - 1 -> Byte]
           /\ index' \in 0 .. BUF_SIZE /\ address' \in 0 .. SIZE
           /\ bytes_remaining' \in 0 .. BUF_SIZE \cup {255}
           /\ state' = "write" /\ before' \in Memory /\ fresh' \in BOOLEAN
           /\ req' \in [base : 0 .. SIZE, len : 0 .. BUF_SIZE]
           /\ Cursors'
<1> SIZE \in Nat /\ BUF_SIZE \in Nat
    BY SizeIsNat, LayoutAssumption
<1>1. buf' \in [0 .. BUF_SIZE - 1 -> Byte]
    BY DEF Loop, TypeOK, StartSave
<1>2. Cursors'
    BY DEF Loop, Cursors, StartSave
<1> QED
    BY <1>1, <1>2 DEF Loop, TypeOK, StartSave, ChecksumMatches

\* One EEPROM byte of the loop over the record.
LEMMA WriteByteLoop ==
    ASSUME Loop, state = "write", lc \in {"begin", "byte"}, pending = NoWrite,
           ~RecordDone, WriteByte,
           UNCHANGED <<mem, buf, req, state>>
    PROVE  /\ pending' \in Writes
           /\ index' \in 0 .. BUF_SIZE /\ address' \in 0 .. SIZE
           /\ bytes_remaining' \in 0 .. BUF_SIZE \cup {255}
           /\ lc' = "byte"
           /\ Cursors'
<1> SIZE \in Nat /\ BUF_SIZE \in Nat
    BY SizeIsNat, LayoutAssumption
<1>1. /\ req.len \in 0 .. BUF_SIZE /\ req.base \in 0 .. SIZE
      /\ req.base + req.len <= SIZE
    BY DEF Loop, TypeOK, Cursors
<1>2. /\ index \in 0 .. req.len - 1
      /\ address = req.base + index /\ bytes_remaining = req.len - index
    <2>1. CASE lc = "begin"
        BY <1>1, <2>1 DEF Loop, Cursors
    <2>2. CASE lc = "byte"
        BY <1>1, <2>2 DEF Loop, Cursors, RecordDone
    <2> QED
        BY <2>1, <2>2
<1>3. /\ address \in Address /\ buf[index] \in Byte
      /\ index' = index + 1 /\ address' = req.base + index'
      /\ bytes_remaining' = req.len - index'
    <2>1. address \in Address
        BY <1>1, <1>2 DEF Address
    <2>2. index \in 0 .. BUF_SIZE - 1
        BY <1>1, <1>2
    <2>3. buf[index] \in Byte
        BY <2>2 DEF Loop, TypeOK
    <2>4. /\ index' = index + 1 /\ address' = address + 1
          /\ bytes_remaining' = bytes_remaining - 1
        BY DEF WriteByte
    <2> QED
        BY <1>1, <1>2, <2>1, <2>3, <2>4
<1>4. pending' \in Writes
    BY <1>3 DEF WriteByte, Writes
<1>5. pending' = [cell |-> address' - 1, val |-> buf'[index' - 1]]
    BY <1>1, <1>2 DEF WriteByte
<1>6. lc' = "byte" /\ req' = req /\ state' = "write" /\ req.len # 0
    BY DEF WriteByte, Loop, Cursors
<1>7. Cursors'
    BY <1>1, <1>2, <1>3, <1>5, <1>6 DEF Cursors
<1> QED
    BY <1>1, <1>2, <1>3, <1>4, <1>6, <1>7

\* Commands: an accepted save starts a job, a dropped one leaves it alone.
LEMMA CommandLoop ==
    ASSUME Loop, RemoteCommand
    PROVE  Loop'
<1> SIZE \in Nat /\ BUF_SIZE \in Nat
    BY SizeIsNat, LayoutAssumption
<1> USE DEF Loop
<1>1. IntTypeOK
    BY DEF TypeOK, IntTypeOK
<1>2. /\ UNCHANGED <<mem, sum, pending, lc, internal_counter, ddr, started, restarts>>
      /\ at = "remote_poll" /\ at' = "storage_poll" /\ commands' \in 0 .. MaxCommands
    BY BoundAssumption DEF RemoteCommand, NextPoll, eepromVars, TypeOK
<1>3. ASSUME NEW slot \in Slots, NEW c \in Colors, SaveColor(slot, c)
      PROVE  Loop'
    <2>1. /\ int_low' \in BOOLEAN /\ int_state' \in {"idle", "pulled_timer"}
          /\ int_timer' \in Timers(DELAY_MAX) /\ TimerHoldsLine'
        BY <1>1, <1>2, <1>3, LineOperations DEF SaveColor
    <2>2. UNCHANGED <<startup_config, eeprom_good>>
        BY <1>3 DEF SaveColor
    <2>3. CASE SaveAccepted(slot)
        <3>1. StartSave(SlotBase(slot), SLOT_LEN, c) /\ state = "idle"
            BY <1>3, <2>3 DEF SaveColor, SaveAccepted
        <3>2. /\ SlotBase(slot) \in 0 .. SIZE
              /\ SlotBase(slot) + SLOT_LEN <= SIZE
            BY <2>3, SlotInside, DataAssumption DEF SaveAccepted
        <3>3. SLOT_LEN \in 1 .. BUF_SIZE
            BY LayoutAssumption
        <3>4. \A i \in 0 .. SLOT_LEN - 1 : c[i] \in Byte
            BY DataAssumption DEF ColorRecord
        <3>5. /\ buf' \in [0 .. BUF_SIZE - 1 -> Byte]
              /\ index' \in 0 .. BUF_SIZE /\ address' \in 0 .. SIZE
              /\ bytes_remaining' \in 0 .. BUF_SIZE \cup {255}
              /\ state' = "write" /\ before' \in Memory /\ fresh' \in BOOLEAN
              /\ req' \in [base : 0 .. SIZE, len : 0 .. BUF_SIZE]
              /\ Cursors'
            BY <1>2, <3>1, <3>2, <3>3, <3>4, StartSaveLoop
        <3> QED
            BY <1>2, <2>1, <2>2, <3>5 DEF TypeOK
    <2>4. CASE ~SaveAccepted(slot)
        <3>1. UNCHANGED <<jobVars, state, ghostVars>>
            BY <1>3, <2>4 DEF SaveColor
        <3>2. Cursors'
            BY <1>2, <3>1 DEF Cursors, jobVars, ghostVars
        <3> QED
            BY <1>2, <2>1, <2>2, <3>1, <3>2 DEF TypeOK, jobVars, ghostVars
    <2> QED
        BY <2>3, <2>4
<1>4. ASSUME NEW p \in Params, ConfigStartup(p)
      PROVE  Loop'
    <2>1. /\ int_low' \in BOOLEAN /\ int_state' \in {"idle", "pulled_timer"}
          /\ int_timer' \in Timers(DELAY_MAX) /\ TimerHoldsLine'
        BY <1>1, <1>2, <1>4, LineOperations DEF ConfigStartup
    <2>2. startup_config' \in ConfigRecord
        <3>1. \A i \in 1 .. CFG_LEN - 1 : p[i] \in Byte
            BY DataAssumption
        <3>2. startup_config[0] \in Byte
            BY LayoutAssumption DEF TypeOK, ConfigRecord
        <3> QED
            BY <1>4, <3>1, <3>2, DataAssumption DEF ConfigStartup, ConfigRecord
    <2>3. CASE state = "idle"
        <3> DEFINE data == [i \in 0 .. CFG_LEN - 1 |->
                               IF i = 0 THEN MAGIC ELSE p[i]]
        <3>1. StartSave(0, CFG_LEN, data) /\ eeprom_good' = TRUE
            BY <1>4, <2>3 DEF ConfigStartup
        <3>2. \A i \in 0 .. CFG_LEN - 1 : data[i] \in Byte
            <4>1. \A i \in 1 .. CFG_LEN - 1 : p[i] \in Byte
                BY DataAssumption
            <4> QED
                BY <4>1, DataAssumption, LayoutAssumption
        <3>3. CFG_LEN \in 1 .. BUF_SIZE
            BY LayoutAssumption
        <3>4. 0 \in 0 .. SIZE /\ 0 + CFG_LEN <= SIZE
            <4>1. COLORS * SLOT_LEN \in Nat
                BY LayoutAssumption
            <4> QED
                BY <4>1, LayoutAssumption DEF SIZE
        <3> HIDE DEF data
        <3>5. /\ buf' \in [0 .. BUF_SIZE - 1 -> Byte]
              /\ index' \in 0 .. BUF_SIZE /\ address' \in 0 .. SIZE
              /\ bytes_remaining' \in 0 .. BUF_SIZE \cup {255}
              /\ state' = "write" /\ before' \in Memory /\ fresh' \in BOOLEAN
              /\ req' \in [base : 0 .. SIZE, len : 0 .. BUF_SIZE]
              /\ Cursors'
            BY <1>2, <2>3, <3>1, <3>2, <3>3, <3>4, StartSaveLoop
        <3> QED
            BY <1>2, <2>1, <2>2, <3>1, <3>5 DEF TypeOK
    <2>4. CASE state # "idle"
        <3>1. UNCHANGED <<jobVars, state, ghostVars, eeprom_good>>
            BY <1>4, <2>4 DEF ConfigStartup
        <3>2. Cursors'
            BY <1>2, <3>1 DEF Cursors, jobVars, ghostVars
        <3> QED
            BY <1>2, <2>1, <2>2, <3>1, <3>2 DEF TypeOK, jobVars, ghostVars
    <2> QED
        BY <2>3, <2>4
<1>5. ASSUME NEW d \in Delays, PullIntCommand(d)
      PROVE  Loop'
    <2>1. UNCHANGED <<jobVars, state, ghostVars, startup_config, eeprom_good>>
        BY <1>5 DEF PullIntCommand
    <2>2. Cursors'
        BY <1>2, <2>1 DEF Cursors, jobVars, ghostVars
    <2>3. int_timer' \in Timers(DELAY_MAX)
        BY <1>1, <1>5, PullDelayFits DEF PullIntCommand, TimerSet, Timers, IntTypeOK
    <2>4. int_low' = TRUE /\ int_state' = "pulled_timer"
        BY <1>1, <1>2, <1>5 DEF PullIntCommand, PullInt, TimerHoldsLine, IntTypeOK
    <2> QED
        BY <1>2, <2>1, <2>2, <2>3, <2>4
        DEF TypeOK, TimerHoldsLine, jobVars, ghostVars
<1> QED
    BY <1>3, <1>4, <1>5 DEF RemoteCommand

\* The storage thread.
LEMMA StorageLoop ==
    ASSUME Loop, StoragePoll
    PROVE  Loop'
<1> SIZE \in Nat /\ BUF_SIZE \in Nat
    BY SizeIsNat, LayoutAssumption
<1> USE DEF Loop
<1>1. IntTypeOK
    BY DEF TypeOK, IntTypeOK
<1>2. CASE StoragePollIdle
    <2>1. at = "storage_poll" /\ at' = "remote_poll"
        BY <1>2 DEF StoragePollIdle, StorageReturns
    <2> QED
        BY <1>2, <2>1
        DEF StoragePollIdle, TypeOK, TimerHoldsLine, Cursors, eepromVars,
            jobVars, intVars, otherVars, ghostVars
<1>3. CASE StorageBegin
    <2>1. /\ WriteByte /\ PullInt /\ at = "storage_poll" /\ at' = "remote_poll"
          /\ UNCHANGED <<mem, sum, buf, req, state>>
          /\ UNCHANGED <<int_state, int_timer, otherVars>>
        BY <1>3 DEF StorageBegin, StorageReturns, eepromVars, otherVars, ghostVars
    <2>2. pending = NoWrite /\ ~RecordDone
        BY <1>3 DEF StorageBegin, Cursors, RecordDone
    <2>3. /\ pending' \in Writes
          /\ index' \in 0 .. BUF_SIZE /\ address' \in 0 .. SIZE
          /\ bytes_remaining' \in 0 .. BUF_SIZE \cup {255}
          /\ lc' = "byte"
          /\ Cursors'
        BY <1>3, <2>1, <2>2, WriteByteLoop DEF StorageBegin
    <2>4. int_low' \in BOOLEAN /\ TimerHoldsLine'
        BY <1>1, <2>1 DEF PullInt, TimerHoldsLine, IntTypeOK
    <2> QED
        BY <2>1, <2>3, <2>4 DEF TypeOK, otherVars, ghostVars
<1>4. CASE StorageWait
    BY <1>4 DEF StorageWait, StorageReturns, TypeOK, TimerHoldsLine, Cursors,
                eepromVars, jobVars, intVars, otherVars, ghostVars
<1>5. CASE StorageNextByte
    <2>1. /\ WriteByte /\ at = "storage_poll" /\ at' = "remote_poll"
          /\ UNCHANGED <<mem, sum, buf, req, state>>
          /\ UNCHANGED <<intVars, otherVars>>
        BY <1>5 DEF StorageNextByte, StorageReturns, eepromVars, otherVars, ghostVars
    <2>2. /\ pending = NoWrite /\ ~RecordDone /\ lc = "byte"
          /\ state = "write"
        BY <1>5 DEF StorageNextByte, Cursors, TypeOK
    <2>3. /\ pending' \in Writes
          /\ index' \in 0 .. BUF_SIZE /\ address' \in 0 .. SIZE
          /\ bytes_remaining' \in 0 .. BUF_SIZE \cup {255}
          /\ lc' = "byte"
          /\ Cursors'
        BY <2>1, <2>2, WriteByteLoop
    <2> QED
        BY <2>1, <2>3 DEF TypeOK, TimerHoldsLine, otherVars, ghostVars, intVars
<1>6. CASE StorageWriteSum
    <2>1. pending' \in Writes
        BY <1>6 DEF StorageWriteSum, Writes, TypeOK
    <2>2. Cursors'
        BY <1>6 DEF StorageWriteSum, RecordDone, Cursors, TypeOK, eepromVars, ghostVars
    <2> QED
        BY <1>6, <2>1, <2>2
        DEF StorageWriteSum, TypeOK, TimerHoldsLine, eepromVars, intVars, ghostVars
<1>7. CASE StorageWriteSumHigh
    <2>1. pending' \in Writes
        BY <1>7 DEF StorageWriteSumHigh, Writes, TypeOK
    <2>2. Cursors'
        BY <1>7 DEF StorageWriteSumHigh, Cursors, TypeOK, eepromVars, jobVars,
                    otherVars, ghostVars
    <2> QED
        BY <1>7, <2>1, <2>2
        DEF StorageWriteSumHigh, StorageReturns, TypeOK, TimerHoldsLine,
            eepromVars, jobVars, intVars, otherVars, ghostVars
<1>8. CASE StorageFinish
    <2>1. /\ ReleaseInt /\ UNCHANGED int_timer
          /\ at = "storage_poll" /\ at' = "remote_poll"
        BY <1>8 DEF StorageFinish, StorageReturns
    <2>2. int_low' \in BOOLEAN /\ int_state' = "idle" /\ TimerHoldsLine'
        BY <1>1, <2>1, LineOperations
    <2>3. Cursors'
        BY <1>8 DEF StorageFinish, Cursors, TypeOK, eepromVars, jobVars,
                    otherVars, ghostVars
    <2> QED
        BY <1>8, <2>1, <2>2, <2>3
        DEF StorageFinish, StorageReturns, TypeOK, eepromVars, jobVars,
            otherVars, ghostVars
<1> QED
    BY <1>2, <1>3, <1>4, <1>5, <1>6, <1>7, <1>8 DEF StoragePoll

\* A finished byte lands in the records or in the checksum.
LEMMA ProgrammedTypes ==
    ASSUME TypeOK, pending # NoWrite
    PROVE  Programmed(pending)[1] \in Memory /\ Programmed(pending)[2] \in Sums \X Sums
<1> SIZE \in Nat
    BY SizeIsNat
<1>1. CASE pending \in [cell : Address, val : Byte]
    BY <1>1 DEF Programmed, Address, Memory, TypeOK
<1>2. CASE pending \in [cell : {SIZE, SIZE + 1}, val : Memory]
    <2>1. pending.val \in Sums /\ pending.cell - SIZE + 1 \in 1 .. 2
        BY <1>2 DEF Sums
    <2>2. sum = <<sum[1], sum[2]>> /\ sum[1] \in Sums /\ sum[2] \in Sums
        BY DEF TypeOK
    <2>3. [sum EXCEPT ![pending.cell - SIZE + 1] = pending.val] \in Sums \X Sums
        BY <2>1, <2>2
    <2>4. ~(pending.cell < SIZE)
        BY <1>2
    <2> QED
        BY <2>3, <2>4 DEF Programmed, TypeOK
<1> QED
    BY <1>1, <1>2 DEF TypeOK, Writes

\* So does whatever a power failure leaves of it.
LEMMA SurvivorTypes ==
    ASSUME TypeOK, NEW s \in Survivors
    PROVE  s[1] \in Memory /\ s[2] \in Sums \X Sums
<1> SIZE \in Nat
    BY SizeIsNat
<1>1. CASE pending = NoWrite
    BY <1>1 DEF Survivors, TypeOK
<1>2. CASE pending # NoWrite /\ pending \in [cell : Address, val : Byte]
    <2>1. pending.cell < SIZE /\ pending.cell \in Address
        BY <1>2 DEF Address
    <2>2. PICK v \in Byte : s = <<[mem EXCEPT ![pending.cell] = v], sum>>
        BY <1>2, <2>1 DEF Survivors
    <2>3. [mem EXCEPT ![pending.cell] = v] \in Memory
        BY <2>1 DEF Memory, TypeOK
    <2> QED
        BY <2>2, <2>3 DEF TypeOK
<1>3. CASE pending # NoWrite /\ pending \in [cell : {SIZE, SIZE + 1}, val : Memory]
    <2>1. /\ pending.val \in Sums /\ NoSum \in Sums
          /\ pending.cell - SIZE + 1 \in 1 .. 2 /\ ~(pending.cell < SIZE)
        BY <1>3 DEF Sums
    <2>2. sum = <<sum[1], sum[2]>> /\ sum[1] \in Sums /\ sum[2] \in Sums
        BY DEF TypeOK
    <2>3. \A v \in Sums :
             [sum EXCEPT ![pending.cell - SIZE + 1] = v] \in Sums \X Sums
        BY <2>1, <2>2
    <2>4. PICK v \in {sum[pending.cell - SIZE + 1], pending.val, NoSum} :
             s = <<mem, [sum EXCEPT ![pending.cell - SIZE + 1] = v]>>
        BY <1>3, <2>1 DEF Survivors
    <2>5. v \in Sums
        BY <2>1, <2>2, <2>4
    <2> QED
        BY <2>3, <2>4, <2>5 DEF TypeOK
<1> QED
    BY <1>1, <1>2, <1>3 DEF TypeOK, Writes

\* Every step of the device keeps types, line and cursors.
LEMMA LoopNext == Loop /\ [Next]_vars => Loop'
<1> SUFFICES ASSUME Loop, [Next]_vars PROVE Loop'
    OBVIOUS
<1> SIZE \in Nat /\ BUF_SIZE \in Nat
    BY SizeIsNat, LayoutAssumption
<1> USE DEF Loop
<1>1. IntTypeOK
    BY DEF TypeOK, IntTypeOK
<1>2. CASE RemoteCommand
    BY <1>2, CommandLoop
<1>3. CASE RemoteQuiet
    <2>1. /\ int_low' \in BOOLEAN /\ int_state' \in {"idle", "pulled_timer"}
          /\ int_timer' \in Timers(DELAY_MAX) /\ TimerHoldsLine'
        BY <1>1, <1>3, LineOperations DEF RemoteQuiet, NextPoll
    <2>2. Cursors'
        BY <1>3 DEF RemoteQuiet, Cursors, eepromVars, jobVars, ghostVars
    <2> QED
        BY <1>3, <2>1, <2>2
        DEF RemoteQuiet, NextPoll, TypeOK, eepromVars, jobVars, ghostVars
<1>4. CASE StoragePoll
    BY <1>4, StorageLoop
<1>5. CASE EepromDone
    <2>1. mem' \in Memory /\ sum' \in Sums \X Sums
        BY <1>5, ProgrammedTypes DEF EepromDone
    <2>2. Cursors'
        BY <1>5 DEF EepromDone, Cursors, jobVars, otherVars, ghostVars
    <2> QED
        BY <1>5, <2>1, <2>2
        DEF EepromDone, TypeOK, TimerHoldsLine, jobVars, intVars, otherVars, ghostVars
<1>6. CASE Tick
    <2>1. internal_counter' \in Counter
        BY <1>1, <1>6, TimerTypes DEF Tick, IntTypeOK
    <2>2. Cursors'
        BY <1>6 DEF Tick, Cursors, eepromVars, jobVars, ghostVars
    <2> QED
        BY <1>6, <2>1, <2>2
        DEF Tick, TypeOK, TimerHoldsLine, eepromVars, jobVars, intVars, ghostVars
<1>7. CASE Restart
    <2>1. PICK s \in Survivors :
              /\ mem' = s[1] /\ sum' = s[2] /\ before' = s[1]
              /\ eeprom_good' = ChecksumMatches(s[1], s[2])
              /\ startup_config' = LoadedConfig(s[1], eeprom_good')
              /\ started' = StartedWith(s[1], eeprom_good')
        BY <1>7 DEF Restart
    <2>2. s[1] \in Memory /\ s[2] \in Sums \X Sums
        BY SurvivorTypes
    <2>3. eeprom_good' \in BOOLEAN
        BY <2>1, <2>2, BootTypes
    <2>4. /\ startup_config' \in ConfigRecord
          /\ started' \in [1 .. CFG_LEN - 1 -> Byte] \cup {Default}
          /\ EmptyBuffer \in [0 .. BUF_SIZE - 1 -> Byte]
          /\ ZeroTimer \in Timers(DELAY_MAX) /\ 0 \in Counter
          /\ NoRequest \in [base : 0 .. SIZE, len : 0 .. BUF_SIZE]
        BY <2>1, <2>2, <2>3, BootTypes
    <2>5. /\ fresh' = eeprom_good' /\ pending' = NoWrite /\ buf' = EmptyBuffer
          /\ index' = 0 /\ address' = 0 /\ bytes_remaining' = 0
          /\ state' = "idle" /\ lc' = "begin" /\ at' = "remote_poll"
          /\ int_low' = FALSE /\ int_state' = "idle"
          /\ int_timer' = ZeroTimer /\ internal_counter' = 0 /\ ddr' = FALSE
          /\ req' = NoRequest /\ commands' = commands
        BY <1>7 DEF Restart
    <2>6. restarts' \in 0 .. MaxRestarts
        BY <1>7, BoundAssumption DEF Restart, TypeOK
    <2>7. TimerHoldsLine' /\ Cursors'
        BY <2>5 DEF TimerHoldsLine, Cursors, NoRequest
    <2>8. /\ index' \in 0 .. BUF_SIZE /\ address' \in 0 .. SIZE
          /\ bytes_remaining' \in 0 .. BUF_SIZE \cup {255}
        BY <2>5
    <2>9. /\ mem' \in Memory /\ sum' \in Sums \X Sums /\ before' \in Memory
        BY <2>1, <2>2
    <2> QED
        BY <2>3, <2>4, <2>5, <2>6, <2>7, <2>8, <2>9 DEF TypeOK
<1>8. CASE PowerDown \/ WakeUp
    <2>1. /\ UNCHANGED <<eepromVars, pending, eeprom_good, startup_config, jobVars, state,
                         lc, int_state, int_timer, internal_counter, started, ghostVars,
                         restarts>>
          /\ commands' \in 0 .. MaxCommands
        BY <1>8, BoundAssumption DEF PowerDown, WakeUp, otherVars, TypeOK
    <2>2. Cursors'
        BY <2>1 DEF Cursors, eepromVars, jobVars, ghostVars
    <2>3. /\ at' \in {"remote_poll", "storage_poll", "asleep", "awake"}
          /\ int_low' \in BOOLEAN /\ ddr' \in BOOLEAN /\ TimerHoldsLine'
        BY <1>8 DEF PowerDown, WakeUp, otherVars, TypeOK, TimerHoldsLine
    <2> QED
        BY <2>1, <2>2, <2>3 DEF TypeOK, eepromVars, jobVars, ghostVars
<1>9. CASE RemoteGoesOn
    <2>1. /\ int_low' \in BOOLEAN /\ int_state' \in {"idle", "pulled_timer"}
          /\ int_timer' \in Timers(DELAY_MAX) /\ TimerHoldsLine'
        BY <1>1, <1>9, LineOperations DEF RemoteGoesOn
    <2>2. Cursors'
        BY <1>9 DEF RemoteGoesOn, Cursors, eepromVars, jobVars, otherVars, ghostVars
    <2> QED
        BY <1>9, <2>1, <2>2
        DEF RemoteGoesOn, TypeOK, eepromVars, jobVars, otherVars, ghostVars
<1>10. CASE UNCHANGED vars
    BY <1>10 DEF vars, TypeOK, TimerHoldsLine, Cursors, otherVars
<1> QED
    BY <1>2, <1>3, <1>4, <1>5, <1>6, <1>7, <1>8, <1>9, <1>10 DEF Next

\* Every variable keeps its type: no cursor of storage_thread leaves the
\* buffer or the EEPROM, and the software timer counts within its width.
THEOREM TypeCorrect == Spec => []TypeOK
<1>1. Loop => TypeOK
    BY DEF Loop
<1> QED
    BY <1>1, LoopInit, LoopNext, PTL DEF Spec

\* While the PULL_INT timer of remote_poll runs the line is down: neither the
\* start nor the end of a save leaves a timer behind on a released line.
THEOREM LineHeld == Spec => []TimerHoldsLine
<1>1. Loop => TimerHoldsLine
    BY DEF Loop
<1> QED
    BY <1>1, LoopInit, LoopNext, PTL DEF Spec

-----------------------------------------------------------------------------
(* The records and their checksum *)

Data == SaveWritesOnlyItsRecord /\ ChecksumFollows /\ ChecksumFreshWhenIdle

\* An EEPROM that holds no save in progress: whatever is in it is kept.
LEMMA DataInit == Init => Data
BY DEF Init, Data, SaveWritesOnlyItsRecord, ChecksumFollows,
       ChecksumFreshWhenIdle, NoRequest, Record

\* A new job starts from the records as they are.
LEMMA StartSaveData ==
    ASSUME Loop, Data, state = "idle",
           NEW base \in 0 .. SIZE, NEW len, NEW data,
           StartSave(base, len, data), UNCHANGED <<mem, sum, pending, lc>>
    PROVE  Data'
<1> SIZE \in Nat
    BY SizeIsNat
<1>1. /\ before' = mem /\ mem' = mem /\ sum' = sum /\ address' = base
      /\ req' = [base |-> base, len |-> len] /\ state' = "write"
      /\ fresh' = ChecksumMatches(mem, sum) /\ lc' = "begin"
    BY DEF StartSave, Loop, Cursors
<1>2. SaveWritesOnlyItsRecord'
    BY <1>1 DEF SaveWritesOnlyItsRecord, Record, Address
<1>3. ChecksumFollows' /\ ChecksumFreshWhenIdle'
    BY <1>1 DEF ChecksumFollows, ChecksumFreshWhenIdle, ChecksumMatches
<1> QED
    BY <1>2, <1>3 DEF Data

\* Handing a byte of the record to the EEPROM changes no record yet.
LEMMA WriteByteData ==
    ASSUME Loop, Data, state = "write", lc \in {"begin", "byte"},
           pending = NoWrite, WriteByte, pending' \in Writes,
           UNCHANGED <<mem, sum, buf, req, before, fresh, state>>
    PROVE  Data'
<1> SIZE \in Nat
    BY SizeIsNat
<1>1. /\ address \in 0 .. SIZE /\ address' = address + 1 /\ lc' = "byte"
      /\ pending' = [cell |-> address, val |-> buf[index]]
    BY DEF Loop, TypeOK, WriteByte
<1>2. SaveWritesOnlyItsRecord'
    <2> SUFFICES ASSUME NEW a \in Address
                 PROVE  mem[a] = IF a \in Record /\ a < address' /\ ~InProgress(a)'
                                 THEN buf[a - req.base] ELSE before[a]
        BY DEF SaveWritesOnlyItsRecord, Record
    <2>1. mem[a] = IF a \in Record /\ a < address THEN buf[a - req.base] ELSE before[a]
        BY DEF Data, SaveWritesOnlyItsRecord, InProgress
    <2>2. CASE a = address
        <3>1. InProgress(a)'
            BY <1>1, <2>2, NoWriteIsNoWrite DEF InProgress
        <3> QED
            BY <1>1, <2>1, <2>2, <3>1
    <2>3. CASE a # address
        <3>1. ~InProgress(a)'
            BY <1>1, <2>3 DEF InProgress
        <3>2. a < address' <=> a < address
            BY <1>1, <2>3 DEF Address
        <3> QED
            BY <2>1, <3>1, <3>2
    <2> QED
        BY <2>2, <2>3
<1>3. ChecksumFollows' /\ ChecksumFreshWhenIdle'
    BY <1>1 DEF Data, ChecksumFollows, ChecksumFreshWhenIdle, ChecksumMatches
<1> QED
    BY <1>2, <1>3 DEF Data

\* The EEPROM stores the byte the thread has moved past.
LEMMA EepromDoneData ==
    ASSUME Loop, Data, EepromDone
    PROVE  Data'
<1> SIZE \in Nat /\ BUF_SIZE \in Nat
    BY SizeIsNat, LayoutAssumption
<1>1. /\ UNCHANGED <<buf, index, address, req, before, fresh, state, lc>>
      /\ pending # NoWrite /\ pending' = NoWrite
      /\ mem' = Programmed(pending)[1] /\ sum' = Programmed(pending)[2]
    BY DEF EepromDone, jobVars, otherVars, ghostVars
<1>2. CASE lc = "byte"
    <2>1. /\ pending = [cell |-> address - 1, val |-> buf[index - 1]]
          /\ address = req.base + index /\ index \in 1 .. req.len
          /\ req.base + req.len <= SIZE
          /\ req.base \in 0 .. SIZE /\ req.len \in 0 .. BUF_SIZE
        BY <1>1, <1>2 DEF Loop, Cursors, TypeOK
    <2>2. /\ pending.cell = address - 1 /\ pending.val = buf[index - 1]
          /\ address - 1 < SIZE /\ address - 1 \in Address
        BY <2>1 DEF Address
    <2>3. mem' = [mem EXCEPT ![address - 1] = buf[index - 1]] /\ sum' = sum
        BY <1>1, <2>2 DEF Programmed
    <2>4. SaveWritesOnlyItsRecord'
        <3> SUFFICES ASSUME NEW a \in Address
                     PROVE  mem'[a] = IF a \in Record /\ a < address
                                      THEN buf[a - req.base] ELSE before[a]
            BY <1>1 DEF SaveWritesOnlyItsRecord, Record, InProgress
        <3>1. mem[a] = IF a \in Record /\ a < address /\ ~InProgress(a)
                       THEN buf[a - req.base] ELSE before[a]
            BY DEF Data, SaveWritesOnlyItsRecord
        <3>2. CASE a = address - 1
            <4>1. mem'[a] = buf[index - 1]
                BY <2>2, <2>3, <3>2 DEF Loop, TypeOK, Memory
            <4>2. a \in Record /\ a < address /\ a - req.base = index - 1
                BY <2>1, <3>2 DEF Record
            <4> QED
                BY <4>1, <4>2
        <3>3. CASE a # address - 1
            <4>1. mem'[a] = mem[a]
                BY <2>3, <3>3 DEF Loop, TypeOK, Memory
            <4>2. ~InProgress(a)
                BY <2>2, <3>3 DEF InProgress
            <4> QED
                BY <3>1, <4>1, <4>2
        <3> QED
            BY <3>2, <3>3
    <2>5. ChecksumFollows' /\ ChecksumFreshWhenIdle'
        BY <1>1, <1>2, <2>3
        DEF Loop, Cursors, Data, ChecksumFollows, ChecksumFreshWhenIdle, ChecksumMatches
    <2> QED
        BY <2>4, <2>5 DEF Data
<1>3. CASE lc \in {"sumlow", "sum"}
    <2> DEFINE half == IF lc = "sumlow" THEN 1 ELSE 2
    <2>1. pending = [cell |-> SIZE + half - 1, val |-> mem]
        BY <1>1, <1>3 DEF Loop, Cursors
    <2>2. pending.cell = SIZE + half - 1 /\ pending.val = mem
        BY <2>1
    <2>3. mem' = mem /\ sum' = [sum EXCEPT ![half] = mem]
        <3>1. half \in 1 .. 2
            OBVIOUS
        <3>2. pending.cell - SIZE + 1 = half /\ ~(pending.cell < SIZE)
            BY <2>2, <3>1
        <3> HIDE DEF half
        <3>3. Programmed(pending) = <<mem, [sum EXCEPT ![half] = mem]>>
            BY <2>2, <3>2 DEF Programmed
        <3> QED
            BY <1>1, <3>3
    <2>4. sum'[half] = mem /\ (half = 2 => sum'[1] = sum[1])
        BY <2>3 DEF Loop, TypeOK
    <2>5. SaveWritesOnlyItsRecord'
        <3>1. \A a \in Address : ~InProgress(a)
            BY <2>2 DEF InProgress, Address
        <3>2. \A a \in Address : ~InProgress(a)'
            BY <1>1 DEF InProgress
        <3> QED
            BY <1>1, <2>3, <3>1, <3>2 DEF Data, SaveWritesOnlyItsRecord, Record
    <2>6. state = "write"
        BY <1>3 DEF Loop, Cursors, TypeOK
    <2>7. ChecksumFollows' /\ ChecksumFreshWhenIdle'
        BY <1>1, <1>3, <2>3, <2>4, <2>6
        DEF Data, ChecksumFollows, ChecksumFreshWhenIdle, ChecksumMatches
    <2> QED
        BY <2>5, <2>7 DEF Data
<1>4. lc # "begin"
    BY <1>1 DEF Loop, Cursors, TypeOK
<1> QED
    BY <1>2, <1>3, <1>4 DEF Loop, TypeOK

\* Every step keeps the records, the checksum and the job in agreement.
LEMMA DataNext == Loop /\ Data /\ [Next]_vars => Data'
<1> SUFFICES ASSUME Loop, Data, [Next]_vars PROVE Data'
    OBVIOUS
<1> SIZE \in Nat /\ BUF_SIZE \in Nat
    BY SizeIsNat, LayoutAssumption
<1> DEFINE untouched == UNCHANGED <<mem, sum, pending, lc, state, buf, address,
                                    req, before, fresh>>
<1>0. untouched => Data'
    BY DEF Data, SaveWritesOnlyItsRecord, ChecksumFollows, ChecksumFreshWhenIdle,
           ChecksumMatches, Record, InProgress
<1>1. CASE RemoteCommand
    <2>1. UNCHANGED <<mem, sum, pending, lc>>
        BY <1>1 DEF RemoteCommand, eepromVars
    <2>2. ASSUME NEW slot \in Slots, NEW c \in Colors, SaveColor(slot, c)
          PROVE  Data'
        <3>1. CASE SaveAccepted(slot)
            <4>1. SlotBase(slot) \in 0 .. SIZE
                BY <3>1, SlotInside, DataAssumption DEF SaveAccepted
            <4>2. StartSave(SlotBase(slot), SLOT_LEN, c) /\ state = "idle"
                BY <2>2, <3>1 DEF SaveColor, SaveAccepted
            <4> QED
                BY <2>1, <4>1, <4>2, StartSaveData
        <3>2. CASE ~SaveAccepted(slot)
            BY <1>0, <2>1, <2>2, <3>2 DEF SaveColor, jobVars, ghostVars
        <3> QED
            BY <3>1, <3>2
    <2>3. ASSUME NEW p \in Params, ConfigStartup(p)
          PROVE  Data'
        <3>1. CASE state = "idle"
            <4>1. StartSave(0, CFG_LEN, [i \in 0 .. CFG_LEN - 1 |->
                                            IF i = 0 THEN MAGIC ELSE p[i]])
                BY <2>3, <3>1 DEF ConfigStartup
            <4>2. 0 \in 0 .. SIZE
                OBVIOUS
            <4> QED
                BY <2>1, <3>1, <4>1, <4>2, StartSaveData
        <3>2. CASE state # "idle"
            BY <1>0, <2>1, <2>3, <3>2 DEF ConfigStartup, jobVars, ghostVars
        <3> QED
            BY <3>1, <3>2
    <2>4. ASSUME NEW d \in Delays, PullIntCommand(d)
          PROVE  Data'
        BY <1>0, <2>1, <2>4 DEF PullIntCommand, jobVars, ghostVars
    <2> QED
        BY <1>1, <2>2, <2>3, <2>4 DEF RemoteCommand
<1>2. CASE RemoteQuiet
    BY <1>0, <1>2 DEF RemoteQuiet, eepromVars, jobVars, ghostVars
<1>3. CASE StoragePollIdle \/ StorageWait
    BY <1>0, <1>3 DEF StoragePollIdle, StorageWait, eepromVars, jobVars, otherVars, ghostVars
<1>4. CASE StorageBegin \/ StorageNextByte
    <2>1. /\ state = "write" /\ lc \in {"begin", "byte"} /\ pending = NoWrite
          /\ ~RecordDone /\ WriteByte
          /\ UNCHANGED <<mem, sum, buf, req, before, fresh, state>>
        BY <1>4 DEF StorageBegin, StorageNextByte, Loop, Cursors, TypeOK, RecordDone,
                    eepromVars, otherVars, ghostVars
    <2>2. pending' \in Writes
        BY <2>1, WriteByteLoop
    <2> QED
        BY <2>1, <2>2, WriteByteData
<1>5. CASE StorageWriteSum \/ StorageWriteSumHigh
    <2>1. /\ UNCHANGED <<mem, sum, buf, address, req, before, fresh, state>>
          /\ pending = NoWrite /\ pending'.cell \in {SIZE, SIZE + 1}
          /\ state = "write"
          /\ \/ lc = "byte" /\ lc' = "sumlow" /\ pending' = [cell |-> SIZE, val |-> mem]
             \/ lc = "sumlow" /\ lc' = "sum" /\ pending' = [cell |-> SIZE + 1, val |-> mem]
        BY <1>5 DEF StorageWriteSum, StorageWriteSumHigh, Loop, Cursors, TypeOK,
                    eepromVars, jobVars, otherVars, ghostVars
    <2>2. SaveWritesOnlyItsRecord'
        <3>1. \A a \in Address : ~InProgress(a) /\ ~InProgress(a)'
            BY <2>1 DEF InProgress, Address
        <3> QED
            BY <2>1, <3>1 DEF Data, SaveWritesOnlyItsRecord, Record
    <2>3. pending' # NoWrite
        <3>1. pending' \in Writes
            BY <2>1 DEF Writes, Loop, TypeOK
        <3> QED
            BY <3>1, NoWriteIsNoWrite
    <2>4. ChecksumFollows' /\ ChecksumFreshWhenIdle'
        BY <2>1, <2>3 DEF Data, ChecksumFollows, ChecksumFreshWhenIdle
    <2> QED
        BY <2>2, <2>4 DEF Data
<1>6. CASE StorageFinish
    <2>1. /\ UNCHANGED <<mem, sum, pending, buf, address, req, before, fresh>>
          /\ lc = "sum" /\ pending = NoWrite /\ lc' = "begin" /\ state' = "idle"
        BY <1>6 DEF StorageFinish, eepromVars, jobVars, otherVars, ghostVars
    <2>2. SaveWritesOnlyItsRecord'
        BY <2>1 DEF Data, SaveWritesOnlyItsRecord, Record, InProgress
    <2>3. ChecksumFollows' /\ ChecksumFreshWhenIdle'
        BY <2>1 DEF Data, ChecksumFollows, ChecksumFreshWhenIdle, ChecksumMatches
    <2> QED
        BY <2>2, <2>3 DEF Data
<1>7. CASE EepromDone
    BY <1>7, EepromDoneData
<1>8. CASE Tick
    BY <1>0, <1>8 DEF Tick, eepromVars, jobVars, ghostVars
<1>9. CASE Restart
    <2>1. /\ before' = mem' /\ address' = 0 /\ req' = NoRequest
          /\ fresh' = ChecksumMatches(mem', sum')
          /\ state' = "idle" /\ lc' = "begin"
        BY <1>9 DEF Restart
    <2>2. SaveWritesOnlyItsRecord'
        BY <2>1 DEF SaveWritesOnlyItsRecord, Address
    <2>3. ChecksumFollows' /\ ChecksumFreshWhenIdle'
        BY <2>1 DEF ChecksumFollows, ChecksumFreshWhenIdle, ChecksumMatches
    <2> QED
        BY <2>2, <2>3 DEF Data
<1>10. CASE PowerDown \/ WakeUp \/ RemoteGoesOn
    BY <1>0, <1>10 DEF PowerDown, WakeUp, RemoteGoesOn, eepromVars, jobVars, otherVars,
       ghostVars
<1>11. CASE UNCHANGED vars
    BY <1>0, <1>11 DEF vars, otherVars, ghostVars
<1> QED
    BY <1>1, <1>2, <1>3, <1>4, <1>5, <1>6, <1>7, <1>8, <1>9, <1>10, <1>11
    DEF Next, StoragePoll

\* A save writes its own record and nothing else, as far as it has come.
THEOREM SaveConfined == Spec => []SaveWritesOnlyItsRecord
<1>1. Init => Loop /\ Data
    BY LoopInit, DataInit
<1>2. Loop /\ Data /\ [Next]_vars => (Loop /\ Data)'
    BY LoopNext, DataNext
<1>3. Data => SaveWritesOnlyItsRecord
    BY DEF Data
<1> QED
    BY <1>1, <1>2, <1>3, PTL DEF Spec

\* Between saves the stored checksum is the one of the stored records.
THEOREM ChecksumFresh == Spec => []ChecksumFreshWhenIdle
<1>1. Init => Loop /\ Data
    BY LoopInit, DataInit
<1>2. Loop /\ Data /\ [Next]_vars => (Loop /\ Data)'
    BY LoopNext, DataNext
<1>3. Data => ChecksumFreshWhenIdle
    BY DEF Data
<1> QED
    BY <1>1, <1>2, <1>3, PTL DEF Spec

-----------------------------------------------------------------------------
(* Power failures *)

\* Once the cursors have passed the record, the records are the new ones.
LEMMA CompleteRecords ==
    ASSUME Loop, Data, lc \in {"sumlow", "sum"} \/ state = "idle"
    PROVE  mem = After
<1> SIZE \in Nat
    BY SizeIsNat
<1>1. /\ address = req.base + req.len
      /\ req.base \in 0 .. SIZE /\ req.len \in 0 .. BUF_SIZE
    BY DEF Loop, Cursors, TypeOK
<1>2. \A a \in Address : ~InProgress(a)
    <2>1. \/ pending = NoWrite
          \/ pending = [cell |-> SIZE, val |-> mem]
          \/ pending = [cell |-> SIZE + 1, val |-> mem]
        BY DEF Loop, Cursors
    <2>2. pending = NoWrite \/ pending.cell = SIZE \/ pending.cell = SIZE + 1
        BY <2>1
    <2> QED
        BY <2>2 DEF InProgress, Address
<1>3. \A a \in Address : mem[a] = After[a]
    BY <1>1, <1>2, LayoutAssumption
    DEF Data, SaveWritesOnlyItsRecord, After, Record, Address
<1> QED
    BY <1>3 DEF Loop, TypeOK, Memory, After

\* A device that accepts its EEPROM after a power failure finds every record
\* as it was before the save that was cut off, or as that save left it.
THEOREM CrashAtomicity == Spec => CrashIsAllOrNothing
<1>1. ASSUME Loop, Data, Restart, fresh, eeprom_good'
      PROVE  mem' \in {before, After}
    <2> SIZE \in Nat
        BY SizeIsNat
    <2>1. PICK s \in Survivors : mem' = s[1] /\ sum' = s[2]
                                /\ eeprom_good' = ChecksumMatches(s[1], s[2])
        BY <1>1 DEF Restart
    <2>2. s[2][1] = mem'
        BY <1>1, <2>1 DEF ChecksumMatches
    <2>3. CASE state = "write" /\ lc \in {"begin", "byte"}
        <3>1. sum[1] = before
            BY <1>1, <2>3 DEF Data, ChecksumFollows, ChecksumMatches
        <3>2. pending = NoWrite \/ pending.cell < SIZE
            <4>1. CASE lc = "begin"
                BY <1>1, <2>3, <4>1 DEF Loop, Cursors
            <4>2. CASE lc = "byte"
                <5>1. \/ pending = NoWrite
                      \/ pending = [cell |-> address - 1, val |-> buf[index - 1]]
                    BY <1>1, <4>2 DEF Loop, Cursors
                <5>2. address \in 0 .. SIZE
                    BY <1>1 DEF Loop, TypeOK
                <5> QED
                    BY <5>1, <5>2
            <4> QED
                BY <2>3, <4>1, <4>2
        <3>3. s[2] = sum
            BY <2>1, <3>2 DEF Survivors
        <3> QED
            BY <2>2, <3>1, <3>3
    <2>4. CASE state = "idle" \/ lc \in {"sumlow", "sum"}
        <3>1. pending = NoWrite \/ ~(pending.cell < SIZE)
            <4>1. \/ pending = NoWrite
                  \/ pending = [cell |-> SIZE, val |-> mem]
                  \/ pending = [cell |-> SIZE + 1, val |-> mem]
                BY <1>1, <2>4 DEF Loop, Cursors
            <4> QED
                BY <4>1
        <3>2. s[1] = mem
            BY <2>1, <3>1 DEF Survivors
        <3>3. mem = After
            BY <1>1, <2>4, CompleteRecords
        <3> QED
            BY <2>1, <3>2, <3>3
    <2> QED
        BY <1>1, <2>3, <2>4 DEF Loop, TypeOK
<1>2. ASSUME Loop, Data, [Next]_vars, ~Restart
      PROVE  restarts' = restarts
    BY <1>2 DEF Next, vars, RemoteCommand, RemoteQuiet, PowerDown, WakeUp, RemoteGoesOn, StoragePoll, StoragePollIdle,
       StorageBegin, StorageWait, StorageNextByte, StorageWriteSum,
       StorageWriteSumHigh, StorageFinish, EepromDone, Tick, otherVars
<1>3. Loop /\ Data /\ [Next]_vars
        => [restarts' # restarts /\ fresh /\ eeprom_good' => mem' \in {before, After}]_vars
    BY <1>1, <1>2
<1>4. Init => Loop /\ Data
    BY LoopInit, DataInit
<1>5. Loop /\ Data /\ [Next]_vars => (Loop /\ Data)'
    BY LoopNext, DataNext
<1> QED
    BY <1>3, <1>4, <1>5, PTL DEF Spec, CrashIsAllOrNothing

-----------------------------------------------------------------------------
(* Whole records *)

\* The cells of two color slots do not overlap.
LEMMA SlotsApart ==
    ASSUME NEW p \in 0 .. COLORS - 1, NEW q \in 0 .. COLORS - 1, p # q,
           NEW i \in 0 .. SLOT_LEN - 1
    PROVE  /\ SlotBase(p) + i \in Address
           /\ SlotBase(p) + i \notin SlotBase(q) .. SlotBase(q) + SLOT_LEN - 1
<1>1. COLORS \in Nat /\ SLOT_LEN \in Nat /\ CFG_LEN \in Nat
    BY LayoutAssumption
<1>2. SlotBase(p) \in 0 .. SIZE /\ SlotBase(p) + SLOT_LEN <= SIZE /\ SIZE \in Nat
    BY <1>1, SlotInside, SizeIsNat
<1>3. /\ p * SLOT_LEN \in Int /\ q * SLOT_LEN \in Int
      /\ SlotBase(p) = CFG_LEN + p * SLOT_LEN /\ SlotBase(q) = CFG_LEN + q * SLOT_LEN
    BY <1>1 DEF SlotBase
<1>4. CASE p < q
    <2>1. (q - p - 1) * SLOT_LEN \in Nat
        <3>1. q - p - 1 \in Nat
            BY <1>1, <1>4
        <3> QED
            BY <1>1, <3>1
    <2>2. (q - p - 1) * SLOT_LEN = q * SLOT_LEN - p * SLOT_LEN - SLOT_LEN
        BY <1>1
    <2> QED
        BY <1>1, <1>2, <1>3, <2>1, <2>2 DEF Address
<1>5. CASE q < p
    <2>1. (p - q - 1) * SLOT_LEN \in Nat
        <3>1. p - q - 1 \in Nat
            BY <1>1, <1>5
        <3> QED
            BY <1>1, <3>1
    <2>2. (p - q - 1) * SLOT_LEN = p * SLOT_LEN - q * SLOT_LEN - SLOT_LEN
        BY <1>1
    <2> QED
        BY <1>1, <1>2, <1>3, <2>1, <2>2 DEF Address
<1> QED
    BY <1>1, <1>4, <1>5

\* A color slot lies behind the configuration record.
LEMMA SlotBehindConfig ==
    ASSUME NEW p \in 0 .. COLORS - 1, NEW i \in 0 .. SLOT_LEN - 1
    PROVE  SlotBase(p) + i \in Address /\ SlotBase(p) + i >= CFG_LEN
<1>1. COLORS \in Nat /\ SLOT_LEN \in Nat /\ CFG_LEN \in Nat
    BY LayoutAssumption
<1>2. SlotBase(p) \in 0 .. SIZE /\ SlotBase(p) + SLOT_LEN <= SIZE /\ SIZE \in Nat
    BY <1>1, SlotInside, SizeIsNat
<1>3. p * SLOT_LEN \in Nat /\ SlotBase(p) = CFG_LEN + p * SLOT_LEN
    BY <1>1 DEF SlotBase
<1> QED
    BY <1>1, <1>2, <1>3 DEF Address

\* The configuration record is the first.
LEMMA ConfigInside == 0 .. CFG_LEN - 1 \subseteq Address
<1>1. COLORS * SLOT_LEN \in Nat /\ CFG_LEN \in Nat
    BY LayoutAssumption
<1> QED
    BY <1>1 DEF Address, SIZE

\* A memory with another color in one of its slots.
LEMMA ColorReplaced ==
    ASSUME NEW m, NEW n, WholeRecords(m),
           NEW q \in 0 .. COLORS - 1, NEW c \in Colors,
           \A a \in Address : n[a] = IF a \in SlotBase(q) .. SlotBase(q) + SLOT_LEN - 1
                                     THEN c[a - SlotBase(q)] ELSE m[a]
    PROVE  WholeRecords(n)
<1>1. COLORS \in Nat /\ SLOT_LEN \in Nat /\ CFG_LEN \in Nat \ {0}
    BY LayoutAssumption
<1>2. SlotBase(q) \in Nat /\ SlotBase(q) >= CFG_LEN
    <2>1. q * SLOT_LEN \in Nat
        BY <1>1
    <2> QED
        BY <1>1, <2>1 DEF SlotBase
<1>3. \A i \in 0 .. CFG_LEN - 1 : n[i] = m[i]
    BY <1>1, <1>2, ConfigInside
<1>4. WholeConfig(n)
    <2>1. [i \in 1 .. CFG_LEN - 1 |-> n[i]] = [i \in 1 .. CFG_LEN - 1 |-> m[i]]
        BY <1>1, <1>3
    <2>2. n[0] = m[0]
        BY <1>1, <1>3
    <2> QED
        BY <1>3, <2>1, <2>2 DEF WholeRecords, WholeConfig
<1>5. ASSUME NEW p \in 0 .. COLORS - 1
      PROVE  WholeColor(n, p)
    <2>1. CASE p = q
        <3>1. \A i \in 0 .. SLOT_LEN - 1 : n[SlotBase(p) + i] = c[i]
            <4> SUFFICES ASSUME NEW i \in 0 .. SLOT_LEN - 1
                         PROVE  n[SlotBase(p) + i] = c[i]
                OBVIOUS
            <4>1. SlotBase(p) + i \in Address
                BY SlotBehindConfig
            <4>2. SlotBase(p) + i \in SlotBase(q) .. SlotBase(q) + SLOT_LEN - 1
                BY <1>1, <1>2, <2>1
            <4>3. PICK a \in Address : a = SlotBase(p) + i
                BY <4>1
            <4>4. n[a] = c[a - SlotBase(q)]
                BY <4>2, <4>3
            <4>5. a - SlotBase(q) = i
                BY <1>2, <2>1, <4>3
            <4> QED
                BY <4>3, <4>4, <4>5
        <3>2. c = [i \in 0 .. SLOT_LEN - 1 |-> c[i]]
            BY DataAssumption DEF ColorRecord
        <3>3. [i \in 0 .. SLOT_LEN - 1 |-> n[SlotBase(p) + i]] = c
            BY <3>1, <3>2
        <3> QED
            BY <3>3 DEF WholeColor
    <2>2. CASE p # q
        <3>1. \A i \in 0 .. SLOT_LEN - 1 : n[SlotBase(p) + i] = m[SlotBase(p) + i]
            BY <2>2, SlotsApart
        <3>2. [i \in 0 .. SLOT_LEN - 1 |-> n[SlotBase(p) + i]]
                = [i \in 0 .. SLOT_LEN - 1 |-> m[SlotBase(p) + i]]
            BY <3>1
        <3> QED
            BY <3>2 DEF WholeRecords, WholeColor
    <2> QED
        BY <2>1, <2>2
<1> QED
    BY <1>4, <1>5 DEF WholeRecords

\* A memory with another configuration.
LEMMA ConfigReplaced ==
    ASSUME NEW m, NEW n, WholeRecords(m), NEW p \in Params,
           \A a \in Address : n[a] = IF a \in 0 .. CFG_LEN - 1
                                     THEN IF a = 0 THEN MAGIC ELSE p[a] ELSE m[a]
    PROVE  WholeRecords(n)
<1>1. CFG_LEN \in Nat \ {0}
    BY LayoutAssumption
<1>2. \A i \in 0 .. CFG_LEN - 1 : n[i] = IF i = 0 THEN MAGIC ELSE p[i]
    BY ConfigInside
<1>3. [i \in 1 .. CFG_LEN - 1 |-> n[i]] = p
    <2>1. p = [i \in 1 .. CFG_LEN - 1 |-> p[i]]
        BY DataAssumption
    <2>2. \A i \in 1 .. CFG_LEN - 1 : n[i] = p[i]
        BY <1>1, <1>2
    <2> QED
        BY <2>1, <2>2
<1>4. WholeConfig(n)
    BY <1>1, <1>2, <1>3 DEF WholeConfig
<1>5. ASSUME NEW q \in 0 .. COLORS - 1
      PROVE  WholeColor(n, q)
    <2>1. \A i \in 0 .. SLOT_LEN - 1 : n[SlotBase(q) + i] = m[SlotBase(q) + i]
        BY <1>1, SlotBehindConfig
    <2>2. [i \in 0 .. SLOT_LEN - 1 |-> n[SlotBase(q) + i]]
            = [i \in 0 .. SLOT_LEN - 1 |-> m[SlotBase(q) + i]]
        BY <2>1
    <2> QED
        BY <2>2 DEF WholeRecords, WholeColor
<1> QED
    BY <1>4, <1>5 DEF WholeRecords

\* The records will be whole once the save that is under way is complete.
Served == restarts = 0 => WholeRecords(After)

\* Nothing is under way at the start, and no record was ever written.
LEMMA ServedInit == Init => Served
<1> SUFFICES ASSUME Init PROVE WholeRecords(After)
    BY DEF Served
<1>1. \A a \in Address : After[a] = ZERO
    BY LayoutAssumption DEF Init, After, Record, NoRequest
<1>2. WholeConfig(After)
    BY <1>1, ConfigInside DEF WholeConfig
<1>3. ASSUME NEW p \in 0 .. COLORS - 1
      PROVE  WholeColor(After, p)
    <2>1. \A i \in 0 .. SLOT_LEN - 1 : After[SlotBase(p) + i] = ZERO
        BY <1>1, SlotBehindConfig
    <2>2. [i \in 0 .. SLOT_LEN - 1 |-> After[SlotBase(p) + i]]
            = [i \in 0 .. SLOT_LEN - 1 |-> ZERO]
        BY <2>1
    <2> QED
        BY <2>2 DEF WholeColor
<1> QED
    BY <1>2, <1>3 DEF WholeRecords

\* Only an accepted command changes what is under way, and it starts from the
\* records that the save before it has completed.
LEMMA ServedNext == Loop /\ Data /\ Served /\ [Next]_vars => Served'
<1> SUFFICES ASSUME Loop, Data, Served, [Next]_vars PROVE Served'
    OBVIOUS
<1> SIZE \in Nat /\ BUF_SIZE \in Nat /\ CFG_LEN \in Nat \ {0} /\ SLOT_LEN \in Nat \ {0}
    BY SizeIsNat, LayoutAssumption
<1> DEFINE untouched == UNCHANGED <<buf, req, before, restarts>>
<1>1. untouched => Served'
    BY DEF Served, After, Record
<1>2. CASE RemoteCommand
    <2>1. UNCHANGED restarts
        BY <1>2 DEF RemoteCommand
    <2>2. state = "idle" /\ restarts = 0 => WholeRecords(mem)
        BY CompleteRecords DEF Served
    <2>3. ASSUME NEW slot \in Slots, NEW c \in Colors, SaveColor(slot, c)
          PROVE  Served'
        <3>1. CASE SaveAccepted(slot)
            <4>1. /\ slot \in 0 .. COLORS - 1 /\ SlotBase(slot) \in 0 .. SIZE
                  /\ SlotBase(slot) + SLOT_LEN <= SIZE
                BY <3>1, SlotInside, DataAssumption, LayoutAssumption DEF SaveAccepted
            <4>2. StartSave(SlotBase(slot), SLOT_LEN, c) /\ state = "idle"
                BY <2>3, <3>1 DEF SaveColor, SaveAccepted
            <4>3. /\ before' = mem /\ req' = [base |-> SlotBase(slot), len |-> SLOT_LEN]
                  /\ \A i \in 0 .. SLOT_LEN - 1 : buf'[i] = c[i]
                BY <4>2, LayoutAssumption DEF StartSave
            <4>4. \A a \in Address :
                    After'[a] = IF a \in SlotBase(slot) .. SlotBase(slot) + SLOT_LEN - 1
                                THEN c[a - SlotBase(slot)] ELSE mem[a]
                BY <4>1, <4>3 DEF After, Record, Address
            <4>5. restarts = 0 => WholeRecords(After')
                BY <2>2, <4>1, <4>2, <4>4, ColorReplaced
            <4> QED
                BY <2>1, <4>5 DEF Served, WholeRecords, WholeConfig, WholeColor
        <3>2. CASE ~SaveAccepted(slot)
            BY <1>1, <2>1, <2>3, <3>2 DEF SaveColor, jobVars, ghostVars
        <3> QED
            BY <3>1, <3>2
    <2>4. ASSUME NEW p \in Params, ConfigStartup(p)
          PROVE  Served'
        <3>1. CASE state = "idle"
            <4> DEFINE data == [i \in 0 .. CFG_LEN - 1 |-> IF i = 0 THEN MAGIC ELSE p[i]]
            <4>1. StartSave(0, CFG_LEN, data)
                BY <2>4, <3>1 DEF ConfigStartup
            <4>2. /\ before' = mem /\ req' = [base |-> 0, len |-> CFG_LEN]
                  /\ \A i \in 0 .. CFG_LEN - 1 : buf'[i] = IF i = 0 THEN MAGIC ELSE p[i]
                BY <4>1, LayoutAssumption DEF StartSave
            <4>3. \A a \in Address :
                    After'[a] = IF a \in 0 .. CFG_LEN - 1
                                THEN IF a = 0 THEN MAGIC ELSE p[a] ELSE mem[a]
                BY <4>2 DEF After, Record, Address
            <4>4. restarts = 0 => WholeRecords(After')
                BY <2>2, <3>1, <4>3, ConfigReplaced
            <4> QED
                BY <2>1, <4>4 DEF Served, WholeRecords, WholeConfig, WholeColor
        <3>2. CASE state # "idle"
            BY <1>1, <2>1, <2>4, <3>2 DEF ConfigStartup, jobVars, ghostVars
        <3> QED
            BY <3>1, <3>2
    <2>5. ASSUME NEW d \in Delays, PullIntCommand(d)
          PROVE  Served'
        BY <1>1, <2>1, <2>5 DEF PullIntCommand, jobVars, ghostVars
    <2> QED
        BY <1>2, <2>3, <2>4, <2>5 DEF RemoteCommand
<1>3. CASE RemoteQuiet \/ PowerDown \/ WakeUp \/ RemoteGoesOn \/ EepromDone \/ Tick
    BY <1>1, <1>3 DEF RemoteQuiet, PowerDown, WakeUp, RemoteGoesOn, EepromDone, Tick,
       eepromVars, jobVars, otherVars, ghostVars
<1>4. CASE StoragePoll
    BY <1>1, <1>4 DEF StoragePoll, StoragePollIdle, StorageBegin, StorageWait,
       StorageNextByte, StorageWriteSum, StorageWriteSumHigh, StorageFinish, WriteByte,
       eepromVars, jobVars, otherVars, ghostVars
<1>5. CASE Restart
    <2>1. restarts' # 0
        BY <1>5 DEF Restart, Loop, TypeOK
    <2> QED
        BY <2>1 DEF Served
<1>6. CASE UNCHANGED vars
    BY <1>1, <1>6 DEF vars
<1> QED
    BY <1>2, <1>3, <1>4, <1>5, <1>6 DEF Next

\* Without a power failure a reader of an idle EEPROM finds whole records only.
THEOREM RecordsWhole == Spec => []WholeRecordsWhenIdle
<1>1. Init => Loop /\ Data /\ Served
    BY LoopInit, DataInit, ServedInit
<1>2. Loop /\ Data /\ Served /\ [Next]_vars => (Loop /\ Data /\ Served)'
    BY LoopNext, DataNext, ServedNext
<1>3. Loop /\ Data /\ Served => WholeRecordsWhenIdle
    BY CompleteRecords DEF Served, WholeRecordsWhenIdle
<1> QED
    BY <1>1, <1>2, <1>3, PTL DEF Spec

==============================================================================
