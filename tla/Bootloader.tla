------------------------------ MODULE Bootloader ------------------------------
(***************************************************************************)
(* The boot loader (fnordlicht-bootloader/fboot.c): packets of a host fill *)
(* a buffer, have it checked and flashed, and start the application.  The  *)
(* host hears of errors only through the INT line, which a failed check    *)
(* holds down for a time and the flashing holds down while it lasts.       *)
(*                                                                         *)
(* The host may send any packet at any time, as packets get lost on the    *)
(* bus (module Bus; byte reception is the same here), and the power may    *)
(* fail at any moment.  While flash() runs nothing else does, and what     *)
(* arrives then is lost.                                                   *)
(*                                                                         *)
(* Abstractions: a checksum is the bytes it was computed over, i.e. crc    *)
(* collisions are left out; a page is erased, or written, as a whole.      *)
(***************************************************************************)
EXTENDS Integers, Sequences

CONSTANTS
    Byte, ERASED,  \* values of a byte, that of erased flash (0xff)
    BUFSIZE,       \* CONFIG_BOOTLOADER_BUFSIZE (512)
    PAGE,          \* SPM_PAGESIZE (64)
    PAGES,         \* pages of the application section
    CHUNK,         \* data bytes in a packet (13)
    WRAP,          \* values of a uint8_t (256)
    EXIT_DELAY,    \* CONFIG_EXIT_DELAY
    Starts, Chunks, Checksums, Delays,   \* what a host may send
    MaxPackets, MaxRestarts              \* bounds

Address == 0 .. PAGES * PAGE - 1
Buffer == [0 .. BUFSIZE - 1 -> Byte]
\* Nothing is known of this byte of the flash memory.
Unknown == -1

ASSUME BootAssumption ==
    /\ Byte \subseteq Nat /\ {0, ERASED} \subseteq Byte
    /\ PAGE \in Nat /\ PAGE >= 2 /\ PAGES \in Nat \ {0} /\ CHUNK \in Nat \ {0}
    /\ BUFSIZE \in Nat \ {0} /\ BUFSIZE % PAGE = 0
    /\ WRAP \in Nat \ {0} /\ EXIT_DELAY \in 0 .. WRAP - 1 /\ Delays \subseteq 0 .. WRAP - 1
    /\ \A s \in Starts : s \in Address /\ s % PAGE = 0
    /\ Chunks \subseteq [1 .. CHUNK -> Byte]
    /\ \A c \in Checksums : c \in Seq(Byte) /\ Len(c) <= BUFSIZE
    /\ MaxPackets \in Nat /\ MaxRestarts \in Nat

VARIABLES
    flashed,       \* the flash memory
    mode,          \* "boot", or "app" once the application runs
    data_buf, data_len, data_address, crc_match, delay, request_exit, exit_delay,
    int_low,       \* this device pulls the INT line down
    page,          \* the page flash() has come to, -1 outside of it
    erased,        \* and whether it is erased
    \* history
    received,      \* the data since BOOT_INIT that had room in the buffer
    dest,          \* where they go
    image,         \* what the host has had flashed, by address
    packets, restarts

dataVars == <<data_buf, data_len, received>>
placeVars == <<data_address, dest>>
intVars == <<crc_match, delay, int_low>>
exitVars == <<request_exit, exit_delay>>
flashVars == <<flashed, page, erased, image>>
vars == <<mode, dataVars, placeVars, intVars, exitVars, flashVars, packets, restarts>>

-----------------------------------------------------------------------------
(* Packets *)

Packet ==
    /\ mode = "boot" /\ page = -1
    /\ packets < MaxPackets /\ packets' = packets + 1
    /\ UNCHANGED <<mode, restarts>>

\* Faulty variant: the line follows the check alone.
SignalNothing(low) == int_low' = low
\* The end of remote_parse_msg: a failed check whose delay runs holds the line.
Signal(low) == int_low' = (low \/ (delay' > 0 /\ ~crc_match'))

\* BOOT_CONFIG
BootConfig == \E start \in Starts :
    /\ Packet
    /\ data_address' = start /\ dest' = start
    /\ UNCHANGED <<dataVars, crc_match, delay, exitVars, flashVars>>
    /\ Signal(int_low)

\* BOOT_INIT: the buffer keeps its bytes.
BootInit ==
    /\ Packet
    /\ data_len' = 0 /\ received' = <<>>
    /\ UNCHANGED <<data_buf, placeVars, crc_match, delay, exitVars, flashVars>>
    /\ Signal(int_low)

\* Faulty variant: nobody asks whether there is room.
RoomForAll == CHUNK
\* The bytes of a packet that have room.
Room == IF data_len + CHUNK > BUFSIZE THEN BUFSIZE - data_len ELSE CHUNK

\* What the host may count on: bytes that do not fit are ignored.
UpToBuffer(bytes) == SubSeq(bytes, 1, IF Len(bytes) > BUFSIZE THEN BUFSIZE ELSE Len(bytes))

\* BOOT_DATA: parse_data
BootData == \E chunk \in Chunks :
    /\ Packet
    /\ data_buf' = [i \in DOMAIN data_buf |->
           IF i \in data_len .. data_len + Room - 1 THEN chunk[i - data_len + 1]
           ELSE data_buf[i]]
    /\ data_len' = data_len + Room
    /\ received' = UpToBuffer(received \o chunk)
    /\ UNCHANGED <<placeVars, crc_match, delay, exitVars, flashVars>>
    /\ Signal(int_low)

\* parse_crc and parse_crc_flash once the checksum is known: a check that
\* succeeds leaves a running delay as it is.
Checked(matches, time) ==
    /\ crc_match' = matches
    /\ delay' = IF matches THEN delay ELSE time
    /\ Signal(int_low)

\* BOOT_CRC_CHECK, over the first bytes of the buffer
CrcCheck == \E sum \in Checksums, time \in Delays :
    /\ Packet
    /\ Checked(sum = [i \in 1 .. Len(sum) |-> data_buf[i - 1]], time)
    /\ UNCHANGED <<dataVars, placeVars, exitVars, flashVars>>

\* BOOT_CRC_FLASH
CrcFlash == \E sum \in Checksums, start \in Starts, time \in Delays :
    /\ start + Len(sum) <= PAGES * PAGE
    /\ Packet
    /\ Checked(sum = [i \in 1 .. Len(sum) |-> flashed[start + i - 1]], time)
    /\ UNCHANGED <<dataVars, placeVars, exitVars, flashVars>>

\* BOOT_ENTER_APP
EnterApp ==
    /\ Packet
    /\ request_exit' = TRUE /\ exit_delay' = EXIT_DELAY
    /\ UNCHANGED <<dataVars, placeVars, crc_match, delay, flashVars>>
    /\ Signal(int_low)

-----------------------------------------------------------------------------
(* BOOT_FLASH: flash() *)

PagesOf(len) == (len + PAGE - 1) \div PAGE

\* The host keeps to the application section.
FlashBegin ==
    /\ Packet
    /\ data_address + PagesOf(data_len) * PAGE <= PAGES * PAGE
    /\ int_low' = TRUE
    /\ page' = 0 /\ erased' = FALSE
    /\ UNCHANGED <<dataVars, placeVars, crc_match, delay, exitVars, flashed, image>>

Flashing ==
    /\ mode = "boot" /\ page >= 0
    /\ UNCHANGED <<mode, dataVars, crc_match, delay, exitVars, packets, restarts>>

\* The page that begins at addr; the areas begin with a page.
OfThisPage(a) == a - data_address \in page * PAGE .. page * PAGE + PAGE - 1

ErasePage ==
    /\ Flashing /\ page < PagesOf(data_len) /\ ~erased
    /\ flashed' = [a \in Address |-> IF OfThisPage(a) THEN ERASED ELSE flashed[a]]
    /\ erased' = TRUE
    /\ UNCHANGED <<placeVars, int_low, page, image>>

\* With the bytes of the buffer, received or not.
WritePage ==
    /\ Flashing /\ erased
    /\ flashed' = [a \in Address |->
           IF OfThisPage(a) THEN data_buf[a - data_address] ELSE flashed[a]]
    /\ erased' = FALSE /\ page' = page + 1
    /\ UNCHANGED <<placeVars, int_low, image>>

\* What the host expects to find in a flashed area: the bytes it has sent, and
\* anything in the rest of the last page.
AreaEnd == dest + ((Len(received) + PAGE - 1) \div PAGE) * PAGE
WithArea(bytes) ==
    [a \in Address |->
        IF a \in dest .. dest + Len(bytes) - 1 THEN bytes[a - dest + 1]
        ELSE IF a \in dest .. AreaEnd - 1 THEN Unknown
        ELSE image[a]]

\* Faulty variant: the address stays at the beginning of the chunk.
SameAddress == data_address
AddressAfter == data_address + PagesOf(data_len) * PAGE

FlashEnd ==
    /\ Flashing /\ page = PagesOf(data_len)
    /\ data_address' = AddressAfter
    /\ page' = -1
    /\ image' = WithArea(received) /\ dest' = AreaEnd
    /\ UNCHANGED <<flashed, erased>>
    /\ Signal(FALSE)

-----------------------------------------------------------------------------
(* The timer of 50 ms, in the main loop *)

\* if (request_exit && exit_delay-- == 0)
Exits == request_exit /\ exit_delay = 0

\* Faulty variant: a delay of 0 is not counted.
CountdownNotZero ==
    IF int_low /\ delay > 0 THEN delay' = delay - 1 /\ int_low' = (delay' # 0)
    ELSE UNCHANGED <<delay, int_low>>
Countdown ==
    IF int_low THEN delay' = (delay - 1) % WRAP /\ int_low' = (delay' # 0)
    ELSE UNCHANGED <<delay, int_low>>

Tick ==
    /\ mode = "boot" /\ page = -1 /\ ~Exits
    /\ int_low \/ request_exit     \* else nothing happens
    /\ Countdown
    /\ exit_delay' = IF request_exit THEN (exit_delay - 1) % WRAP ELSE exit_delay
    /\ UNCHANGED <<mode, dataVars, placeVars, crc_match, request_exit, flashVars,
                   packets, restarts>>

\* start_application: every pin becomes an input.
StartApplication ==
    /\ mode = "boot" /\ page = -1 /\ Exits
    /\ mode' = "app" /\ int_low' = FALSE
    /\ UNCHANGED <<dataVars, placeVars, crc_match, delay, exitVars, flashVars,
                   packets, restarts>>

-----------------------------------------------------------------------------
(* Start-up *)

\* pgm_read_word(NULL) == 0xffff
NoApplication == flashed[0] = ERASED /\ flashed[1] = ERASED

\* main up to its loop, with the variables of a C program at its start.
StartUp ==
    /\ data_buf' = [i \in 0 .. BUFSIZE - 1 |-> 0] /\ data_len' = 0 /\ received' = <<>>
    /\ data_address' = 0 /\ dest' = 0
    /\ crc_match' = FALSE /\ delay' = 0 /\ int_low' = FALSE
    /\ request_exit' = FALSE /\ exit_delay' = 0
    /\ page' = -1 /\ erased' = FALSE
    \* check_startup: the line may be held down by somebody else.
    /\ \E heldDown \in BOOLEAN :
         mode' = IF NoApplication \/ heldDown THEN "boot" ELSE "app"

\* The power fails, or the application calls the boot loader.
Restart ==
    /\ restarts < MaxRestarts /\ restarts' = restarts + 1
    /\ StartUp
    /\ image' = IF page = -1 THEN image ELSE WithArea(<<>>)
    /\ UNCHANGED <<flashed, packets>>

\* A device without an application, or with one.
Init ==
    /\ \E b \in Byte : flashed = [a \in Address |-> b]
    /\ image = flashed
    /\ mode = "boot"
    /\ data_buf = [i \in 0 .. BUFSIZE - 1 |-> 0] /\ data_len = 0 /\ received = <<>>
    /\ data_address = 0 /\ dest = 0
    /\ crc_match = FALSE /\ delay = 0 /\ int_low = FALSE
    /\ request_exit = FALSE /\ exit_delay = 0
    /\ page = -1 /\ erased = FALSE
    /\ packets = 0 /\ restarts = 0

RemotePoll ==
    \/ BootConfig \/ BootInit \/ BootData \/ CrcCheck \/ CrcFlash \/ EnterApp \/ FlashBegin
Flash == ErasePage \/ WritePage \/ FlashEnd
Timer == Tick \/ StartApplication

Next == RemotePoll \/ Flash \/ Timer \/ Restart

\* The hardware finishes a page, and the timer goes on; no packet is promised.
Spec == Init /\ [][Next]_vars /\ WF_vars(Flash) /\ WF_vars(Timer)

-----------------------------------------------------------------------------
(* Properties *)

TypeOK ==
    /\ flashed \in [Address -> Byte] /\ image \in [Address -> Byte \cup {Unknown}]
    /\ mode \in {"boot", "app"}
    /\ data_buf \in Buffer /\ data_len \in 0 .. BUFSIZE
    /\ received \in Seq(Byte) /\ Len(received) <= BUFSIZE
    /\ data_address \in 0 .. PAGES * PAGE /\ dest \in 0 .. PAGES * PAGE
    /\ crc_match \in BOOLEAN /\ delay \in 0 .. WRAP - 1 /\ int_low \in BOOLEAN
    /\ request_exit \in BOOLEAN /\ exit_delay \in 0 .. EXIT_DELAY
    /\ page \in -1 .. BUFSIZE \div PAGE /\ erased \in BOOLEAN
    /\ packets \in 0 .. MaxPackets /\ restarts \in 0 .. MaxRestarts

\* Whatever packets came, in whatever order: after FLASH the flash memory holds
\* the data sent since BOOT_INIT as far as they fit the buffer, from the address
\* of BOOT_CONFIG or behind the data flashed before, and outside of the pages
\* flashed it holds what it held.  Only the rest of a page, and the pages at
\* work when the power failed, may hold anything.
ImageFlashed ==
    page = -1 => \A a \in Address : image[a] \in {Unknown, flashed[a]}

\* The host senses the INT line to know when it may go on, and whether a check
\* failed (PROTOCOL:416-418, 461-464): the line is down during all of flash(),
\* and before and after it while the delay of a failed check runs.
LineSignals ==
    \/ page # -1
    \/ mode = "boot" /\ ~crc_match /\ delay > 0
    => int_low

\* The INT line does not stay down: the delay of a failed check ends, even one
\* that was 0 or was set again while it ran.
LineReleased == int_low ~> ~int_low
==============================================================================
