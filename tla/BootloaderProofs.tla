--------------------------- MODULE BootloaderProofs ---------------------------
(***************************************************************************)
(* Proofs about Bootloader, for every size of pages, packets and buffer    *)
(* and whatever packets the host sends.                                    *)
(***************************************************************************)
EXTENDS Bootloader, SequenceTheorems, TLAPS

-----------------------------------------------------------------------------
(* Pages and chunks *)

\* The arithmetic of rounding up, for any two numbers.
LEMMA RoundingUp ==
    ASSUME NEW size \in Nat \ {0}, NEW len \in Nat
    PROVE  LET n == (len + size - 1) \div size
           IN  n \in Nat /\ len <= n * size /\ n * size <= len + size - 1
<1> DEFINE m == len + size - 1
           n == m \div size
<1>1. m \in Nat /\ size \in Nat /\ size > 0
    OBVIOUS
<1>2. n \in Nat /\ n * size <= m /\ m < n * size + size
    <2> HIDE DEF m
    <2> QED BY <1>1
<1> QED BY <1>1, <1>2

\* The pages of a chunk hold it, and fit the buffer it fits.
LEMMA PagesHold ==
    ASSUME NEW len \in 0 .. BUFSIZE
    PROVE  /\ PagesOf(len) \in Nat
           /\ len <= PagesOf(len) * PAGE
           /\ PagesOf(len) * PAGE <= BUFSIZE
           /\ PagesOf(len) <= BUFSIZE \div PAGE
<1> DEFINE n == PagesOf(len)
           full == BUFSIZE \div PAGE
<1>1. PAGE \in Nat \ {0} /\ BUFSIZE \in Nat /\ BUFSIZE % PAGE = 0
    BY BootAssumption
<1>2. full \in Nat /\ BUFSIZE = full * PAGE
    BY <1>1
<1>3. n \in Nat /\ len <= n * PAGE /\ n * PAGE <= len + PAGE - 1
    BY <1>1, RoundingUp DEF PagesOf
<1>4. n <= full
    <2>1. SUFFICES ASSUME n >= full + 1 PROVE FALSE
        BY <1>2, <1>3
    <2>2. n * PAGE >= full * PAGE + PAGE
        BY <1>1, <1>2, <1>3, <2>1
    <2> QED BY <1>1, <1>2, <1>3, <2>2
<1>5. n * PAGE <= full * PAGE
    BY <1>1, <1>2, <1>3, <1>4
<1> QED BY <1>2, <1>3, <1>4, <1>5

\* What DATA adds to the buffer is what the host may count on.
LEMMA DataAppends ==
    ASSUME NEW s \in Seq(Byte), Len(s) <= BUFSIZE, NEW chunk \in Chunks
    PROVE  LET t == UpToBuffer(s \o chunk)
           IN  /\ t \in Seq(Byte)
               /\ Len(t) = IF Len(s) + CHUNK > BUFSIZE THEN BUFSIZE ELSE Len(s) + CHUNK
               /\ \A i \in 0 .. Len(t) - 1 :
                    t[i + 1] = IF i < Len(s) THEN s[i + 1] ELSE chunk[i - Len(s) + 1]
<1> DEFINE u == s \o chunk
           n == IF Len(u) > BUFSIZE THEN BUFSIZE ELSE Len(u)
           t == SubSeq(u, 1, n)
<1>1. BUFSIZE \in Nat /\ CHUNK \in Nat /\ chunk \in [1 .. CHUNK -> Byte]
    BY BootAssumption
<1>2. chunk \in Seq(Byte) /\ Len(chunk) = CHUNK
    BY <1>1
<1>3. /\ u \in Seq(Byte) /\ Len(u) = Len(s) + CHUNK
      /\ \A i \in 1 .. Len(s) + CHUNK : u[i] = IF i <= Len(s) THEN s[i] ELSE chunk[i - Len(s)]
    BY <1>2, ConcatProperties
<1>4. n \in 0 .. Len(u) /\ Len(u) \in Nat /\ Len(s) \in Nat
    BY <1>1, <1>3
<1>5. \A i \in 1 .. n : u[i] \in Byte
    BY <1>3, <1>4
<1>6. /\ t \in Seq(Byte) /\ Len(t) = IF 1 <= n THEN n - 1 + 1 ELSE 0
      /\ \A i \in 1 .. n - 1 + 1 : t[i] = u[1 + i - 1]
    BY <1>4, <1>5, SubSeqProperties
<1>7. Len(t) = n /\ \A i \in 1 .. n : t[i] = u[i]
    BY <1>4, <1>6
<1>8. ASSUME NEW i \in 0 .. n - 1
      PROVE  t[i + 1] = IF i < Len(s) THEN s[i + 1] ELSE chunk[i - Len(s) + 1]
    <2>1. PICK j \in 1 .. n : j = i + 1
        BY <1>4
    <2>2. j \in 1 .. Len(s) + CHUNK /\ (j <= Len(s) <=> i < Len(s))
        BY <1>1, <1>3, <1>4, <2>1
    <2>3. j - Len(s) = i - Len(s) + 1
        BY <1>4, <2>1
    <2>4. t[j] = u[j]
        BY <1>7
    <2>5. u[j] = IF j <= Len(s) THEN s[j] ELSE chunk[j - Len(s)]
        BY <1>3, <2>2
    <2> HIDE DEF t, u
    <2> QED BY <2>1, <2>2, <2>3, <2>4, <2>5
<1>9. n = IF Len(s) + CHUNK > BUFSIZE THEN BUFSIZE ELSE Len(s) + CHUNK
    BY <1>3
<1> QED BY <1>6, <1>7, <1>8, <1>9 DEF UpToBuffer

-----------------------------------------------------------------------------
(* The invariant *)

\* Buffer and address agree with what the host may count on.
Agrees ==
    /\ data_len = Len(received) /\ data_address = dest
    /\ \A i \in 0 .. data_len - 1 : data_buf[i] = received[i + 1]

\* While flash() runs, the pages before the one it has come to hold the bytes
\* of the buffer, and nothing outside of the area has changed.
AreaAtWork ==
    page # -1 =>
        /\ mode = "boot"
        /\ page <= PagesOf(data_len) /\ (erased => page < PagesOf(data_len))
        /\ AreaEnd <= PAGES * PAGE
        /\ \A a \in Address : image[a] \in {Unknown, flashed[a]} \/ a \in dest .. AreaEnd - 1
        /\ \A a \in Address : a - dest \in 0 .. page * PAGE - 1 => flashed[a] = data_buf[a - dest]

IInv == TypeOK /\ Agrees /\ ImageFlashed /\ AreaAtWork

LEMMA Sizes ==
    /\ PAGE \in Nat /\ PAGE > 0 /\ PAGES \in Nat /\ PAGES * PAGE \in Nat
    /\ BUFSIZE \in Nat /\ CHUNK \in Nat /\ WRAP \in Nat /\ WRAP > 0
    /\ EXIT_DELAY \in Nat /\ 0 \in Byte /\ ERASED \in Byte
    /\ MaxPackets \in Nat /\ MaxRestarts \in Nat /\ BUFSIZE \div PAGE \in Nat
BY BootAssumption

LEMMA AreaIsPages ==
    ASSUME Agrees
    PROVE  AreaEnd = data_address + PagesOf(data_len) * PAGE
BY DEF Agrees, AreaEnd, PagesOf

LEMMA InitIInv == Init => IInv
<1> SUFFICES ASSUME Init PROVE IInv
    OBVIOUS
<1> USE Sizes
<1>1. PICK b \in Byte : flashed = [a \in Address |-> b] /\ image = flashed
    BY DEF Init
<1>2. flashed \in [Address -> Byte] /\ image \in [Address -> Byte \cup {Unknown}]
    BY <1>1
<1>3. data_buf \in Buffer /\ received \in Seq(Byte) /\ Len(received) = 0
    BY DEF Init, Buffer
<1>4. TypeOK
    <2>1. /\ data_len \in 0 .. BUFSIZE /\ Len(received) <= BUFSIZE
          /\ data_address \in 0 .. PAGES * PAGE /\ dest \in 0 .. PAGES * PAGE
        BY <1>3 DEF Init
    <2>2. delay \in 0 .. WRAP - 1 /\ exit_delay \in 0 .. EXIT_DELAY
        BY DEF Init
    <2>3. page \in -1 .. BUFSIZE \div PAGE
        BY DEF Init
    <2>4. packets \in 0 .. MaxPackets /\ restarts \in 0 .. MaxRestarts
        BY DEF Init
    <2>5. /\ mode \in {"boot", "app"} /\ crc_match \in BOOLEAN /\ int_low \in BOOLEAN
          /\ request_exit \in BOOLEAN /\ erased \in BOOLEAN
        BY DEF Init
    <2> QED BY <1>2, <1>3, <2>1, <2>2, <2>3, <2>4, <2>5 DEF TypeOK
<1>5. Agrees
    BY DEF Init, Agrees
<1>6. ImageFlashed /\ AreaAtWork
    BY DEF Init, ImageFlashed, AreaAtWork
<1> QED BY <1>4, <1>5, <1>6 DEF IInv

-----------------------------------------------------------------------------
(* Steps outside of flash() *)

\* Signal and Checked leave Booleans and delays what they are.
LEMMA SignalTyped ==
    ASSUME NEW low \in BOOLEAN, Signal(low)
    PROVE  int_low' \in BOOLEAN
BY DEF Signal

LEMMA CheckedTyped ==
    ASSUME TypeOK, NEW matches \in BOOLEAN, NEW time \in Delays, Checked(matches, time)
    PROVE  crc_match' \in BOOLEAN /\ delay' \in 0 .. WRAP - 1 /\ int_low' \in BOOLEAN
<1>1. crc_match' \in BOOLEAN
    BY DEF Checked
<1>2. delay' \in 0 .. WRAP - 1
    BY BootAssumption DEF Checked, TypeOK
<1>3. int_low' \in BOOLEAN
    BY SignalTyped DEF Checked, TypeOK
<1> QED BY <1>1, <1>2, <1>3

\* A packet that leaves buffer, place and flash memory alone.
LEMMA CheckStep ==
    ASSUME IInv, CrcCheck \/ CrcFlash
    PROVE  IInv'
<1> USE Sizes
<1>1. PICK matches \in BOOLEAN, time \in Delays :
        Packet /\ Checked(matches, time) /\ UNCHANGED <<dataVars, placeVars, exitVars, flashVars>>
    BY Zenon DEF CrcCheck, CrcFlash
<1>2. crc_match' \in BOOLEAN /\ delay' \in 0 .. WRAP - 1 /\ int_low' \in BOOLEAN
    BY <1>1, CheckedTyped DEF IInv
<1>3. TypeOK'
    BY <1>1, <1>2 DEF IInv, TypeOK, Packet, dataVars, placeVars, exitVars, flashVars
<1>4. Agrees'
    BY <1>1 DEF IInv, Agrees, dataVars, placeVars
<1>5. ImageFlashed' /\ AreaAtWork'
    BY <1>1 DEF IInv, ImageFlashed, AreaAtWork, Packet, flashVars
<1> QED BY <1>3, <1>4, <1>5 DEF IInv

LEMMA ConfigStep ==
    ASSUME IInv, BootConfig \/ EnterApp
    PROVE  IInv'
<1> USE Sizes
<1>1. /\ Packet /\ UNCHANGED <<dataVars, crc_match, delay, flashVars>>
      /\ Signal(int_low)
    BY DEF BootConfig, EnterApp
<1>2. int_low' \in BOOLEAN
    BY <1>1, SignalTyped DEF IInv, TypeOK
<1>3. data_address' = dest' /\ data_address' \in 0 .. PAGES * PAGE
    BY BootAssumption DEF BootConfig, EnterApp, IInv, TypeOK, Agrees, Address, placeVars
<1>4. request_exit' \in BOOLEAN /\ exit_delay' \in 0 .. EXIT_DELAY
    <2>1. CASE BootConfig
        BY <2>1 DEF BootConfig, IInv, TypeOK, exitVars
    <2>2. CASE EnterApp
        BY <2>2 DEF EnterApp
    <2> QED BY <2>1, <2>2
<1>5. TypeOK'
    BY <1>1, <1>2, <1>3, <1>4 DEF IInv, TypeOK, Packet, dataVars, flashVars
<1>6. Agrees'
    BY <1>1, <1>3 DEF IInv, Agrees, dataVars
<1>7. ImageFlashed' /\ AreaAtWork'
    BY <1>1 DEF IInv, ImageFlashed, AreaAtWork, Packet, flashVars
<1> QED BY <1>5, <1>6, <1>7 DEF IInv

\* INIT and DATA change buffer and history alike.
LEMMA DataStep ==
    ASSUME IInv, BootInit \/ BootData
    PROVE  IInv'
<1> USE Sizes
<1>1. /\ Packet /\ UNCHANGED <<placeVars, crc_match, delay, exitVars, flashVars>>
      /\ Signal(int_low)
    BY DEF BootInit, BootData
<1>2. int_low' \in BOOLEAN
    BY <1>1, SignalTyped DEF IInv, TypeOK
<1>3. /\ data_buf' \in Buffer /\ data_len' \in 0 .. BUFSIZE
      /\ received' \in Seq(Byte) /\ Len(received') = data_len'
      /\ \A i \in 0 .. data_len' - 1 : data_buf'[i] = received'[i + 1]
    <2>1. CASE BootInit
        BY <2>1 DEF BootInit, IInv, TypeOK
    <2>2. CASE BootData
        <3>1. PICK chunk \in Chunks :
                /\ data_buf' = [i \in DOMAIN data_buf |->
                       IF i \in data_len .. data_len + Room - 1 THEN chunk[i - data_len + 1]
                       ELSE data_buf[i]]
                /\ data_len' = data_len + Room
                /\ received' = UpToBuffer(received \o chunk)
            BY <2>2 DEF BootData
        <3>2. chunk \in [1 .. CHUNK -> Byte]
            BY BootAssumption
        <3>3. /\ data_buf \in Buffer /\ data_len \in 0 .. BUFSIZE
              /\ received \in Seq(Byte) /\ data_len = Len(received)
              /\ \A i \in 0 .. data_len - 1 : data_buf[i] = received[i + 1]
            BY DEF IInv, TypeOK, Agrees
        <3>4. Room \in 0 .. CHUNK /\ data_len + Room <= BUFSIZE
            BY <3>3 DEF Room
        <3>5. /\ received' \in Seq(Byte) /\ Len(received') = data_len'
              /\ \A i \in 0 .. data_len' - 1 :
                   received'[i + 1] = IF i < data_len THEN received[i + 1]
                                      ELSE chunk[i - data_len + 1]
            <4>1. data_len' = IF Len(received) + CHUNK > BUFSIZE THEN BUFSIZE
                              ELSE Len(received) + CHUNK
                BY <3>1, <3>3 DEF Room
            <4>2. Len(received) <= BUFSIZE
                BY <3>3
            <4>3. /\ received' \in Seq(Byte)
                  /\ Len(received') = IF Len(received) + CHUNK > BUFSIZE THEN BUFSIZE
                                      ELSE Len(received) + CHUNK
                  /\ \A i \in 0 .. Len(received') - 1 :
                       received'[i + 1] = IF i < Len(received) THEN received[i + 1]
                                          ELSE chunk[i - Len(received) + 1]
                BY <3>1, <3>3, <4>2, DataAppends, Zenon
            <4> QED BY <3>3, <4>1, <4>3, Zenon
        <3>6. data_buf' \in Buffer
            BY <3>1, <3>2, <3>3, <3>4 DEF Buffer
        <3>7. ASSUME NEW i \in 0 .. data_len' - 1
              PROVE  data_buf'[i] = received'[i + 1]
            <4>1. data_buf'[i] = IF i >= data_len THEN chunk[i - data_len + 1] ELSE data_buf[i]
                BY <3>1, <3>3, <3>4 DEF Buffer
            <4>2. received'[i + 1] = IF i < data_len THEN received[i + 1]
                                     ELSE chunk[i - data_len + 1]
                BY <3>5
            <4>3. i < data_len => data_buf[i] = received[i + 1]
                BY <3>3
            <4> QED BY <3>3, <4>1, <4>2, <4>3
        <3>8. data_len' \in 0 .. BUFSIZE
            BY <3>1, <3>3, <3>4
        <3> QED BY <3>5, <3>6, <3>7, <3>8, Zenon
    <2> QED BY <2>1, <2>2
<1>4. TypeOK'
    BY <1>1, <1>2, <1>3 DEF IInv, TypeOK, Packet, placeVars, exitVars, flashVars
<1>5. Agrees'
    BY <1>1, <1>3 DEF IInv, Agrees, placeVars
<1>6. ImageFlashed' /\ AreaAtWork'
    BY <1>1 DEF IInv, ImageFlashed, AreaAtWork, Packet, flashVars
<1> QED BY <1>4, <1>5, <1>6 DEF IInv

\* The tick and the start of the application leave memory and place alone.
LEMMA TimerStep ==
    ASSUME IInv, Timer
    PROVE  IInv'
<1> USE Sizes
<1>1. page = -1 /\ UNCHANGED <<dataVars, placeVars, crc_match, request_exit, flashVars, packets, restarts>>
    BY DEF Timer, Tick, StartApplication, exitVars
<1>2. /\ delay \in 0 .. WRAP - 1 /\ exit_delay \in 0 .. EXIT_DELAY
      /\ int_low \in BOOLEAN /\ mode \in {"boot", "app"}
    BY DEF IInv, TypeOK
<1>3. mode' \in {"boot", "app"}
    BY <1>2 DEF Timer, Tick, StartApplication
<1>4. delay' \in 0 .. WRAP - 1 /\ int_low' \in BOOLEAN
    <2>1. CASE Tick /\ int_low
        <3>1. delay' = (delay - 1) % WRAP /\ int_low' = (delay' # 0)
            BY <2>1 DEF Tick, Countdown
        <3>2. (delay - 1) % WRAP \in 0 .. WRAP - 1
            BY <1>2
        <3> QED BY <3>1, <3>2
    <2>2. CASE Tick /\ ~int_low
        BY <1>2, <2>2 DEF Tick, Countdown
    <2>3. CASE StartApplication
        BY <1>2, <2>3 DEF StartApplication
    <2> QED BY <2>1, <2>2, <2>3 DEF Timer
<1>5. exit_delay' \in 0 .. EXIT_DELAY
    <2>1. CASE Tick /\ request_exit
        <3>1. exit_delay # 0 /\ exit_delay' = (exit_delay - 1) % WRAP
            BY <2>1 DEF Tick, Exits
        <3>2. exit_delay - 1 \in 0 .. WRAP - 1
            BY <1>2, <3>1, BootAssumption
        <3>3. (exit_delay - 1) % WRAP = exit_delay - 1
            BY <3>2
        <3> QED BY <1>2, <3>1, <3>3
    <2>2. CASE Tick /\ ~request_exit
        BY <1>2, <2>2 DEF Tick
    <2>3. CASE StartApplication
        BY <1>2, <2>3 DEF StartApplication, exitVars
    <2> QED BY <2>1, <2>2, <2>3 DEF Timer
<1>6. TypeOK'
    BY <1>1, <1>3, <1>4, <1>5 DEF IInv, TypeOK, dataVars, placeVars, flashVars
<1>7. Agrees'
    BY <1>1 DEF IInv, Agrees, dataVars, placeVars
<1>8. ImageFlashed' /\ AreaAtWork'
    BY <1>1 DEF IInv, ImageFlashed, AreaAtWork, flashVars
<1> QED BY <1>6, <1>7, <1>8 DEF IInv

-----------------------------------------------------------------------------
(* Steps of flash() *)

\* A page of the area lies within it, and its bytes within the buffer.
LEMMA PageWithin ==
    ASSUME TypeOK, NEW p \in Nat, p < PagesOf(data_len)
    PROVE  /\ p * PAGE \in Nat /\ (p + 1) * PAGE = p * PAGE + PAGE
           /\ p * PAGE + PAGE <= PagesOf(data_len) * PAGE
           /\ p * PAGE + PAGE <= BUFSIZE
           /\ p + 1 \in 0 .. BUFSIZE \div PAGE
<1> DEFINE n == PagesOf(data_len)
<1>1. n \in Nat /\ n * PAGE <= BUFSIZE /\ n <= BUFSIZE \div PAGE
    BY PagesHold DEF TypeOK
<1>2. PAGE \in Nat /\ BUFSIZE \in Nat /\ BUFSIZE \div PAGE \in Nat
    BY Sizes
<1> HIDE DEF n
<1>3. p * PAGE \in Nat /\ (p + 1) * PAGE = p * PAGE + PAGE
    BY <1>2
<1>4. p < n
    BY DEF n
<1>5. (p + 1) * PAGE <= n * PAGE
    BY <1>1, <1>2, <1>4
<1> QED BY <1>1, <1>2, <1>3, <1>4, <1>5 DEF n

LEMMA BeginStep ==
    ASSUME IInv, FlashBegin
    PROVE  IInv'
<1> USE Sizes
<1>1. /\ page = -1 /\ page' = 0 /\ erased' = FALSE /\ int_low' = TRUE /\ mode' = "boot"
      /\ UNCHANGED <<dataVars, placeVars, crc_match, delay, exitVars, flashed, image, restarts>>
      /\ packets' \in 0 .. MaxPackets
      /\ data_address + PagesOf(data_len) * PAGE <= PAGES * PAGE
    BY DEF FlashBegin, Packet, IInv, TypeOK
<1>2. TypeOK'
    <2>1. page' \in -1 .. BUFSIZE \div PAGE
        BY <1>1
    <2>2. erased' \in BOOLEAN /\ int_low' \in BOOLEAN
        BY <1>1, Zenon
    <2>3. mode' \in {"boot", "app"} /\ packets' \in 0 .. MaxPackets
        BY <1>1
    <2> QED BY <1>1, <2>1, <2>2, <2>3 DEF IInv, TypeOK, dataVars, placeVars, exitVars
<1>3. Agrees'
    BY <1>1 DEF IInv, Agrees, dataVars, placeVars
<1>4. ImageFlashed'
    BY <1>1 DEF ImageFlashed
<1>5. AreaAtWork'
    <2>1. PagesOf(data_len)' = PagesOf(data_len) /\ PagesOf(data_len) \in Nat
        BY <1>1, PagesHold DEF dataVars, IInv, TypeOK
    <2>2. AreaEnd' = AreaEnd /\ AreaEnd <= PAGES * PAGE
        BY <1>1, AreaIsPages DEF IInv, AreaEnd, dataVars, placeVars
    <2>3. \A a \in Address : image'[a] \in {Unknown, flashed'[a]}
        BY <1>1 DEF IInv, ImageFlashed
    <2>4. 0 .. page' * PAGE - 1 = {}
        BY <1>1
    <2> QED BY <1>1, <2>1, <2>2, <2>3, <2>4 DEF AreaAtWork
<1> QED BY <1>2, <1>3, <1>4, <1>5 DEF IInv

LEMMA PageStep ==
    ASSUME IInv, ErasePage \/ WritePage
    PROVE  IInv'
<1> USE Sizes
<1>1. /\ mode = "boot" /\ page # -1 /\ page < PagesOf(data_len)
      /\ UNCHANGED <<mode, dataVars, placeVars, crc_match, delay, exitVars, int_low, image,
                     packets, restarts>>
    BY DEF ErasePage, WritePage, Flashing, IInv, AreaAtWork
<1>2. /\ page \in Nat /\ data_address \in Nat /\ dest = data_address
      /\ data_buf \in [0 .. BUFSIZE - 1 -> Byte]
      /\ flashed \in [Address -> Byte]
    BY <1>1 DEF IInv, TypeOK, Agrees, Buffer, ErasePage, WritePage, Flashing
<1> DEFINE first == page * PAGE
<1>3. /\ first \in Nat /\ (page + 1) * PAGE = first + PAGE
      /\ first + PAGE <= PagesOf(data_len) * PAGE /\ first + PAGE <= BUFSIZE
      /\ page + 1 \in 0 .. BUFSIZE \div PAGE
    BY <1>1, <1>2, PageWithin DEF IInv
<1>4. AreaEnd = data_address + PagesOf(data_len) * PAGE /\ AreaEnd' = AreaEnd
    BY <1>1, AreaIsPages DEF IInv, AreaEnd, dataVars, placeVars
<1>5. \A a \in Address : OfThisPage(a) <=> a - dest \in first .. first + PAGE - 1
    BY <1>2 DEF OfThisPage
<1>6. PagesOf(data_len)' = PagesOf(data_len) /\ PagesOf(data_len) \in Nat
    BY <1>1, PagesHold DEF dataVars, IInv, TypeOK
<1> HIDE DEF first
\* What both do to the flash memory and to the place in it.
<1>7. /\ flashed' \in [Address -> Byte]
      /\ \A a \in Address : ~OfThisPage(a) => flashed'[a] = flashed[a]
      /\ \/ page' = page /\ erased' = TRUE
         \/ /\ page' = page + 1 /\ erased' = FALSE
            /\ \A a \in Address : OfThisPage(a) => flashed'[a] = data_buf[a - dest]
    <2>1. CASE ErasePage
        BY <1>2, <2>1 DEF ErasePage
    <2>2. CASE WritePage
        <3>1. /\ flashed' = [a \in Address |->
                     IF OfThisPage(a) THEN data_buf[a - dest] ELSE flashed[a]]
              /\ page' = page + 1 /\ erased' = FALSE
            BY <1>2, <2>2 DEF WritePage
        <3>2. ASSUME NEW a \in Address, OfThisPage(a)
              PROVE  data_buf[a - dest] \in Byte
            <4>1. a - dest \in 0 .. BUFSIZE - 1
                BY <1>2, <1>3, <1>5, <3>2 DEF Address
            <4> QED BY <1>2, <4>1
        <3> QED BY <1>2, <3>1, <3>2
    <2> QED BY <2>1, <2>2
<1>8. TypeOK'
    <2>1. page' = page \/ page' = page + 1
        BY <1>7
    <2>2. page' \in -1 .. BUFSIZE \div PAGE
        BY <1>2, <1>3, <2>1 DEF IInv, TypeOK
    <2>3. erased' \in BOOLEAN
        BY <1>7, Zenon
    <2> QED BY <1>1, <1>7, <2>2, <2>3 DEF IInv, TypeOK, dataVars, placeVars, exitVars
<1>9. Agrees'
    BY <1>1 DEF IInv, Agrees, dataVars, placeVars
<1>10. ImageFlashed'
    BY <1>2, <1>7 DEF ImageFlashed
<1>11. AreaAtWork'
    <2>1. page' <= PagesOf(data_len) /\ (erased' => page' < PagesOf(data_len))
        BY <1>1, <1>2, <1>6, <1>7
    <2>2. ASSUME NEW a \in Address
          PROVE  image[a] \in {Unknown, flashed'[a]} \/ a \in dest .. AreaEnd - 1
        <3>1. CASE OfThisPage(a)
            BY <1>2, <1>3, <1>4, <1>5, <1>6, <3>1 DEF Address
        <3>2. CASE ~OfThisPage(a)
            BY <1>1, <1>7, <3>2 DEF IInv, AreaAtWork
        <3> QED BY <3>1, <3>2
    <2>3. ASSUME NEW a \in Address, a - dest \in 0 .. page' * PAGE - 1
          PROVE  flashed'[a] = data_buf[a - dest]
        <3>1. CASE OfThisPage(a)
            <4>1. page' = page + 1
                BY <1>2, <1>3, <1>5, <1>7, <2>3, <3>1 DEF Address, first
            <4> QED BY <1>2, <1>7, <3>1, <4>1
        <3>2. CASE ~OfThisPage(a)
            <4>1. a - dest \in 0 .. page * PAGE - 1
                BY <1>2, <1>3, <1>5, <1>7, <2>3, <3>2 DEF Address, first
            <4> QED BY <1>1, <1>7, <3>2, <4>1 DEF IInv, AreaAtWork
        <3> QED BY <3>1, <3>2
    <2>4. AreaEnd' <= PAGES * PAGE
        BY <1>1, <1>4 DEF IInv, AreaAtWork
    <2> QED BY <1>1, <1>4, <1>6, <2>1, <2>2, <2>3, <2>4 DEF AreaAtWork, dataVars, placeVars
<1> QED BY <1>8, <1>9, <1>10, <1>11 DEF IInv

LEMMA EndStep ==
    ASSUME IInv, FlashEnd
    PROVE  IInv'
<1> USE Sizes
<1>1. /\ page = PagesOf(data_len) /\ page # -1 /\ page' = -1 /\ mode = "boot"
      /\ data_address' = AddressAfter /\ dest' = AreaEnd /\ image' = WithArea(received)
      /\ UNCHANGED <<mode, dataVars, crc_match, delay, exitVars, flashed, erased, packets, restarts>>
      /\ Signal(FALSE)
    <2>1. page >= 0 => page # -1
        BY DEF IInv, TypeOK
    <2> QED BY <2>1, Zenon DEF FlashEnd, Flashing
<1>2. AreaEnd = data_address + PagesOf(data_len) * PAGE /\ AreaEnd <= PAGES * PAGE
    BY <1>1, AreaIsPages DEF IInv, AreaAtWork
<1>3. /\ data_len \in 0 .. BUFSIZE /\ data_address \in Nat /\ dest = data_address
      /\ received \in Seq(Byte) /\ Len(received) = data_len
      /\ image \in [Address -> Byte \cup {Unknown}]
    BY DEF IInv, TypeOK, Agrees
<1>4. /\ PagesOf(data_len) \in Nat /\ PagesOf(data_len) * PAGE \in Nat
      /\ data_len <= PagesOf(data_len) * PAGE
    BY <1>3, PagesHold
<1>5. data_address' = AreaEnd /\ AreaEnd \in 0 .. PAGES * PAGE
    BY <1>1, <1>2, <1>3, <1>4 DEF AddressAfter
<1>6. image' \in [Address -> Byte \cup {Unknown}]
    <2>1. ASSUME NEW a \in Address, a \in dest .. dest + Len(received) - 1
          PROVE  received[a - dest + 1] \in Byte
        <3>1. a - dest + 1 \in 1 .. Len(received)
            BY <1>3, <2>1 DEF Address
        <3> QED BY <1>3, <3>1
    <2> QED BY <1>1, <1>3, <2>1 DEF WithArea
<1>7. int_low' \in BOOLEAN
    BY <1>1, SignalTyped
<1>8. TypeOK'
    <2>1. page' \in -1 .. BUFSIZE \div PAGE
        BY <1>1
    <2> QED BY <1>1, <1>5, <1>6, <1>7, <2>1 DEF IInv, TypeOK, dataVars, exitVars
<1>9. Agrees'
    BY <1>1, <1>5 DEF IInv, Agrees, dataVars
<1>10. ImageFlashed'
    <2>1. ASSUME NEW a \in Address
          PROVE  image'[a] \in {Unknown, flashed[a]}
        <3>1. CASE a \in dest .. dest + Len(received) - 1
            <4>1. a - dest \in 0 .. data_len - 1 /\ a - dest \in 0 .. page * PAGE - 1
                BY <1>1, <1>3, <1>4, <3>1 DEF Address
            <4>2. flashed[a] = data_buf[a - dest]
                BY <1>1, <4>1 DEF IInv, AreaAtWork
            <4>3. data_buf[a - dest] = received[a - dest + 1]
                BY <4>1 DEF IInv, Agrees
            <4> QED BY <1>1, <3>1, <4>2, <4>3 DEF WithArea
        <3>2. CASE a \notin dest .. dest + Len(received) - 1 /\ a \in dest .. AreaEnd - 1
            BY <1>1, <3>2 DEF WithArea
        <3>3. CASE a \notin dest .. dest + Len(received) - 1 /\ a \notin dest .. AreaEnd - 1
            BY <1>1, <3>3 DEF WithArea, IInv, AreaAtWork
        <3> QED BY <3>1, <3>2, <3>3
    <2> QED BY <1>1, <2>1 DEF ImageFlashed
<1>11. AreaAtWork'
    BY <1>1 DEF AreaAtWork
<1> QED BY <1>8, <1>9, <1>10, <1>11 DEF IInv

\* A reset in the middle of flash() leaves only its area in doubt.
LEMMA RestartStep ==
    ASSUME IInv, Restart
    PROVE  IInv'
<1> USE Sizes
<1>1. /\ StartUp /\ flashed' = flashed /\ packets' = packets
      /\ restarts < MaxRestarts /\ restarts' = restarts + 1
      /\ image' = IF page = -1 THEN image ELSE WithArea(<<>>)
    BY DEF Restart
<1>2. /\ image \in [Address -> Byte \cup {Unknown}] /\ dest \in 0 .. PAGES * PAGE
      /\ restarts' \in 0 .. MaxRestarts
    BY <1>1 DEF IInv, TypeOK
<1>3. \A a \in Address : a \notin dest .. dest + Len(<<>>) - 1
    BY <1>2 DEF Address
<1>4. image' \in [Address -> Byte \cup {Unknown}]
    BY <1>1, <1>2, <1>3 DEF WithArea
<1>5. /\ data_buf' \in Buffer /\ data_len' = 0 /\ received' = <<>> /\ received' \in Seq(Byte)
      /\ Len(received') = 0 /\ data_address' = 0 /\ dest' = 0
    BY <1>1 DEF StartUp, Buffer
<1>6. /\ crc_match' \in BOOLEAN /\ delay' = 0 /\ int_low' \in BOOLEAN
      /\ request_exit' \in BOOLEAN /\ exit_delay' = 0
      /\ page' = -1 /\ erased' \in BOOLEAN /\ mode' \in {"boot", "app"}
    BY <1>1 DEF StartUp
<1>7. TypeOK'
    <2>1. /\ data_len' \in 0 .. BUFSIZE /\ Len(received') <= BUFSIZE
          /\ data_address' \in 0 .. PAGES * PAGE /\ dest' \in 0 .. PAGES * PAGE
        BY <1>5
    <2>2. /\ delay' \in 0 .. WRAP - 1 /\ exit_delay' \in 0 .. EXIT_DELAY
          /\ page' \in -1 .. BUFSIZE \div PAGE
        BY <1>6
    <2> QED BY <1>1, <1>2, <1>4, <1>5, <1>6, <2>1, <2>2 DEF IInv, TypeOK
<1>8. Agrees'
    BY <1>5 DEF Agrees
<1>9. ImageFlashed'
    <2>1. ASSUME NEW a \in Address
          PROVE  image'[a] \in {Unknown, flashed[a]}
        <3>1. CASE page = -1
            BY <1>1, <3>1 DEF IInv, ImageFlashed
        <3>2. CASE page # -1 /\ a \in dest .. AreaEnd - 1
            BY <1>1, <1>3, <3>2 DEF WithArea
        <3>3. CASE page # -1 /\ a \notin dest .. AreaEnd - 1
            BY <1>1, <1>3, <3>3 DEF WithArea, IInv, AreaAtWork
        <3> QED BY <3>1, <3>2, <3>3
    <2> QED BY <1>1, <2>1 DEF ImageFlashed
<1>10. AreaAtWork'
    BY <1>6 DEF AreaAtWork
<1> QED BY <1>7, <1>8, <1>9, <1>10 DEF IInv

LEMMA StutterStep ==
    ASSUME IInv, UNCHANGED vars
    PROVE  IInv'
<1>1. TypeOK'
    BY DEF IInv, TypeOK, vars, dataVars, placeVars, intVars, exitVars, flashVars
<1>2. Agrees' /\ ImageFlashed' /\ AreaAtWork'
    BY DEF IInv, Agrees, ImageFlashed, AreaAtWork, AreaEnd, PagesOf,
           vars, dataVars, placeVars, intVars, exitVars, flashVars
<1> QED BY <1>1, <1>2 DEF IInv

LEMMA NextIInv == IInv /\ [Next]_vars => IInv'
BY ConfigStep, DataStep, CheckStep, BeginStep, PageStep, EndStep, TimerStep, RestartStep,
   StutterStep DEF Next, RemotePoll, Flash

-----------------------------------------------------------------------------
(* Theorems *)

LEMMA Invariance == Spec => []IInv
<1>1. Init => IInv
    BY InitIInv
<1>2. IInv /\ [Next]_vars => IInv'
    BY NextIInv
<1> QED BY <1>1, <1>2, PTL DEF Spec

\* Buffer, lengths, addresses and delays keep their types, whatever the host
\* sends: parse_data never writes behind the buffer, flash() never reads there.
THEOREM BootTyped == Spec => []TypeOK
<1>1. IInv => TypeOK
    BY DEF IInv
<1> QED BY <1>1, Invariance, PTL

\* For every size of pages, packets and buffer, and whatever packets come in
\* whatever order with resets in between: the flash memory holds what the host
\* may count on, in flashed areas as well as outside of them.
THEOREM FlashedAsReceived == Spec => []ImageFlashed
<1>1. IInv => ImageFlashed
    BY DEF IInv
<1> QED BY <1>1, Invariance, PTL

LEMMA LineStep ==
    ASSUME TypeOK, LineSignals, [Next]_vars
    PROVE  LineSignals'
<1>1. ASSUME NEW low \in BOOLEAN, Signal(low), page' = -1
      PROVE  LineSignals'
    BY <1>1 DEF Signal, LineSignals
<1>2. CASE BootConfig \/ BootInit \/ BootData \/ CrcCheck \/ CrcFlash \/ EnterApp
    <2>1. page' = -1
        BY <1>2, Zenon DEF BootConfig, BootInit, BootData, CrcCheck, CrcFlash, EnterApp,
                           Packet, flashVars
    <2>2. Signal(int_low)
        BY <1>2, Zenon DEF BootConfig, BootInit, BootData, CrcCheck, CrcFlash, EnterApp, Checked
    <2> QED BY <1>1, <2>1, <2>2 DEF TypeOK
<1>3. CASE FlashBegin
    BY <1>3 DEF FlashBegin, LineSignals
<1>4. CASE ErasePage \/ WritePage
    <2>1. page # -1 /\ int_low' = int_low
        BY <1>4 DEF ErasePage, WritePage, Flashing, TypeOK
    <2> QED BY <2>1 DEF LineSignals
<1>5. CASE FlashEnd
    BY <1>1, <1>5 DEF FlashEnd
<1>6. CASE Tick
    <2>1. page' = -1 /\ mode' = mode /\ crc_match' = crc_match /\ mode = "boot" /\ page = -1
        BY <1>6 DEF Tick, flashVars
    <2>2. CASE int_low
        <3>1. delay' \in Int /\ int_low' = (delay' # 0)
            BY <1>6, <2>2, BootAssumption DEF Tick, Countdown, TypeOK
        <3>2. delay' > 0 => delay' # 0
            BY <3>1
        <3> QED BY <2>1, <3>1, <3>2, Zenon DEF LineSignals
    <2>3. CASE ~int_low
        BY <1>6, <2>1, <2>3 DEF Tick, Countdown, LineSignals
    <2> QED BY <2>2, <2>3
<1>7. CASE StartApplication
    BY <1>7 DEF StartApplication, LineSignals, flashVars
<1>8. CASE Restart
    BY <1>8 DEF Restart, StartUp, LineSignals
<1>9. CASE UNCHANGED vars
    BY <1>9 DEF LineSignals, vars, intVars, flashVars
<1> QED BY <1>2, <1>3, <1>4, <1>5, <1>6, <1>7, <1>8, <1>9 DEF Next, RemotePoll, Flash, Timer

\* Whatever packets come between a failed check and the end of its delay, FLASH
\* among them, the host finds the line down, for every width of the counters.
THEOREM LineTells == Spec => []LineSignals
<1>1. Init => LineSignals
    BY DEF Init, LineSignals
<1> QED BY <1>1, LineStep, BootTyped, PTL DEF Spec
===============================================================================
