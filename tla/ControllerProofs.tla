--------------------------- MODULE ControllerProofs ---------------------------
(***************************************************************************)
(* Proofs about Controller, for every size of the ring, length of messages *)
(* and packets, number of programs, and any presses, transfers and faults. *)
(*                                                                         *)
(* The invariant has a part for each of those who write to the ring, and   *)
(* both are about Emitted, everything that was put into the ring: the line *)
(* and the ring together, so that the interrupt does not change it.        *)
(*                                                                         *)
(* Turn ties the place ui_input waits at to the last message there is.     *)
(* Places says that the bytes of the host from the first one of a transfer *)
(* on are those that usbFunctionWrite has passed on.  Account balances the *)
(* bytes announced with those passed on, those in the hands of             *)
(* usbFunctionWrite and bytes_remaining, from the moment usbPoll has read  *)
(* the SETUP of a transfer, and lets the driver answer with success only   *)
(* when nothing remains: usbTxLen and usbMsgLen may be left over from a    *)
(* transfer given up.  AsSent follows each byte from the host into the     *)
(* ring as long as no acknowledgment was lost.                             *)
(***************************************************************************)
EXTENDS Controller, TLAPS

-----------------------------------------------------------------------------
(* The inductive invariant *)

\* The button was found released at the last sample if at all, and twice in a
\* row where it counts as released.
Buttons ==
    /\ pin \in {0, 1} /\ btn_state \in {0, 1} /\ btn_last_sample \in {0, 1}
    /\ btn_press \in {0, 1} /\ highs \in 0 .. 2
    /\ btn_last_sample = 1 <=> highs > 0
    /\ btn_state = 1 => highs = 2

UsbByte == [msg : {"usb"}, of : Nat, at : Nat]
UiByte == [msg : {"resync", "stop", "start"}, of : Nat, at : Nat]
Byte == UsbByte \cup UiByte
Ring == tx \in Seq(Byte) /\ line \in Seq(Byte) /\ Len(tx) < SIZE

\* The message that ui_input is to send is the one that comes after the last.
Kinds == {"resync", "stop", "start"}
NextMessage == [msg |-> Due, of |-> current_program, at |-> 1]
Turn ==
    /\ Due \in Kinds /\ current_program \in 0 .. MASTER_PROGRAMS - 1
    /\ \A i \in Begun : (\A k \in Begun : k <= i) => ComesAfter(NextMessage, Emitted[i])
    /\ Begun = {} => Due = "resync" /\ current_program = 0

\* passed: where the bytes of the host are, from the first of this transfer on.
Places ==
    /\ passed \in Seq(Nat)
    /\ \A n \in 1 .. Len(passed) : passed[n] \in DOMAIN Emitted /\ Emitted[passed[n]].msg = "usb"
    /\ \A n \in 1 .. Len(passed) - 1 : passed[n] < passed[n + 1]
    /\ \A n \in 1 .. Len(passed) : \A i \in DOMAIN Emitted :
         i > passed[n] /\ Emitted[i].msg = "usb" => \E m \in n .. Len(passed) : i = passed[m]

Packet == [token : {"none"}] \cup [token : {"setup"}, wLength : Nat]
            \cup [token : {"out"}, data : Seq(UsbByte)]
Bridge ==
    /\ stage \in {"idle", "setup", "data", "status"} /\ transfers \in Nat
    /\ length \in Nat /\ sent \in 0 .. length
    /\ repeated \in BOOLEAN /\ outcome \in {"open", "ok", "failed"}
    /\ usbRx \in Packet /\ usbMsgFlags \in BOOLEAN
    /\ usbTxLen \in {STALL, NAK, 0, 1} /\ usbMsgLen \in {NO_MSG, 0, 1}
    /\ bytes_remaining \in Nat /\ rest \in Seq(UsbByte)
    /\ usb_thread \in {"poll", "write", "answer"}
    /\ IF usb_thread = "write" THEN usbRx.token = "out" /\ usbMsgFlags ELSE rest = <<>>

\* The host is past the SETUP of its transfer, and usbPoll is or is not.
UnderWay == stage \in {"data", "status"}
Accepted == UnderWay /\ usbRx.token # "setup"
SetUp ==
    /\ stage = "setup" => sent = 0
    /\ UnderWay /\ usbRx.token = "setup" => usbRx.wLength = length /\ sent = 0

\* Every byte announced was passed on, is about to be or is yet to come, and
\* nothing else is answered than that all have come.
Account ==
    Accepted =>
        /\ usbMsgFlags <=> 0 < length /\ length < LIMIT
        /\ IF usbMsgFlags
           THEN /\ Len(passed) + Len(rest) + bytes_remaining = length
                /\ usbMsgLen = 0 \/ usbTxLen = 0 => bytes_remaining = 0 /\ rest = <<>>
           ELSE passed = <<>> /\ (length = 0 \/ (usbMsgLen # 0 /\ usbTxLen # 0))

\* If nothing was repeated the bytes are those the host has sent.
Place(n) == [msg |-> "usb", of |-> transfers, at |-> n]
Waiting == usbRx.token = "out" /\ usb_thread # "write"
AsSent ==
    Accepted /\ ~repeated /\ usbMsgFlags =>
        /\ \A n \in 1 .. Len(passed) : Emitted[passed[n]] = Place(n)
        /\ \A n \in 1 .. Len(rest) : rest[n] = Place(Len(passed) + n)
        /\ IF Waiting
           THEN /\ Len(passed) + Len(usbRx.data) = sent
                /\ \A n \in 1 .. Len(usbRx.data) : usbRx.data[n] = Place(Len(passed) + n)
           ELSE Len(passed) + Len(rest) = sent

Succeeded ==
    outcome = "ok" =>
        /\ stage = "idle" /\ usbRx = NoPacket /\ usb_thread # "write"
        /\ Len(passed) = length
        /\ ~repeated => \A n \in 1 .. length : Emitted[passed[n]] = Place(n)

Transfer == Places /\ Bridge /\ SetUp /\ Account /\ AsSent /\ Succeeded

IInv == Buttons /\ Ring /\ PressesInOrder /\ Turn /\ Transfer

-----------------------------------------------------------------------------
(* The ring *)

LEMMA Sizes ==
    /\ SIZE \in Nat /\ SIZE >= 2 /\ MASTER_PROGRAMS \in Nat \ {0}
    /\ \A kind \in Kinds : LengthOf(kind) \in Nat \ {0} /\ LengthOf(kind) < SIZE
BY RingAssumption, UiAssumption DEF Kinds, LengthOf

LEMMA EmittedIs ==
    ASSUME Ring
    PROVE  /\ Emitted \in Seq(Byte) /\ DOMAIN Emitted = 1 .. Len(Emitted)
           /\ Len(Emitted) \in Nat
           /\ \A i \in DOMAIN Emitted : Emitted[i] \in Byte
<1>1. Emitted \in Seq(Byte)
    BY DEF Ring, Emitted
<1> QED BY <1>1

LEMMA Joined ==
    ASSUME NEW S, NEW s \in Seq(S), NEW t \in Seq(S)
    PROVE  /\ s \o t \in Seq(S) /\ DOMAIN (s \o t) = 1 .. Len(s) + Len(t)
           /\ Len(s \o t) = Len(s) + Len(t)
           /\ \A i \in 1 .. Len(s) : (s \o t)[i] = s[i]
           /\ \A n \in 1 .. Len(t) : (s \o t)[Len(s) + n] = t[n]
OBVIOUS

LEMMA JoinedTwice ==
    ASSUME NEW S, NEW r \in Seq(S), NEW s \in Seq(S), NEW t \in Seq(S)
    PROVE  r \o (s \o t) = (r \o s) \o t
<1>1. /\ r \o (s \o t) \in Seq(S) /\ (r \o s) \o t \in Seq(S)
      /\ Len(r \o (s \o t)) = Len((r \o s) \o t)
    OBVIOUS
<1>2. ASSUME NEW i \in 1 .. Len(r \o (s \o t))
      PROVE  (r \o (s \o t))[i] = ((r \o s) \o t)[i]
    OBVIOUS
<1> QED BY <1>1, <1>2

\* As long as there is room, uart_putc adds bytes at the end.
LEMMA PutcAdds ==
    ASSUME Ring, NEW s \in Seq(Byte), Len(tx) + Len(s) < SIZE, UartPutc(s), line' = line
    PROVE  Ring' /\ Emitted' = Emitted \o s
<1> DEFINE all == tx \o s
<1>1. all \in Seq(Byte) /\ Len(all) = Len(tx) + Len(s) /\ Len(all) \in Nat
    BY Joined DEF Ring
<1>2. Len(all) % SIZE = Len(all)
    BY <1>1, Sizes
<1>3. tx' = SubSeq(all, Len(all) - Len(all) + 1, Len(all))
    <2>1. tx' = SubSeq(all, Len(all) - (Len(all) % SIZE) + 1, Len(all))
        BY DEF UartPutc, Enqueued
    <2> QED BY <1>2, <2>1
<1>4. SubSeq(all, 1, Len(all)) = all
    <2> HIDE DEF all
    <2> QED BY <1>1
<1>5. tx' = all
    BY <1>1, <1>3, <1>4
<1>6. line \o (tx \o s) = (line \o tx) \o s
    BY JoinedTwice DEF Ring
<1> QED BY <1>1, <1>5, <1>6 DEF Ring, Emitted

\* The interrupt takes a byte from the ring to the line, and so adds none.
LEMMA InterruptMoves ==
    ASSUME Ring, DataInterrupt
    PROVE  Ring' /\ Emitted' = Emitted
<1>1. tx \in Seq(Byte) /\ line \in Seq(Byte) /\ tx # <<>> /\ Len(tx) < SIZE
      /\ line' = Append(line, Head(tx)) /\ tx' = Tail(tx)
    BY DEF Ring, DataInterrupt, FifoEmpty
<1>2. Head(tx) \in Byte /\ Tail(tx) \in Seq(Byte) /\ Len(Tail(tx)) = Len(tx) - 1 /\ Len(tx) \in Nat
    BY <1>1
<1>3. Append(line, Head(tx)) = line \o <<Head(tx)>> /\ tx = <<Head(tx)>> \o Tail(tx)
    BY <1>1, <1>2
<1>4. line \o (<<Head(tx)>> \o Tail(tx)) = (line \o <<Head(tx)>>) \o Tail(tx)
    BY <1>1, <1>2, JoinedTwice
<1>5. Emitted' = Emitted
    BY <1>1, <1>3, <1>4 DEF Emitted
<1> QED BY <1>1, <1>2, <1>5, Sizes DEF Ring

LEMMA MessageIs ==
    ASSUME NEW kind \in Kinds, NEW of \in Nat, NEW n \in Nat
    PROVE  /\ Message(kind, of, n) \in Seq(UiByte) /\ Len(Message(kind, of, n)) = n
           /\ \A i \in 1 .. n : Message(kind, of, n)[i] = [msg |-> kind, of |-> of, at |-> i]
BY DEF Message, UiByte, Kinds

-----------------------------------------------------------------------------
(* The button *)

LEMMA ButtonsKept ==
    ASSUME Buttons, Sample
    PROVE  /\ btn_state' \in {0, 1} /\ btn_last_sample' \in {0, 1}
           /\ btn_press' \in {0, 1} /\ highs' \in 0 .. 2
           /\ btn_last_sample' = 1 <=> highs' > 0
           /\ btn_state' = 1 => highs' = 2
           /\ btn_press = 0 /\ btn_press' = 1 => highs = 2
<1> DEFINE turn == TurnsOver(btn_state, btn_last_sample, pin)
<1>1. turn = IF pin = 1 /\ btn_last_sample = 1 THEN 1 - btn_state ELSE btn_state
    BY DEF Buttons, TurnsOver
<1>2. /\ btn_press' = IF turn = 1 /\ btn_state = 1 THEN 1 ELSE btn_press
      /\ btn_state' = (btn_state + turn) % 2
      /\ btn_last_sample' = pin
      /\ highs' = IF pin = 0 THEN 0 ELSE IF highs < 2 THEN highs + 1 ELSE 2
    BY DEF Sample
<1>3. btn_state' = IF pin = 1 /\ btn_last_sample = 1 THEN 1 ELSE 0
    <2> HIDE DEF turn
    <2> QED BY <1>1, <1>2 DEF Buttons
<1> HIDE DEF turn
<1> QED BY <1>1, <1>2, <1>3 DEF Buttons

-----------------------------------------------------------------------------
(* The messages in the ring *)

\* Begun when bytes were added.
LEMMA BegunGrows ==
    ASSUME Ring, NEW s \in Seq(Byte), Emitted' = Emitted \o s
    PROVE  /\ DOMAIN Emitted' = 1 .. Len(Emitted) + Len(s) /\ Len(Emitted') = Len(Emitted) + Len(s)
           /\ \A i \in DOMAIN Emitted : i \in DOMAIN Emitted' /\ Emitted'[i] = Emitted[i]
           /\ \A i \in DOMAIN Emitted' : i \notin DOMAIN Emitted =>
                 i - Len(Emitted) \in 1 .. Len(s) /\ Emitted'[i] = s[i - Len(Emitted)]
           /\ \A i \in DOMAIN Emitted : i \in Begun' <=> i \in Begun
           /\ \A i : i \in Begun' => i \in DOMAIN Emitted'
           /\ \A i : i \in Begun => i \in DOMAIN Emitted
<1>1. Emitted \in Seq(Byte) /\ DOMAIN Emitted = 1 .. Len(Emitted) /\ Len(Emitted) \in Nat
    BY EmittedIs
<1>2. /\ DOMAIN Emitted' = 1 .. Len(Emitted) + Len(s) /\ Len(Emitted') = Len(Emitted) + Len(s)
      /\ \A i \in 1 .. Len(Emitted) : Emitted'[i] = Emitted[i]
      /\ \A n \in 1 .. Len(s) : Emitted'[Len(Emitted) + n] = s[n]
    BY <1>1, Joined
<1>3. Len(s) \in Nat
    OBVIOUS
<1>4. \A i \in DOMAIN Emitted : i \in DOMAIN Emitted' /\ Emitted'[i] = Emitted[i]
    BY <1>1, <1>2, <1>3
<1>5. ASSUME NEW i \in DOMAIN Emitted', i \notin DOMAIN Emitted
      PROVE  i - Len(Emitted) \in 1 .. Len(s) /\ Emitted'[i] = s[i - Len(Emitted)]
    <2>1. i - Len(Emitted) \in 1 .. Len(s) /\ i = Len(Emitted) + (i - Len(Emitted))
        BY <1>1, <1>2, <1>3, <1>5
    <2> QED BY <1>2, <2>1
<1>6. \A i \in DOMAIN Emitted : i \in Begun' <=> i \in Begun
    BY <1>4 DEF Begun
<1>7. /\ \A i : i \in Begun' => i \in DOMAIN Emitted'
      /\ \A i : i \in Begun => i \in DOMAIN Emitted
    BY DEF Begun
<1> QED BY <1>2, <1>4, <1>5, <1>6, <1>7

\* A byte of the host between two messages disturbs neither.
LEMMA HostByteAdds ==
    ASSUME Ring, PressesInOrder, Turn, NEW b \in UsbByte, Emitted' = Emitted \o <<b>>,
           Due' = Due, current_program' = current_program
    PROVE  PressesInOrder' /\ Turn'
<1>1. <<b>> \in Seq(Byte) /\ Len(<<b>>) = 1 /\ <<b>>[1] = b /\ b.msg = "usb"
    BY DEF Byte, UsbByte
<1>2. Len(Emitted) \in Nat /\ DOMAIN Emitted = 1 .. Len(Emitted)
    BY EmittedIs
<1>3. /\ DOMAIN Emitted' = 1 .. Len(Emitted) + 1 /\ Len(Emitted') = Len(Emitted) + 1
      /\ \A i \in DOMAIN Emitted : i \in DOMAIN Emitted' /\ Emitted'[i] = Emitted[i]
      /\ \A i \in DOMAIN Emitted' : i \notin DOMAIN Emitted =>
            i - Len(Emitted) \in 1 .. Len(<<b>>) /\ Emitted'[i] = <<b>>[i - Len(Emitted)]
      /\ \A i \in DOMAIN Emitted : i \in Begun' <=> i \in Begun
      /\ \A i : i \in Begun' => i \in DOMAIN Emitted'
      /\ \A i : i \in Begun => i \in DOMAIN Emitted
    BY <1>1, BegunGrows
<1>4. \A i \in DOMAIN Emitted' : i \notin DOMAIN Emitted => Emitted'[i].msg = "usb"
    BY <1>1, <1>2, <1>3
<1>5. Begun' = Begun
    <2>1. \A i : i \in Begun' => i \in DOMAIN Emitted
        BY <1>3, <1>4 DEF Begun
    <2> QED BY <1>3, <2>1
<1>6. ASSUME NEW i \in Begun, NEW n \in 1 .. LengthOf(Emitted[i].msg)
      PROVE  i + n - 1 <= Len(Emitted') /\ Emitted'[i + n - 1] = [Emitted[i] EXCEPT !.at = n]
    <2>1. i + n - 1 <= Len(Emitted) /\ Emitted[i + n - 1] = [Emitted[i] EXCEPT !.at = n]
        BY DEF PressesInOrder
    <2>2. i \in Nat \ {0} /\ n \in Nat \ {0}
        BY <1>2, <1>3
    <2>3. i + n - 1 \in DOMAIN Emitted
        BY <1>2, <2>1, <2>2
    <2> QED BY <1>2, <1>3, <2>1, <2>2, <2>3
<1>7. ASSUME NEW i \in DOMAIN Emitted', Emitted'[i].msg # "usb", Emitted'[i].at # 1
      PROVE  i > 1 /\ Emitted'[i - 1] = [Emitted'[i] EXCEPT !.at = @ - 1]
    <2>1. i \in DOMAIN Emitted /\ Emitted'[i] = Emitted[i]
        BY <1>3, <1>4, <1>7
    <2>2. i > 1 /\ Emitted[i - 1] = [Emitted[i] EXCEPT !.at = @ - 1]
        BY <1>7, <2>1 DEF PressesInOrder
    <2>3. i - 1 \in DOMAIN Emitted
        BY <1>2, <2>1, <2>2
    <2> QED BY <1>3, <2>1, <2>2, <2>3
<1>8. \A i \in Begun : Emitted'[i] = Emitted[i]
    BY <1>3
<1>9. PressesInOrder'
    <2>1. ASSUME NEW i \in Begun'
          PROVE  \A n \in 1 .. LengthOf(Emitted'[i].msg) :
                    i + n - 1 <= Len(Emitted') /\ Emitted'[i + n - 1] = [Emitted'[i] EXCEPT !.at = n]
        <3>1. i \in Begun /\ Emitted'[i] = Emitted[i]
            BY <1>5, <1>8, <2>1
        <3> QED BY <1>6, <3>1
    <2>2. ASSUME NEW i \in Begun'
          PROVE  IF \A k \in Begun' : i <= k THEN Emitted'[i].msg = "resync" /\ Emitted'[i].of = 0
                 ELSE \A k \in Begun' : k < i /\ (\A l \in Begun' : l <= k \/ i <= l) =>
                          ComesAfter(Emitted'[i], Emitted'[k])
        BY <1>5, <1>8 DEF PressesInOrder
    <2> QED BY <1>7, <2>2, <2>1 DEF PressesInOrder
<1>10. NextMessage' = NextMessage
    BY DEF NextMessage
<1>11. Turn'
    BY <1>5, <1>8, <1>10 DEF Turn
<1> QED BY <1>9, <1>11

\* The next message comes after all others, as a whole.
LEMMA MessageAdds ==
    ASSUME Ring, PressesInOrder, Turn,
           Emitted' = Emitted \o Message(Due, current_program, LengthOf(Due)),
           Due' \in Kinds, current_program' \in 0 .. MASTER_PROGRAMS - 1,
           ComesAfter(NextMessage', NextMessage)
    PROVE  PressesInOrder' /\ Turn'
<1> DEFINE s == Message(Due, current_program, LengthOf(Due))
<1>1. Due \in Kinds /\ current_program \in Nat /\ LengthOf(Due) \in Nat \ {0}
    BY Sizes DEF Turn
<1>2. /\ s \in Seq(UiByte) /\ Len(s) = LengthOf(Due)
      /\ \A i \in 1 .. LengthOf(Due) : s[i] = [msg |-> Due, of |-> current_program, at |-> i]
    BY <1>1, MessageIs
<1>3. s \in Seq(Byte)
    BY <1>2 DEF Byte
<1> HIDE DEF s
<1>4. Len(Emitted) \in Nat /\ DOMAIN Emitted = 1 .. Len(Emitted)
    BY EmittedIs
<1>5. /\ DOMAIN Emitted' = 1 .. Len(Emitted) + Len(s) /\ Len(Emitted') = Len(Emitted) + Len(s)
      /\ \A i \in DOMAIN Emitted : i \in DOMAIN Emitted' /\ Emitted'[i] = Emitted[i]
      /\ \A i \in DOMAIN Emitted' : i \notin DOMAIN Emitted =>
            i - Len(Emitted) \in 1 .. Len(s) /\ Emitted'[i] = s[i - Len(Emitted)]
      /\ \A i \in DOMAIN Emitted : i \in Begun' <=> i \in Begun
      /\ \A i : i \in Begun' => i \in DOMAIN Emitted'
      /\ \A i : i \in Begun => i \in DOMAIN Emitted
    BY <1>3, BegunGrows DEF s
<1> DEFINE new == Len(Emitted) + 1
<1>6. ASSUME NEW n \in 1 .. LengthOf(Due)
      PROVE  /\ Emitted'[Len(Emitted) + n] = [msg |-> Due, of |-> current_program, at |-> n]
             /\ Len(Emitted) + n \in DOMAIN Emitted'
    <2>1. Len(Emitted) + n \in DOMAIN Emitted' /\ Len(Emitted) + n \notin DOMAIN Emitted
          /\ Len(Emitted) + n - Len(Emitted) = n
        BY <1>1, <1>2, <1>4, <1>5
    <2> QED BY <1>2, <1>5, <2>1
<1>7. new \in DOMAIN Emitted' /\ new \notin DOMAIN Emitted /\ Emitted'[new] = NextMessage
    <2>1. 1 \in 1 .. LengthOf(Due)
        BY <1>1
    <2> QED BY <1>4, <1>6, <2>1 DEF NextMessage
<1>8. \A i : i \in Begun' <=> i \in Begun \/ i = new
    <2>1. ASSUME NEW i \in DOMAIN Emitted', i \notin DOMAIN Emitted
          PROVE  Emitted'[i].msg # "usb" /\ (Emitted'[i].at = 1 <=> i = new)
        <3>1. PICK n \in 1 .. LengthOf(Due) : n = i - Len(Emitted)
            BY <1>2, <1>5, <2>1
        <3>2. i = Len(Emitted) + n
            BY <1>1, <1>4, <1>5, <2>1, <3>1
        <3>3. Emitted'[i] = [msg |-> Due, of |-> current_program, at |-> n]
            BY <1>6, <3>2
        <3>4. Emitted'[i].msg = Due /\ Emitted'[i].at = n
            BY <3>3
        <3>5. n = 1 <=> i = new
            BY <1>1, <1>4, <3>2
        <3> QED BY <1>1, <3>5, <3>4 DEF Kinds
    <2>2. ASSUME NEW i \in Begun', i \notin DOMAIN Emitted
          PROVE  i = new
        BY <1>5, <2>1, <2>2 DEF Begun
    <2>3. new \in Begun'
        BY <1>7, <2>1 DEF Begun
    <2> QED BY <1>5, <2>2, <2>3
<1>9. ASSUME NEW i \in Begun
      PROVE  Emitted'[i] = Emitted[i] /\ i < new /\ i \in Nat /\ i \in DOMAIN Emitted
    BY <1>4, <1>5
<1>10. new \in Nat
    BY <1>4
<1> HIDE DEF new
<1>11. ASSUME NEW i \in Begun', NEW n \in 1 .. LengthOf(Emitted'[i].msg)
       PROVE  i + n - 1 <= Len(Emitted') /\ Emitted'[i + n - 1] = [Emitted'[i] EXCEPT !.at = n]
    <2>1. CASE i \in Begun
        <3>1. i + n - 1 <= Len(Emitted) /\ Emitted[i + n - 1] = [Emitted[i] EXCEPT !.at = n]
            BY <1>9, <2>1 DEF PressesInOrder
        <3>2. i \in Nat \ {0} /\ n \in Nat \ {0}
            BY <1>4, <1>9, <2>1
        <3>3. i + n - 1 \in DOMAIN Emitted
            BY <1>4, <3>1, <3>2
        <3>4. Emitted'[i + n - 1] = [Emitted'[i] EXCEPT !.at = n]
            BY <1>5, <1>9, <2>1, <3>1, <3>3
        <3> QED BY <1>1, <1>2, <1>4, <1>5, <3>1, <3>2, <3>4
    <2>2. CASE i = new
        <3>1. n \in 1 .. LengthOf(Due)
            BY <1>7, <2>2 DEF NextMessage
        <3>2. i + n - 1 = Len(Emitted) + n
            BY <1>1, <1>4, <2>2, <3>1 DEF new
        <3>3. Emitted'[i + n - 1] = [msg |-> Due, of |-> current_program, at |-> n]
            BY <1>6, <3>1, <3>2
        <3>4. Emitted'[i] = [msg |-> Due, of |-> current_program, at |-> 1]
            BY <1>7, <2>2 DEF NextMessage
        <3>5. [Emitted'[i] EXCEPT !.at = n] = [msg |-> Due, of |-> current_program, at |-> n]
            BY <3>4
        <3>6. i + n - 1 <= Len(Emitted')
            BY <1>1, <1>2, <1>4, <1>5, <3>1, <3>2
        <3> QED BY <3>3, <3>5, <3>6
    <2> QED BY <1>8, <2>1, <2>2
<1>12. ASSUME NEW i \in DOMAIN Emitted', Emitted'[i].msg # "usb", Emitted'[i].at # 1
       PROVE  i > 1 /\ Emitted'[i - 1] = [Emitted'[i] EXCEPT !.at = @ - 1]
    <2>1. CASE i \in DOMAIN Emitted
        <3>1. Emitted'[i] = Emitted[i]
            BY <1>5, <2>1
        <3>2. i > 1 /\ Emitted[i - 1] = [Emitted[i] EXCEPT !.at = @ - 1]
            BY <1>12, <2>1, <3>1 DEF PressesInOrder
        <3>3. i - 1 \in DOMAIN Emitted
            BY <1>4, <2>1, <3>2
        <3> QED BY <1>5, <3>1, <3>2, <3>3
    <2>2. CASE i \notin DOMAIN Emitted
        <3>1. PICK n \in 1 .. LengthOf(Due) : n = i - Len(Emitted)
            BY <1>2, <1>5, <2>2
        <3>2. i = Len(Emitted) + n
            BY <1>1, <1>4, <1>5, <3>1
        <3>3. Emitted'[i] = [msg |-> Due, of |-> current_program, at |-> n]
            BY <1>6, <3>2
        <3>4. n # 1
            BY <1>12, <3>3
        <3>5. n - 1 \in 1 .. LengthOf(Due) /\ i - 1 = Len(Emitted) + (n - 1) /\ i > 1
            BY <1>1, <1>4, <3>2, <3>4
        <3>6. Emitted'[i - 1] = [msg |-> Due, of |-> current_program, at |-> n - 1]
            BY <1>6, <3>5
        <3>7. [Emitted'[i] EXCEPT !.at = @ - 1] = [msg |-> Due, of |-> current_program, at |-> n - 1]
            BY <3>3
        <3> QED BY <3>5, <3>6, <3>7
    <2> QED BY <2>1, <2>2
<1>13. ASSUME NEW i \in Begun', \A k \in Begun' : i <= k
       PROVE  Emitted'[i].msg = "resync" /\ Emitted'[i].of = 0
    <2>1. CASE i \in Begun
        <3>1. \A k \in Begun : i <= k
            BY <1>8, <1>13
        <3> QED BY <1>9, <2>1, <3>1 DEF PressesInOrder
    <2>2. CASE i = new
        <3>1. Begun = {}
            <4>1. ASSUME NEW k \in Begun PROVE FALSE
                BY <1>8, <1>9, <1>10, <1>13, <2>2
            <4> QED BY <4>1
        <3> QED BY <1>7, <2>2, <3>1 DEF Turn, NextMessage
    <2> QED BY <1>8, <2>1, <2>2
<1>14. ASSUME NEW i \in Begun', NEW k \in Begun', k < i, \A l \in Begun' : l <= k \/ i <= l
       PROVE  ComesAfter(Emitted'[i], Emitted'[k])
    <2>1. CASE i \in Begun
        <3>1. k \in Begun
            BY <1>8, <1>9, <1>10, <1>14, <2>1
        <3>2. ~ \A j \in Begun : i <= j
            BY <1>9, <1>14, <2>1, <3>1
        <3>3. \A l \in Begun : l <= k \/ i <= l
            BY <1>8, <1>14
        <3>4. ComesAfter(Emitted[i], Emitted[k])
            BY <1>14, <2>1, <3>1, <3>2, <3>3 DEF PressesInOrder
        <3> QED BY <1>9, <2>1, <3>1, <3>4
    <2>2. CASE i = new
        <3>1. k \in Begun
            BY <1>8, <1>10, <1>14, <2>2
        <3>2. \A l \in Begun : l <= k
            BY <1>8, <1>9, <1>10, <1>14, <2>2
        <3>3. ComesAfter(NextMessage, Emitted[k])
            BY <3>1, <3>2 DEF Turn
        <3> QED BY <1>7, <1>9, <2>2, <3>1, <3>3
    <2> QED BY <1>8, <2>1, <2>2
<1>15. PressesInOrder'
    <2>1. ASSUME NEW i \in Begun'
          PROVE  IF \A k \in Begun' : i <= k THEN Emitted'[i].msg = "resync" /\ Emitted'[i].of = 0
                 ELSE \A k \in Begun' : k < i /\ (\A l \in Begun' : l <= k \/ i <= l) =>
                          ComesAfter(Emitted'[i], Emitted'[k])
        BY <1>13, <1>14
    <2> QED BY <1>11, <1>12, <2>1 DEF PressesInOrder
<1>16. Turn'
    <2>1. ASSUME NEW i \in Begun', \A k \in Begun' : k <= i
          PROVE  ComesAfter(NextMessage', Emitted'[i])
        <3>1. new <= i
            BY <1>8, <2>1
        <3>2. i = new
            BY <1>8, <1>9, <1>10, <2>1, <3>1
        <3> QED BY <1>7, <3>2
    <2>2. Begun' # {}
        BY <1>8
    <2> QED BY <2>1, <2>2 DEF Turn
<1> QED BY <1>15, <1>16

\* Nothing is added.
LEMMA NoByteAdds ==
    ASSUME PressesInOrder, Turn, Emitted' = Emitted, Due' = Due, current_program' = current_program
    PROVE  PressesInOrder' /\ Turn'
<1>1. Begun' = Begun
    BY DEF Begun
<1>2. PressesInOrder'
    BY <1>1 DEF PressesInOrder
<1>3. NextMessage' = NextMessage
    BY DEF NextMessage
<1> QED BY <1>1, <1>2, <1>3 DEF Turn

-----------------------------------------------------------------------------
(* The bytes of the host in the ring *)

LEMMA BridgeSame ==
    ASSUME Bridge, SetUp, Account, UNCHANGED usbVars
    PROVE  Bridge' /\ SetUp' /\ Account'
<1> USE DEF usbVars, hostVars, driverVars, bridgeVars
<1>1. Bridge'
    BY DEF Bridge
<1>2. SetUp'
    BY DEF SetUp, UnderWay
<1>3. Account'
    BY DEF Account, Accepted, UnderWay
<1> QED BY <1>1, <1>2, <1>3

\* Where other bytes are added, those of the host stay where they are.
LEMMA OthersKeep ==
    ASSUME Ring, Transfer, UNCHANGED usbVars,
           \A i \in DOMAIN Emitted : i \in DOMAIN Emitted' /\ Emitted'[i] = Emitted[i],
           \A i \in DOMAIN Emitted' : i \notin DOMAIN Emitted => Emitted'[i].msg # "usb"
    PROVE  Transfer'
<1>1. Places /\ Bridge /\ SetUp /\ Account /\ AsSent /\ Succeeded
    BY DEF Transfer
<1>2. /\ passed' = passed /\ stage' = stage /\ transfers' = transfers /\ length' = length /\ sent' = sent
      /\ repeated' = repeated /\ outcome' = outcome /\ usbRx' = usbRx /\ usbMsgFlags' = usbMsgFlags
      /\ usb_thread' = usb_thread /\ rest' = rest
    BY DEF usbVars, hostVars, driverVars, bridgeVars
<1>3. \A n \in 1 .. Len(passed) : passed[n] \in DOMAIN Emitted /\ Emitted'[passed[n]] = Emitted[passed[n]]
    BY <1>1 DEF Places
<1>4. Places'
    <2>1. \A n \in 1 .. Len(passed) : passed[n] \in DOMAIN Emitted' /\ Emitted'[passed[n]].msg = "usb"
        BY <1>1, <1>3 DEF Places
    <2>2. ASSUME NEW n \in 1 .. Len(passed), NEW i \in DOMAIN Emitted', i > passed[n], Emitted'[i].msg = "usb"
          PROVE  \E m \in n .. Len(passed) : i = passed[m]
        <3>1. i \in DOMAIN Emitted /\ Emitted[i].msg = "usb"
            BY <2>2
        <3> QED BY <1>1, <2>2, <3>1 DEF Places
    <2>3. passed \in Seq(Nat) /\ \A n \in 1 .. Len(passed) - 1 : passed[n] < passed[n + 1]
        BY <1>1 DEF Places
    <2> QED BY <1>2, <2>1, <2>2, <2>3 DEF Places
<1>5. AsSent'
    <2> SUFFICES ASSUME Accepted', ~repeated', usbMsgFlags'
                 PROVE  /\ \A n \in 1 .. Len(passed) : Emitted'[passed[n]] = Place(n)'
                        /\ \A n \in 1 .. Len(rest) : rest[n] = Place(Len(passed) + n)'
                        /\ IF Waiting'
                           THEN /\ Len(passed) + Len(usbRx.data) = sent
                                /\ \A n \in 1 .. Len(usbRx.data) : usbRx.data[n] = Place(Len(passed) + n)'
                           ELSE Len(passed) + Len(rest) = sent
        BY <1>2 DEF AsSent
    <2>1. Accepted /\ ~repeated /\ usbMsgFlags /\ (Waiting' <=> Waiting)
        BY <1>2 DEF Accepted, UnderWay, Waiting
    <2>2. \A n : Place(n)' = Place(n)
        BY <1>2 DEF Place
    <2>3. /\ \A n \in 1 .. Len(passed) : Emitted[passed[n]] = Place(n)
          /\ \A n \in 1 .. Len(rest) : rest[n] = Place(Len(passed) + n)
          /\ IF Waiting
             THEN /\ Len(passed) + Len(usbRx.data) = sent
                  /\ \A n \in 1 .. Len(usbRx.data) : usbRx.data[n] = Place(Len(passed) + n)
             ELSE Len(passed) + Len(rest) = sent
        BY <1>1, <2>1 DEF AsSent
    <2>4. \A n \in 1 .. Len(passed) : Emitted'[passed[n]] = Place(n)'
        BY <1>3, <2>2, <2>3
    <2>5. \A n \in 1 .. Len(rest) : rest[n] = Place(Len(passed) + n)'
        BY <1>2, <2>2, <2>3
    <2>6. CASE Waiting
        <3>1. /\ Len(passed) + Len(usbRx.data) = sent
              /\ \A n \in 1 .. Len(usbRx.data) : usbRx.data[n] = Place(Len(passed) + n)'
            BY <1>2, <2>2, <2>3, <2>6
        <3> QED BY <2>1, <2>4, <2>5, <2>6, <3>1
    <2>7. CASE ~Waiting
        BY <2>1, <2>3, <2>4, <2>5, <2>7
    <2> QED BY <2>6, <2>7
<1>6. Succeeded'
    <2>1. \A n : Place(n)' = Place(n)
        BY <1>2 DEF Place
    <2> QED BY <1>1, <1>2, <1>3, <2>1 DEF Succeeded
<1> QED BY <1>1, <1>4, <1>5, <1>6, BridgeSame DEF Transfer

LEMMA PlacesSame ==
    ASSUME Places, Emitted' = Emitted, passed' = passed
    PROVE  Places'
BY DEF Places

\* usbFunctionWrite puts a byte behind all others.
LEMMA PlaceAdds ==
    ASSUME Ring, Places, NEW b \in UsbByte, Emitted' = Emitted \o <<b>>,
           passed' = Append(passed, Len(Emitted) + 1)
    PROVE  /\ Places' /\ Len(passed') = Len(passed) + 1
           /\ \A n \in 1 .. Len(passed) : Emitted'[passed'[n]] = Emitted[passed[n]]
           /\ Emitted'[passed'[Len(passed) + 1]] = b
<1>1. Len(Emitted) \in Nat /\ DOMAIN Emitted = 1 .. Len(Emitted) /\ Emitted \in Seq(Byte)
    BY EmittedIs
<1>2. <<b>> \in Seq(Byte) /\ Len(<<b>>) = 1 /\ <<b>>[1] = b /\ b.msg = "usb"
    BY DEF Byte, UsbByte
<1>3. /\ DOMAIN Emitted' = 1 .. Len(Emitted) + 1
      /\ \A i \in 1 .. Len(Emitted) : Emitted'[i] = Emitted[i]
      /\ Emitted'[Len(Emitted) + 1] = b
    <2>1. /\ DOMAIN Emitted' = 1 .. Len(Emitted) + Len(<<b>>)
          /\ \A i \in 1 .. Len(Emitted) : Emitted'[i] = Emitted[i]
          /\ \A n \in 1 .. Len(<<b>>) : Emitted'[Len(Emitted) + n] = <<b>>[n]
        BY <1>1, <1>2, Joined
    <2>2. 1 \in 1 .. Len(<<b>>)
        BY <1>2
    <2> QED BY <1>2, <2>1, <2>2
<1>4. passed \in Seq(Nat) /\ Len(passed) \in Nat
    BY DEF Places
<1>5. /\ passed' \in Seq(Nat) /\ Len(passed') = Len(passed) + 1
      /\ \A n \in 1 .. Len(passed) : passed'[n] = passed[n]
      /\ passed'[Len(passed) + 1] = Len(Emitted) + 1
    BY <1>1, <1>4
<1>6. \A n \in 1 .. Len(passed) : passed[n] \in 1 .. Len(Emitted) /\ Emitted[passed[n]].msg = "usb"
    BY <1>1 DEF Places
<1>7. \A n \in 1 .. Len(passed) : Emitted'[passed'[n]] = Emitted[passed[n]]
    BY <1>3, <1>5, <1>6
<1>8. Emitted'[passed'[Len(passed) + 1]] = b
    BY <1>3, <1>5
<1>9. ASSUME NEW n \in 1 .. Len(passed')
      PROVE  passed'[n] \in DOMAIN Emitted' /\ Emitted'[passed'[n]].msg = "usb"
    <2>1. CASE n \in 1 .. Len(passed)
        BY <1>1, <1>3, <1>5, <1>6, <1>7, <2>1
    <2>2. CASE n = Len(passed) + 1
        BY <1>1, <1>2, <1>3, <1>5, <1>8, <2>2
    <2> QED BY <1>4, <1>5, <2>1, <2>2
<1>10. ASSUME NEW n \in 1 .. Len(passed') - 1
       PROVE  passed'[n] < passed'[n + 1]
    <2>1. CASE n \in 1 .. Len(passed) - 1
        <3>1. passed[n] < passed[n + 1] /\ n \in 1 .. Len(passed) /\ n + 1 \in 1 .. Len(passed)
            BY <1>4, <2>1 DEF Places
        <3> QED BY <1>5, <3>1
    <2>2. CASE n = Len(passed)
        <3>1. passed'[n] \in 1 .. Len(Emitted) /\ passed'[n + 1] = Len(Emitted) + 1
            BY <1>4, <1>5, <1>6, <1>10, <2>2
        <3> QED BY <1>1, <3>1
    <2> QED BY <1>4, <1>5, <2>1, <2>2
<1>11. ASSUME NEW n \in 1 .. Len(passed'), NEW i \in DOMAIN Emitted', i > passed'[n], Emitted'[i].msg = "usb"
       PROVE  \E m \in n .. Len(passed') : i = passed'[m]
    <2>1. CASE i = Len(Emitted) + 1
        <3>1. Len(passed') \in n .. Len(passed') /\ i = passed'[Len(passed')]
            BY <1>4, <1>5, <2>1
        <3> QED BY <3>1
    <2>2. CASE i # Len(Emitted) + 1
        <3>1. i \in 1 .. Len(Emitted)
            BY <1>1, <1>3, <2>2
        <3>2. n \in 1 .. Len(passed)
            BY <1>1, <1>4, <1>5, <1>11, <3>1
        <3>3. i \in DOMAIN Emitted /\ i > passed[n] /\ Emitted[i].msg = "usb"
            BY <1>1, <1>3, <1>5, <1>11, <3>1, <3>2
        <3>4. PICK m \in n .. Len(passed) : i = passed[m]
            BY <3>2, <3>3 DEF Places
        <3>5. m \in n .. Len(passed') /\ passed'[m] = passed[m]
            BY <1>4, <1>5, <3>2
        <3> QED BY <3>4, <3>5
    <2> QED BY <2>1, <2>2
<1>12. Places'
    BY <1>5, <1>9, <1>10, <1>11 DEF Places
<1> QED BY <1>5, <1>7, <1>8, <1>12

-----------------------------------------------------------------------------
(* The steps of a transfer *)

LEMMA TransferIs ==
    Transfer <=> Places /\ Bridge /\ SetUp /\ Account /\ AsSent /\ Succeeded
BY DEF Transfer

\* A packet has a token, and the content that goes with it.
LEMMA PacketIs ==
    ASSUME NEW p \in Packet
    PROVE  /\ p.token \in {"none", "setup", "out"}
           /\ p.token = "setup" => p.wLength \in Nat
           /\ p.token = "out" => p.data \in Seq(UsbByte)
           /\ p.token # "none" => p # NoPacket
BY DEF Packet, NoPacket

LEMMA NoPacketIs == NoPacket \in Packet /\ NoPacket.token = "none"
BY DEF NoPacket, Packet

\* The bytes of a data packet.
LEMMA ChunkIs ==
    ASSUME Bridge
    PROVE  LET chunk == SubSeq(Data(transfers, length), sent + 1, ChunkEnd)
           IN  /\ ChunkEnd \in sent .. length
               /\ chunk \in Seq(UsbByte) /\ Len(chunk) = ChunkEnd - sent
               /\ \A n \in 1 .. Len(chunk) : chunk[n] = Place(sent + n)
<1> DEFINE all == Data(transfers, length)
           chunk == SubSeq(all, sent + 1, ChunkEnd)
<1>1. length \in Nat /\ sent \in Nat /\ sent <= length /\ transfers \in Nat
    BY DEF Bridge
<1>2. ChunkEnd \in sent .. length
    BY <1>1, UsbAssumption DEF ChunkEnd
<1>3. all \in Seq(UsbByte) /\ Len(all) = length /\ \A n \in 1 .. length : all[n] = Place(n)
    BY <1>1 DEF Data, Message, UsbByte, Place
<1> HIDE DEF all
<1>4. chunk \in Seq(UsbByte) /\ Len(chunk) = ChunkEnd - sent
    BY <1>1, <1>2, <1>3
<1>5. ASSUME NEW n \in 1 .. Len(chunk)
      PROVE  chunk[n] = Place(sent + n)
    <2>1. chunk[n] = all[sent + n] /\ sent + n \in 1 .. length
        BY <1>1, <1>2, <1>3, <1>4
    <2> QED BY <1>3, <2>1
<1> QED BY <1>2, <1>4, <1>5 DEF all

LEMMA BeginKeeps ==
    ASSUME Ring, Transfer, Begin, Emitted' = Emitted
    PROVE  Transfer'
<1>1. Places /\ Bridge
    BY TransferIs
<1>2. PICK n \in Lengths :
         /\ transfers' = transfers + 1 /\ length' = n /\ sent' = 0
         /\ stage' = "setup" /\ outcome' = "open" /\ repeated' = FALSE
         /\ UNCHANGED <<driverVars, bridgeVars>>
    BY DEF Begin
<1>3. Places'
    BY <1>1, <1>2, PlacesSame DEF bridgeVars
<1>4. Bridge'
    <2>1. length' \in Nat /\ sent' \in 0 .. length'
        BY <1>2, UsbAssumption
    <2>2. transfers \in Nat
        BY <1>1 DEF Bridge
    <2>3. transfers' = transfers + 1
        BY <1>2
    <2>4. transfers' \in Nat
        BY <2>2, <2>3
    <2>5. repeated' \in BOOLEAN
        BY <1>2
    <2> QED BY <1>1, <1>2, <2>1, <2>4, <2>5 DEF Bridge, driverVars, bridgeVars
<1>5. SetUp' /\ Account' /\ AsSent' /\ Succeeded'
    BY <1>2 DEF SetUp, Account, AsSent, Succeeded, Accepted, UnderWay
<1> QED BY <1>3, <1>4, <1>5 DEF Transfer

LEMMA SetupPacketKeeps ==
    ASSUME Ring, Transfer, SetupPacket, Emitted' = Emitted
    PROVE  Transfer'
<1>1. Places /\ Bridge /\ SetUp /\ Succeeded
    BY TransferIs
<1>2. /\ stage = "setup" /\ usbRx = NoPacket
      /\ usbRx' = [token |-> "setup", wLength |-> length]
      /\ stage' \in {"setup", "data", "status"} /\ repeated' \in BOOLEAN
      /\ UNCHANGED <<transfers, length, sent, outcome, usbTxLen, usbMsgLen, usbMsgFlags>>
      /\ UNCHANGED bridgeVars
    BY <1>1 DEF SetupPacket, Deliver, Acknowledged, AckLost, Bridge
<1>3. Places'
    BY <1>1, <1>2, PlacesSame DEF bridgeVars
<1>4. usb_thread # "write" /\ rest = <<>>
    BY <1>1, <1>2, NoPacketIs DEF Bridge
<1>5. usbRx' \in Packet /\ usbRx'.token = "setup" /\ usbRx'.wLength = length
    BY <1>1, <1>2 DEF Bridge, Packet
<1>6. Bridge'
    BY <1>1, <1>2, <1>4, <1>5 DEF Bridge, bridgeVars
<1>7. SetUp'
    BY <1>1, <1>2, <1>5 DEF SetUp
<1>8. Account' /\ AsSent'
    BY <1>5 DEF Account, AsSent, Accepted
<1>9. Succeeded'
    BY <1>1, <1>2 DEF Succeeded
<1> QED BY <1>3, <1>6, <1>7, <1>8, <1>9 DEF Transfer

LEMMA DataPacketKeeps ==
    ASSUME Ring, Transfer, DataPacket, Emitted' = Emitted
    PROVE  Transfer'
<1> DEFINE chunk == SubSeq(Data(transfers, length), sent + 1, ChunkEnd)
<1>1. Places /\ Bridge /\ SetUp /\ Account /\ AsSent /\ Succeeded
    BY TransferIs
<1>2. /\ ChunkEnd \in sent .. length
      /\ chunk \in Seq(UsbByte) /\ Len(chunk) = ChunkEnd - sent
      /\ \A n \in 1 .. Len(chunk) : chunk[n] = Place(sent + n)
    BY <1>1, ChunkIs
<1>3. /\ stage = "data" /\ usbRx = NoPacket
      /\ usbRx' = [token |-> "out", data |-> chunk]
      /\ \/ repeated' = repeated /\ sent' = ChunkEnd /\ stage' \in {"data", "status"}
         \/ repeated' = TRUE /\ sent' = sent /\ stage' = stage
      /\ UNCHANGED <<transfers, length, outcome, usbTxLen, usbMsgLen, usbMsgFlags>>
      /\ UNCHANGED bridgeVars
    BY DEF DataPacket, Deliver, Acknowledged, AckLost
<1>4. usb_thread # "write" /\ rest = <<>> /\ usbRx.token = "none"
    BY <1>1, <1>3, NoPacketIs DEF Bridge
<1>5. usbRx' \in Packet /\ usbRx'.token = "out" /\ usbRx'.data = chunk
    BY <1>2, <1>3 DEF Packet
<1> HIDE DEF chunk
<1>6. Places'
    BY <1>1, <1>3, PlacesSame DEF bridgeVars
<1>7. Bridge'
    <2>1. sent \in 0 .. length /\ length \in Nat
        BY <1>1 DEF Bridge
    <2>2. sent' \in 0 .. length
        BY <1>2, <1>3, <2>1
    <2>3. repeated' \in BOOLEAN /\ stage' \in {"data", "status"}
        BY <1>1, <1>3 DEF Bridge
    <2> QED BY <1>1, <1>3, <1>4, <1>5, <2>2, <2>3 DEF Bridge, bridgeVars
<1>8. SetUp'
    BY <1>3, <1>5 DEF SetUp
<1>9. Accepted
    BY <1>3, <1>4 DEF Accepted, UnderWay
<1>10. Account'
    BY <1>1, <1>3, <1>9 DEF Account, bridgeVars
<1>11. AsSent'
    <2> SUFFICES ASSUME ~repeated', usbMsgFlags
                 PROVE  /\ \A n \in 1 .. Len(passed) : Emitted[passed[n]] = Place(n)
                        /\ \A n \in 1 .. Len(rest) : rest[n] = Place(Len(passed) + n)
                        /\ Len(passed) + Len(chunk) = sent'
                        /\ \A n \in 1 .. Len(chunk) : chunk[n] = Place(Len(passed) + n)
        BY <1>3, <1>4, <1>5 DEF AsSent, bridgeVars, Waiting, Place
    <2>1. ~repeated /\ sent' = ChunkEnd
        BY <1>3
    <2>2. /\ \A n \in 1 .. Len(passed) : Emitted[passed[n]] = Place(n)
          /\ \A n \in 1 .. Len(rest) : rest[n] = Place(Len(passed) + n)
          /\ Len(passed) + Len(rest) = sent
        BY <1>1, <1>4, <1>9, <2>1 DEF AsSent, Waiting
    <2>3. Len(passed) = sent
        BY <1>1, <1>4, <2>2 DEF Places
    <2>4. sent \in Nat
        BY <1>1 DEF Bridge
    <2> QED BY <1>2, <2>1, <2>2, <2>3, <2>4
<1>12. Succeeded'
    BY <1>1, <1>3 DEF Succeeded
<1> QED BY <1>6, <1>7, <1>8, <1>10, <1>11, <1>12 DEF Transfer

\* The host takes for a success what is one.
LEMMA StatusKeeps ==
    ASSUME Ring, Transfer, Status, Emitted' = Emitted
    PROVE  Transfer'
<1>1. Places /\ Bridge /\ SetUp /\ Account /\ AsSent /\ Succeeded
    BY TransferIs
<1>2. /\ stage = "status" /\ usbRx = NoPacket /\ stage' = "idle"
      /\ outcome' = IF usbTxLen = 0 THEN "ok" ELSE "failed"
      /\ usbTxLen' \in {STALL, NAK}
      /\ UNCHANGED <<transfers, length, sent, repeated, usbRx, usbMsgLen, usbMsgFlags>>
      /\ UNCHANGED bridgeVars
    BY DEF Status
<1>3. usb_thread # "write" /\ rest = <<>> /\ usbRx.token = "none"
    BY <1>1, <1>2, NoPacketIs DEF Bridge
<1>4. Places'
    BY <1>1, <1>2, PlacesSame DEF bridgeVars
<1>5. Bridge'
    BY <1>1, <1>2 DEF Bridge, bridgeVars
<1>6. SetUp' /\ Account' /\ AsSent'
    BY <1>2 DEF SetUp, Account, AsSent, Accepted, UnderWay
<1>7. Accepted
    BY <1>2, <1>3 DEF Accepted, UnderWay
<1>8. ASSUME usbTxLen = 0
      PROVE  /\ Len(passed) = length
             /\ ~repeated => \A n \in 1 .. length : Emitted[passed[n]] = Place(n)
    <2>1. CASE usbMsgFlags
        <3>1. Len(passed) + Len(rest) + bytes_remaining = length /\ bytes_remaining = 0
            BY <1>1, <1>7, <1>8, <2>1 DEF Account
        <3>2. Len(passed) = length
            BY <1>1, <1>3, <3>1 DEF Places
        <3>3. ~repeated => \A n \in 1 .. Len(passed) : Emitted[passed[n]] = Place(n)
            BY <1>1, <1>7, <2>1 DEF AsSent
        <3> QED BY <3>2, <3>3
    <2>2. CASE ~usbMsgFlags
        <3>1. passed = <<>> /\ length = 0
            BY <1>1, <1>7, <1>8, <2>2 DEF Account
        <3> QED BY <3>1
    <2> QED BY <2>1, <2>2
<1>9. Succeeded'
    BY <1>2, <1>3, <1>8 DEF Succeeded, Place, bridgeVars
<1> QED BY <1>4, <1>5, <1>6, <1>9 DEF Transfer

LEMMA GiveUpKeeps ==
    ASSUME Ring, Transfer, GiveUp, Emitted' = Emitted
    PROVE  Transfer'
<1>1. Places /\ Bridge
    BY TransferIs
<1>2. /\ stage' = "idle" /\ outcome' = "failed"
      /\ UNCHANGED <<transfers, length, sent, repeated>> /\ UNCHANGED <<driverVars, bridgeVars>>
    BY DEF GiveUp
<1>3. Places'
    BY <1>1, <1>2, PlacesSame DEF bridgeVars
<1>4. Bridge'
    BY <1>1, <1>2 DEF Bridge, driverVars, bridgeVars
<1>5. SetUp' /\ Account' /\ AsSent' /\ Succeeded'
    BY <1>2 DEF SetUp, Account, AsSent, Succeeded, Accepted, UnderWay
<1> QED BY <1>3, <1>4, <1>5 DEF Transfer

LEMMA ProcessSetupKeeps ==
    ASSUME Ring, Transfer, ProcessSetup, Emitted' = Emitted, UNCHANGED hostVars
    PROVE  Transfer'
<1>1. Places /\ Bridge /\ SetUp /\ Account /\ AsSent /\ Succeeded
    BY TransferIs
<1> DEFINE n == usbRx.wLength
<1>2. /\ usb_thread = "poll" /\ usbRx.token = "setup"
      /\ usbTxLen' = NAK /\ usbMsgLen' = ReplyLength(n)
      /\ usbMsgFlags' = (ReplyLength(n) = NO_MSG)
      /\ bytes_remaining' = IF ReplyLength(n) = NO_MSG THEN n ELSE bytes_remaining
      /\ passed' = <<>> /\ usbRx' = NoPacket /\ usb_thread' = "answer" /\ rest' = rest
    BY DEF ProcessSetup
<1>3. UNCHANGED <<stage, transfers, length, sent, repeated, outcome>>
    BY DEF hostVars
<1>3a. usbMsgFlags' <=> ReplyLength(n) = NO_MSG
    BY <1>2
<1>4. n \in Nat /\ usbRx # NoPacket
    BY <1>1, <1>2, PacketIs DEF Bridge
<1>5. rest = <<>> /\ length \in Nat /\ LIMIT \in Nat
    BY <1>1, <1>2, UsbAssumption DEF Bridge
<1> HIDE DEF n
<1>6. /\ ReplyLength(n) \in {NO_MSG, 0, 1}
      /\ ReplyLength(n) = NO_MSG <=> 0 < n /\ n < LIMIT
      /\ ReplyLength(n) = 0 <=> n = 0
    BY <1>4, <1>5 DEF ReplyLength, NO_MSG
<1>7. Places'
    BY <1>2 DEF Places
<1>8. Bridge'
    <2>1. bytes_remaining' \in Nat /\ usbMsgFlags' \in BOOLEAN /\ rest' = <<>>
        BY <1>1, <1>2, <1>4, <1>5 DEF Bridge
    <2> QED BY <1>1, <1>2, <1>3, <1>6, <2>1, NoPacketIs DEF Bridge
<1>9. SetUp'
    BY <1>1, <1>2, <1>3, NoPacketIs DEF SetUp, UnderWay
<1>10. UnderWay' => n = length /\ sent = 0
    BY <1>1, <1>2, <1>3 DEF SetUp, UnderWay, n
<1>11. Account'
    <2> SUFFICES ASSUME UnderWay' PROVE Account'
        BY DEF Account, Accepted
    <2>1. usbMsgFlags' <=> 0 < length' /\ length' < LIMIT
        BY <1>2, <1>3, <1>6, <1>10
    <2>2. Len(passed') = 0 /\ Len(rest') = 0
        BY <1>2, <1>5
    <2>3. ReplyLength(n) = NO_MSG => Len(passed') + Len(rest') + bytes_remaining' = length'
        <3>1. ReplyLength(n) = NO_MSG => bytes_remaining' = length'
            BY <1>2, <1>3, <1>10
        <3> QED BY <1>3, <1>5, <2>2, <3>1
    <2>4. usbTxLen' # 0 /\ (ReplyLength(n) = NO_MSG => usbMsgLen' # 0)
        <3>1. usbTxLen' = NAK /\ usbMsgLen' = ReplyLength(n)
            BY <1>2
        <3> QED BY <3>1 DEF NAK, NO_MSG
    <2>5. ~usbMsgFlags' => length' = 0 \/ usbMsgLen' # 0
        BY <1>2, <1>3, <1>6, <1>10
    <2> QED BY <1>3a, <1>2, <2>1, <2>3, <2>4, <2>5 DEF Account
<1>12. AsSent'
    <2> SUFFICES ASSUME UnderWay' PROVE AsSent'
        BY DEF AsSent, Accepted
    <2>1. Len(passed') = 0 /\ Len(rest') = 0 /\ sent' = 0
        BY <1>2, <1>3, <1>5, <1>10
    <2>2. ~Waiting'
        BY <1>2, NoPacketIs DEF Waiting
    <2> QED BY <2>1, <2>2 DEF AsSent
<1>13. Succeeded'
    BY <1>1, <1>3, <1>4 DEF Succeeded
<1> QED BY <1>7, <1>8, <1>9, <1>11, <1>12, <1>13 DEF Transfer

LEMMA ProcessDataKeeps ==
    ASSUME Ring, Transfer, ProcessData, Emitted' = Emitted, UNCHANGED hostVars
    PROVE  Transfer'
<1>1. Places /\ Bridge /\ SetUp /\ Account /\ AsSent /\ Succeeded
    BY TransferIs
<1> DEFINE data == usbRx.data
           n == Limited(Len(data))
<1>2. /\ usb_thread = "poll" /\ usbRx.token = "out"
      /\ IF usbMsgFlags
         THEN /\ bytes_remaining' = bytes_remaining - n
              /\ rest' = SubSeq(data, 1, n) /\ usb_thread' = "write" /\ usbRx' = usbRx
         ELSE /\ usbRx' = NoPacket /\ usb_thread' = "answer"
              /\ UNCHANGED <<bytes_remaining, rest>>
      /\ UNCHANGED <<usbTxLen, usbMsgLen, usbMsgFlags, passed>>
    BY DEF ProcessData
<1>3. UNCHANGED <<stage, transfers, length, sent, repeated, outcome>>
    BY DEF hostVars
<1>4. data \in Seq(UsbByte) /\ usbRx # NoPacket
    BY <1>1, <1>2, PacketIs DEF Bridge
<1>5. rest = <<>> /\ bytes_remaining \in Nat /\ Len(passed) \in Nat
    BY <1>1, <1>2 DEF Bridge, Places
<1> HIDE DEF data
<1>6. n \in 0 .. Len(data) /\ n <= bytes_remaining /\ (Len(data) <= bytes_remaining => n = Len(data))
    BY <1>4, <1>5 DEF Limited
<1> HIDE DEF n
<1>7. LET some == SubSeq(data, 1, n)
      IN  some \in Seq(UsbByte) /\ Len(some) = n /\ \A k \in 1 .. n : some[k] = data[k]
    BY <1>4, <1>6
<1>3a. usbMsgFlags => bytes_remaining' = bytes_remaining - n /\ rest' = SubSeq(data, 1, n)
    BY <1>2
<1>8. Places'
    BY <1>1, <1>2, PlacesSame
<1>9. Bridge'
    <2>1. CASE usbMsgFlags
        <3>1. bytes_remaining' \in Nat /\ rest' \in Seq(UsbByte)
            <4>1. bytes_remaining' = bytes_remaining - n /\ rest' = SubSeq(data, 1, n)
                BY <1>3a, <2>1
            <4> QED BY <1>5, <1>6, <1>7, <4>1
        <3> QED BY <1>1, <1>2, <1>3, <2>1, <3>1 DEF Bridge
    <2>2. CASE ~usbMsgFlags
        BY <1>1, <1>2, <1>3, <1>5, <2>2, NoPacketIs DEF Bridge
    <2> QED BY <2>1, <2>2
<1>10. usbRx'.token # "setup" /\ (usbMsgFlags => ~Waiting')
    BY <1>2, NoPacketIs DEF Waiting
<1>11. SetUp'
    BY <1>1, <1>3, <1>10 DEF SetUp
<1>12. Accepted' => Accepted
    BY <1>2, <1>3 DEF Accepted, UnderWay
<1>13. Account'
    <2> SUFFICES ASSUME Accepted PROVE Account'
        BY <1>12 DEF Account
    <2>1. CASE usbMsgFlags
        <3>1. Len(passed) + bytes_remaining = length
            BY <1>1, <1>5, <2>1 DEF Account
        <3>2. Len(passed') + Len(rest') + bytes_remaining' = length'
            <4>1. bytes_remaining' = bytes_remaining - n /\ Len(rest') = n
                BY <1>3a, <1>7, <2>1
            <4>2. passed' = passed /\ length' = length
                BY <1>2, <1>3
            <4> QED BY <1>5, <1>6, <3>1, <4>1, <4>2
        <3>3. usbMsgLen = 0 \/ usbTxLen = 0 => bytes_remaining = 0
            BY <1>1, <2>1 DEF Account
        <3>4. bytes_remaining = 0 => bytes_remaining' = 0 /\ rest' = <<>>
            BY <1>2, <1>4, <1>6, <1>7, <2>1
        <3>5. usbMsgFlags' <=> 0 < length' /\ length' < LIMIT
            BY <1>1, <1>2, <1>3 DEF Account
        <3> QED BY <1>2, <2>1, <3>2, <3>3, <3>4, <3>5 DEF Account
    <2>2. CASE ~usbMsgFlags
        BY <1>1, <1>2, <1>3, <2>2 DEF Account
    <2> QED BY <2>1, <2>2
<1>14. AsSent'
    <2> SUFFICES ASSUME Accepted, ~repeated, usbMsgFlags PROVE AsSent'
        BY <1>2, <1>3, <1>12 DEF AsSent
    <2>1. /\ \A k \in 1 .. Len(passed) : Emitted[passed[k]] = Place(k)
          /\ Len(passed) + Len(data) = sent
          /\ \A k \in 1 .. Len(data) : data[k] = Place(Len(passed) + k)
        BY <1>1, <1>2 DEF AsSent, Waiting, data
    <2>2. Len(passed) + bytes_remaining = length
        BY <1>1, <1>5 DEF Account
    <2>3. n = Len(data)
        <3>1. sent <= length /\ sent \in Nat /\ length \in Nat
            BY <1>1 DEF Bridge
        <3>2. Len(data) <= bytes_remaining
            BY <1>4, <1>5, <2>1, <2>2, <3>1
        <3> QED BY <1>6, <3>2
    <2>4. /\ Len(rest') = Len(data)
          /\ \A k \in 1 .. Len(rest') : rest'[k] = Place(Len(passed) + k)
        BY <1>2, <1>7, <2>1, <2>3
    <2>5. /\ \A k \in 1 .. Len(passed') : Emitted'[passed'[k]] = Place(k)'
          /\ \A k \in 1 .. Len(rest') : rest'[k] = Place(Len(passed) + k)'
        BY <1>2, <1>3, <2>1, <2>4 DEF Place
    <2>6. Len(passed') + Len(rest') = sent'
        BY <1>2, <1>3, <2>1, <2>4
    <2> QED BY <1>2, <1>10, <2>5, <2>6 DEF AsSent
<1>15. Succeeded'
    BY <1>1, <1>3, <1>4 DEF Succeeded
<1> QED BY <1>8, <1>9, <1>11, <1>13, <1>14, <1>15 DEF Transfer

LEMMA WriteByteKeeps ==
    ASSUME Ring, Transfer, WriteByte, Emitted' = Emitted \o <<Head(rest)>>, UNCHANGED hostVars
    PROVE  Transfer'
<1>1. Places /\ Bridge /\ SetUp /\ Account /\ AsSent /\ Succeeded
    BY TransferIs
<1>2. /\ usb_thread = "write" /\ rest # <<>>
      /\ rest' = Tail(rest) /\ passed' = Append(passed, Len(Emitted) + 1)
      /\ UNCHANGED <<usbRx, usbTxLen, usbMsgLen, usbMsgFlags, bytes_remaining, usb_thread>>
    BY DEF WriteByte, driverVars
<1>3. UNCHANGED <<stage, transfers, length, sent, repeated, outcome>>
    BY DEF hostVars
<1>4. rest \in Seq(UsbByte) /\ usbRx.token = "out" /\ usbMsgFlags /\ bytes_remaining \in Nat
      /\ Len(passed) \in Nat
    BY <1>1, <1>2 DEF Bridge, Places
<1>5. /\ Head(rest) \in UsbByte /\ Head(rest) = rest[1] /\ Len(rest) \in Nat \ {0}
      /\ Tail(rest) \in Seq(UsbByte) /\ Len(Tail(rest)) = Len(rest) - 1
      /\ \A k \in 1 .. Len(rest) - 1 : Tail(rest)[k] = rest[k + 1]
    BY <1>2, <1>4
<1>6. /\ Places' /\ Len(passed') = Len(passed) + 1
      /\ \A k \in 1 .. Len(passed) : Emitted'[passed'[k]] = Emitted[passed[k]]
      /\ Emitted'[passed'[Len(passed) + 1]] = Head(rest)
    BY <1>1, <1>2, <1>5, PlaceAdds
<1>7. Bridge'
    BY <1>1, <1>2, <1>3, <1>4, <1>5 DEF Bridge
<1>8. SetUp'
    BY <1>1, <1>2, <1>3 DEF SetUp, UnderWay
<1>9. Accepted' <=> Accepted
    BY <1>2, <1>3 DEF Accepted, UnderWay
<1>10. Account'
    <2> SUFFICES ASSUME Accepted PROVE Account'
        BY <1>9 DEF Account
    <2>1. /\ usbMsgFlags <=> 0 < length /\ length < LIMIT
          /\ Len(passed) + Len(rest) + bytes_remaining = length
          /\ usbMsgLen = 0 \/ usbTxLen = 0 => rest = <<>>
        BY <1>1, <1>4 DEF Account
    <2>2. Len(passed') + Len(rest') + bytes_remaining' = length'
        BY <1>2, <1>3, <1>4, <1>5, <1>6, <2>1
    <2>3. ~(usbMsgLen' = 0 \/ usbTxLen' = 0)
        BY <1>2, <2>1
    <2> QED BY <1>2, <1>3, <1>4, <2>1, <2>2, <2>3 DEF Account
<1>11. AsSent'
    <2> SUFFICES ASSUME Accepted, ~repeated PROVE AsSent'
        BY <1>3, <1>9 DEF AsSent
    <2>1. /\ \A k \in 1 .. Len(passed) : Emitted[passed[k]] = Place(k)
          /\ \A k \in 1 .. Len(rest) : rest[k] = Place(Len(passed) + k)
          /\ Len(passed) + Len(rest) = sent
        BY <1>1, <1>2, <1>4 DEF AsSent, Waiting
    <2>2. \A k : Place(k)' = Place(k)
        BY <1>3 DEF Place
    <2>3. ASSUME NEW k \in 1 .. Len(passed')
          PROVE  Emitted'[passed'[k]] = Place(k)
        <3>1. CASE k \in 1 .. Len(passed)
            BY <1>6, <2>1, <3>1
        <3>2. CASE k = Len(passed) + 1
            <4>1. Head(rest) = Place(Len(passed) + 1)
                BY <1>5, <2>1
            <4> QED BY <1>6, <3>2, <4>1
        <3>3. k \in 1 .. Len(passed) \/ k = Len(passed) + 1
            BY <1>4, <1>6, <2>3
        <3> QED BY <3>1, <3>2, <3>3
    <2>4. ASSUME NEW k \in 1 .. Len(rest')
          PROVE  rest'[k] = Place(Len(passed') + k)
        <3>1. rest'[k] = rest[k + 1] /\ k + 1 \in 1 .. Len(rest)
            BY <1>2, <1>5
        <3>2. rest[k + 1] = Place(Len(passed) + (k + 1))
            BY <2>1, <3>1
        <3>3. Len(passed) + (k + 1) = Len(passed') + k
            BY <1>4, <1>5, <1>6, <3>1
        <3> QED BY <3>1, <3>2, <3>3
    <2>5. Len(passed') + Len(rest') = sent'
        BY <1>2, <1>3, <1>4, <1>5, <1>6, <2>1
    <2>6. ~Waiting'
        BY <1>2 DEF Waiting
    <2>7. /\ \A k \in 1 .. Len(passed') : Emitted'[passed'[k]] = Place(k)'
          /\ \A k \in 1 .. Len(rest') : rest'[k] = Place(Len(passed) + k)'
        BY <2>2, <2>3, <2>4
    <2> QED BY <2>5, <2>6, <2>7 DEF AsSent
<1>12. Succeeded'
    BY <1>1, <1>2, <1>3 DEF Succeeded
<1> QED BY <1>6, <1>7, <1>8, <1>10, <1>11, <1>12 DEF Transfer

LEMMA WriteEndKeeps ==
    ASSUME Ring, Transfer, WriteEnd, Emitted' = Emitted, UNCHANGED hostVars
    PROVE  Transfer'
<1>1. Places /\ Bridge /\ SetUp /\ Account /\ AsSent /\ Succeeded
    BY TransferIs
<1>2. /\ usb_thread = "write" /\ rest = <<>> /\ usbRx' = NoPacket /\ usb_thread' = "answer"
      /\ IF bytes_remaining = 0 THEN usbMsgLen' = 0 /\ usbTxLen' = usbTxLen
         ELSE usbTxLen' = STALL /\ usbMsgLen' = usbMsgLen
      /\ UNCHANGED <<usbMsgFlags, bytes_remaining, rest, passed>>
    BY DEF WriteEnd
<1>3. UNCHANGED <<stage, transfers, length, sent, repeated, outcome>>
    BY DEF hostVars
<1>4. usbRx.token = "out" /\ usbMsgFlags
    BY <1>1, <1>2 DEF Bridge
<1>5. Places'
    BY <1>1, <1>2, PlacesSame
<1>6. Bridge'
    BY <1>1, <1>2, <1>3, NoPacketIs DEF Bridge
<1>7. SetUp'
    BY <1>1, <1>2, <1>3, NoPacketIs DEF SetUp
<1>8. Accepted' => Accepted
    BY <1>3, <1>4 DEF Accepted, UnderWay
<1>9. Account'
    <2> SUFFICES ASSUME Accepted PROVE Account'
        BY <1>8 DEF Account
    <2>1. /\ usbMsgFlags <=> 0 < length /\ length < LIMIT
          /\ Len(passed) + Len(rest) + bytes_remaining = length
          /\ usbMsgLen = 0 \/ usbTxLen = 0 => bytes_remaining = 0
        BY <1>1, <1>4 DEF Account
    <2>2. usbMsgLen' = 0 \/ usbTxLen' = 0 => bytes_remaining = 0
        BY <1>2, <2>1 DEF STALL
    <2> QED BY <1>2, <1>3, <1>4, <2>1, <2>2 DEF Account
<1>10. AsSent'
    <2> SUFFICES ASSUME Accepted, ~repeated PROVE AsSent'
        BY <1>3, <1>8 DEF AsSent
    <2>1. /\ \A k \in 1 .. Len(passed) : Emitted[passed[k]] = Place(k)
          /\ \A k \in 1 .. Len(rest) : rest[k] = Place(Len(passed) + k)
          /\ Len(passed) + Len(rest) = sent
        BY <1>1, <1>2, <1>4 DEF AsSent, Waiting
    <2>2. ~Waiting'
        BY <1>2, NoPacketIs DEF Waiting
    <2> QED BY <1>2, <1>3, <2>1, <2>2 DEF AsSent, Place
<1>11. Succeeded'
    BY <1>1, <1>2, <1>3 DEF Succeeded
<1> QED BY <1>5, <1>6, <1>7, <1>9, <1>10, <1>11 DEF Transfer

LEMMA AnswerKeeps ==
    ASSUME Ring, Transfer, Answer, Emitted' = Emitted, UNCHANGED hostVars
    PROVE  Transfer'
<1>1. Places /\ Bridge /\ SetUp /\ Account /\ AsSent /\ Succeeded
    BY TransferIs
<1>2. /\ usb_thread # "write" /\ usb_thread' = "poll"
      /\ \/ usbTxLen' = usbMsgLen /\ usbMsgLen' = NO_MSG
         \/ UNCHANGED <<usbTxLen, usbMsgLen>>
      /\ UNCHANGED <<usbRx, usbMsgFlags, bytes_remaining, rest, passed>>
    BY DEF Answer
<1>3. UNCHANGED <<stage, transfers, length, sent, repeated, outcome>>
    BY DEF hostVars
<1>4. Places'
    BY <1>1, <1>2, PlacesSame
<1>5. Bridge'
    <2>1. usbTxLen' \in {STALL, NAK, 0, 1} /\ usbMsgLen' \in {NO_MSG, 0, 1}
        BY <1>1, <1>2 DEF Bridge, NO_MSG, NAK
    <2> QED BY <1>1, <1>2, <1>3, <2>1 DEF Bridge
<1>6. SetUp'
    BY <1>1, <1>2, <1>3 DEF SetUp, UnderWay
<1>7. (Accepted' <=> Accepted) /\ (Waiting' <=> Waiting)
    BY <1>2, <1>3 DEF Accepted, UnderWay, Waiting
<1>8. usbMsgLen' = 0 \/ usbTxLen' = 0 => usbMsgLen = 0 \/ usbTxLen = 0
    BY <1>2 DEF NO_MSG
<1>9. Account'
    BY <1>1, <1>2, <1>3, <1>7, <1>8 DEF Account
<1>10. AsSent'
    BY <1>1, <1>2, <1>3, <1>7 DEF AsSent, Place
<1>11. Succeeded'
    BY <1>1, <1>2, <1>3 DEF Succeeded, Place
<1> QED BY <1>4, <1>5, <1>6, <1>9, <1>10, <1>11 DEF Transfer

-----------------------------------------------------------------------------
(* The invariant *)

LEMMA InitIsOrderly ==
    ASSUME Init
    PROVE  IInv
<1>1. tx = <<>> /\ line = <<>>
    BY DEF Init
<1>2. Emitted = <<>> /\ Begun = {}
    BY <1>1 DEF Emitted, Begun
<1>3. Ring
    BY <1>1, Sizes DEF Ring
<1>4. Buttons
    BY DEF Init, UiInit, Buttons
<1>5. PressesInOrder
    BY <1>2 DEF PressesInOrder
<1>6. Turn
    BY <1>2, Sizes DEF Init, UiInit, Turn, Due, Kinds
<1>7. Places
    BY DEF Init, UsbInit, Places
<1>8. Bridge
    <2>1. /\ stage = "idle" /\ transfers = 0 /\ length = 0 /\ sent = 0 /\ outcome = "open"
          /\ usbRx = NoPacket /\ usbTxLen = NAK /\ usbMsgLen = NO_MSG
          /\ bytes_remaining = 0 /\ usb_thread = "poll" /\ rest = <<>>
        BY DEF Init, UsbInit
    <2>2. repeated \in BOOLEAN /\ usbMsgFlags \in BOOLEAN
        BY DEF Init, UsbInit
    <2> QED BY <2>1, <2>2, NoPacketIs DEF Bridge
<1>9. SetUp /\ Account /\ AsSent /\ Succeeded
    BY DEF Init, UsbInit, SetUp, Account, AsSent, Succeeded, Accepted, UnderWay
<1> QED BY <1>3, <1>4, <1>5, <1>6, <1>7, <1>8, <1>9 DEF IInv, Transfer

\* The messages of ui_input: the ring is empty, so there is room.
LEMMA InputKeeps ==
    ASSUME Ring, PressesInOrder, Turn, Transfer, Buttons, Input, UNCHANGED usbVars
    PROVE  Ring' /\ PressesInOrder' /\ Turn' /\ Transfer' /\ btn_press' \in {0, 1}
<1>1. /\ pin' = pin /\ line' = line /\ btn_press \in {0, 1}
    BY DEF Input, Buttons
<1>2. CASE /\ UNCHANGED <<tx, btn_press, current_program>>
           /\ input_thread' = Due \/ (input_thread' = "check" /\ ~Answering)
    <2>1. tx' = tx /\ Due' = Due /\ current_program' = current_program /\ btn_press' = btn_press
        BY <1>2 DEF Due, Answering, Turn, Kinds
    <2>2. Emitted' = Emitted
        BY <1>1, <2>1 DEF Emitted
    <2>3. Ring'
        BY <1>1, <2>1 DEF Ring
    <2>4. PressesInOrder' /\ Turn'
        BY <2>1, <2>2, NoByteAdds
    <2>5. Transfer'
        BY <2>2, OthersKeep
    <2> QED BY <1>1, <2>1, <2>3, <2>4, <2>5
<1>3. CASE MaySend /\ (SendResync \/ SendStop \/ SendStart)
    <2> DEFINE s == Message(Due, current_program, LengthOf(Due))
    <2>1. Due \in Kinds /\ current_program \in 0 .. MASTER_PROGRAMS - 1
          /\ LengthOf(Due) \in Nat \ {0} /\ LengthOf(Due) < SIZE
        BY Sizes DEF Turn
    <2>2. UartPutc(s)
        BY <1>3 DEF SendResync, SendStop, SendStart, Resync, Stop, StartProgram, LengthOf
    <2>3. s \in Seq(UiByte) /\ Len(s) = LengthOf(Due)
          /\ \A i \in 1 .. LengthOf(Due) : s[i] = [msg |-> Due, of |-> current_program, at |-> i]
        BY <2>1, MessageIs
    <2>4. s \in Seq(Byte)
        BY <2>3 DEF Byte
    <2>5. /\ Due' \in Kinds /\ current_program' \in 0 .. MASTER_PROGRAMS - 1
          /\ ComesAfter(NextMessage', NextMessage) /\ btn_press' \in {0, 1}
        <3>1. CASE SendResync
            BY <1>1, <2>1, <3>1 DEF SendResync, Due, Kinds, ComesAfter, NextMessage
        <3>2. CASE SendStop
            BY <1>1, <2>1, <3>2 DEF SendStop, Due, Kinds, ComesAfter, NextMessage
        <3>3. CASE SendStart
            <4>1. current_program' = (current_program + 1) % MASTER_PROGRAMS
                  /\ Due = "start" /\ Due' = "resync" /\ btn_press' = 0
                BY <3>3 DEF SendStart, Due
            <4>2. current_program' \in 0 .. MASTER_PROGRAMS - 1
                BY <2>1, <4>1, Sizes
            <4>3. ComesAfter(NextMessage', NextMessage)
                BY <4>1 DEF ComesAfter, NextMessage
            <4> QED BY <4>1, <4>2, <4>3 DEF Kinds
        <3> QED BY <1>3, <3>1, <3>2, <3>3
    <2> HIDE DEF s
    <2>6. Len(tx) + Len(s) < SIZE
        BY <1>3, <2>1, <2>3 DEF MaySend, FifoEmpty
    <2>7. Ring' /\ Emitted' = Emitted \o s
        BY <1>1, <2>2, <2>4, <2>6, PutcAdds
    <2>8. PressesInOrder' /\ Turn'
        BY <2>5, <2>7, MessageAdds DEF s
    <2>9. /\ \A i \in DOMAIN Emitted : i \in DOMAIN Emitted' /\ Emitted'[i] = Emitted[i]
          /\ \A i \in DOMAIN Emitted' : i \notin DOMAIN Emitted => Emitted'[i].msg # "usb"
        <3>1. /\ \A i \in DOMAIN Emitted : i \in DOMAIN Emitted' /\ Emitted'[i] = Emitted[i]
              /\ \A i \in DOMAIN Emitted' : i \notin DOMAIN Emitted =>
                    i - Len(Emitted) \in 1 .. Len(s) /\ Emitted'[i] = s[i - Len(Emitted)]
            BY <2>4, <2>7, BegunGrows
        <3>2. \A n \in 1 .. Len(s) : s[n].msg # "usb"
            BY <2>3 DEF UiByte
        <3> QED BY <3>1, <3>2
    <2>10. Transfer'
        BY <2>9, OthersKeep
    <2> QED BY <2>5, <2>7, <2>8, <2>10
<1>4. \/ MaySend /\ (SendResync \/ SendStop \/ SendStart)
      \/ /\ UNCHANGED <<tx, btn_press, current_program>>
         /\ input_thread' = Due \/ (input_thread' = "check" /\ ~Answering)
    BY DEF Input, StayIn
<1> QED BY <1>2, <1>3, <1>4

\* What usb_poll does leaves the user interface alone.
LEMMA UsbPollKeeps ==
    ASSUME Ring, PressesInOrder, Turn, Transfer, UsbPoll
    PROVE  Ring' /\ PressesInOrder' /\ Turn' /\ Transfer'
<1>1. UNCHANGED hostVars /\ Due' = Due /\ current_program' = current_program
    BY DEF UsbPoll, uiVars, inputVars, Due
<1>2. CASE ProcessSetup \/ ProcessData \/ WriteEnd \/ Answer
    <2>1. tx' = tx /\ line' = line
        BY <1>2 DEF ProcessSetup, ProcessData, WriteEnd, Answer
    <2>2. Emitted' = Emitted /\ Ring'
        BY <2>1 DEF Emitted, Ring
    <2>3. PressesInOrder' /\ Turn'
        BY <1>1, <2>2, NoByteAdds
    <2>4. Transfer'
        BY <1>1, <1>2, <2>2, ProcessSetupKeeps, ProcessDataKeeps, WriteEndKeeps, AnswerKeeps
    <2> QED BY <2>2, <2>3, <2>4
<1>3. CASE WriteByte
    <2>1. rest # <<>> /\ rest \in Seq(UsbByte) /\ line' = line /\ UartPutc(<<Head(rest)>>)
          /\ Len(tx) # SIZE - 1
        BY <1>3 DEF WriteByte, RingFull, FifoFull, Transfer, Bridge
    <2>2. Head(rest) \in UsbByte
        BY <2>1
    <2>3. <<Head(rest)>> \in Seq(Byte) /\ Len(<<Head(rest)>>) = 1
        BY <2>2 DEF Byte
    <2>4. Len(tx) + 1 < SIZE
        BY <2>1, Sizes DEF Ring
    <2>5. Ring' /\ Emitted' = Emitted \o <<Head(rest)>>
        BY <2>1, <2>3, <2>4, PutcAdds
    <2>6. PressesInOrder' /\ Turn'
        BY <1>1, <2>2, <2>5, HostByteAdds
    <2>7. Transfer'
        BY <1>1, <1>3, <2>5, WriteByteKeeps
    <2> QED BY <2>5, <2>6, <2>7
<1> QED BY <1>2, <1>3 DEF UsbPoll

LEMMA NextKeeps ==
    ASSUME IInv, [Next]_vars
    PROVE  IInv'
<1>1. Buttons /\ Ring /\ PressesInOrder /\ Turn /\ Transfer
    BY DEF IInv
<1>2. CASE UsbPoll
    <2>1. Buttons'
        BY <1>1, <1>2 DEF Buttons, UsbPoll, uiVars, buttonVars
    <2> QED BY <1>1, <1>2, <2>1, UsbPollKeeps DEF IInv
<1>3. CASE UiPoll
    <2>1. CASE SampleButtons /\ UNCHANGED <<ringVars, usbVars>>
        <3>1. tx' = tx /\ line' = line /\ Due' = Due /\ current_program' = current_program /\ pin' = pin
              /\ UNCHANGED usbVars
            BY <2>1 DEF SampleButtons, ringVars, inputVars, Due
        <3>2. Buttons'
            <4>1. CASE Sample
                BY <1>1, <3>1, <4>1, ButtonsKept DEF Buttons
            <4>2. CASE UNCHANGED buttonVars
                BY <1>1, <3>1, <4>2 DEF Buttons, buttonVars
            <4> QED BY <2>1, <4>1, <4>2 DEF SampleButtons
        <3>3. Emitted' = Emitted /\ Ring'
            BY <1>1, <3>1 DEF Emitted, Ring
        <3>4. PressesInOrder' /\ Turn'
            BY <1>1, <3>1, <3>3, NoByteAdds
        <3>5. Transfer'
            BY <1>1, <3>1, <3>3, OthersKeep
        <3> QED BY <3>2, <3>3, <3>4, <3>5 DEF IInv
    <2>2. CASE Input /\ UNCHANGED usbVars
        <3>1. Ring' /\ PressesInOrder' /\ Turn' /\ Transfer' /\ btn_press' \in {0, 1}
            BY <1>1, <2>2, InputKeeps
        <3>2. UNCHANGED <<pin, btn_state, btn_last_sample, highs>>
            BY <2>2 DEF Input
        <3>3. Buttons'
            BY <1>1, <3>1, <3>2 DEF Buttons
        <3> QED BY <3>1, <3>3 DEF IInv
    <2> QED BY <1>3, <2>1, <2>2 DEF UiPoll
<1>4. CASE Transmit
    <2>1. DataInterrupt /\ UNCHANGED usbVars /\ UNCHANGED uiVars
        BY <1>4 DEF Transmit
    <2>2. Due' = Due /\ current_program' = current_program
        BY <2>1 DEF uiVars, inputVars, Due
    <2>3. Ring' /\ Emitted' = Emitted
        BY <1>1, <2>1, InterruptMoves
    <2>4. PressesInOrder' /\ Turn'
        BY <1>1, <2>2, <2>3, NoByteAdds
    <2>5. Transfer'
        BY <1>1, <2>1, <2>3, OthersKeep
    <2>6. Buttons'
        BY <1>1, <2>1 DEF Buttons, uiVars, buttonVars
    <2> QED BY <2>3, <2>4, <2>5, <2>6 DEF IInv
<1>5. CASE Host
    <2>1. HostStep /\ UNCHANGED ringVars /\ UNCHANGED uiVars
        BY <1>5 DEF Host
    <2>2. Due' = Due /\ current_program' = current_program /\ tx' = tx /\ line' = line
        BY <2>1 DEF uiVars, inputVars, Due, ringVars
    <2>3. Emitted' = Emitted /\ Ring'
        BY <1>1, <2>2 DEF Emitted, Ring
    <2>4. PressesInOrder' /\ Turn'
        BY <1>1, <2>2, <2>3, NoByteAdds
    <2>5. Transfer'
        BY <1>1, <2>1, <2>3, BeginKeeps, SetupPacketKeeps, DataPacketKeeps, StatusKeeps, GiveUpKeeps
           DEF HostStep
    <2>6. Buttons'
        BY <1>1, <2>1 DEF Buttons, uiVars, buttonVars
    <2> QED BY <2>3, <2>4, <2>5, <2>6 DEF IInv
<1>6. CASE User \/ UNCHANGED vars
    <2>1. /\ UNCHANGED ringVars /\ UNCHANGED usbVars /\ UNCHANGED <<buttonVars, inputVars>>
          /\ pin' \in {1 - pin, pin}
        BY <1>6 DEF User, Toggle, vars, uiVars
    <2>2. Due' = Due /\ current_program' = current_program /\ tx' = tx /\ line' = line
        BY <2>1 DEF inputVars, Due, ringVars
    <2>3. Emitted' = Emitted /\ Ring'
        BY <1>1, <2>2 DEF Emitted, Ring
    <2>4. PressesInOrder' /\ Turn'
        BY <1>1, <2>2, <2>3, NoByteAdds
    <2>5. Transfer'
        BY <1>1, <2>1, <2>3, OthersKeep
    <2>6. Buttons'
        BY <1>1, <2>1 DEF Buttons, buttonVars
    <2> QED BY <2>3, <2>4, <2>5, <2>6 DEF IInv
<1> QED BY <1>2, <1>3, <1>4, <1>5, <1>6 DEF Next, Loop

LEMMA Invariance == Spec => []IInv
<1>1. Init => IInv
    BY InitIsOrderly
<1>2. IInv /\ [Next]_vars => IInv'
    BY NextKeeps
<1> QED BY <1>1, <1>2, PTL DEF Spec

-----------------------------------------------------------------------------
(* The theorems *)

\* Presses are answered by whole messages only, in the right order, with nothing of
\* the host in them and nothing lost, whatever the host sends meanwhile.
THEOREM AnswersInOrder == Spec => []PressesInOrder
<1>1. IInv => PressesInOrder
    BY DEF IInv
<1> QED BY <1>1, Invariance, PTL

\* A transfer that the host takes for successful has put into the ring as many
\* bytes as were announced, and without repetitions the bytes of the host.
THEOREM TransfersExact == Spec => []TransferExact
<1>1. IInv => TransferExact
    <2> SUFFICES ASSUME IInv, outcome = "ok"
                 PROVE  /\ Len(passed) = length
                        /\ \A n \in 1 .. length :
                             /\ passed[n] \in DOMAIN Emitted
                             /\ Emitted[passed[n]].msg = "usb"
                             /\ ~repeated => Emitted[passed[n]] = Data(transfers, length)[n]
                        /\ \A n \in 1 .. length, i \in DOMAIN Emitted :
                             /\ n < length => passed[n] < passed[n + 1]
                             /\ i > passed[n] /\ Emitted[i].msg = "usb" =>
                                   \E m \in n .. length : i = passed[m]
        BY DEF TransferExact
    <2>1. Places /\ Bridge /\ Succeeded
        BY DEF IInv, Transfer
    <2>2. Len(passed) = length /\ length \in Nat
        BY <2>1 DEF Succeeded, Bridge
    <2>3. \A n \in 1 .. length : passed[n] \in DOMAIN Emitted /\ Emitted[passed[n]].msg = "usb"
        BY <2>1, <2>2 DEF Places
    <2>4. \A n \in 1 .. length : Data(transfers, length)[n] = Place(n)
        BY <2>2 DEF Data, Message, Place
    <2>5. ~repeated => \A n \in 1 .. length : Emitted[passed[n]] = Data(transfers, length)[n]
        BY <2>1, <2>4 DEF Succeeded
    <2>6. ASSUME NEW n \in 1 .. length, n < length
          PROVE  passed[n] < passed[n + 1]
        <3>1. n \in 1 .. Len(passed) - 1
            BY <2>2, <2>6
        <3> QED BY <2>1, <3>1 DEF Places
    <2>7. ASSUME NEW n \in 1 .. length, NEW i \in DOMAIN Emitted, i > passed[n], Emitted[i].msg = "usb"
          PROVE  \E m \in n .. length : i = passed[m]
        BY <2>1, <2>2, <2>7 DEF Places
    <2> QED BY <2>2, <2>3, <2>5, <2>6, <2>7
<1> QED BY <1>1, Invariance, PTL

\* A press is reported only if the button was found released twice in a row.
THEOREM PressedOnce == Spec => OnePressPerRelease
<1>1. IInv /\ [Next]_vars => [btn_press = 0 /\ btn_press' = 1 => highs = 2]_vars
    <2> SUFFICES ASSUME IInv, Next, btn_press = 0, btn_press' = 1
                 PROVE  highs = 2
        OBVIOUS
    <2>1. ~UNCHANGED btn_press
        OBVIOUS
    <2>2. CASE SampleButtons
        BY <2>1, <2>2, ButtonsKept DEF SampleButtons, buttonVars, IInv
    <2>3. CASE Input
        BY <2>1, <2>3 DEF Input, SendResync, SendStop, SendStart, StayIn
    <2>4. UsbPoll \/ Transmit \/ Host \/ User => UNCHANGED btn_press
        BY DEF UsbPoll, Transmit, Host, User, Toggle, uiVars, buttonVars
    <2> QED BY <2>1, <2>2, <2>3, <2>4 DEF Next, Loop, UiPoll
<1> QED BY <1>1, Invariance, PTL DEF Spec, OnePressPerRelease
===============================================================================
