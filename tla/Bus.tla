--------------------------------- MODULE Bus ---------------------------------
(***************************************************************************)
(* The serial bus: a controller and a chain of N devices, each passing on  *)
(* every byte it receives (fnordlicht-firmware/remote.c, doc/PROTOCOL).    *)
(*                                                                         *)
(* There is no framing on the wire.  A device finds the start of a packet  *)
(* by counting MSG_LEN bytes from the last sync sequence, and it finds a   *)
(* sync sequence by counting consecutive ESC bytes.  The module asks what  *)
(* becomes of addresses and packets when syncs cut packets short, packets  *)
(* contain ESC bytes, devices restart and lose what they had buffered, and *)
(* a device in master mode talks while a controller does.                  *)
(*                                                                         *)
(* Abstractions: rx[i] holds everything under way to device i (the tx ring *)
(* of its predecessor, the wire, its own rx ring); the rings do not        *)
(* overflow.  What a command does to the device is left to other modules.  *)
(* The timeouts of the master thread expire at any time.                   *)
(***************************************************************************)
EXTENDS Integers, Sequences, FiniteSets

CONSTANTS
    N,             \* devices in the chain
    BYTE,          \* values of a byte (256)
    SYNC_LEN,      \* REMOTE_SYNC_LEN (15)
    MSG_LEN,       \* REMOTE_MSG_LEN (15)
    ESC,           \* REMOTE_CMD_RESYNC (0x1b)
    BROADCAST,     \* REMOTE_ADDR_BROADCAST (0xff)
    FIRST,         \* the address a controller gives to the first device (0)
    Commands,      \* command bytes the switch in remote_parse_msg knows
    Packets,       \* packets a controller may send
    Jumpered,      \* devices that start in master mode
    START,         \* the START_PROGRAM packet of a device in master mode
    MaxSends,      \* bound on the units a controller sends
    MaxBursts,     \* bound on the resyncs of devices in master mode
    MaxRestarts,   \* bound on the restarts
    MaxEvents      \* bound on all of these, a burst (a resync and a packet) for two

Device == 1 .. N
Bytes == 0 .. BYTE - 1
Packet == [1 .. MSG_LEN -> Bytes]

\* MASTER_MODE_FIRST_ADDRESS, for the device behind the one in master mode.
MASTER_FIRST == 1

ASSUME BusAssumption ==
    /\ N \in Nat \ {0} /\ BYTE \in Nat \ {0} /\ N < BYTE
    /\ SYNC_LEN \in Nat \ {0} /\ SYNC_LEN < BYTE
    /\ MSG_LEN \in Nat /\ MSG_LEN >= 2 /\ MSG_LEN <= SYNC_LEN
    /\ ESC \in Bytes /\ BROADCAST \in Bytes /\ FIRST \in Bytes
    /\ Commands \subseteq Bytes /\ ESC \notin Commands
    /\ Packets \subseteq Packet /\ START \in Packet
    /\ \A p \in Packets \cup {START} : p[2] # ESC
    /\ START[MSG_LEN] # ESC
    \* A master is the first device, or the addresses it gives are off by some.
    /\ Jumpered \subseteq {1} /\ (Jumpered # {} => FIRST + 1 = MASTER_FIRST)

VARIABLES
    dev,       \* struct remote_state_t and global_remote of each device
    rx,        \* bytes under way to each device
    \* history
    trust,     \* what is known of the bus, see below
    lastSent,  \* the last byte of the controller's last packet, -1 for a sync
    log,       \* packets put on the bus since the last sync: [from, packet]
    done,      \* packets each device has executed since that sync
    sends, bursts, restarts

vars == <<dev, rx, trust, lastSent, log, done, sends, bursts, restarts>>

-----------------------------------------------------------------------------
(* One device *)

\* The state after power-up; master mode is read from a jumper.
PowerUp(i) ==
    [address |-> 0, sync |-> 0, synced |-> FALSE, buf |-> <<>>,
     master |-> i \in Jumpered, thread |-> "timer"]

\* Faulty variant: one ESC too few makes a sync sequence.
OneEscEarly(d) == d.sync = SYNC_LEN - 1
AtAddress(d) == d.sync = SYNC_LEN

\* Faulty variant: every device passes its own address on.
SameAddress(d, data) == data
\* The byte passed on: the address byte of a sync is incremented.
Forwarded(d, data) == IF AtAddress(d) THEN (data + 1) % BYTE ELSE data

NextSync(d, data) == IF data = ESC THEN (d.sync + 1) % BYTE ELSE 0

\* Faulty variant: the last byte of a packet does not fit.
StoredOneShort(d, data) ==
    IF Len(d.buf) < MSG_LEN - 1 THEN [d EXCEPT !.buf = Append(@, data)] ELSE d
Stored(d, data) ==
    IF Len(d.buf) < MSG_LEN THEN [d EXCEPT !.buf = Append(@, data)] ELSE d

\* Faulty variant: a sync sequence leaves the receive buffer as it is.
SyncedKeepsBuffer(d, data) ==
    [d EXCEPT !.address = data, !.synced = TRUE, !.master = FALSE]
Synced(d, data) ==
    [d EXCEPT !.address = data, !.buf = <<>>, !.synced = TRUE, !.master = FALSE]

\* The first half of remote_poll: one byte from the rx ring.
AfterByte(d, data) ==
    [(IF AtAddress(d) THEN Synced(d, data) ELSE Stored(d, data))
        EXCEPT !.sync = NextSync(d, data)]

\* remote_thread: a complete packet is parsed and the buffer starts over.
HasPacket(d) == d.synced /\ Len(d.buf) = MSG_LEN
\* Faulty variant: buflen is not reset, the packet is taken again at the next byte.
PacketStays(d) == d
AfterThread(d) == IF HasPacket(d) THEN [d EXCEPT !.buf = <<>>] ELSE d

\* remote_parse_msg: the address matches and the command is known.
Accepts(address, packet) ==
    packet[1] \in {address, BROADCAST} /\ packet[2] \in Commands
Executes(d) == HasPacket(d) /\ Accepts(d.address, d.buf)

Resync(address) == [k \in 1 .. SYNC_LEN |-> ESC] \o <<address>>

\* remote_master_thread up to its next yield: [next state, bytes sent].  It
\* waits, sends a sync sequence, and one poll later the packet.
MasterSteps(d) ==
    IF ~d.master THEN {<<d, <<>>>>}
    ELSE IF d.thread = "timer"
    THEN {<<d, <<>>>>, <<[d EXCEPT !.thread = "packet"], Resync(MASTER_FIRST)>>}
    ELSE {<<[d EXCEPT !.thread = "timer"], START>>}

-----------------------------------------------------------------------------
(* History: what may be expected of the bus *)

\* "lost"     a restart, a badly timed sync or two talkers upset the streams
\* "pure"     everything sent has arrived and no device has an ESC run open
\* "armed"    a sync sequence was sent on a pure bus and is under way
\* "settled"  it and all that followed it have arrived
TrustLevels == {"lost", "pure", "armed", "settled"}

Drained == \A i \in Device : rx[i] = <<>>
Quiet == Drained /\ \A i \in Device : dev[i].sync = 0
AllSynced == \A i \in Device : dev[i].synced

\* The address a controller's sync gives to device i.
Position(i) == (FIRST + i - 1) % BYTE

\* Whether the bytes under way, followed by cut, end in a byte other than ESC
\* on every link, so that a sync sequence can follow.
NoOpenEscRun(cut) ==
    IF cut # <<>> THEN cut[Len(cut)] # ESC
    ELSE \/ Quiet
         \/ lastSent \notin {-1, ESC}
         \/ lastSent = -1 /\ \A i \in Device : Position(i) # ESC

\* The packets that device i has to execute, by their places in the log, and
\* how many of them are among the first m of the log.
Mine(i) == {m \in DOMAIN log : log[m].from < i /\ Accepts(dev[i].address, log[m].packet)}
Rank(i, m) == Cardinality({k \in Mine(i) : k <= m})

Entry(from, packet) == [from |-> from, packet |-> packet]
NoPackets == [i \in Device |-> <<>>]

\* A sync starts a history, that of an upset bus is of no interest.
KeepHistory(l, dn) ==
    IF trust' \in {"armed", "settled"}
    THEN log' = l /\ done' = dn
    ELSE log' = <<>> /\ done' = NoPackets

-----------------------------------------------------------------------------
(* Actions *)

\* Controller: a whole packet.
SendPacket(packet) ==
    /\ sends < MaxSends
    /\ sends' = sends + 1
    /\ rx' = [rx EXCEPT ![1] = @ \o packet]
    /\ lastSent' = packet[MSG_LEN]
    /\ trust' = trust
    /\ KeepHistory(Append(log, Entry(0, packet)), done)
    /\ UNCHANGED <<dev, bursts, restarts>>

\* A sync sequence completes a packet that was cut short with ESC bytes.
Padded(cut) == [k \in 1 .. MSG_LEN |-> IF k <= Len(cut) THEN cut[k] ELSE ESC]

\* Controller: a sync sequence, perhaps in the middle of a packet.
SendSync(cut) ==
    /\ sends < MaxSends
    /\ sends' = sends + 1
    /\ rx' = [rx EXCEPT ![1] = @ \o cut \o Resync(FIRST)]
    /\ lastSent' = -1
    /\ trust' = IF trust = "lost" \/ ~NoOpenEscRun(cut) THEN "lost"
                ELSE IF trust = "settled" /\ AllSynced THEN "settled"
                ELSE "armed"
    /\ IF trust' = "armed" THEN log' = <<>> /\ done' = done
       ELSE KeepHistory(IF cut = <<>> THEN log ELSE Append(log, Entry(0, Padded(cut))), done)
    /\ UNCHANGED <<dev, bursts, restarts>>

\* rx after device i has taken its next byte and sent out.
Passed(i, out) ==
    [j \in Device |-> IF j = i /\ rx[i] # <<>> THEN Tail(rx[i])
                      ELSE IF j = i + 1 THEN rx[j] \o out ELSE rx[j]]

\* A device in master mode may talk when all that came before has passed it.
MayTalk(i, resync) ==
    IF resync THEN Quiet
    ELSE \A j \in 1 .. i : rx[j] = <<>> /\ dev[j].sync = 0

\* One round of remote_poll: a byte, the packet it completes, the master thread.
RemotePoll(i) ==
    LET d == dev[i]
        data == Head(rx[i])
        d1 == IF rx[i] = <<>> THEN d ELSE AfterByte(d, data)
        passedOn == IF rx[i] = <<>> THEN <<>> ELSE <<Forwarded(d, data)>>
        arrived == rx[i] # <<>> /\ AtAddress(d)
        executed == IF Executes(d1) THEN Append(done[i], d1.buf)
                    ELSE IF arrived /\ trust = "armed" THEN <<>> ELSE done[i]
    IN  \E step \in MasterSteps(AfterThread(d1)) :
          LET bursting == step[2] # <<>> /\ d1.thread = "timer"
              starting == step[2] # <<>> /\ d1.thread = "packet"
          IN  /\ rx[i] # <<>> \/ step[2] # <<>>
              /\ bursting => bursts < MaxBursts
              /\ bursts' = IF bursting THEN bursts + 1 ELSE bursts
              /\ dev' = [dev EXCEPT ![i] = step[1]]
              /\ rx' = Passed(i, passedOn \o step[2])
              /\ trust' =
                    IF trust = "lost" \/ (step[2] # <<>> /\ ~MayTalk(i, bursting))
                    THEN IF Quiet' THEN "pure" ELSE "lost"
                    ELSE IF bursting THEN (IF trust = "pure" THEN "armed" ELSE trust)
                    ELSE IF trust = "armed" /\ Drained' THEN "settled" ELSE trust
              /\ KeepHistory(IF starting THEN Append(log, Entry(i, START)) ELSE log,
                             [done EXCEPT ![i] = executed])
    /\ UNCHANGED <<lastSent, sends, restarts>>

\* A device loses power or is reset: what it had received and what it had not
\* sent yet is gone, and so is what arrives while it is down.
Restart(i) ==
    /\ restarts < MaxRestarts
    /\ restarts' = restarts + 1
    /\ dev' = [dev EXCEPT ![i] = PowerUp(i)]
    /\ \E k \in 0 .. Len(rx[i]) :
         IF i = N
         THEN rx' = [rx EXCEPT ![i] = SubSeq(@, k + 1, Len(@))]
         ELSE \E m \in 0 .. Len(rx[i + 1]) :
                rx' = [rx EXCEPT ![i] = SubSeq(@, k + 1, Len(@)),
                                 ![i + 1] = SubSeq(@, 1, m)]
    /\ trust' = IF Quiet' THEN "pure" ELSE "lost"
    /\ KeepHistory(log, done)
    /\ UNCHANGED <<lastSent, sends, bursts>>

Cuts == {SubSeq(p, 1, k) : p \in Packets, k \in 0 .. MSG_LEN - 1}

Init ==
    /\ dev = [i \in Device |-> PowerUp(i)]
    /\ rx = [i \in Device |-> <<>>]
    /\ trust = "pure" /\ lastSent = -1
    /\ log = <<>> /\ done = NoPackets
    /\ sends = 0 /\ bursts = 0 /\ restarts = 0

Next ==
    /\ \/ \E p \in Packets : SendPacket(p)
       \/ \E cut \in Cuts : SendSync(cut)
       \/ \E i \in Device : RemotePoll(i) \/ Restart(i)
    /\ sends' + 2 * bursts' + restarts' <= MaxEvents

\* Every device keeps polling; nobody is obliged to send or to restart.
Receive(i) == rx[i] # <<>> /\ RemotePoll(i)
Fairness == \A i \in Device : WF_vars(Receive(i))

Spec == Init /\ [][Next]_vars /\ Fairness

-----------------------------------------------------------------------------
(* Properties *)

Addressed ==
    \A i \in Device :
        \/ dev[i].address = Position(i) /\ dev[i].synced
        \/ i \in Jumpered /\ ~dev[i].synced

\* "Each device on the bus knows its own address (= position)" (PROTOCOL:71):
\* once a sync sequence that could be recognised has passed the whole chain,
\* whatever upset the bus before it, each device has its position for an
\* address, and keeps it whatever packets, cut packets and syncs follow.  A
\* device in master mode has no address until a controller sends one.
AddressIsPosition == trust = "settled" => Addressed

\* Device i has executed its packets among the first n of the log, each once
\* and in their order, and nothing else.
ExecutedUpTo(i, n) ==
    /\ Len(done[i]) = Rank(i, n)
    /\ \A m \in Mine(i) : m <= n => done[i][Rank(i, m)] = log[m].packet

\* The devices agree with the sender where packets start: after a sync a
\* device executes the packets sent to it or to all, each once and in order
\* (a packet cut short by a sync counts as one filled up with ESC), and
\* nothing else, such as bytes of two packets taken for one.
PacketsInOrder ==
    trust = "settled" =>
        \A i \in Device : dev[i].synced => \E n \in 0 .. Len(log) : ExecutedUpTo(i, n)

\* Nothing gets lost on the way: when all bytes have passed, every packet sent
\* since the sync has been executed by every device it was for.
PacketsDelivered ==
    trust = "settled" /\ Drained =>
        \A i \in Device : dev[i].synced => ExecutedUpTo(i, Len(log))

\* A sync sequence that can be recognised does reach the end of the chain and
\* addresses every device, unless something upsets the bus meanwhile.
SyncCompletes == trust = "armed" ~> Addressed \/ trust \notin {"armed", "settled"}

\* What PROTOCOL:47-48 demands of a device: a sync sequence is detected even
\* in the middle of a packet.  A controller alone on the bus, no restart, and a
\* sync sequence the last thing sent: then it gave every device its position.
SyncDetectedAnywhere ==
    /\ Quiet /\ sends > 0 /\ lastSent = -1
    /\ restarts = 0 /\ Jumpered = {}
    => Addressed
==============================================================================
