------------------------------ MODULE BusProofs ------------------------------
(***************************************************************************)
(* Proofs about Bus, for every chain, sync and packet length, byte size,   *)
(* address, set of commands and set of packets.                            *)
(*                                                                         *)
(* Nothing on the wire tells what a byte means: the devices find out by    *)
(* counting.  The inductive invariant says that there is a meaning, the    *)
(* same all along the chain, for the last byte each device took and for    *)
(* every byte under way, and that what each device has counted, buffered   *)
(* and executed agrees with it.  Such a meaning is a sequence of tags for  *)
(* each link, one tag longer than the bytes under way on it.               *)
(***************************************************************************)
EXTENDS Bus, FiniteSetTheorems, SequenceTheorems, TLAPS

-----------------------------------------------------------------------------
(* What a byte means *)

\* A byte is one of a packet, or of the ESC run of a sync sequence, or the
\* address that ends the sequence; "start" is what comes before any byte.
Roles == {"start", "esc", "addr", "pkt"}

\* pos is its place in the packet or in the ESC run, cut the number of bytes
\* of the packet that the run interrupts, and n the last packet in the log that
\* it belongs to or comes after, -1 before the sync that started the log.
Tags == [role : Roles, pos : Nat, byte : Bytes, cut : 0 .. MSG_LEN - 1, n : Nat \cup {-1}]
Tag(role, pos, byte, cut, n) ==
    [role |-> role, pos |-> pos, byte |-> byte, cut |-> cut, n |-> n]

\* The byte on link i: an address is another one on every link.
OnWire(i, t) == IF t.role = "addr" THEN Position(i) ELSE t.byte

\* A packet may start behind t; and so may a sync sequence, if no ESC run is open.
Boundary(t) == t.role \in {"start", "addr"} \/ (t.role = "pkt" /\ t.pos = MSG_LEN)
Closed(t) ==
    \/ t.role = "start"
    \/ t.role = "pkt" /\ t.byte # ESC
    \/ t.role = "addr" /\ \A j \in Device : Position(j) # ESC

\* A tag of link i agrees with the log l.
Sound(l, i, t) ==
    /\ t \in Tags /\ t.n <= Len(l)
    /\ t.role = "esc" => t.pos \in 1 .. SYNC_LEN /\ t.byte = ESC
    /\ t.role = "pkt" => t.pos \in 1 .. MSG_LEN /\ (t.pos = 2 => t.byte # ESC)
    /\ t.role = "pkt" /\ t.n >= 0 =>
          t.n \in DOMAIN l /\ l[t.n].from < i /\ l[t.n].packet[t.pos] = t.byte
    /\ t.role = "esc" /\ t.cut > 0 /\ t.n >= 0 =>
          /\ t.n \in DOMAIN l /\ l[t.n].from < i
          /\ \A p \in t.cut + 1 .. MSG_LEN : l[t.n].packet[p] = ESC

\* None of the packets behind a up to b went over link i.
NoneFor(l, i, a, b) == \A m \in DOMAIN l : a < m /\ m <= b => l[m].from >= i

\* The ways in which a byte may follow another one.
PacketStarts(l, i, e, f) ==
    /\ f.role = "pkt" /\ f.pos = 1 /\ Boundary(e)
    /\ e.n >= 0 => f.n > e.n /\ NoneFor(l, i, e.n, f.n - 1)
PacketGoesOn(e, f) ==
    f.role = "pkt" /\ e.role = "pkt" /\ f.pos = e.pos + 1 /\ f.n = e.n
SyncStarts(l, i, e, f) ==
    /\ f.role = "esc" /\ f.pos = 1 /\ f.cut = 0 /\ Boundary(e) /\ Closed(e)
    /\ e.n >= 0 => f.n >= e.n /\ NoneFor(l, i, e.n, f.n)
SyncCuts(e, f) ==
    f.role = "esc" /\ f.pos = 1 /\ f.cut = e.pos /\ ~Boundary(e) /\ Closed(e) /\ f.n = e.n
SyncGoesOn(e, f) ==
    f.role = "esc" /\ e.role = "esc" /\ f.pos = e.pos + 1 /\ f.cut = e.cut /\ f.n = e.n
AddressComes(e, f) ==
    /\ f.role = "addr" /\ e.role = "esc" /\ e.pos = SYNC_LEN
    /\ IF e.n = -1 THEN f.n \in {-1, 0} ELSE f.n = e.n

\* Only the address of a sync starts the log.
Follows(l, i, e, f) ==
    /\ e.n = -1 /\ f.role # "addr" => f.n = -1
    /\ \/ PacketStarts(l, i, e, f) \/ PacketGoesOn(e, f)
       \/ SyncStarts(l, i, e, f) \/ SyncCuts(e, f) \/ SyncGoesOn(e, f)
       \/ AddressComes(e, f)

\* s tells the meaning of the byte device i took last and of the bytes r.
Stream(l, i, s, r) ==
    /\ s \in Seq(Tags) /\ Len(s) = Len(r) + 1
    /\ \A k \in 1 .. Len(s) : Sound(l, i, s[k])
    /\ \A k \in 1 .. Len(r) : r[k] = OnWire(i, s[k + 1]) /\ Follows(l, i, s[k], s[k + 1])

\* Of a meaning: the byte device i took last, and the last put on its link.
Taken(tag, i) == tag[i][1]
Latest(tag, i) == tag[i][Len(tag[i])]

-----------------------------------------------------------------------------
(* The inductive invariant.  Its parts say how a meaning tag agrees with    *)
(* the devices d, the bytes r under way, the trust tr, the last byte ls of  *)
(* the controller, the log l and the packets dn the devices executed.       *)

IsLive(tr) == tr \in {"armed", "settled"}
Talking(d) == d.master /\ d.thread = "packet"

Streams(tag, l, r) == \A i \in Device : Stream(l, i, tag[i], r[i])

\* A device passes on what it takes.  Only the first may have put bytes of its
\* own behind that, between two units, as the master does.
OwnBytes(tag, d) ==
    /\ Boundary(Taken(tag, 1)) /\ Boundary(Latest(tag, 2))
    /\ Taken(tag, 1).n <= Latest(tag, 2).n
    /\ Latest(tag, 2).n >= 0 => Taken(tag, 1).n >= 0
    /\ Closed(Latest(tag, 2)) \/ Talking(d[1])
    /\ Len(tag[1]) > 1 =>
          /\ tag[1][2].n >= Latest(tag, 2).n
          /\ tag[1][2].role = "pkt" /\ tag[1][2].n >= 0 => tag[1][2].n > Latest(tag, 2).n
Tied(tag, d) ==
    \A i \in Device : i < N =>
        Taken(tag, i) = Latest(tag, i + 1) \/ (i = 1 /\ OwnBytes(tag, d))

\* The ESC counter: a packet whose second byte is not ESC does not reach SYNC_LEN.
Counted(i, t, sync) ==
    /\ t.role = "start" => sync = 0
    /\ t.role = "esc" => sync = t.pos
    /\ t.role = "addr" => sync = IF Position(i) = ESC THEN (SYNC_LEN + 1) % BYTE ELSE 0
    /\ t.role = "pkt" => /\ t.byte # ESC => sync = 0
                         /\ IF t.pos = 1 THEN sync # SYNC_LEN ELSE sync <= t.pos - 2
Counts(tag, d) == \A i \in Device : Counted(i, Taken(tag, i), d[i].sync)

\* The controller completes what it starts.
Sender(tag, ls) ==
    /\ Boundary(Latest(tag, 1))
    /\ Latest(tag, 1).role # "start" =>
         IF ls = -1 THEN Latest(tag, 1).role = "addr"
         ELSE Latest(tag, 1).role = "pkt" /\ Latest(tag, 1).byte = ls

\* A master waits between units.
MasterWaits(tag, d) == \A i \in Device : Talking(d[i]) => Boundary(Taken(tag, i))

\* When the links up to a device are empty it has taken all there is.
Caught(tag, l, r, i) ==
    (\A j \in 1 .. i : r[j] = <<>>) =>
        Boundary(Taken(tag, i)) /\ NoneFor(l, i, Taken(tag, i).n, Len(l))
CaughtUp(tag, l, r) == \A i \in Device : Caught(tag, l, r, i)

\* What is in the log is on the links.
Numbered(tag, tr, l) ==
    /\ tr = "pure" => \A i \in Device : \A k \in 1 .. Len(tag[i]) : tag[i][k].n = -1
    /\ IsLive(tr) =>
         /\ Latest(tag, 1).n >= 0
         /\ \A i \in Device : \A m \in DOMAIN l : m > Latest(tag, i).n => l[m].from # i - 1

\* The sync that armed the bus is the last under way; one that comes later finds
\* every device addressed.
OneSync(tag, tr, d, r) ==
    /\ tr = "armed" =>
         /\ \A i \in Device : \A k \in 1 .. Len(tag[i]) : tag[i][k].role = "esc" => tag[i][k].n = -1
         /\ N > 1 => \E i \in Device : r[i] # <<>>
    /\ tr = "settled" =>
         \A i \in Device : \A k \in 1 .. Len(tag[i]) :
            tag[i][k].role = "esc" => tag[i][k].n >= 0 /\ d[i].synced

\* The packet a byte belongs to is in the buffer as far as it was taken.
Unfinished(t) ==
    \/ t.role = "pkt" /\ ~Boundary(t)
    \/ t.role = "esc" /\ t.cut > 0 /\ t.cut + t.pos < MSG_LEN
Size(t) == IF t.role = "pkt" THEN t.pos ELSE t.cut + t.pos
Buffered(l, t, buf) ==
    /\ Boundary(t) => buf = <<>>
    /\ Unfinished(t) =>
          Len(buf) = Size(t) /\ \A q \in 1 .. Size(t) : buf[q] = l[t.n].packet[q]
    /\ t.role = "esc" /\ ~Unfinished(t) => \A q \in 1 .. Len(buf) : buf[q] = ESC
Completed(t) == IF Unfinished(t) THEN t.n - 1 ELSE t.n

\* ExecutedUpTo of Bus, for a log, an address and the packets executed.
For(l, a, i) == {m \in DOMAIN l : l[m].from < i /\ Accepts(a, l[m].packet)}
RankIn(l, a, i, m) == Cardinality({k \in For(l, a, i) : k <= m})
Executed(l, a, x, i, n) ==
    /\ Len(x) = RankIn(l, a, i, n)
    /\ \A m \in For(l, a, i) : m <= n => x[RankIn(l, a, i, m)] = l[m].packet

\* A device that took the sync has its address, its buffer and its packets.
InStep(l, i, t, d, x) ==
    /\ d.address = Position(i) /\ Buffered(l, t, d.buf)
    /\ Executed(l, Position(i), x, i, Completed(t))
AllInStep(tag, tr, d, l, dn) ==
    \A i \in Device : IsLive(tr) /\ d[i].synced /\ Taken(tag, i).n >= 0 =>
        InStep(l, i, Taken(tag, i), d[i], dn[i])

\* Every device took the sync, or its address is still under way.
UnderWay(tag, i) ==
    \E j \in 1 .. i : \E k \in 2 .. Len(tag[j]) : tag[j][k].role = "addr" /\ tag[j][k].n = 0
Reached(tag, tr, d) ==
    IsLive(tr) => \A i \in Device :
        \/ Taken(tag, i).n >= 0 /\ (d[i].synced \/ i \in Jumpered)
        \/ tr = "armed" /\ UnderWay(tag, i)

Meaning(tag, d, r, tr, ls, l, dn) ==
    /\ Streams(tag, l, r)
    /\ Tied(tag, d)
    /\ Counts(tag, d)
    /\ Sender(tag, ls)
    /\ MasterWaits(tag, d)
    /\ CaughtUp(tag, l, r)
    /\ Numbered(tag, tr, l)
    /\ OneSync(tag, tr, d, r)
    /\ AllInStep(tag, tr, d, l, dn)
    /\ Reached(tag, tr, d)

DeviceState ==
    [address : Bytes, sync : Bytes, synced : BOOLEAN, buf : Seq(Bytes),
     master : BOOLEAN, thread : {"timer", "packet"}]
Entries == [from : 0 .. N, packet : Packet]
Types ==
    /\ dev \in [Device -> DeviceState] /\ rx \in [Device -> Seq(Bytes)]
    /\ trust \in TrustLevels /\ lastSent \in Bytes \cup {-1}
    /\ log \in Seq(Entries) /\ done \in [Device -> Seq(Packet)]

\* A master is jumpered and has no address; a complete packet is taken at once;
\* only a live bus keeps a history.
Modest(d) ==
    \A i \in Device :
        /\ d[i].master => i \in Jumpered /\ ~d[i].synced
        /\ d[i].synced => Len(d[i].buf) < MSG_LEN
NoHistory(tr, l, dn) == tr \in {"lost", "pure"} => l = <<>> /\ dn = NoPackets

IInv ==
    /\ Types /\ Modest(dev) /\ NoHistory(trust, log, done)
    /\ trust # "lost" => \E tag : Meaning(tag, dev, rx, trust, lastSent, log, done)

-----------------------------------------------------------------------------
(* Counting modulo BYTE *)

LEMMA Sizes ==
    /\ N \in Nat /\ N >= 1 /\ N < BYTE
    /\ BYTE \in Nat /\ BYTE >= 3 /\ Bytes = 0 .. BYTE - 1
    /\ MSG_LEN \in Nat /\ MSG_LEN >= 2 /\ MSG_LEN <= SYNC_LEN
    /\ SYNC_LEN \in Nat /\ SYNC_LEN < BYTE
    /\ ESC \in Bytes /\ FIRST \in Bytes
    /\ Device = 1 .. N
BY BusAssumption DEF Bytes, Device

LEMMA Increment ==
    ASSUME NEW x \in Bytes
    PROVE  (x + 1) % BYTE = (IF x = BYTE - 1 THEN 0 ELSE x + 1) /\ (x + 1) % BYTE \in Bytes
<1>1. BYTE \in Nat /\ BYTE >= 3 /\ x \in 0 .. BYTE - 1
    BY Sizes
<1>2. CASE x = BYTE - 1
    <2>1. BYTE % BYTE = 0
        BY <1>1
    <2> QED BY <1>1, <1>2, <2>1, Sizes
<1>3. CASE x # BYTE - 1
    <2>1. x + 1 \in 0 .. BYTE - 1
        BY <1>1, <1>3
    <2>2. (x + 1) % BYTE = x + 1
        BY <1>1, <2>1
    <2> QED BY <1>1, <1>3, <2>1, <2>2, Sizes
<1> QED BY <1>2, <1>3

\* The addresses count on from device to device, round past BYTE - 1.
LEMMA PositionIs ==
    ASSUME NEW i \in Device
    PROVE  /\ Position(i) = IF FIRST + i - 1 < BYTE THEN FIRST + i - 1 ELSE FIRST + i - 1 - BYTE
           /\ Position(i) \in Bytes
<1>1. /\ BYTE \in Nat /\ BYTE >= 3 /\ FIRST \in 0 .. BYTE - 1 /\ i \in Nat /\ i >= 1 /\ i < BYTE
      /\ Bytes = 0 .. BYTE - 1
    BY Sizes
<1> DEFINE n == FIRST + i - 1
<1>2. n \in 0 .. 2 * BYTE - 1
    BY <1>1
<1> HIDE DEF n
<1>3. CASE n < BYTE
    <2>1. n % BYTE = n
        BY <1>1, <1>2, <1>3
    <2> QED BY <1>1, <1>2, <1>3, <2>1 DEF Position, n
<1>4. CASE n >= BYTE
    <2>1. n - BYTE \in 0 .. BYTE - 1
        BY <1>1, <1>2, <1>4
    <2>2. (n - BYTE) % BYTE = n - BYTE
        BY <1>1, <2>1
    <2>3. n % BYTE = (n - BYTE) % BYTE
        BY <1>1, <1>2, <1>4
    <2> QED BY <1>1, <1>4, <2>1, <2>2, <2>3 DEF Position, n
<1> QED BY <1>1, <1>2, <1>3, <1>4

LEMMA NextPosition ==
    ASSUME NEW i \in Device, i + 1 \in Device
    PROVE  Position(i + 1) = (Position(i) + 1) % BYTE
<1>1. /\ BYTE \in Nat /\ BYTE >= 3 /\ FIRST \in 0 .. BYTE - 1 /\ i \in Nat /\ i >= 1 /\ i + 1 < BYTE
    BY Sizes
<1>2. /\ Position(i) = IF FIRST + i - 1 < BYTE THEN FIRST + i - 1 ELSE FIRST + i - 1 - BYTE
      /\ Position(i + 1) = IF FIRST + i < BYTE THEN FIRST + i ELSE FIRST + i - BYTE
      /\ Position(i) \in Bytes
    BY <1>1, PositionIs
<1>3. (Position(i) + 1) % BYTE = IF Position(i) = BYTE - 1 THEN 0 ELSE Position(i) + 1
    BY <1>2, Increment
<1> QED BY <1>1, <1>2, <1>3

-----------------------------------------------------------------------------
(* Tags *)

LEMMA TagIs ==
    ASSUME NEW role \in Roles, NEW pos \in Nat, NEW byte \in Bytes,
           NEW cut \in 0 .. MSG_LEN - 1, NEW n \in Nat \cup {-1}
    PROVE  /\ Tag(role, pos, byte, cut, n) \in Tags
           /\ Tag(role, pos, byte, cut, n).role = role /\ Tag(role, pos, byte, cut, n).pos = pos
           /\ Tag(role, pos, byte, cut, n).byte = byte /\ Tag(role, pos, byte, cut, n).cut = cut
           /\ Tag(role, pos, byte, cut, n).n = n
BY DEF Tag, Tags

LEMMA TagFields ==
    ASSUME NEW t \in Tags
    PROVE  /\ t.role \in Roles /\ t.pos \in Nat /\ t.byte \in Bytes
           /\ t.cut \in 0 .. MSG_LEN - 1 /\ t.n \in Int /\ t.n >= -1
BY DEF Tags

LEMMA WireBytes ==
    ASSUME NEW i \in Device, NEW t \in Tags
    PROVE  OnWire(i, t) \in Bytes
BY TagFields, PositionIs DEF OnWire

\* What follows a tag does not have a smaller number.
LEMMA NumbersGrow ==
    ASSUME NEW l, NEW i, NEW e, NEW f, Sound(l, i, e), Sound(l, i, f), Follows(l, i, e, f)
    PROVE  f.n >= e.n /\ (f.role = "pkt" /\ f.pos = 1 /\ e.n >= 0 => f.n > e.n)
<1>1. e.n \in Int /\ f.n \in Int /\ e.n >= -1 /\ f.n >= -1 /\ e.pos \in Nat
    BY TagFields DEF Sound
<1>2. e.role = "pkt" => e.pos # 0
    BY DEF Sound
<1> QED
    BY <1>1, <1>2 DEF Follows, PacketStarts, PacketGoesOn, SyncStarts, SyncCuts, SyncGoesOn, AddressComes

-----------------------------------------------------------------------------
(* The counter of a device *)

\* A device takes for the address of a sync exactly what is one.
LEMMA SyncIsSeen ==
    ASSUME NEW l, NEW i \in Device, NEW e, NEW f, NEW sync,
           Sound(l, i, e), Sound(l, i, f), Follows(l, i, e, f), Counted(i, e, sync)
    PROVE  sync = SYNC_LEN <=> f.role = "addr"
<1>1. e.role \in Roles /\ e.pos \in Nat
    BY TagFields DEF Sound
<1>2. CASE e.role = "esc"
    <2>1. sync = e.pos /\ e.pos \in 1 .. SYNC_LEN /\ f.pos \in Nat
        BY <1>2, TagFields DEF Sound, Counted
    <2>2. f.role = "esc" => f.pos \in 1 .. SYNC_LEN
        BY DEF Sound
    <2> QED
        BY <1>2, <2>1, <2>2, Sizes
        DEF Follows, PacketStarts, PacketGoesOn, SyncStarts, SyncCuts, SyncGoesOn, AddressComes, Boundary, Closed
<1>3. CASE e.role # "esc"
    <2>1. f.role # "addr"
        BY <1>3 DEF Follows, PacketStarts, PacketGoesOn, SyncStarts, SyncCuts, SyncGoesOn, AddressComes
    <2>2. sync # SYNC_LEN
        <3>1. CASE e.role = "start"
            BY <3>1, Sizes DEF Counted
        <3>2. CASE e.role = "addr"
            <4>1. (SYNC_LEN + 1) % BYTE # SYNC_LEN
                BY Sizes, Increment
            <4> QED BY <3>2, <4>1, Sizes DEF Counted
        <3>3. CASE e.role = "pkt"
            <4>1. e.pos \in 1 .. MSG_LEN
                BY <3>3 DEF Sound
            <4> QED BY <3>3, <4>1, Sizes DEF Counted
        <3> QED BY <1>1, <1>3, <3>1, <3>2, <3>3 DEF Roles
    <2> QED BY <2>1, <2>2
<1> QED BY <1>2, <1>3

\* And counts on as the tags say.
LEMMA SyncIsCounted ==
    ASSUME NEW l, NEW i \in Device, NEW e, NEW f, NEW d, d.sync \in Bytes,
           Sound(l, i, e), Sound(l, i, f), Follows(l, i, e, f), Counted(i, e, d.sync)
    PROVE  Counted(i, f, NextSync(d, OnWire(i, f)))
<1> DEFINE next == NextSync(d, OnWire(i, f))
<1>1. /\ e.role \in Roles /\ e.pos \in Nat /\ e.byte \in Bytes
      /\ f.role \in Roles /\ f.pos \in Nat /\ f.byte \in Bytes
    BY TagFields DEF Sound
<1>2. next = IF OnWire(i, f) = ESC THEN (IF d.sync = BYTE - 1 THEN 0 ELSE d.sync + 1) ELSE 0
    BY Increment DEF NextSync
<1>3. f.role # "start"
    BY DEF Follows, PacketStarts, PacketGoesOn, SyncStarts, SyncCuts, SyncGoesOn, AddressComes
<1>4. CASE f.role = "addr"
    <2>1. d.sync = SYNC_LEN
        BY <1>4, SyncIsSeen
    <2> QED BY <1>4, <2>1 DEF Counted, OnWire, NextSync
<1>5. CASE f.role = "esc"
    <2>1. OnWire(i, f) = ESC /\ f.pos \in 1 .. SYNC_LEN
        BY <1>5 DEF OnWire, Sound
    <2>2. CASE f.pos = 1
        <3>1. e.role # "esc"
            BY <1>5, <2>2, <1>1 DEF Follows, PacketStarts, PacketGoesOn, SyncStarts, SyncCuts, SyncGoesOn, AddressComes, Closed, Sound
        <3>2. Closed(e)
            BY <1>5, <2>2, <3>1 DEF Follows, PacketStarts, PacketGoesOn, SyncStarts, SyncCuts, SyncGoesOn, AddressComes
        <3>3. d.sync = 0
            BY <3>2 DEF Counted, Closed
        <3> QED BY <1>2, <1>5, <2>1, <2>2, <3>3, Sizes DEF Counted
    <2>3. CASE f.pos # 1
        <3>1. e.role = "esc" /\ f.pos = e.pos + 1
            BY <1>5, <2>3 DEF Follows, PacketStarts, PacketGoesOn, SyncStarts, SyncCuts, SyncGoesOn, AddressComes
        <3>2. d.sync = e.pos
            BY <3>1 DEF Counted
        <3> QED BY <1>1, <1>2, <1>5, <2>1, <3>1, <3>2, Sizes DEF Counted
    <2> QED BY <2>2, <2>3
<1>6. CASE f.role = "pkt"
    <2>1. OnWire(i, f) = f.byte /\ f.pos \in 1 .. MSG_LEN /\ (f.pos = 2 => f.byte # ESC)
        BY <1>6 DEF OnWire, Sound
    <2>2. CASE f.byte # ESC
        <3>1. next = 0
            BY <1>2, <2>1, <2>2
        <3> QED BY <1>6, <2>1, <2>2, <3>1, Sizes DEF Counted
    <2>3. CASE f.byte = ESC /\ f.pos = 1
        <3>1. Boundary(e)
            BY <1>1, <1>6, <2>3 DEF Follows, PacketStarts, PacketGoesOn, SyncStarts, SyncCuts, SyncGoesOn, AddressComes, Sound
        <3>2. next # SYNC_LEN
            <4>1. CASE e.role = "addr"
                <5>1. (SYNC_LEN + 1) % BYTE = IF SYNC_LEN = BYTE - 1 THEN 0 ELSE SYNC_LEN + 1
                    BY Sizes, Increment
                <5> QED BY <1>2, <4>1, <5>1, Sizes DEF Counted
            <4>2. CASE e.role = "start"
                BY <1>2, <4>2, Sizes DEF Counted
            <4>3. CASE e.role = "pkt" /\ e.pos = MSG_LEN
                BY <1>2, <4>3, Sizes DEF Counted
            <4> QED BY <3>1, <4>1, <4>2, <4>3 DEF Boundary
        <3> QED BY <1>6, <2>1, <2>3, <3>2 DEF Counted
    <2>4. CASE f.byte = ESC /\ f.pos > 2
        <3>1. e.role = "pkt" /\ f.pos = e.pos + 1
            BY <1>6, <2>4 DEF Follows, PacketStarts, PacketGoesOn, SyncStarts, SyncCuts, SyncGoesOn, AddressComes
        <3>2. e.byte # ESC => d.sync = 0
            BY <3>1 DEF Counted
        <3>3. e.pos # 1 => d.sync <= e.pos - 2
            BY <3>1 DEF Counted
        <3>4. e.pos \in 2 .. MSG_LEN - 1
            BY <1>1, <2>1, <2>4, <3>1, Sizes
        <3>5. next = d.sync + 1 /\ next <= f.pos - 2
            BY <1>2, <2>1, <2>4, <3>1, <3>3, <3>4, Sizes
        <3> QED BY <1>6, <2>1, <2>4, <3>5 DEF Counted
    <2> QED BY <1>1, <2>1, <2>2, <2>3, <2>4, Sizes
<1> QED BY <1>1, <1>3, <1>4, <1>5, <1>6 DEF Roles

-----------------------------------------------------------------------------
(* Streams *)

\* What the bytes q mean when they are put on a link behind e.
Fragment(l, i, e, s, q) ==
    /\ s \in Seq(Tags) /\ Len(s) = Len(q) /\ Len(q) >= 1
    /\ \A k \in 1 .. Len(s) : Sound(l, i, s[k]) /\ q[k] = OnWire(i, s[k])
    /\ Follows(l, i, e, s[1])
    /\ \A k \in 1 .. Len(s) - 1 : Follows(l, i, s[k], s[k + 1])

Joined(a, b, c) == c = a \o b

LEMMA StreamAppend ==
    ASSUME NEW l, NEW i, NEW s, NEW r \in Seq(Bytes), NEW t, NEW q \in Seq(Bytes),
           Stream(l, i, s, r), Fragment(l, i, s[Len(s)], t, q),
           NEW u, Joined(s, t, u), NEW v, Joined(r, q, v)
    PROVE  /\ Stream(l, i, u, v) /\ v \in Seq(Bytes) /\ v # <<>>
           /\ Len(s) >= 1 /\ Len(t) >= 1 /\ Len(s) \in Nat /\ Len(t) \in Nat
           /\ Len(u) = Len(s) + Len(t)
           /\ \A k \in 1 .. Len(s) : u[k] = s[k]
           /\ \A k \in 1 .. Len(t) : u[Len(s) + k] = t[k]
<1>1. u = s \o t /\ v = r \o q
    BY DEF Joined
<1>2. s \in Seq(Tags) /\ t \in Seq(Tags) /\ Len(s) = Len(r) + 1 /\ Len(t) = Len(q) /\ Len(q) >= 1
    BY DEF Stream, Fragment
<1>3. Len(r) \in Nat /\ Len(q) \in Nat
    BY LenProperties
<1>4. u \in Seq(Tags) /\ Len(u) = Len(s) + Len(t) /\ v \in Seq(Bytes) /\ Len(v) = Len(r) + Len(q)
    <2>1. s \in Seq(Tags) /\ t \in Seq(Tags)
        BY <1>2
    <2>2. u \in Seq(Tags) /\ Len(u) = Len(s) + Len(t)
        BY <1>1, <2>1, ConcatProperties
    <2>3. v \in Seq(Bytes) /\ Len(v) = Len(r) + Len(q)
        BY <1>1, ConcatProperties
    <2> QED BY <2>2, <2>3
<1>5. \A k \in 1 .. Len(s) + Len(t) : u[k] = IF k <= Len(s) THEN s[k] ELSE t[k - Len(s)]
    <2>1. s \in Seq(Tags) /\ t \in Seq(Tags)
        BY <1>2
    <2> QED BY <1>1, <2>1, ConcatProperties
<1>6. \A k \in 1 .. Len(r) + Len(q) : v[k] = IF k <= Len(r) THEN r[k] ELSE q[k - Len(r)]
    BY <1>1, ConcatProperties
<1>7. ASSUME NEW k \in 1 .. Len(u)
      PROVE  Sound(l, i, u[k])
    <2>1. CASE k <= Len(s)
        BY <1>2, <1>3, <1>4, <1>5, <2>1 DEF Stream
    <2>2. CASE k > Len(s)
        <3>1. k - Len(s) \in 1 .. Len(t)
            BY <1>2, <1>3, <1>4, <2>2
        <3> QED BY <1>2, <1>3, <1>4, <1>5, <2>2, <3>1 DEF Fragment
    <2> QED BY <1>2, <1>3, <2>1, <2>2
<1>8. ASSUME NEW k \in 1 .. Len(v)
      PROVE  v[k] = OnWire(i, u[k + 1]) /\ Follows(l, i, u[k], u[k + 1])
    <2>1. CASE k <= Len(r)
        BY <1>2, <1>3, <1>4, <1>5, <1>6, <2>1 DEF Stream
    <2>2. CASE k = Len(r) + 1
        <3>1. k = Len(s) /\ k + 1 = Len(s) + 1 /\ k \in 1 .. Len(s) + Len(t) /\ k + 1 \in 1 .. Len(s) + Len(t)
              /\ k - Len(r) = 1 /\ k + 1 - Len(s) = 1 /\ 1 \in 1 .. Len(t)
            BY <1>2, <1>3, <2>2
        <3>2. u[k] = s[k]
            BY <1>5, <2>2, <3>1
        <3>3. ~(k + 1 <= Len(s)) /\ ~(k <= Len(r))
            BY <1>2, <1>3, <2>2
        <3>4. u[k + 1] = t[1]
            BY <1>5, <3>1, <3>3
        <3>5. v[k] = q[1]
            BY <1>2, <1>3, <1>6, <2>2, <3>1, <3>3
        <3> QED BY <3>1, <3>2, <3>4, <3>5 DEF Fragment
    <2>3. CASE k > Len(r) + 1
        <3> DEFINE j == k - Len(s)
        <3>1. j \in 1 .. Len(t) - 1 /\ j + 1 \in 1 .. Len(q) /\ k - Len(r) = j + 1 /\ k + 1 - Len(s) = j + 1
            BY <1>2, <1>3, <1>4, <2>3
        <3>2. u[k] = t[j] /\ u[k + 1] = t[j + 1] /\ v[k] = q[j + 1]
            BY <1>2, <1>3, <1>4, <1>5, <1>6, <2>3, <3>1
        <3> HIDE DEF j
        <3> QED BY <1>2, <3>1, <3>2 DEF Fragment
    <2> QED BY <1>2, <1>3, <2>1, <2>2, <2>3
<1>9. Stream(l, i, u, v)
    BY <1>2, <1>3, <1>4, <1>7, <1>8 DEF Stream
<1>10. v # <<>>
    BY <1>2, <1>3, <1>4, EmptySeq
<1>11. \A k \in 1 .. Len(t) : u[Len(s) + k] = t[k]
    <2> TAKE k \in 1 .. Len(t)
    <2>1. /\ Len(s) + k \in 1 .. Len(s) + Len(t) /\ ~(Len(s) + k <= Len(s))
          /\ Len(s) + k - Len(s) = k
        BY <1>2, <1>3
    <2> QED BY <1>5, <2>1
<1> QED BY <1>2, <1>3, <1>4, <1>5, <1>9, <1>10, <1>11

IsTail(a, b) == b = Tail(a)

LEMMA StreamTail ==
    ASSUME NEW l, NEW i, NEW s, NEW r \in Seq(Bytes), r # <<>>, Stream(l, i, s, r),
           NEW u, IsTail(s, u), NEW v, IsTail(r, v)
    PROVE  /\ Stream(l, i, u, v) /\ v \in Seq(Bytes)
           /\ u[1] = s[2] /\ u[Len(u)] = s[Len(s)]
           /\ Len(s) >= 2 /\ Len(u) = Len(s) - 1
           /\ \A k \in 1 .. Len(u) : u[k] = s[k + 1]
           /\ Head(r) = OnWire(i, s[2]) /\ Sound(l, i, s[1]) /\ Sound(l, i, s[2])
           /\ Follows(l, i, s[1], s[2])
<1>1. Len(r) \in Nat /\ Len(r) >= 1 /\ Head(r) = r[1]
    BY EmptySeq, LenProperties
<1>2. s \in Seq(Tags) /\ Len(s) = Len(r) + 1 /\ s # <<>>
    BY <1>1, EmptySeq DEF Stream
<1>3. /\ u \in Seq(Tags) /\ Len(u) = Len(s) - 1
      /\ \A k \in 1 .. Len(u) : u[k] = s[k + 1]
    BY <1>2, HeadTailProperties DEF IsTail
<1>4. /\ v \in Seq(Bytes) /\ Len(v) = Len(r) - 1
      /\ \A k \in 1 .. Len(v) : v[k] = r[k + 1]
    BY HeadTailProperties DEF IsTail
<1>5. ASSUME NEW k \in 1 .. Len(u)
      PROVE  Sound(l, i, u[k])
    <2>1. k + 1 \in 1 .. Len(s)
        BY <1>1, <1>2, <1>3
    <2> QED BY <1>3, <2>1 DEF Stream
<1>6. ASSUME NEW k \in 1 .. Len(v)
      PROVE  v[k] = OnWire(i, u[k + 1]) /\ Follows(l, i, u[k], u[k + 1])
    <2>1. k + 1 \in 1 .. Len(r) /\ k \in 1 .. Len(u) /\ k + 1 \in 1 .. Len(u)
        BY <1>1, <1>2, <1>3, <1>4
    <2>2. v[k] = r[k + 1] /\ u[k] = s[k + 1] /\ u[k + 1] = s[k + 1 + 1]
        BY <1>3, <1>4, <2>1
    <2> QED BY <2>1, <2>2 DEF Stream
<1>7. Stream(l, i, u, v)
    BY <1>1, <1>2, <1>3, <1>4, <1>5, <1>6 DEF Stream
<1>8. 1 \in 1 .. Len(r) /\ 1 \in 1 .. Len(s) /\ 2 \in 1 .. Len(s)
    BY <1>1, <1>2
<1>9. Head(r) = OnWire(i, s[2]) /\ Sound(l, i, s[1]) /\ Sound(l, i, s[2]) /\ Follows(l, i, s[1], s[2])
    BY <1>1, <1>8 DEF Stream
<1> QED BY <1>1, <1>2, <1>3, <1>4, <1>7, <1>9

\* A log that grows leaves the meaning of what is under way.
LEMMA LongerLog ==
    ASSUME NEW l \in Seq(Entries), NEW x \in Entries
    PROVE  /\ Append(l, x) \in Seq(Entries) /\ Len(Append(l, x)) = Len(l) + 1
           /\ DOMAIN l = 1 .. Len(l) /\ DOMAIN Append(l, x) = 1 .. Len(l) + 1
           /\ Len(l) \in Nat
           /\ \A m \in DOMAIN l : Append(l, x)[m] = l[m]
           /\ Append(l, x)[Len(l) + 1] = x
BY LenProperties, AppendProperties

LEMMA SoundLonger ==
    ASSUME NEW l \in Seq(Entries), NEW x \in Entries, NEW i, NEW t, Sound(l, i, t)
    PROVE  Sound(Append(l, x), i, t)
<1>1. t \in Tags /\ t.n \in Int /\ t.n <= Len(l)
    BY TagFields DEF Sound
<1>2. t.n <= Len(Append(l, x))
    BY <1>1, LongerLog
<1>3. t.n \in DOMAIN l => t.n \in DOMAIN Append(l, x) /\ Append(l, x)[t.n] = l[t.n]
    BY LongerLog
<1> QED BY <1>1, <1>2, <1>3 DEF Sound

LEMMA NoneForLonger ==
    ASSUME NEW l \in Seq(Entries), NEW x \in Entries, NEW i, NEW a, NEW b \in Int, b <= Len(l),
           NoneFor(l, i, a, b)
    PROVE  NoneFor(Append(l, x), i, a, b)
<1> SUFFICES ASSUME NEW m \in DOMAIN Append(l, x), a < m, m <= b
             PROVE  Append(l, x)[m].from >= i
    BY DEF NoneFor
<1>1. m \in DOMAIN l
    BY LongerLog
<1> QED BY <1>1, LongerLog DEF NoneFor

LEMMA FollowsLonger ==
    ASSUME NEW l \in Seq(Entries), NEW x \in Entries, NEW i, NEW e, NEW f,
           Sound(l, i, f), Follows(l, i, e, f)
    PROVE  Follows(Append(l, x), i, e, f)
<1>1. f.n \in Int /\ f.n <= Len(l) /\ Len(l) \in Nat /\ f.n - 1 \in Int /\ f.n - 1 <= Len(l)
    BY TagFields, LenProperties DEF Sound
<1>2. NoneFor(l, i, e.n, f.n) => NoneFor(Append(l, x), i, e.n, f.n)
    BY <1>1, NoneForLonger
<1>3. NoneFor(l, i, e.n, f.n - 1) => NoneFor(Append(l, x), i, e.n, f.n - 1)
    BY <1>1, NoneForLonger
<1> QED BY <1>2, <1>3 DEF Follows, PacketStarts, SyncStarts

LEMMA StreamLonger ==
    ASSUME NEW l \in Seq(Entries), NEW x \in Entries, NEW i, NEW s, NEW r \in Seq(Bytes),
           Stream(l, i, s, r)
    PROVE  Stream(Append(l, x), i, s, r)
<1>1. s \in Seq(Tags) /\ Len(s) = Len(r) + 1 /\ Len(r) \in Nat
    BY LenProperties DEF Stream
<1>2. \A k \in 1 .. Len(s) : Sound(Append(l, x), i, s[k])
    BY SoundLonger DEF Stream
<1>3. ASSUME NEW k \in 1 .. Len(r)
      PROVE  r[k] = OnWire(i, s[k + 1]) /\ Follows(Append(l, x), i, s[k], s[k + 1])
    <2>1. k + 1 \in 1 .. Len(s)
        BY <1>1
    <2>2. Sound(l, i, s[k + 1]) /\ Follows(l, i, s[k], s[k + 1]) /\ r[k] = OnWire(i, s[k + 1])
        BY <2>1 DEF Stream
    <2> QED BY <2>2, FollowsLonger
<1> QED BY <1>1, <1>2, <1>3 DEF Stream

\* With the sync that starts a new log the bytes before it become of no account.
Renumbered(s) == [k \in DOMAIN s |-> [s[k] EXCEPT !.n = -1]]

LEMMA RenumberedTag ==
    ASSUME NEW t \in Tags, NEW u, u = [t EXCEPT !.n = -1]
    PROVE  /\ u \in Tags /\ u.role = t.role /\ u.pos = t.pos /\ u.byte = t.byte
           /\ u.cut = t.cut /\ u.n = -1
BY DEF Tags

Forgets(s, u) ==
    /\ Len(u) = Len(s) /\ Len(s) >= 1
    /\ \A k \in 1 .. Len(s) : u[k] = [s[k] EXCEPT !.n = -1]

LEMMA StreamRenumbered ==
    ASSUME NEW l, NEW m, NEW i, NEW s, NEW r \in Seq(Bytes), Len(m) \in Nat, Stream(l, i, s, r)
    PROVE  Stream(m, i, Renumbered(s), r) /\ Forgets(s, Renumbered(s))
<1> DEFINE u == Renumbered(s)
<1>1. s \in Seq(Tags) /\ Len(s) = Len(r) + 1 /\ Len(r) \in Nat
    BY LenProperties DEF Stream
<1>2. DOMAIN s = 1 .. Len(s) /\ \A k \in 1 .. Len(s) : s[k] \in Tags
    BY <1>1, ElementOfSeq, LenProperties
<1>3. \A k \in 1 .. Len(s) : u[k] = [s[k] EXCEPT !.n = -1]
    BY <1>2 DEF Renumbered
<1>4. \A k \in 1 .. Len(s) : /\ u[k] \in Tags /\ u[k].role = s[k].role /\ u[k].pos = s[k].pos
                             /\ u[k].byte = s[k].byte /\ u[k].cut = s[k].cut /\ u[k].n = -1
    <2> TAKE k \in 1 .. Len(s)
    <2>1. s[k] \in Tags /\ u[k] = [s[k] EXCEPT !.n = -1]
        BY <1>2, <1>3
    <2> QED BY <2>1, RenumberedTag
<1>5. u = [k \in 1 .. Len(s) |-> u[k]]
    BY <1>2 DEF Renumbered
<1>6. u \in Seq(Tags) /\ Len(u) = Len(s)
    BY <1>1, <1>4, <1>5, IsASeq
<1> HIDE DEF u
<1>7. ASSUME NEW k \in 1 .. Len(s)
      PROVE  Sound(m, i, u[k])
    <2>1. Sound(l, i, s[k])
        BY DEF Stream
    <2>2. -1 <= Len(m) /\ ~(-1 >= 0)
        OBVIOUS
    <2> QED BY <1>4, <2>1, <2>2 DEF Sound
<1>8. ASSUME NEW k \in 1 .. Len(r)
      PROVE  r[k] = OnWire(i, u[k + 1]) /\ Follows(m, i, u[k], u[k + 1])
    <2>1. k \in 1 .. Len(s) /\ k + 1 \in 1 .. Len(s)
        BY <1>1
    <2>2. r[k] = OnWire(i, s[k + 1]) /\ Follows(l, i, s[k], s[k + 1])
        BY DEF Stream
    <2>3. r[k] = OnWire(i, u[k + 1])
        BY <1>4, <2>1, <2>2 DEF OnWire
    <2>4. Follows(m, i, u[k], u[k + 1])
        <3>1. /\ Boundary(s[k]) <=> Boundary(u[k])
              /\ Closed(s[k]) <=> Closed(u[k])
            BY <1>4, <2>1 DEF Boundary, Closed
        <3>2. u[k].n = -1 /\ u[k + 1].n = -1 /\ ~(-1 >= 0)
            BY <1>4, <2>1
        <3> QED
            BY <1>4, <2>1, <2>2, <3>1, <3>2
            DEF Follows, PacketStarts, PacketGoesOn, SyncStarts, SyncCuts, SyncGoesOn, AddressComes
    <2> QED BY <2>3, <2>4
<1>9. Stream(m, i, u, r)
    BY <1>1, <1>6, <1>7, <1>8 DEF Stream
<1>10. Forgets(s, u)
    BY <1>1, <1>3, <1>6 DEF Forgets
<1> QED BY <1>9, <1>10 DEF u

-----------------------------------------------------------------------------
(* What is put on a link at once *)

PacketTags(p, n) == [k \in 1 .. Len(p) |-> Tag("pkt", k, p[k], 0, n)]
SyncTags(cut, n, an) ==
    [k \in 1 .. SYNC_LEN + 1 |->
        IF k <= SYNC_LEN THEN Tag("esc", k, ESC, cut, n) ELSE Tag("addr", 0, 0, 0, an)]

\* p is a packet, or what there is of one that a sync will cut short.
Started(p) == Len(p) \in 1 .. MSG_LEN /\ (Len(p) >= 2 => p[2] # ESC)
\* It has number n in the log, if any, and comes from before link i.
Logged(l, i, n, p) ==
    n >= 0 => n \in DOMAIN l /\ l[n].from < i /\ \A k \in 1 .. Len(p) : l[n].packet[k] = p[k]
\* It may follow e.
ComesNext(l, i, e, n) ==
    /\ Boundary(e) /\ (e.n = -1 => n = -1)
    /\ e.n >= 0 => n > e.n /\ NoneFor(l, i, e.n, n - 1)

LEMMA PacketTagsAre ==
    ASSUME NEW p \in Seq(Bytes), NEW n \in Nat \cup {-1}
    PROVE  /\ PacketTags(p, n) \in Seq(Tags) /\ Len(PacketTags(p, n)) = Len(p) /\ Len(p) \in Nat
           /\ \A k \in 1 .. Len(p) :
                /\ PacketTags(p, n)[k] \in Tags
                /\ PacketTags(p, n)[k].role = "pkt" /\ PacketTags(p, n)[k].pos = k
                /\ PacketTags(p, n)[k].byte = p[k] /\ PacketTags(p, n)[k].cut = 0
                /\ PacketTags(p, n)[k].n = n
<1> DEFINE s == PacketTags(p, n)
<1>1. Len(p) \in Nat /\ MSG_LEN \in Nat /\ 0 \in 0 .. MSG_LEN - 1
    BY Sizes, LenProperties
<1>2. \A k \in 1 .. Len(p) : p[k] \in Bytes
    BY ElementOfSeq
<1>3. \A k \in 1 .. Len(p) : s[k] = Tag("pkt", k, p[k], 0, n)
    BY DEF PacketTags
<1>4. \A k \in 1 .. Len(p) : /\ s[k] \in Tags /\ s[k].role = "pkt" /\ s[k].pos = k
                             /\ s[k].byte = p[k] /\ s[k].cut = 0 /\ s[k].n = n
    <2> TAKE k \in 1 .. Len(p)
    <2>1. k \in Nat /\ p[k] \in Bytes /\ "pkt" \in Roles /\ 0 \in 0 .. MSG_LEN - 1
        BY <1>1, <1>2 DEF Roles
    <2> DEFINE u == Tag("pkt", k, p[k], 0, n)
    <2>2. u \in Tags /\ u.role = "pkt" /\ u.pos = k /\ u.byte = p[k] /\ u.cut = 0 /\ u.n = n
        BY <2>1, TagIs
    <2>3. s[k] = u
        BY <1>3
    <2> HIDE DEF u, s
    <2> QED BY <2>2, <2>3
<1>5. s = [k \in 1 .. Len(p) |-> s[k]]
    BY DEF PacketTags
<1>6. s \in Seq(Tags) /\ Len(s) = Len(p)
    BY <1>1, <1>4, <1>5, IsASeq
<1> QED BY <1>1, <1>4, <1>6 DEF s

LEMMA PacketFragment ==
    ASSUME NEW l \in Seq(Entries), NEW i \in Device, NEW e, NEW p \in Seq(Bytes), Started(p),
           NEW n \in Nat \cup {-1}, n <= Len(l), Logged(l, i, n, p), ComesNext(l, i, e, n)
    PROVE  Fragment(l, i, e, PacketTags(p, n), p)
<1> DEFINE s == PacketTags(p, n)
<1>1. /\ Len(p) \in Nat /\ Len(p) >= 1 /\ Len(p) <= MSG_LEN /\ MSG_LEN \in Nat
      /\ Len(p) >= 2 => p[2] # ESC
    BY Sizes DEF Started
<1>2. s \in Seq(Tags) /\ Len(s) = Len(p)
    BY PacketTagsAre
<1>3. \A k \in 1 .. Len(p) : /\ s[k] \in Tags /\ s[k].role = "pkt" /\ s[k].pos = k
                             /\ s[k].byte = p[k] /\ s[k].cut = 0 /\ s[k].n = n
    BY PacketTagsAre
<1> HIDE DEF s
<1>4. ASSUME NEW k \in 1 .. Len(s)
      PROVE  Sound(l, i, s[k]) /\ p[k] = OnWire(i, s[k])
    <2>1. k \in 1 .. Len(p) /\ k \in 1 .. MSG_LEN
        BY <1>1, <1>2
    <2>2. /\ s[k] \in Tags /\ s[k].role = "pkt" /\ s[k].pos = k
          /\ s[k].byte = p[k] /\ s[k].cut = 0 /\ s[k].n = n
        BY <1>3, <2>1
    <2>3. k = 2 => p[k] # ESC
        BY <1>1, <2>1
    <2> QED BY <2>1, <2>2, <2>3 DEF Sound, OnWire, Logged
<1>5. Follows(l, i, e, s[1])
    <2>1. s[1].role = "pkt" /\ s[1].pos = 1 /\ s[1].n = n
        BY <1>1, <1>3
    <2> QED BY <2>1 DEF Follows, PacketStarts, ComesNext
<1>6. ASSUME NEW k \in 1 .. Len(s) - 1
      PROVE  Follows(l, i, s[k], s[k + 1])
    <2>1. k \in 1 .. Len(p) /\ k + 1 \in 1 .. Len(p)
        BY <1>1, <1>2
    <2> QED BY <1>3, <2>1 DEF Follows, PacketGoesOn
<1>7. Fragment(l, i, e, s, p)
    BY <1>1, <1>2, <1>4, <1>5, <1>6 DEF Fragment
<1> QED BY <1>7 DEF s

LEMMA ResyncIs ==
    ASSUME NEW a \in Bytes
    PROVE  /\ Resync(a) \in Seq(Bytes) /\ Len(Resync(a)) = SYNC_LEN + 1
           /\ \A k \in 1 .. SYNC_LEN + 1 : Resync(a)[k] = IF k <= SYNC_LEN THEN ESC ELSE a
<1> DEFINE run == [k \in 1 .. SYNC_LEN |-> ESC]
<1>1. run \in Seq(Bytes) /\ Len(run) = SYNC_LEN
    BY Sizes, IsASeq
<1>2. <<a>> \in Seq(Bytes) /\ Len(<<a>>) = 1 /\ <<a>>[1] = a
    OBVIOUS
<1>3. \A k \in 1 .. SYNC_LEN : run[k] = ESC
    OBVIOUS
<1>4. Resync(a) = run \o <<a>>
    BY DEF Resync
<1> HIDE DEF run
<1>5. /\ run \o <<a>> \in Seq(Bytes) /\ Len(run \o <<a>>) = Len(run) + Len(<<a>>)
      /\ \A k \in 1 .. Len(run) + Len(<<a>>) :
            (run \o <<a>>)[k] = IF k <= Len(run) THEN run[k] ELSE <<a>>[k - Len(run)]
    BY <1>1, <1>2, ConcatProperties
<1>6. ASSUME NEW k \in 1 .. SYNC_LEN + 1
      PROVE  Resync(a)[k] = IF k <= SYNC_LEN THEN ESC ELSE a
    <2>1. CASE k <= SYNC_LEN
        <3>1. k \in 1 .. SYNC_LEN
            BY <2>1, Sizes
        <3> QED BY <1>1, <1>2, <1>3, <1>4, <1>5, <2>1, <3>1, Sizes
    <2>2. CASE k > SYNC_LEN
        <3>1. k = SYNC_LEN + 1 /\ k - SYNC_LEN = 1
            BY <2>2, Sizes
        <3> QED BY <1>1, <1>2, <1>4, <1>5, <2>2, <3>1, Sizes
    <2> QED BY <2>1, <2>2, Sizes
<1> QED BY <1>1, <1>2, <1>4, <1>5, <1>6

SyncRun(s, cut, n, an) ==
    /\ s \in Seq(Tags) /\ Len(s) = SYNC_LEN + 1
    /\ \A k \in 1 .. SYNC_LEN : /\ s[k] \in Tags /\ s[k].role = "esc" /\ s[k].pos = k
                                /\ s[k].byte = ESC /\ s[k].cut = cut /\ s[k].n = n
    /\ s[SYNC_LEN + 1] \in Tags /\ s[SYNC_LEN + 1].role = "addr" /\ s[SYNC_LEN + 1].n = an

LEMMA SyncTagsAre ==
    ASSUME NEW cut \in 0 .. MSG_LEN - 1, NEW n \in Nat \cup {-1}, NEW an \in Nat \cup {-1}
    PROVE  SyncRun(SyncTags(cut, n, an), cut, n, an)
<1> DEFINE s == SyncTags(cut, n, an)
<1>1. SYNC_LEN \in Nat /\ SYNC_LEN + 1 \in Nat /\ SYNC_LEN + 1 \in 1 .. SYNC_LEN + 1 /\ ~(SYNC_LEN + 1 <= SYNC_LEN)
    BY Sizes
<1>2. "esc" \in Roles /\ "addr" \in Roles /\ 0 \in Bytes /\ 0 \in Nat /\ 0 \in 0 .. MSG_LEN - 1 /\ ESC \in Bytes
    BY Sizes DEF Roles
<1>3. s[SYNC_LEN + 1] = Tag("addr", 0, 0, 0, an)
    BY <1>1 DEF SyncTags
<1>4. /\ s[SYNC_LEN + 1] \in Tags /\ s[SYNC_LEN + 1].role = "addr" /\ s[SYNC_LEN + 1].n = an
    BY <1>2, <1>3, TagIs
<1>5. ASSUME NEW k \in 1 .. SYNC_LEN
      PROVE  /\ s[k] \in Tags /\ s[k].role = "esc" /\ s[k].pos = k
             /\ s[k].byte = ESC /\ s[k].cut = cut /\ s[k].n = n
    <2>1. k \in Nat /\ k <= SYNC_LEN /\ k \in 1 .. SYNC_LEN + 1
        BY <1>1
    <2>2. s[k] = Tag("esc", k, ESC, cut, n)
        BY <2>1 DEF SyncTags
    <2> QED BY <1>2, <2>1, <2>2, TagIs
<1>6. ASSUME NEW k \in 1 .. SYNC_LEN + 1
      PROVE  s[k] \in Tags
    <2>1. k \in 1 .. SYNC_LEN \/ k = SYNC_LEN + 1
        BY <1>1
    <2> QED BY <1>4, <1>5, <2>1
<1>7. s = [k \in 1 .. SYNC_LEN + 1 |-> s[k]]
    BY DEF SyncTags
<1> HIDE DEF s
<1>8. s \in Seq(Tags) /\ Len(s) = SYNC_LEN + 1
    BY <1>1, <1>6, <1>7, IsASeq
<1>9. SyncRun(s, cut, n, an)
    BY <1>4, <1>5, <1>8 DEF SyncRun
<1> QED BY <1>9 DEF s

\* A sync sequence with these numbers may follow e, between two packets or behind
\* a packet that was cut short.
SyncFits(l, i, e, cut, n, an) ==
    /\ n <= Len(l) /\ an <= Len(l)
    /\ cut = 0 => Boundary(e) /\ (e.n >= 0 => n >= e.n /\ NoneFor(l, i, e.n, n))
    /\ cut > 0 => cut = e.pos /\ ~Boundary(e) /\ n = e.n
    /\ cut > 0 /\ n >= 0 => /\ n \in DOMAIN l /\ l[n].from < i
                           /\ \A p \in cut + 1 .. MSG_LEN : l[n].packet[p] = ESC
    /\ e.n = -1 => n = -1
    /\ IF n = -1 THEN an \in {-1, 0} ELSE an = n

LEMMA SyncFragment ==
    ASSUME NEW l \in Seq(Entries), NEW i \in Device, NEW e, Closed(e),
           NEW cut \in 0 .. MSG_LEN - 1, NEW n \in Nat \cup {-1}, NEW an \in Nat \cup {-1},
           SyncFits(l, i, e, cut, n, an)
    PROVE  Fragment(l, i, e, SyncTags(cut, n, an), Resync(Position(i)))
<1> USE DEF SyncFits
<1> DEFINE s == SyncTags(cut, n, an)
           q == Resync(Position(i))
<1>1. /\ SYNC_LEN \in Nat /\ SYNC_LEN >= 2 /\ 1 \in 1 .. SYNC_LEN
      /\ SYNC_LEN + 1 \in 1 .. SYNC_LEN + 1 /\ ~(SYNC_LEN + 1 <= SYNC_LEN)
    BY Sizes
<1>2. /\ s \in Seq(Tags) /\ Len(s) = SYNC_LEN + 1
      /\ \A k \in 1 .. SYNC_LEN : /\ s[k] \in Tags /\ s[k].role = "esc" /\ s[k].pos = k
                                  /\ s[k].byte = ESC /\ s[k].cut = cut /\ s[k].n = n
      /\ s[SYNC_LEN + 1] \in Tags /\ s[SYNC_LEN + 1].role = "addr" /\ s[SYNC_LEN + 1].n = an
    <2>1. SyncRun(s, cut, n, an)
        BY SyncTagsAre
    <2> HIDE DEF s
    <2> QED BY <2>1 DEF SyncRun
<1>3. /\ q \in Seq(Bytes) /\ Len(q) = SYNC_LEN + 1
      /\ \A k \in 1 .. SYNC_LEN + 1 : q[k] = IF k <= SYNC_LEN THEN ESC ELSE Position(i)
    BY PositionIs, ResyncIs
<1> HIDE DEF s, q
<1>4. ASSUME NEW k \in 1 .. Len(s)
      PROVE  Sound(l, i, s[k]) /\ q[k] = OnWire(i, s[k])
    <2>1. k \in 1 .. SYNC_LEN \/ k = SYNC_LEN + 1
        BY <1>1, <1>2
    <2>2. CASE k = SYNC_LEN + 1
        BY <1>1, <1>2, <1>3, <2>2 DEF Sound, OnWire
    <2>3. CASE k \in 1 .. SYNC_LEN
        <3>1. k <= SYNC_LEN /\ k \in 1 .. SYNC_LEN + 1
            BY <1>1, <2>3
        <3>2. /\ s[k] \in Tags /\ s[k].role = "esc" /\ s[k].pos = k
              /\ s[k].byte = ESC /\ s[k].cut = cut /\ s[k].n = n /\ q[k] = ESC
            BY <1>2, <1>3, <2>3, <3>1
        <3> QED BY <2>3, <3>2 DEF Sound, OnWire
    <2> QED BY <2>1, <2>2, <2>3
<1>5. Follows(l, i, e, s[1])
    <2>1. s[1].role = "esc" /\ s[1].pos = 1 /\ s[1].cut = cut /\ s[1].n = n
        BY <1>1, <1>2
    <2>2. CASE cut = 0
        BY <2>1, <2>2 DEF Follows, SyncStarts
    <2>3. CASE cut > 0
        BY <2>1, <2>3 DEF Follows, SyncCuts
    <2> QED BY <2>2, <2>3
<1>6. ASSUME NEW k \in 1 .. Len(s) - 1
      PROVE  Follows(l, i, s[k], s[k + 1])
    <2>1. k \in 1 .. SYNC_LEN
        BY <1>1, <1>2
    <2>2. CASE k = SYNC_LEN
        BY <1>2, <2>1, <2>2 DEF Follows, AddressComes
    <2>3. CASE k # SYNC_LEN
        <3>1. k + 1 \in 1 .. SYNC_LEN
            BY <1>1, <2>1, <2>3
        <3> QED BY <1>2, <2>1, <3>1 DEF Follows, SyncGoesOn
    <2> QED BY <2>2, <2>3
<1>7. Fragment(l, i, e, s, q)
    BY <1>1, <1>2, <1>3, <1>4, <1>5, <1>6 DEF Fragment
<1> QED BY <1>7 DEF s, q

-----------------------------------------------------------------------------
(* The packets executed *)

LEMMA ForIs ==
    ASSUME NEW l \in Seq(Entries), NEW a, NEW i
    PROVE  For(l, a, i) \subseteq 1 .. Len(l) /\ IsFiniteSet(For(l, a, i)) /\ Len(l) \in Nat
<1>1. DOMAIN l = 1 .. Len(l) /\ Len(l) \in Nat
    BY LenProperties
<1>2. For(l, a, i) \subseteq 1 .. Len(l)
    BY <1>1 DEF For
<1>3. IsFiniteSet(1 .. Len(l))
    BY <1>1, FS_Interval
<1> QED BY <1>1, <1>2, <1>3, FS_Subset

LEMMA Ranks ==
    ASSUME NEW l \in Seq(Entries), NEW a, NEW i, NEW n \in Int
    PROVE  /\ RankIn(l, a, i, n) \in Nat
           /\ n \in For(l, a, i) => RankIn(l, a, i, n) = RankIn(l, a, i, n - 1) + 1
           /\ \A m \in Int : m <= n => RankIn(l, a, i, m) <= RankIn(l, a, i, n)
<1> DEFINE F == For(l, a, i)
           To(m) == {k \in F : k <= m}
<1>1. IsFiniteSet(F) /\ \A k \in F : k \in Int
    BY ForIs
<1>2. \A m : To(m) \subseteq F
    OBVIOUS
<1>3. \A m : IsFiniteSet(To(m)) /\ Cardinality(To(m)) \in Nat
    BY <1>1, <1>2, FS_Subset, FS_CardinalityType
<1>4. ASSUME n \in F
      PROVE  Cardinality(To(n)) = Cardinality(To(n - 1)) + 1
    <2>1. (\A k \in F : k <= n <=> k <= n - 1 \/ k = n) /\ ~(n <= n - 1)
        BY <1>1
    <2> HIDE DEF F
    <2>2. To(n) = To(n - 1) \cup {n} /\ n \notin To(n - 1)
        BY <1>4, <2>1, Zenon
    <2>3. IsFiniteSet(To(n - 1))
        BY <1>3
    <2> HIDE DEF To
    <2> QED BY <2>2, <2>3, FS_AddElement
<1>5. ASSUME NEW m \in Int, m <= n
      PROVE  Cardinality(To(m)) <= Cardinality(To(n))
    <2>1. To(m) \subseteq To(n)
        BY <1>1, <1>5
    <2>2. IsFiniteSet(To(n))
        BY <1>3
    <2> HIDE DEF To
    <2> QED BY <2>1, <2>2, FS_Subset
<1> QED BY <1>3, <1>4, <1>5 DEF RankIn

LEMMA ExecutedSkip ==
    ASSUME NEW l \in Seq(Entries), NEW a, NEW x, NEW i, NEW b \in Int, NEW c \in Int, b <= c,
           Executed(l, a, x, i, b), \A m \in For(l, a, i) : ~(b < m /\ m <= c)
    PROVE  Executed(l, a, x, i, c)
<1>1. \A m \in For(l, a, i) : m \in Int
    BY ForIs
<1>2. {k \in For(l, a, i) : k <= b} = {k \in For(l, a, i) : k <= c}
    BY <1>1
<1> QED BY <1>1, <1>2 DEF Executed, RankIn

LEMMA ExecutedNext ==
    ASSUME NEW l \in Seq(Entries), NEW a, NEW x \in Seq(Packet), NEW i, NEW n,
           n \in For(l, a, i), Executed(l, a, x, i, n - 1)
    PROVE  Executed(l, a, Append(x, l[n].packet), i, n)
<1> DEFINE y == Append(x, l[n].packet)
<1>1. n \in Int /\ n - 1 \in Int /\ n \in DOMAIN l
    BY ForIs DEF For
<1>2. l[n].packet \in Packet
    <2>1. n \in 1 .. Len(l)
        BY ForIs
    <2>2. l[n] \in Entries
        BY <2>1, ElementOfSeq
    <2> QED BY <2>2 DEF Entries
<1>3. /\ Len(y) = Len(x) + 1 /\ \A k \in 1 .. Len(x) : y[k] = x[k]
      /\ y[Len(x) + 1] = l[n].packet /\ Len(x) \in Nat
    BY <1>2, AppendProperties, LenProperties
<1>4. Len(x) = RankIn(l, a, i, n - 1)
    BY DEF Executed
<1>5. RankIn(l, a, i, n) = Len(x) + 1
    BY <1>1, <1>4, Ranks
<1>6. ASSUME NEW m \in For(l, a, i), m <= n
      PROVE  y[RankIn(l, a, i, m)] = l[m].packet
    <2>1. m \in Int
        BY ForIs
    <2>2. CASE m = n
        BY <1>3, <1>5, <2>2
    <2>3. CASE m # n
        <3>1. m <= n - 1
            BY <1>1, <1>6, <2>1, <2>3
        <3>2. x[RankIn(l, a, i, m)] = l[m].packet
            BY <3>1 DEF Executed
        <3>3. RankIn(l, a, i, m) <= RankIn(l, a, i, n - 1)
            BY <1>1, <2>1, <3>1, Ranks
        <3>4. RankIn(l, a, i, m) \in Nat /\ RankIn(l, a, i, m) >= 1
            <4>1. m - 1 \in Int
                BY <2>1
            <4> QED BY <2>1, <4>1, Ranks
        <3> QED BY <1>3, <1>4, <3>2, <3>3, <3>4
    <2> QED BY <2>2, <2>3
<1> QED BY <1>3, <1>5, <1>6 DEF Executed

LEMMA ExecutedLonger ==
    ASSUME NEW l \in Seq(Entries), NEW e \in Entries, NEW a, NEW x, NEW i, NEW n \in Int,
           n <= Len(l), Executed(l, a, x, i, n)
    PROVE  Executed(Append(l, e), a, x, i, n)
<1> DEFINE l2 == Append(l, e)
<1>1. /\ Len(l) \in Nat /\ DOMAIN l = 1 .. Len(l) /\ DOMAIN l2 = 1 .. Len(l) + 1
      /\ \A m \in DOMAIN l : l2[m] = l[m]
    BY LongerLog
<1> HIDE DEF l2
<1>2. ASSUME NEW m, m <= n
      PROVE  m \in For(l2, a, i) <=> m \in For(l, a, i)
    <2>1. m \in DOMAIN l2 <=> m \in DOMAIN l
        BY <1>1, <1>2
    <2> QED BY <1>1, <2>1 DEF For
<1>3. \A m \in Int : m <= n => RankIn(l2, a, i, m) = RankIn(l, a, i, m)
    <2> TAKE m \in Int
    <2> HAVE m <= n
    <2>1. \A k \in DOMAIN l2 : k \in Int
        BY <1>1
    <2>2. \A k \in For(l2, a, i) \cup For(l, a, i) : k \in Int
        BY <1>1 DEF For
    <2>3. {k \in For(l2, a, i) : k <= m} = {k \in For(l, a, i) : k <= m}
        BY <1>2, <2>2
    <2> QED BY <2>3 DEF RankIn
<1>4. ASSUME NEW m \in For(l2, a, i), m <= n
      PROVE  x[RankIn(l2, a, i, m)] = l2[m].packet
    <2>1. m \in For(l, a, i) /\ m \in DOMAIN l /\ m \in Int
        BY <1>1, <1>2, <1>4 DEF For
    <2>2. x[RankIn(l, a, i, m)] = l[m].packet
        BY <1>4, <2>1 DEF Executed
    <2> QED BY <1>1, <1>3, <1>4, <2>1, <2>2
<1>5. Len(x) = RankIn(l2, a, i, n)
    BY <1>3 DEF Executed
<1>6. Executed(l2, a, x, i, n)
    BY <1>4, <1>5 DEF Executed
<1> QED BY <1>6 DEF l2

LEMMA ExecutedNone ==
    ASSUME NEW l \in Seq(Entries), NEW a, NEW i
    PROVE  Executed(l, a, <<>>, i, 0)
<1>1. \A m \in For(l, a, i) : m \in Int /\ ~(m <= 0)
    BY ForIs
<1>2. {k \in For(l, a, i) : k <= 0} = {}
    BY <1>1
<1>3. RankIn(l, a, i, 0) = 0
    BY <1>2, FS_EmptySet DEF RankIn
<1> QED BY <1>1, <1>3 DEF Executed

-----------------------------------------------------------------------------
(* A device takes a byte *)

LEMMA AfterByteIs ==
    ASSUME NEW d \in DeviceState, NEW data \in Bytes
    PROVE  /\ AfterByte(d, data) \in DeviceState
           /\ AfterByte(d, data).sync = NextSync(d, data)
           /\ AfterByte(d, data).thread = d.thread
           /\ AtAddress(d) =>
                /\ AfterByte(d, data).address = data /\ AfterByte(d, data).buf = <<>>
                /\ AfterByte(d, data).synced = TRUE /\ AfterByte(d, data).master = FALSE
           /\ ~AtAddress(d) =>
                /\ AfterByte(d, data).address = d.address /\ AfterByte(d, data).synced = d.synced
                /\ AfterByte(d, data).master = d.master
                /\ AfterByte(d, data).buf =
                      IF Len(d.buf) < MSG_LEN THEN Append(d.buf, data) ELSE d.buf
<1>1. NextSync(d, data) \in Bytes
    BY Increment, Sizes DEF NextSync, DeviceState
<1>2. d.buf \in Seq(Bytes) /\ Append(d.buf, data) \in Seq(Bytes) /\ <<>> \in Seq(Bytes)
    BY AppendProperties, EmptySeq DEF DeviceState
<1>3. CASE AtAddress(d)
    <2>1. AfterByte(d, data) = [Synced(d, data) EXCEPT !.sync = NextSync(d, data)]
        BY <1>3 DEF AfterByte
    <2> QED BY <1>1, <1>2, <1>3, <2>1 DEF Synced, DeviceState
<1>4. CASE ~AtAddress(d)
    <2>1. AfterByte(d, data) = [Stored(d, data) EXCEPT !.sync = NextSync(d, data)]
        BY <1>4 DEF AfterByte
    <2>2. CASE Len(d.buf) < MSG_LEN
        <3>1. Stored(d, data) = [d EXCEPT !.buf = Append(@, data)]
            BY <2>2 DEF Stored
        <3> QED BY <1>1, <1>2, <1>4, <2>1, <2>2, <3>1 DEF DeviceState
    <2>3. CASE ~(Len(d.buf) < MSG_LEN)
        <3>1. Stored(d, data) = d
            BY <2>3 DEF Stored
        <3> QED BY <1>1, <1>4, <2>1, <2>3, <3>1 DEF DeviceState
    <2> QED BY <2>2, <2>3
<1> QED BY <1>3, <1>4

LEMMA AfterThreadIs ==
    ASSUME NEW d \in DeviceState
    PROVE  /\ AfterThread(d) \in DeviceState
           /\ AfterThread(d).sync = d.sync /\ AfterThread(d).thread = d.thread
           /\ AfterThread(d).address = d.address /\ AfterThread(d).synced = d.synced
           /\ AfterThread(d).master = d.master
           /\ AfterThread(d).buf = IF HasPacket(d) THEN <<>> ELSE d.buf
<1>1. <<>> \in Seq(Bytes)
    OBVIOUS
<1>2. CASE HasPacket(d)
    <2>1. AfterThread(d) = [d EXCEPT !.buf = <<>>]
        BY <1>2 DEF AfterThread
    <2> QED BY <1>1, <1>2, <2>1 DEF DeviceState
<1>3. CASE ~HasPacket(d)
    BY <1>3 DEF AfterThread
<1> QED BY <1>2, <1>3

\* What becomes of the buffer with one more byte: it is not full, or full with a
\* packet of the log, or full of ESC bytes behind one.
NotFull(l, i, e, f, c) ==
    /\ Len(c) < MSG_LEN /\ Buffered(l, f, c)
    /\ Completed(e) <= Completed(f) /\ NoneFor(l, i, Completed(e), Completed(f))
FullOf(l, i, e, f, c) ==
    /\ Len(c) = MSG_LEN /\ Buffered(l, f, <<>>)
    /\ f.n \in DOMAIN l /\ l[f.n].from < i /\ c = l[f.n].packet
    /\ Completed(f) = f.n /\ Completed(e) = f.n - 1
FullOfEsc(l, i, e, f, c) ==
    /\ Len(c) = MSG_LEN /\ c[2] = ESC /\ Buffered(l, f, <<>>) /\ Completed(f) = Completed(e)

LEMMA CompletedIs ==
    ASSUME NEW t \in Tags
    PROVE  Completed(t) \in Int /\ Completed(t) <= t.n
BY TagFields DEF Completed

\* A byte of the packet in the buffer.
LEMMA PacketByte ==
    ASSUME NEW l \in Seq(Entries), NEW i \in Device, NEW e \in Tags, NEW f \in Tags,
           NEW b \in Seq(Bytes), Buffered(l, e, b), Unfinished(e),
           f.n = e.n, f.n \in DOMAIN l, l[f.n].from < i,
           Size(e) \in Nat, Size(f) = Size(e) + 1, Size(f) <= MSG_LEN,
           l[f.n].packet[Size(f)] = f.byte,
           Unfinished(f) <=> Size(f) < MSG_LEN, Boundary(f) => ~Unfinished(f)
    PROVE  \/ NotFull(l, i, e, f, Append(b, f.byte))
           \/ FullOf(l, i, e, f, Append(b, f.byte))
<1> DEFINE c == Append(b, f.byte)
<1>1. f.byte \in Bytes /\ f.n \in Int /\ MSG_LEN \in Nat
    BY TagFields, Sizes
<1>2. /\ c \in Seq(Bytes) /\ Len(c) = Len(b) + 1 /\ \A k \in 1 .. Len(b) : c[k] = b[k]
      /\ c[Len(b) + 1] = f.byte
    BY <1>1, AppendProperties
<1>3. Len(b) = Size(e) /\ \A q \in 1 .. Size(e) : b[q] = l[f.n].packet[q]
    BY DEF Buffered
<1> HIDE DEF c
<1>4. Len(c) = Size(f) /\ \A q \in 1 .. Size(f) : c[q] = l[f.n].packet[q]
    BY <1>2, <1>3
<1>5. DOMAIN l = 1 .. Len(l) /\ Len(l) \in Nat
    BY LenProperties
<1>6. CASE Unfinished(f)
    <2>1. Completed(e) = f.n - 1 /\ Completed(f) = f.n - 1
        BY <1>6 DEF Completed
    <2>2. NoneFor(l, i, f.n - 1, f.n - 1)
        BY <1>1, <1>5 DEF NoneFor
    <2>3. Buffered(l, f, c)
        BY <1>4, <1>6 DEF Buffered
    <2> QED BY <1>1, <1>4, <1>6, <2>1, <2>2, <2>3 DEF NotFull, c
<1>7. CASE ~Unfinished(f)
    <2>1. Completed(e) = f.n - 1 /\ Completed(f) = f.n
        BY <1>7 DEF Completed
    <2>2. Size(f) = MSG_LEN
        BY <1>1, <1>7
    <2>3. Buffered(l, f, <<>>)
        BY <1>7 DEF Buffered
    <2>4. c = l[f.n].packet
        <3>1. l[f.n] \in Entries
            BY <1>5, ElementOfSeq
        <3>2. l[f.n].packet \in [1 .. MSG_LEN -> Bytes]
            BY <3>1 DEF Entries, Packet
        <3>3. l[f.n].packet \in Seq(Bytes) /\ Len(l[f.n].packet) = MSG_LEN
            BY <1>1, <3>2
        <3> QED BY <1>2, <1>4, <2>2, <3>3, SeqEqual
    <2> QED BY <1>4, <2>1, <2>2, <2>3, <2>4 DEF FullOf, c
<1> QED BY <1>6, <1>7

LEMMA BufferStep ==
    ASSUME NEW l \in Seq(Entries), NEW i \in Device, NEW e, NEW f, NEW b \in Seq(Bytes),
           Sound(l, i, e), Sound(l, i, f), Follows(l, i, e, f), f.role # "addr", e.n >= 0,
           Buffered(l, e, b), Len(b) < MSG_LEN
    PROVE  \/ NotFull(l, i, e, f, Append(b, f.byte))
           \/ FullOf(l, i, e, f, Append(b, f.byte))
           \/ FullOfEsc(l, i, e, f, Append(b, f.byte))
<1> DEFINE c == Append(b, f.byte)
<1>1. /\ e \in Tags /\ f \in Tags /\ f.byte \in Bytes /\ e.n \in Nat /\ e.pos \in Nat /\ f.pos \in Nat
      /\ e.cut \in 0 .. MSG_LEN - 1 /\ f.cut \in 0 .. MSG_LEN - 1 /\ f.n \in Int
    BY TagFields DEF Sound
<1>2. /\ c \in Seq(Bytes) /\ Len(c) = Len(b) + 1 /\ \A k \in 1 .. Len(b) : c[k] = b[k]
      /\ c[Len(b) + 1] = f.byte /\ Len(b) \in Nat
    BY <1>1, AppendProperties, LenProperties
<1>3. MSG_LEN \in Nat /\ MSG_LEN >= 2 /\ MSG_LEN <= SYNC_LEN
    BY Sizes
<1> HIDE DEF c
<1>4. CASE PacketStarts(l, i, e, f)
    <2>1. b = <<>> /\ Len(b) = 0 /\ ~Unfinished(e) /\ Completed(e) = e.n
        BY <1>4 DEF PacketStarts, Buffered, Boundary, Unfinished, Completed
    <2>2. f.role = "pkt" /\ f.pos = 1 /\ ~Boundary(f) /\ Unfinished(f) /\ Completed(f) = f.n - 1 /\ Size(f) = 1
        BY <1>3, <1>4 DEF PacketStarts, Boundary, Unfinished, Completed, Size
    <2>3. f.n > e.n /\ NoneFor(l, i, e.n, f.n - 1)
        BY <1>4 DEF PacketStarts
    <2>4. l[f.n].packet[1] = f.byte
        BY <1>1, <2>2, <2>3 DEF Sound
    <2>5. Len(c) = 1 /\ c[1] = f.byte
        BY <1>2, <2>1
    <2>6. Buffered(l, f, c)
        BY <2>2, <2>4, <2>5 DEF Buffered
    <2> QED BY <1>1, <1>3, <2>1, <2>2, <2>3, <2>5, <2>6 DEF NotFull, c
<1>5. CASE SyncStarts(l, i, e, f)
    <2>1. b = <<>> /\ Len(b) = 0 /\ ~Unfinished(e) /\ Completed(e) = e.n
        BY <1>5 DEF SyncStarts, Buffered, Boundary, Unfinished, Completed
    <2>2. f.role = "esc" /\ ~Boundary(f) /\ ~Unfinished(f) /\ Completed(f) = f.n /\ f.byte = ESC
        BY <1>3, <1>5 DEF SyncStarts, Boundary, Unfinished, Completed, Sound
    <2>3. f.n >= e.n /\ NoneFor(l, i, e.n, f.n)
        BY <1>5 DEF SyncStarts
    <2>4. Len(c) = 1 /\ c[1] = ESC
        BY <1>2, <2>1, <2>2
    <2>5. Buffered(l, f, c)
        BY <2>2, <2>4 DEF Buffered
    <2> QED BY <1>1, <1>3, <2>1, <2>2, <2>3, <2>4, <2>5 DEF NotFull, c
<1>6. CASE PacketGoesOn(e, f)
    <2>1. e.role = "pkt" /\ f.role = "pkt" /\ f.pos = e.pos + 1 /\ f.n = e.n /\ f.pos \in 1 .. MSG_LEN
        BY <1>6 DEF PacketGoesOn, Sound
    <2>2. Unfinished(e) /\ Size(e) = e.pos /\ Size(f) = f.pos
        BY <1>1, <1>3, <2>1 DEF Unfinished, Boundary, Size
    <2>3. (Unfinished(f) <=> f.pos < MSG_LEN) /\ (Boundary(f) => ~Unfinished(f))
        BY <1>1, <1>3, <2>1 DEF Unfinished, Boundary
    <2>4. f.n \in DOMAIN l /\ l[f.n].from < i /\ l[f.n].packet[f.pos] = f.byte
        BY <1>1, <2>1 DEF Sound
    <2>5. Size(e) \in Nat /\ Size(f) = Size(e) + 1 /\ Size(f) <= MSG_LEN
        BY <1>1, <1>3, <2>1, <2>2
    <2> QED BY <1>1, <2>1, <2>2, <2>3, <2>4, <2>5, PacketByte
<1>7. CASE SyncCuts(e, f)
    <2>1. e.role = "pkt" /\ Unfinished(e) /\ Size(e) = e.pos /\ e.pos >= 1
        BY <1>1, <1>7 DEF SyncCuts, Closed, Boundary, Unfinished, Size, Sound
    <2>2. f.role = "esc" /\ f.byte = ESC /\ f.pos = 1 /\ f.cut = e.pos /\ f.n = e.n /\ Size(f) = f.cut + 1
        BY <1>7 DEF SyncCuts, Sound, Size
    <2>3. (Unfinished(f) <=> Size(f) < MSG_LEN) /\ ~Boundary(f)
        BY <1>1, <2>1, <2>2 DEF Unfinished, Boundary
    <2>4. Size(f) \in f.cut + 1 .. MSG_LEN
        BY <1>1, <1>3, <2>2
    <2>5. f.n \in DOMAIN l /\ l[f.n].from < i /\ l[f.n].packet[Size(f)] = f.byte
        BY <1>1, <2>1, <2>2, <2>4 DEF Sound
    <2>6. Size(e) \in Nat /\ Size(f) = Size(e) + 1 /\ Size(f) <= MSG_LEN
        BY <1>1, <1>3, <2>1, <2>2, <2>4
    <2> QED BY <1>1, <2>1, <2>2, <2>3, <2>5, <2>6, PacketByte
<1>8. CASE SyncGoesOn(e, f) /\ Unfinished(e)
    <2>1. /\ e.role = "esc" /\ f.role = "esc" /\ f.pos = e.pos + 1 /\ f.cut = e.cut /\ f.n = e.n
          /\ f.byte = ESC /\ Size(e) = e.cut + e.pos /\ Size(f) = f.cut + f.pos
          /\ e.pos >= 1
        BY <1>1, <1>8 DEF SyncGoesOn, Sound, Size
    <2>2. e.cut > 0 /\ e.cut + e.pos < MSG_LEN
        BY <1>8, <2>1 DEF Unfinished
    <2>3. (Unfinished(f) <=> Size(f) < MSG_LEN) /\ ~Boundary(f)
        BY <1>1, <2>1, <2>2 DEF Unfinished, Boundary
    <2>4. Size(f) \in f.cut + 1 .. MSG_LEN
        BY <1>1, <1>3, <2>1, <2>2
    <2>5. f.n \in DOMAIN l /\ l[f.n].from < i /\ l[f.n].packet[Size(f)] = f.byte
        BY <1>1, <2>1, <2>2, <2>4 DEF Sound
    <2>6. Size(e) \in Nat /\ Size(f) = Size(e) + 1 /\ Size(f) <= MSG_LEN
        BY <1>1, <1>3, <2>1, <2>4
    <2> QED BY <1>1, <1>8, <2>1, <2>3, <2>5, <2>6, PacketByte
<1>9. CASE SyncGoesOn(e, f) /\ ~Unfinished(e)
    <2>1. /\ e.role = "esc" /\ f.role = "esc" /\ f.pos = e.pos + 1 /\ f.cut = e.cut /\ f.n = e.n
          /\ f.byte = ESC
        BY <1>9 DEF SyncGoesOn, Sound
    <2>2. ~Unfinished(f) /\ ~Boundary(f)
        BY <1>1, <1>3, <1>9, <2>1 DEF Unfinished, Boundary
    <2>3. Completed(e) = e.n /\ Completed(f) = e.n
        BY <1>9, <2>1, <2>2 DEF Completed
    <2>4. \A q \in 1 .. Len(b) : b[q] = ESC
        BY <1>9, <2>1 DEF Buffered
    <2>5. \A q \in 1 .. Len(c) : c[q] = ESC
        BY <1>2, <2>1, <2>4
    <2>6. Buffered(l, f, c) /\ Buffered(l, f, <<>>)
        BY <2>1, <2>2, <2>5 DEF Buffered
    <2>7. NoneFor(l, i, e.n, e.n)
        <3>1. \A m \in DOMAIN l : m \in Int
            BY LenProperties
        <3> QED BY <1>1, <3>1 DEF NoneFor
    <2>8. CASE Len(c) < MSG_LEN
        BY <1>1, <2>3, <2>6, <2>7, <2>8 DEF NotFull, c
    <2>9. CASE Len(c) = MSG_LEN
        <3>1. c[2] = ESC
            BY <1>3, <2>5, <2>9
        <3> QED BY <2>3, <2>6, <2>9, <3>1 DEF FullOfEsc, c
    <2> QED BY <1>2, <1>3, <2>8, <2>9
<1> QED BY <1>4, <1>5, <1>6, <1>7, <1>8, <1>9 DEF Follows, AddressComes

\* A device that is in step stays so with every byte of a packet or an ESC run.
LEMMA StaysInStep ==
    ASSUME NEW l \in Seq(Entries), NEW i \in Device, NEW e, NEW f, NEW d \in DeviceState,
           NEW x \in Seq(Packet), NEW data \in Bytes, data = OnWire(i, f),
           NEW d1, d1 = AfterByte(d, data),
           Sound(l, i, e), Sound(l, i, f), Follows(l, i, e, f), f.role # "addr", e.n >= 0,
           Counted(i, e, d.sync), d.synced, Len(d.buf) < MSG_LEN,
           InStep(l, i, e, d, x)
    PROVE  InStep(l, i, f, AfterThread(d1), IF Executes(d1) THEN Append(x, d1.buf) ELSE x)
<1> DEFINE c == Append(d.buf, f.byte)
           P == Position(i)
<1>1. e \in Tags /\ f \in Tags /\ OnWire(i, f) = f.byte /\ OnWire(i, f) \in Bytes
    BY WireBytes DEF Sound, OnWire
<1>2. ~AtAddress(d)
    BY SyncIsSeen DEF AtAddress
<1>3. /\ d1 \in DeviceState /\ d1.address = P /\ d1.synced = TRUE /\ d1.buf = c
    <2>1. /\ d1 \in DeviceState /\ d1.address = d.address /\ d1.synced = d.synced
          /\ d1.buf = IF Len(d.buf) < MSG_LEN THEN Append(d.buf, data) ELSE d.buf
        BY <1>2, AfterByteIs
    <2> QED BY <1>1, <2>1 DEF InStep
<1>4. d.buf \in Seq(Bytes) /\ Buffered(l, e, d.buf) /\ Executed(l, P, x, i, Completed(e))
    BY DEF DeviceState, InStep
<1>5. HasPacket(d1) <=> Len(c) = MSG_LEN
    BY <1>3 DEF HasPacket
<1>6. /\ AfterThread(d1).address = P
      /\ AfterThread(d1).buf = IF Len(c) = MSG_LEN THEN <<>> ELSE c
    BY <1>3, <1>5, AfterThreadIs
<1>7. Executes(d1) <=> Len(c) = MSG_LEN /\ Accepts(P, c)
    BY <1>3, <1>5 DEF Executes
<1>8. Completed(e) \in Int /\ Completed(f) \in Int /\ MSG_LEN \in Nat /\ Len(c) \in Nat
    <2>1. c \in Seq(Bytes)
        BY <1>1, <1>4, AppendProperties
    <2> QED BY <1>1, <2>1, CompletedIs, Sizes, LenProperties
<1> HIDE DEF c, P
<1>9. CASE NotFull(l, i, e, f, c)
    <2>1. ~Executes(d1) /\ AfterThread(d1).buf = c
        BY <1>6, <1>7, <1>8, <1>9 DEF NotFull
    <2>2. Executed(l, P, x, i, Completed(f))
        <3>1. \A m \in For(l, P, i) : m \in DOMAIN l /\ l[m].from < i /\ l[m].from \in Int /\ i \in Int
            <4> TAKE m \in For(l, P, i)
            <4>1. m \in 1 .. Len(l) /\ m \in DOMAIN l /\ l[m].from < i
                BY ForIs DEF For
            <4>2. l[m] \in Entries
                BY <4>1, ElementOfSeq
            <4> QED BY <4>1, <4>2, Sizes DEF Entries
        <3>2. \A m \in For(l, P, i) : ~(Completed(e) < m /\ m <= Completed(f))
            BY <1>9, <3>1 DEF NotFull, NoneFor
        <3>3. Completed(e) <= Completed(f)
            BY <1>9 DEF NotFull
        <3> QED BY <1>4, <1>8, <3>2, <3>3, ExecutedSkip
    <2> QED BY <1>6, <1>9, <2>1, <2>2 DEF NotFull, InStep, P
<1>10. CASE FullOf(l, i, e, f, c)
    <2>1. /\ Len(c) = MSG_LEN /\ Buffered(l, f, <<>>) /\ f.n \in DOMAIN l /\ l[f.n].from < i
          /\ c = l[f.n].packet /\ Completed(f) = f.n /\ Completed(e) = f.n - 1
        BY <1>10 DEF FullOf
    <2>2. Executes(d1) <=> f.n \in For(l, P, i)
        BY <1>7, <2>1 DEF For
    <2>3. Executed(l, P, x, i, f.n - 1) /\ f.n \in Int
        BY <1>4, <1>8, <2>1
    <2>4. CASE Executes(d1)
        <3>1. Executed(l, P, Append(x, c), i, f.n)
            BY <2>1, <2>2, <2>3, <2>4, ExecutedNext
        <3> QED BY <1>3, <1>6, <2>1, <2>4, <3>1 DEF InStep, P
    <2>5. CASE ~Executes(d1)
        <3>1. \A m \in For(l, P, i) : ~(f.n - 1 < m /\ m <= f.n)
            <4>1. \A m \in For(l, P, i) : m \in Int /\ m # f.n
                BY <2>2, <2>5, ForIs
            <4> QED BY <2>3, <4>1
        <3>2. Executed(l, P, x, i, f.n)
            BY <2>3, <3>1, ExecutedSkip
        <3> QED BY <1>6, <2>1, <2>5, <3>2 DEF InStep, P
    <2> QED BY <2>4, <2>5
<1>11. CASE FullOfEsc(l, i, e, f, c)
    <2>1. /\ Len(c) = MSG_LEN /\ c[2] = ESC /\ Buffered(l, f, <<>>) /\ Completed(f) = Completed(e)
        BY <1>11 DEF FullOfEsc
    <2>2. ~Executes(d1)
        BY <1>7, <2>1, BusAssumption DEF Accepts
    <2> QED BY <1>4, <1>6, <2>1, <2>2 DEF InStep, P
<1>12. NotFull(l, i, e, f, c) \/ FullOf(l, i, e, f, c) \/ FullOfEsc(l, i, e, f, c)
    BY <1>4, BufferStep DEF c
<1> QED BY <1>9, <1>10, <1>11, <1>12

\* The address of a sync puts a device in step, or leaves it there.
LEMMA ComesInStep ==
    ASSUME NEW l \in Seq(Entries), NEW i \in Device, NEW e, NEW f, NEW d \in DeviceState,
           NEW x \in Seq(Packet), NEW data \in Bytes, data = OnWire(i, f),
           NEW d1, d1 = AfterByte(d, data),
           Sound(l, i, e), Sound(l, i, f), Follows(l, i, e, f), f.role = "addr",
           Counted(i, e, d.sync)
    PROVE  /\ ~Executes(d1) /\ AfterThread(d1).synced = TRUE
           /\ f.n = 0 => InStep(l, i, f, AfterThread(d1), <<>>)
           /\ e.n >= 0 /\ InStep(l, i, e, d, x) => InStep(l, i, f, AfterThread(d1), x)
<1>1. e \in Tags /\ f \in Tags /\ OnWire(i, f) = Position(i) /\ Position(i) \in Bytes
    BY PositionIs DEF Sound, OnWire
<1>2. AtAddress(d)
    BY SyncIsSeen DEF AtAddress
<1>3. /\ d1 \in DeviceState /\ d1.address = Position(i) /\ d1.buf = <<>> /\ d1.synced = TRUE
    BY <1>1, <1>2, AfterByteIs
<1>4. ~HasPacket(d1)
    BY <1>3, Sizes DEF HasPacket
<1>5. /\ AfterThread(d1).address = Position(i) /\ AfterThread(d1).buf = <<>>
      /\ AfterThread(d1).synced = TRUE
    BY <1>3, <1>4, AfterThreadIs
<1>6. Buffered(l, f, <<>>) /\ Completed(f) = f.n
    BY DEF Buffered, Unfinished, Boundary, Completed
<1>7. ~Executes(d1)
    BY <1>4 DEF Executes
<1>8. ASSUME f.n = 0
      PROVE  InStep(l, i, f, AfterThread(d1), <<>>)
    BY <1>5, <1>6, <1>8, ExecutedNone DEF InStep
<1>9. ASSUME e.n >= 0, InStep(l, i, e, d, x)
      PROVE  InStep(l, i, f, AfterThread(d1), x)
    <2>1. e.role = "esc" /\ e.pos = SYNC_LEN /\ f.n = e.n
        BY <1>9 DEF Follows, PacketStarts, PacketGoesOn, SyncStarts, SyncCuts, SyncGoesOn, AddressComes
    <2>2. ~Unfinished(e)
        <3>1. e.cut \in Nat /\ MSG_LEN \in Nat /\ SYNC_LEN \in Nat /\ MSG_LEN <= SYNC_LEN
            BY <1>1, TagFields, Sizes
        <3> QED BY <2>1, <3>1 DEF Unfinished
    <2>3. Completed(e) = f.n
        BY <2>1, <2>2 DEF Completed
    <2> QED BY <1>5, <1>6, <1>9, <2>3 DEF InStep
<1> QED BY <1>5, <1>7, <1>8, <1>9

-----------------------------------------------------------------------------
(* Meanings *)

LEMMA LinkIs ==
    ASSUME NEW l, NEW tag, NEW r \in [Device -> Seq(Bytes)], Streams(tag, l, r), NEW i \in Device
    PROVE  /\ r[i] \in Seq(Bytes) /\ tag[i] \in Seq(Tags)
           /\ Len(tag[i]) \in Nat /\ Len(tag[i]) >= 1 /\ Len(tag[i]) = Len(r[i]) + 1
           /\ r[i] = <<>> => Len(tag[i]) = 1 /\ Taken(tag, i) = Latest(tag, i)
           /\ Len(tag[i]) = 1 => r[i] = <<>>
           /\ Taken(tag, i) \in Tags /\ Sound(l, i, Taken(tag, i))
           /\ Latest(tag, i) \in Tags /\ Sound(l, i, Latest(tag, i))
<1>1. Stream(l, i, tag[i], r[i]) /\ r[i] \in Seq(Bytes)
    BY DEF Streams
<1>2. tag[i] \in Seq(Tags) /\ Len(tag[i]) = Len(r[i]) + 1 /\ Len(r[i]) \in Nat
    BY <1>1, LenProperties DEF Stream
<1>3. r[i] = <<>> <=> Len(r[i]) = 0
    BY <1>1, EmptySeq
<1>4. 1 \in 1 .. Len(tag[i]) /\ Len(tag[i]) \in 1 .. Len(tag[i])
    BY <1>2
<1>5. Sound(l, i, tag[i][1]) /\ Sound(l, i, tag[i][Len(tag[i])])
    BY <1>1, <1>4 DEF Stream
<1>6. tag[i][1] \in Tags /\ tag[i][Len(tag[i])] \in Tags
    BY <1>5 DEF Sound
<1>7. Taken(tag, i) = tag[i][1] /\ Latest(tag, i) = tag[i][Len(tag[i])]
    BY DEF Taken, Latest
<1>8. r[i] = <<>> => Len(tag[i]) = 1 /\ Taken(tag, i) = Latest(tag, i)
    BY <1>2, <1>3, <1>7
<1>9. Len(tag[i]) = 1 => r[i] = <<>>
    BY <1>2, <1>3
<1>10. Len(tag[i]) \in Nat /\ Len(tag[i]) >= 1
    BY <1>2
<1> QED BY <1>1, <1>2, <1>5, <1>6, <1>7, <1>8, <1>9, <1>10

\* Bytes put on link j: new is tag with s behind what is on the link.
Extends(tag, j, s, new) ==
    /\ \A i \in Device : Taken(new, i) = Taken(tag, i)
    /\ \A i \in Device : i # j => new[i] = tag[i] /\ Latest(new, i) = Latest(tag, i)
    /\ Latest(new, j) = s[Len(s)] /\ Len(new[j]) = Len(tag[j]) + Len(s)
    /\ Len(s) \in Nat /\ Len(s) >= 1
    /\ \A k \in 1 .. Len(tag[j]) : new[j][k] = tag[j][k]
    /\ \A k \in 1 .. Len(s) : new[j][Len(tag[j]) + k] = s[k]

\* b is a with more behind a[j].
Grown(j, a, more, b) == \A i \in Device : IF i = j THEN Joined(a[i], more, b[i]) ELSE b[i] = a[i]

LEMMA Put ==
    ASSUME NEW l, NEW tag, NEW r \in [Device -> Seq(Bytes)], Streams(tag, l, r),
           NEW j \in Device, NEW s, NEW q \in Seq(Bytes), Fragment(l, j, Latest(tag, j), s, q),
           NEW new, Grown(j, tag, s, new), NEW r2, Grown(j, r, q, r2)
    PROVE  Streams(new, l, r2) /\ r2[j] # <<>> /\ Extends(tag, j, s, new)
<1>1. Stream(l, j, tag[j], r[j]) /\ r[j] \in Seq(Bytes)
    BY DEF Streams
<1>2. Fragment(l, j, tag[j][Len(tag[j])], s, q)
    BY DEF Latest
<1>3. Joined(tag[j], s, new[j]) /\ Joined(r[j], q, r2[j])
    BY DEF Grown
<1>4. \A i \in Device : i # j => new[i] = tag[i] /\ r2[i] = r[i]
    BY DEF Grown
<1>5. /\ Stream(l, j, new[j], r2[j]) /\ r2[j] # <<>>
      /\ Len(tag[j]) >= 1 /\ Len(s) >= 1 /\ Len(tag[j]) \in Nat /\ Len(s) \in Nat
      /\ Len(new[j]) = Len(tag[j]) + Len(s)
      /\ \A k \in 1 .. Len(tag[j]) : new[j][k] = tag[j][k]
      /\ \A k \in 1 .. Len(s) : new[j][Len(tag[j]) + k] = s[k]
    <2> DEFINE a == tag[j]
               b == r[j]
               u == new[j]
               v == r2[j]
    <2>1. /\ Stream(l, j, a, b) /\ b \in Seq(Bytes) /\ Fragment(l, j, a[Len(a)], s, q)
          /\ Joined(a, s, u) /\ Joined(b, q, v)
        BY <1>1, <1>2, <1>3
    <2> HIDE DEF a, b, u, v
    <2>2. /\ Stream(l, j, u, v) /\ v # <<>>
          /\ Len(a) >= 1 /\ Len(s) >= 1 /\ Len(a) \in Nat /\ Len(s) \in Nat
          /\ Len(u) = Len(a) + Len(s)
          /\ \A k \in 1 .. Len(a) : u[k] = a[k]
          /\ \A k \in 1 .. Len(s) : u[Len(a) + k] = s[k]
        BY <2>1, StreamAppend
    <2> QED BY <2>2 DEF a, b, u, v
<1>6. Streams(new, l, r2)
    BY <1>4, <1>5 DEF Streams
<1>7. 1 \in 1 .. Len(tag[j]) /\ Len(s) \in 1 .. Len(s)
    BY <1>5
<1>8. new[j][1] = tag[j][1] /\ new[j][Len(new[j])] = s[Len(s)]
    BY <1>5, <1>7
<1> QED BY <1>4, <1>5, <1>6, <1>8 DEF Taken, Latest, Extends

\* A byte that may come next on link 1 when device 1 took all that was there.
FitsBehind(tag, f) ==
    \/ Len(tag[1]) > 1
    \/ N > 1 => /\ f.n >= Latest(tag, 2).n
                /\ f.role = "pkt" /\ f.n >= 0 => f.n > Latest(tag, 2).n

\* Bytes put on the first link: what the devices took is as before.
LEMMA PutFirst ==
    ASSUME NEW l \in Seq(Entries), NEW tag, NEW r \in [Device -> Seq(Bytes)], Streams(tag, l, r),
           NEW d, NEW tr, NEW dn, Tied(tag, d), Counts(tag, d), MasterWaits(tag, d),
           NEW s, NEW q \in Seq(Bytes), Fragment(l, 1, Latest(tag, 1), s, q),
           FitsBehind(tag, s[1]),
           NEW new, Grown(1, tag, s, new), NEW r2, Grown(1, r, q, r2)
    PROVE  /\ Tied(new, d) /\ Counts(new, d) /\ MasterWaits(new, d) /\ CaughtUp(new, l, r2)
           /\ AllInStep(tag, tr, d, l, dn) => AllInStep(new, tr, d, l, dn)
           /\ \A i \in Device : UnderWay(tag, i) => UnderWay(new, i)
<1>1. 1 \in Device /\ N \in Nat /\ Device = 1 .. N
    BY Sizes
<1>2. Streams(new, l, r2) /\ r2[1] # <<>> /\ Extends(tag, 1, s, new)
    BY <1>1, Put
<1>3. /\ \A i \in Device : Taken(new, i) = Taken(tag, i)
      /\ \A i \in Device : i # 1 => new[i] = tag[i] /\ Latest(new, i) = Latest(tag, i)
      /\ Latest(new, 1) = s[Len(s)] /\ Len(new[1]) = Len(tag[1]) + Len(s)
      /\ Len(s) \in Nat /\ Len(s) >= 1
      /\ \A k \in 1 .. Len(tag[1]) : new[1][k] = tag[1][k]
      /\ \A k \in 1 .. Len(s) : new[1][Len(tag[1]) + k] = s[k]
    BY <1>2 DEF Extends
<1>4. Len(tag[1]) \in Nat /\ Len(tag[1]) >= 1
    BY <1>1, LinkIs
<1>5. Tied(new, d)
    <2> SUFFICES ASSUME NEW i \in Device, i < N
                 PROVE  Taken(new, i) = Latest(new, i + 1) \/ (i = 1 /\ OwnBytes(new, d))
        BY DEF Tied
    <2>1. i + 1 \in Device /\ i + 1 # 1
        BY <1>1
    <2>2. Latest(new, i + 1) = Latest(tag, i + 1) /\ Taken(new, i) = Taken(tag, i)
        BY <1>2, <1>3, <2>1
    <2>3. ASSUME i = 1, OwnBytes(tag, d)
          PROVE  OwnBytes(new, d)
        <3>1. Latest(new, 2) = Latest(tag, 2) /\ Taken(new, 1) = Taken(tag, 1) /\ N > 1
            BY <2>2, <2>3
        <3>2. CASE Len(tag[1]) > 1
            <4>1. 2 \in 1 .. Len(tag[1])
                BY <1>4, <3>2
            <4>2. new[1][2] = tag[1][2]
                BY <1>2, <1>3, <4>1
            <4> QED BY <2>3, <3>1, <3>2, <4>2 DEF OwnBytes
        <3>3. CASE ~(Len(tag[1]) > 1)
            <4>0. Len(s) \in Nat /\ Len(s) >= 1
                BY <1>3
            <4> DEFINE n == Len(tag[1])
            <4>1. Len(tag[1]) = 1
                <5>1. n \in Nat /\ n >= 1 /\ ~(n > 1)
                    BY <1>4, <3>3
                <5> HIDE DEF n
                <5>2. n = 1
                    BY <5>1
                <5> QED BY <5>2 DEF n
            <4>a. 1 \in 1 .. Len(s)
                BY <4>0
            <4>b. Len(tag[1]) + 1 = 2
                BY <4>1
            <4>2. new[1][Len(tag[1]) + 1] = s[1]
                BY <1>3, <4>a
            <4>3. new[1][2] = s[1]
                BY <4>b, <4>2
            <4> QED BY <2>3, <3>1, <3>3, <4>3 DEF OwnBytes, FitsBehind
        <3> QED BY <3>2, <3>3
    <2> QED BY <2>2, <2>3 DEF Tied
<1>6. Counts(new, d) /\ MasterWaits(new, d)
    BY <1>2, <1>3 DEF Counts, MasterWaits
<1>7. CaughtUp(new, l, r2)
    <2>1. \A i \in Device : 1 \in 1 .. i
        BY <1>1
    <2> QED BY <1>2, <1>3, <2>1 DEF CaughtUp, Caught
<1>8. AllInStep(tag, tr, d, l, dn) => AllInStep(new, tr, d, l, dn)
    BY <1>2, <1>3 DEF AllInStep
<1>9. ASSUME NEW i \in Device, UnderWay(tag, i)
      PROVE  UnderWay(new, i)
    <2>1. PICK j \in 1 .. i : \E k \in 2 .. Len(tag[j]) : tag[j][k].role = "addr" /\ tag[j][k].n = 0
        BY <1>9 DEF UnderWay
    <2>2. PICK k \in 2 .. Len(tag[j]) : tag[j][k].role = "addr" /\ tag[j][k].n = 0
        BY <2>1
    <2>3. j \in Device
        BY <1>1
    <2>4. k \in 2 .. Len(new[j]) /\ new[j][k] = tag[j][k]
        <3>1. CASE j = 1
            <4>1. k \in 1 .. Len(tag[1]) /\ k \in 2 .. Len(tag[1]) + Len(s)
                BY <1>2, <1>3, <1>4, <3>1
            <4> QED BY <1>2, <1>3, <3>1, <4>1
        <3>2. CASE j # 1
            BY <1>2, <1>3, <2>3, <3>2
        <3> QED BY <3>1, <3>2
    <2> QED BY <2>2, <2>4 DEF UnderWay
<1> QED BY <1>5, <1>6, <1>7, <1>8, <1>9

LEMMA StreamsLonger ==
    ASSUME NEW l \in Seq(Entries), NEW x \in Entries, NEW tag, NEW r \in [Device -> Seq(Bytes)],
           Streams(tag, l, r)
    PROVE  Streams(tag, Append(l, x), r)
BY StreamLonger DEF Streams

LEMMA InStepLonger ==
    ASSUME NEW l \in Seq(Entries), NEW x \in Entries, NEW i, NEW t, NEW d, NEW y,
           Sound(l, i, t), t.n >= 0, InStep(l, i, t, d, y)
    PROVE  InStep(Append(l, x), i, t, d, y)
<1>1. t \in Tags /\ t.n \in Int /\ t.n <= Len(l) /\ Len(l) \in Nat
    BY TagFields, LenProperties DEF Sound
<1>2. Completed(t) \in Int /\ Completed(t) <= Len(l)
    BY <1>1, CompletedIs
<1>3. Executed(Append(l, x), Position(i), y, i, Completed(t))
    BY <1>2, ExecutedLonger DEF InStep
<1>4. Unfinished(t) => Append(l, x)[t.n] = l[t.n]
    <2>1. Unfinished(t) => t.n \in DOMAIN l
        BY DEF Unfinished, Sound
    <2> QED BY <2>1, LongerLog
<1>5. Buffered(Append(l, x), t, d.buf)
    BY <1>4 DEF InStep, Buffered
<1> QED BY <1>3, <1>5 DEF InStep

LEMMA AllInStepLonger ==
    ASSUME NEW l \in Seq(Entries), NEW x \in Entries, NEW tag, NEW r \in [Device -> Seq(Bytes)],
           Streams(tag, l, r), NEW tr, NEW d, NEW dn, AllInStep(tag, tr, d, l, dn)
    PROVE  AllInStep(tag, tr, d, Append(l, x), dn)
<1> SUFFICES ASSUME NEW i \in Device, IsLive(tr), d[i].synced, Taken(tag, i).n >= 0
             PROVE  InStep(Append(l, x), i, Taken(tag, i), d[i], dn[i])
    BY DEF AllInStep
<1>1. InStep(l, i, Taken(tag, i), d[i], dn[i]) /\ Sound(l, i, Taken(tag, i))
    BY LinkIs DEF AllInStep
<1> QED BY <1>1, InStepLonger

\* On a live bus the packets behind the last byte on a link do not go there.
LEMMA RestNotFor ==
    ASSUME NEW l \in Seq(Entries), NEW tag, NEW tr, Numbered(tag, tr, l), IsLive(tr)
    PROVE  NoneFor(l, 1, Latest(tag, 1).n, Len(l))
<1> SUFFICES ASSUME NEW m \in DOMAIN l, Latest(tag, 1).n < m
             PROVE  l[m].from >= 1
    BY DEF NoneFor
<1>1. 1 \in Device
    BY Sizes
<1>2. m \in Nat /\ l[m] \in Entries
    BY LenProperties, ElementOfSeq
<1>3. l[m].from # 1 - 1
    BY <1>1, <1>2 DEF Numbered
<1> QED BY <1>2, <1>3, Sizes DEF Entries

-----------------------------------------------------------------------------
(* The controller sends a packet *)

LEMMA PacketIs ==
    ASSUME NEW p \in Packet
    PROVE  p \in Seq(Bytes) /\ Len(p) = MSG_LEN /\ MSG_LEN \in Nat /\ MSG_LEN >= 2
BY Sizes DEF Packet

LEMMA TrustIs ==
    ASSUME Types, trust # "lost"
    PROVE  (trust = "pure" /\ ~IsLive(trust)) \/ (trust # "pure" /\ IsLive(trust))
BY DEF Types, TrustLevels, IsLive

LEMMA SendPacketMeans ==
    ASSUME Types, NoHistory(trust, log, done), trust # "lost", NEW p \in Packets, SendPacket(p),
           NEW tag, Meaning(tag, dev, rx, trust, lastSent, log, done)
    PROVE  \E t : Meaning(t, dev', rx', trust', lastSent', log', done')
<1> DEFINE x == Entry(0, p)
           n == IF IsLive(trust) THEN Len(log) + 1 ELSE -1
           s == PacketTags(p, n)
           new == [i \in Device |-> IF i = 1 THEN tag[i] \o s ELSE tag[i]]
           e == Latest(tag, 1)
<1>1. /\ Streams(tag, log, rx) /\ Tied(tag, dev) /\ Counts(tag, dev) /\ Sender(tag, lastSent)
      /\ MasterWaits(tag, dev) /\ Numbered(tag, trust, log) /\ OneSync(tag, trust, dev, rx)
      /\ AllInStep(tag, trust, dev, log, done) /\ Reached(tag, trust, dev)
    BY DEF Meaning
<1>2. /\ p \in Packet /\ p \in Seq(Bytes) /\ Len(p) = MSG_LEN /\ MSG_LEN \in Nat /\ MSG_LEN >= 2
      /\ p[2] # ESC
    BY PacketIs, BusAssumption
<1>3. /\ rx \in [Device -> Seq(Bytes)] /\ log \in Seq(Entries) /\ Len(log) \in Nat /\ x \in Entries
      /\ x.from = 0 /\ x.packet = p
    BY <1>2, LenProperties, Sizes DEF Types, Entry, Entries
<1>4. /\ rx' = [i \in Device |-> IF i = 1 THEN rx[i] \o p ELSE rx[i]]
      /\ dev' = dev /\ trust' = trust /\ lastSent' = p[MSG_LEN] /\ done' = done
      /\ log' = IF IsLive(trust) THEN Append(log, x) ELSE log
    BY <1>3, TrustIs DEF SendPacket, KeepHistory, NoHistory, IsLive
<1>5. 1 \in Device /\ N \in Nat /\ Device = 1 .. N
    BY Sizes
<1>6. /\ log' \in Seq(Entries) /\ Streams(tag, log', rx) /\ AllInStep(tag, trust, dev, log', done)
      /\ Len(log') \in Nat /\ Len(log) <= Len(log')
    BY <1>1, <1>3, <1>4, StreamsLonger, AllInStepLonger, LongerLog
<1>7. n \in Nat \cup {-1} /\ n <= Len(log') /\ Logged(log', 1, n, p)
    BY <1>3, <1>4, LongerLog DEF Logged
<1>8. e \in Tags /\ Sound(log, 1, e) /\ e.n \in Int /\ e.n >= -1 /\ e.n <= Len(log) /\ Boundary(e)
    BY <1>1, <1>3, <1>5, LinkIs, TagFields DEF Sender, Sound
<1>9. (IsLive(trust) => e.n >= 0) /\ (~IsLive(trust) => e.n = -1)
    <2>1. IsLive(trust) => e.n >= 0
        BY <1>1 DEF Numbered
    <2>2. Len(tag[1]) \in 1 .. Len(tag[1])
        BY <1>1, <1>3, <1>5, LinkIs
    <2>3. ~IsLive(trust) => e.n = -1
        BY <1>1, <1>5, <2>2, TrustIs DEF Numbered, Latest
    <2> QED BY <2>1, <2>3
<1>10. e.n >= 0 => n > e.n /\ NoneFor(log', 1, e.n, n - 1)
    <2> HAVE e.n >= 0
    <2>1. IsLive(trust) /\ n = Len(log) + 1 /\ n - 1 = Len(log)
        BY <1>3, <1>9
    <2>2. NoneFor(log, 1, e.n, Len(log))
        BY <1>1, <1>3, <2>1, RestNotFor
    <2>3. NoneFor(log', 1, e.n, Len(log))
        BY <1>3, <1>4, <2>1, <2>2, NoneForLonger
    <2> QED BY <1>3, <1>8, <2>1, <2>3
<1> HIDE DEF n, x
<1>11. /\ Fragment(log', 1, e, s, p) /\ Len(s) = Len(p)
       /\ \A k \in 1 .. Len(p) :
            s[k].role = "pkt" /\ s[k].pos = k /\ s[k].byte = p[k] /\ s[k].n = n
    <2>1. ComesNext(log', 1, e, n)
        BY <1>8, <1>9, <1>10 DEF n, ComesNext
    <2>2. Started(p)
        BY <1>2 DEF Started
    <2> HIDE DEF e
    <2>3. Fragment(log', 1, e, s, p)
        BY <1>2, <1>5, <1>6, <1>7, <2>1, <2>2, PacketFragment
    <2> QED BY <1>2, <1>7, <2>3, PacketTagsAre
<1>12. 1 \in 1 .. Len(p) /\ MSG_LEN \in 1 .. Len(p)
    BY <1>2
<1>13. FitsBehind(tag, s[1])
    <2> SUFFICES ASSUME N > 1
                 PROVE  /\ s[1].n >= Latest(tag, 2).n
                        /\ s[1].role = "pkt" /\ s[1].n >= 0 => s[1].n > Latest(tag, 2).n
        BY DEF FitsBehind
    <2>1. 2 \in Device
        BY <1>5
    <2>2. Latest(tag, 2).n \in Int /\ Latest(tag, 2).n <= Len(log)
        BY <1>1, <1>3, <2>1, LinkIs, TagFields DEF Sound
    <2>3. ~IsLive(trust) => Latest(tag, 2).n = -1
        <3>1. Len(tag[2]) \in 1 .. Len(tag[2])
            BY <1>1, <1>3, <2>1, LinkIs
        <3> QED BY <1>1, <2>1, <3>1, TrustIs DEF Numbered, Latest
    <2> QED BY <1>3, <1>11, <1>12, <2>2, <2>3 DEF n
<1>14. Grown(1, tag, s, new) /\ Grown(1, rx, p, rx')
    BY <1>4 DEF Grown, Joined
<1> HIDE DEF s, new
<1>15. /\ Streams(new, log', rx') /\ rx'[1] # <<>>
       /\ \A i \in Device : Taken(new, i) = Taken(tag, i)
       /\ \A i \in Device : i # 1 => new[i] = tag[i] /\ Latest(new, i) = Latest(tag, i)
       /\ Latest(new, 1) = s[Len(s)] /\ Len(new[1]) = Len(tag[1]) + Len(s)
       /\ \A k \in 1 .. Len(tag[1]) : new[1][k] = tag[1][k]
       /\ \A k \in 1 .. Len(s) : new[1][Len(tag[1]) + k] = s[k]
    <2>1. Streams(new, log', rx') /\ rx'[1] # <<>> /\ Extends(tag, 1, s, new)
        BY <1>2, <1>3, <1>5, <1>6, <1>11, <1>14, Put DEF e
    <2> QED BY <2>1 DEF Extends
<1>16. /\ Tied(new, dev) /\ Counts(new, dev) /\ MasterWaits(new, dev) /\ CaughtUp(new, log', rx')
       /\ AllInStep(new, trust, dev, log', done)
       /\ \A i \in Device : UnderWay(tag, i) => UnderWay(new, i)
    BY <1>1, <1>2, <1>3, <1>4, <1>6, <1>11, <1>13, <1>14, PutFirst DEF e
<1>17. Latest(new, 1).role = "pkt" /\ Latest(new, 1).pos = MSG_LEN /\ Latest(new, 1).byte = p[MSG_LEN]
       /\ Latest(new, 1).n = n
    BY <1>2, <1>11, <1>12, <1>15
<1>18. Sender(new, lastSent')
    <2>1. p[MSG_LEN] # -1
        BY <1>2, <1>12, ElementOfSeq, Sizes
    <2> QED BY <1>4, <1>17, <2>1 DEF Sender, Boundary
<1>19. ASSUME NEW i \in Device, NEW k \in 1 .. Len(new[i])
       PROVE  \/ k \in 1 .. Len(tag[i]) /\ new[i][k] = tag[i][k]
              \/ new[i][k].role = "pkt" /\ new[i][k].n = n
    <2>1. CASE i # 1
        BY <1>15, <2>1
    <2>2. CASE i = 1 /\ k <= Len(tag[1])
        BY <1>15, <2>2
    <2>3. CASE i = 1 /\ k > Len(tag[1])
        <3>1. Len(tag[1]) \in Nat
            BY <1>1, <1>3, <1>5, LinkIs
        <3>2. k - Len(tag[1]) \in 1 .. Len(p) /\ Len(tag[1]) + (k - Len(tag[1])) = k
            <4>1. k \in 1 .. Len(tag[1]) + Len(s) /\ Len(s) = Len(p) /\ Len(p) \in Nat
                BY <1>2, <1>11, <1>15, <2>3
            <4> QED BY <2>3, <3>1, <4>1
        <3>3. new[1][k] = s[k - Len(tag[1])]
            <4> DEFINE j == k - Len(tag[1])
            <4>1. j \in 1 .. Len(s) /\ Len(tag[1]) + j = k
                BY <1>11, <3>2
            <4> HIDE DEF j
            <4>2. new[1][Len(tag[1]) + j] = s[j]
                BY <1>15, <4>1
            <4> QED BY <4>1, <4>2 DEF j
        <3> QED BY <1>11, <2>3, <3>2, <3>3
    <2>4. Len(tag[1]) \in Nat
        BY <1>1, <1>3, <1>5, LinkIs
    <2> QED BY <2>1, <2>2, <2>3, <2>4
<1>20. Numbered(new, trust, log')
    <2>1. ASSUME trust = "pure", NEW i \in Device, NEW k \in 1 .. Len(new[i])
          PROVE  new[i][k].n = -1
        BY <1>1, <1>19, <2>1 DEF Numbered, n, IsLive
    <2>2. IsLive(trust) => Latest(new, 1).n >= 0
        BY <1>3, <1>17 DEF n
    <2>3. ASSUME IsLive(trust), NEW i \in Device, NEW m \in DOMAIN log', m > Latest(new, i).n
          PROVE  log'[m].from # i - 1
        <3>1. CASE i = 1
            BY <1>3, <1>4, <1>17, <2>3, <3>1, LongerLog DEF n
        <3>2. CASE i # 1 /\ m \in DOMAIN log
            BY <1>1, <1>3, <1>4, <1>15, <2>3, <3>2, LongerLog DEF Numbered
        <3>3. CASE i # 1 /\ m = Len(log) + 1
            BY <1>3, <1>4, <1>5, <2>3, <3>3, LongerLog
        <3> QED BY <1>3, <1>4, <2>3, <3>1, <3>2, <3>3, LongerLog
    <2> QED BY <2>1, <2>2, <2>3 DEF Numbered
<1>21. OneSync(new, trust, dev, rx')
    <2>1. ASSUME NEW i \in Device, NEW k \in 1 .. Len(new[i]), new[i][k].role = "esc"
          PROVE  k \in 1 .. Len(tag[i]) /\ new[i][k] = tag[i][k]
        BY <1>19, <2>1
    <2>2. \E i \in Device : rx'[i] # <<>>
        BY <1>5, <1>15
    <2> QED BY <1>1, <2>1, <2>2 DEF OneSync
<1>22. Reached(new, trust, dev)
    BY <1>1, <1>15, <1>16 DEF Reached
<1>23. Meaning(new, dev', rx', trust', lastSent', log', done')
    BY <1>4, <1>15, <1>16, <1>18, <1>20, <1>21, <1>22 DEF Meaning
<1> QED BY <1>23


-----------------------------------------------------------------------------
(* Types, and what is forgotten *)

LEMMA NoPacketsIs == NoPackets \in [Device -> Seq(Packet)] /\ \A i \in Device : NoPackets[i] = <<>>
BY EmptySeq DEF NoPackets

LEMMA CutIs ==
    ASSUME NEW cut \in Cuts
    PROVE  /\ cut \in Seq(Bytes) /\ Len(cut) \in 0 .. MSG_LEN - 1
           /\ Len(cut) >= 2 => cut[2] # ESC
           /\ Padded(cut) \in Packet
           /\ \A k \in 1 .. Len(cut) : Padded(cut)[k] = cut[k]
           /\ \A k \in Len(cut) + 1 .. MSG_LEN : Padded(cut)[k] = ESC
<1>1. PICK p \in Packets, k \in 0 .. MSG_LEN - 1 : cut = SubSeq(p, 1, k)
    BY DEF Cuts
<1>2. p \in Packet /\ p[2] # ESC /\ p \in Seq(Bytes) /\ Len(p) = MSG_LEN /\ MSG_LEN \in Nat
    BY BusAssumption, PacketIs
<1>3. cut \in Seq(Bytes) /\ Len(cut) = k /\ \A j \in 1 .. k : cut[j] = p[j]
    <2>1. k \in Int /\ 1 \in Int /\ k - 1 + 1 = k /\ (1 <= k => k - 1 + 1 = k) /\ (~(1 <= k) => k = 0)
        BY <1>2
    <2>2. \A j \in 1 .. k : p[j] \in Bytes /\ 1 + j - 1 = j
        BY <1>2, ElementOfSeq
    <2>3. /\ SubSeq(p, 1, k) \in Seq(Bytes) /\ Len(SubSeq(p, 1, k)) = (IF 1 <= k THEN k - 1 + 1 ELSE 0)
          /\ \A j \in 1 .. k - 1 + 1 : SubSeq(p, 1, k)[j] = p[1 + j - 1]
        BY <2>1, <2>2, SubSeqProperties
    <2> QED BY <1>1, <2>1, <2>2, <2>3
<1>4. \A j \in 1 .. MSG_LEN : (j <= Len(cut) => j \in 1 .. Len(cut)) /\ (~(j <= Len(cut)) => TRUE)
    BY <1>2, <1>3
<1>5. \A j \in 1 .. Len(cut) : cut[j] \in Bytes
    BY <1>3, ElementOfSeq
<1>6. Padded(cut) \in Packet
    BY <1>4, <1>5, Sizes DEF Padded, Packet
<1>7. \A j \in 1 .. Len(cut) : Padded(cut)[j] = cut[j]
    <2> TAKE j \in 1 .. Len(cut)
    <2>1. j \in 1 .. MSG_LEN /\ j <= Len(cut)
        BY <1>2, <1>3
    <2> QED BY <2>1 DEF Padded
<1>8. \A j \in Len(cut) + 1 .. MSG_LEN : Padded(cut)[j] = ESC
    <2> TAKE j \in Len(cut) + 1 .. MSG_LEN
    <2>1. j \in 1 .. MSG_LEN /\ ~(j <= Len(cut))
        BY <1>2, <1>3
    <2> QED BY <2>1 DEF Padded
<1>9. Len(cut) >= 2 => cut[2] # ESC
    <2>1. Len(cut) >= 2 => 2 \in 1 .. k
        BY <1>3
    <2> QED BY <1>2, <1>3, <2>1
<1> QED BY <1>3, <1>6, <1>7, <1>8, <1>9

\* Nothing under way and no ESC run open: then the bytes to come mean what they
\* mean, whatever came before.
LEMMA FreshMeans ==
    ASSUME NEW d, NEW r \in [Device -> Seq(Bytes)], NEW ls,
           \A i \in Device : r[i] = <<>> /\ d[i].sync = 0
    PROVE  \E tag : Meaning(tag, d, r, "pure", ls, <<>>, NoPackets)
<1> DEFINE t == Tag("start", 0, 0, 0, -1)
           tag == [i \in Device |-> <<t>>]
<1>1. t \in Tags /\ t.role = "start" /\ t.n = -1 /\ Boundary(t)
    <2>1. "start" \in Roles /\ 0 \in Nat /\ 0 \in Bytes /\ 0 \in 0 .. MSG_LEN - 1 /\ -1 \in Nat \cup {-1}
        BY Sizes DEF Roles
    <2> QED BY <2>1, TagIs DEF Boundary
<1> HIDE DEF t
<1>2. /\ <<t>> \in Seq(Tags) /\ Len(<<t>>) = 1 /\ <<t>>[1] = t
      /\ \A i \in Device : tag[i] = <<t>>
    BY <1>1
<1> HIDE DEF tag
<1>3. \A i \in Device : /\ Len(tag[i]) = 1 /\ tag[i] \in Seq(Tags) /\ tag[i][1] = t
                        /\ Taken(tag, i) = t /\ Latest(tag, i) = t
    BY <1>2 DEF Taken, Latest
<1>4. \A i \in Device : Sound(<<>>, i, t)
    BY <1>1 DEF Sound
<1>5. Streams(tag, <<>>, r)
    <2> SUFFICES ASSUME NEW i \in Device
                 PROVE  Stream(<<>>, i, tag[i], r[i])
        BY DEF Streams
    <2>1. Len(r[i]) = 0 /\ r[i] = <<>>
        OBVIOUS
    <2>2. tag[i] \in Seq(Tags) /\ Len(tag[i]) = 1 /\ tag[i][1] = t /\ Sound(<<>>, i, t)
        BY <1>3, <1>4
    <2> QED BY <2>1, <2>2 DEF Stream
<1>6. Tied(tag, d)
    <2> SUFFICES ASSUME NEW i \in Device, i < N
                 PROVE  Taken(tag, i) = Latest(tag, i + 1)
        BY DEF Tied
    <2>1. i + 1 \in Device
        BY Sizes
    <2> QED BY <1>3, <2>1
<1>7. Counts(tag, d) /\ MasterWaits(tag, d)
    BY <1>1, <1>3 DEF Counts, Counted, MasterWaits
<1>8. Sender(tag, ls)
    <2>1. 1 \in Device
        BY Sizes
    <2> QED BY <1>1, <1>3, <2>1 DEF Sender
<1>9. CaughtUp(tag, <<>>, r)
    BY <1>1, <1>3 DEF CaughtUp, Caught, NoneFor
<1>10. Numbered(tag, "pure", <<>>)
    <2>1. ASSUME NEW i \in Device, NEW k \in 1 .. Len(tag[i])
          PROVE  tag[i][k].n = -1
        BY <1>1, <1>3
    <2> QED BY <2>1 DEF Numbered, IsLive
<1>11. OneSync(tag, "pure", d, r) /\ AllInStep(tag, "pure", d, <<>>, NoPackets) /\ Reached(tag, "pure", d)
    BY DEF OneSync, AllInStep, Reached, IsLive
<1>12. Meaning(tag, d, r, "pure", ls, <<>>, NoPackets)
    BY <1>5, <1>6, <1>7, <1>8, <1>9, <1>10, <1>11 DEF Meaning
<1> QED BY <1>12

\* A step that upsets the streams leaves no history, and on a quiet bus a fresh
\* meaning.
Upset == trust' = IF Quiet' THEN "pure" ELSE "lost"
LEMMA UpsetMeans ==
    ASSUME Upset, rx' \in [Device -> Seq(Bytes)], NEW l, NEW dn, KeepHistory(l, dn)
    PROVE  /\ log' = <<>> /\ done' = NoPackets /\ trust' \in {"lost", "pure"}
           /\ trust' # "lost" => \E tag : Meaning(tag, dev', rx', trust', lastSent', log', done')
<1>1. log' = <<>> /\ done' = NoPackets /\ trust' \in {"lost", "pure"}
    BY DEF Upset, KeepHistory
<1>2. ASSUME trust' # "lost"
      PROVE  \E tag : Meaning(tag, dev', rx', trust', lastSent', log', done')
    <2>1. trust' = "pure" /\ \A i \in Device : rx'[i] = <<>> /\ dev'[i].sync = 0
        BY <1>2 DEF Upset, Quiet, Drained
    <2>2. \E tag : Meaning(tag, dev', rx', "pure", lastSent', <<>>, NoPackets)
        BY <2>1, FreshMeans
    <2> QED BY <1>1, <2>1, <2>2
<1> QED BY <1>1, <1>2

LEMMA HistoryIs ==
    ASSUME NEW l \in Seq(Entries), NEW dn \in [Device -> Seq(Packet)], KeepHistory(l, dn),
           trust' \in TrustLevels
    PROVE  /\ log' \in Seq(Entries) /\ done' \in [Device -> Seq(Packet)]
           /\ NoHistory(trust', log', done')
BY NoPacketsIs, EmptySeq DEF KeepHistory, NoHistory, TrustLevels

LEMMA InitMeans == Init => IInv
<1> SUFFICES ASSUME Init
             PROVE  IInv
    OBVIOUS
<1>1. \A i \in Device : PowerUp(i) \in DeviceState
    BY EmptySeq, Sizes DEF PowerUp, DeviceState
<1>2. rx \in [Device -> Seq(Bytes)] /\ dev \in [Device -> DeviceState]
    BY <1>1, EmptySeq DEF Init
<1>3. Types
    BY <1>2, EmptySeq, NoPacketsIs DEF Init, Types, TrustLevels
<1>4. Modest(dev) /\ NoHistory(trust, log, done)
    BY DEF Init, Modest, NoHistory, PowerUp
<1>5. \E tag : Meaning(tag, dev, rx, "pure", lastSent, <<>>, NoPackets)
    <2>1. \A i \in Device : rx[i] = <<>> /\ dev[i].sync = 0
        BY DEF Init, PowerUp
    <2> QED BY <1>2, <2>1, FreshMeans
<1> QED BY <1>3, <1>4, <1>5 DEF IInv, Init

LEMMA RestartKeepsIInv ==
    ASSUME Types, Modest(dev), NEW i \in Device, Restart(i)
    PROVE  IInv'
<1>1. Types /\ Modest(dev) /\ rx \in [Device -> Seq(Bytes)] /\ dev \in [Device -> DeviceState]
      /\ lastSent \in Bytes \cup {-1} /\ log \in Seq(Entries) /\ done \in [Device -> Seq(Packet)]
    BY DEF Types
<1>2. /\ dev' = [dev EXCEPT ![i] = PowerUp(i)] /\ Upset /\ KeepHistory(log, done)
      /\ lastSent' = lastSent
    BY DEF Restart, Upset
<1>3. PowerUp(i) \in DeviceState
    BY EmptySeq, Sizes DEF PowerUp, DeviceState
<1>4. rx' \in [Device -> Seq(Bytes)]
    <2>1. ASSUME NEW q \in Seq(Bytes), NEW k \in 0 .. Len(q)
          PROVE  SubSeq(q, k + 1, Len(q)) \in Seq(Bytes) /\ SubSeq(q, 1, k) \in Seq(Bytes)
        BY SubSeqProperties, LenProperties
    <2>2. PICK k \in 0 .. Len(rx[i]) :
             IF i = N
             THEN rx' = [rx EXCEPT ![i] = SubSeq(@, k + 1, Len(@))]
             ELSE \E m \in 0 .. Len(rx[i + 1]) :
                    rx' = [rx EXCEPT ![i] = SubSeq(@, k + 1, Len(@)),
                                     ![i + 1] = SubSeq(@, 1, m)]
        BY DEF Restart
    <2>3. CASE i = N
        <3>1. rx' = [rx EXCEPT ![i] = SubSeq(rx[i], k + 1, Len(rx[i]))]
            BY <1>1, <2>2, <2>3
        <3>2. SubSeq(rx[i], k + 1, Len(rx[i])) \in Seq(Bytes)
            BY <1>1, <2>1
        <3> QED BY <1>1, <3>1, <3>2
    <2>4. CASE i # N
        <3>1. PICK m \in 0 .. Len(rx[i + 1]) :
                    rx' = [rx EXCEPT ![i] = SubSeq(@, k + 1, Len(@)),
                                     ![i + 1] = SubSeq(@, 1, m)]
            BY <2>2, <2>4
        <3>2. i + 1 \in Device /\ i + 1 # i
            BY <2>4, Sizes
        <3>3. SubSeq(rx[i], k + 1, Len(rx[i])) \in Seq(Bytes) /\ SubSeq(rx[i + 1], 1, m) \in Seq(Bytes)
            BY <1>1, <2>1, <3>2
        <3>4. rx' = [rx EXCEPT ![i] = SubSeq(rx[i], k + 1, Len(rx[i])), ![i + 1] = SubSeq(rx[i + 1], 1, m)]
            BY <1>1, <3>1, <3>2
        <3> QED BY <1>1, <3>3, <3>4
    <2> QED BY <2>3, <2>4
<1>5. /\ log' = <<>> /\ done' = NoPackets /\ trust' \in {"lost", "pure"}
      /\ trust' # "lost" => \E tag : Meaning(tag, dev', rx', trust', lastSent', log', done')
    BY <1>2, <1>4, UpsetMeans
<1>6. Types'
    BY <1>1, <1>2, <1>3, <1>4, <1>5, NoPacketsIs, EmptySeq DEF Types, TrustLevels
<1>7. Modest(dev')
    BY <1>1, <1>2 DEF Modest, PowerUp
<1>8. NoHistory(trust', log', done')
    BY <1>5 DEF NoHistory
<1> QED BY <1>5, <1>6, <1>7, <1>8 DEF IInv

-----------------------------------------------------------------------------
(* The kinds of round a device makes, unless it upsets the streams *)

\* It takes a byte and sends nothing of its own.
Consumes(i) ==
    LET d1 == AfterByte(dev[i], Head(rx[i]))
    IN  /\ trust # "lost" /\ rx[i] # <<>> /\ ~Talking(d1)
        /\ dev' = [dev EXCEPT ![i] = AfterThread(d1)]
        /\ rx' = Passed(i, <<Forwarded(dev[i], Head(rx[i]))>>)
        /\ trust' = IF trust = "armed" /\ Drained' THEN "settled" ELSE trust
        /\ KeepHistory(log,
              [done EXCEPT ![i] = IF Executes(d1) THEN Append(done[i], d1.buf)
                                  ELSE IF AtAddress(dev[i]) /\ trust = "armed" THEN <<>> ELSE done[i]])
\* The master sends a sync.
Bursts(i) ==
    /\ trust # "lost" /\ Quiet /\ dev[i].master /\ dev[i].thread = "timer"
    /\ dev' = [dev EXCEPT ![i] = [dev[i] EXCEPT !.thread = "packet"]]
    /\ rx' = Passed(i, Resync(MASTER_FIRST))
    /\ trust' = IF trust = "pure" THEN "armed" ELSE trust
    /\ KeepHistory(log, done)
\* The master sends the packet.
Starts(i) ==
    /\ trust # "lost" /\ Talking(dev[i]) /\ rx[i] = <<>>
    /\ dev' = [dev EXCEPT ![i] = [dev[i] EXCEPT !.thread = "timer"]]
    /\ rx' = Passed(i, START)
    /\ trust' = IF trust = "armed" /\ Drained' THEN "settled" ELSE trust
    /\ KeepHistory(Append(log, Entry(i, START)), done)

StillModest(d, st) ==
    /\ st.master => d.master /\ ~st.synced
    /\ st.synced => Len(st.buf) < MSG_LEN

LEMMA Settle ==
    ASSUME NEW d \in DeviceState, NEW i \in Device, Modest(dev), d = dev[i],
           NEW d1, d1 = d \/ \E data \in Bytes : d1 = AfterByte(d, data)
    PROVE  /\ d1 \in DeviceState /\ StillModest(d, AfterThread(d1))
           /\ d1 = d => AfterThread(d1) = d /\ ~Executes(d1)
<1>1. (d.master => ~d.synced) /\ (d.synced => Len(d.buf) < MSG_LEN)
    BY DEF Modest
<1>2. CASE d1 = d
    <2>1. ~HasPacket(d)
        BY <1>1, Sizes DEF HasPacket
    <2> QED BY <1>1, <1>2, <2>1 DEF AfterThread, Executes, StillModest
<1>3. CASE d1 # d
    <2>1. PICK data \in Bytes : d1 = AfterByte(d, data)
        BY <1>3
    <2>2. d1 \in DeviceState
        BY <2>1, AfterByteIs
    <2>3. (d1.master => d.master /\ ~d1.synced) /\ (d1.synced => Len(d1.buf) <= MSG_LEN)
        <3>1. CASE AtAddress(d)
            <4>1. d1.buf = <<>> /\ d1.master = FALSE
                BY <2>1, <3>1, AfterByteIs
            <4> QED BY <4>1, Sizes
        <3>2. CASE ~AtAddress(d)
            <4>1. /\ d1.master = d.master /\ d1.synced = d.synced
                  /\ d1.buf = IF Len(d.buf) < MSG_LEN THEN Append(d.buf, data) ELSE d.buf
                BY <2>1, <3>2, AfterByteIs
            <4>2. d.buf \in Seq(Bytes) /\ Len(d.buf) \in Nat
                BY LenProperties DEF DeviceState
            <4>3. Len(Append(d.buf, data)) = Len(d.buf) + 1
                BY <4>2, AppendProperties
            <4> QED BY <1>1, <4>1, <4>2, <4>3, Sizes
        <3> QED BY <3>1, <3>2
    <2>4. /\ AfterThread(d1).synced = d1.synced /\ AfterThread(d1).master = d1.master
          /\ AfterThread(d1).buf = IF HasPacket(d1) THEN <<>> ELSE d1.buf
        BY <2>2, AfterThreadIs
    <2>5. d1.buf \in Seq(Bytes) /\ Len(d1.buf) \in Nat
        BY <2>2, LenProperties DEF DeviceState
    <2>6. StillModest(d, AfterThread(d1))
        BY <2>3, <2>4, <2>5, Sizes DEF HasPacket, StillModest
    <2> QED BY <1>3, <2>2, <2>6
<1> QED BY <1>2, <1>3

LEMMA PollIs ==
    ASSUME Types, Modest(dev), NEW i \in Device, RemotePoll(i)
    PROVE  /\ lastSent' = lastSent /\ trust' \in TrustLevels
           /\ \E st \in DeviceState, out \in Seq(Bytes), l \in Seq(Entries), x \in Seq(Packet) :
                /\ dev' = [dev EXCEPT ![i] = st] /\ StillModest(dev[i], st)
                /\ rx' = Passed(i, out) /\ KeepHistory(l, [done EXCEPT ![i] = x])
           /\ Upset \/ Consumes(i) \/ Bursts(i) \/ Starts(i)
<1> DEFINE d == dev[i]
           data == Head(rx[i])
           d1 == IF rx[i] = <<>> THEN d ELSE AfterByte(d, data)
           passedOn == IF rx[i] = <<>> THEN <<>> ELSE <<Forwarded(d, data)>>
           arrived == rx[i] # <<>> /\ AtAddress(d)
           executed == IF Executes(d1) THEN Append(done[i], d1.buf)
                       ELSE IF arrived /\ trust = "armed" THEN <<>> ELSE done[i]
           d2 == AfterThread(d1)
<1>1. PICK step \in MasterSteps(d2) :
          /\ rx[i] # <<>> \/ step[2] # <<>>
          /\ dev' = [dev EXCEPT ![i] = step[1]]
          /\ rx' = Passed(i, passedOn \o step[2])
          /\ trust' =
                IF trust = "lost" \/ (step[2] # <<>> /\ ~MayTalk(i, step[2] # <<>> /\ d1.thread = "timer"))
                THEN IF Quiet' THEN "pure" ELSE "lost"
                ELSE IF step[2] # <<>> /\ d1.thread = "timer"
                THEN (IF trust = "pure" THEN "armed" ELSE trust)
                ELSE IF trust = "armed" /\ Drained' THEN "settled" ELSE trust
          /\ KeepHistory(IF step[2] # <<>> /\ d1.thread = "packet" THEN Append(log, Entry(i, START)) ELSE log,
                         [done EXCEPT ![i] = executed])
    BY DEF RemotePoll
<1>2. lastSent' = lastSent
    BY DEF RemotePoll
<1>3. /\ d \in DeviceState /\ rx[i] \in Seq(Bytes) /\ trust \in TrustLevels
      /\ log \in Seq(Entries) /\ done[i] \in Seq(Packet) /\ done \in [Device -> Seq(Packet)]
    BY DEF Types
<1>4. rx[i] # <<>> => data \in Bytes /\ Forwarded(d, data) \in Bytes
    <2>1. rx[i] # <<>> => data \in Bytes
        BY <1>3, HeadTailProperties
    <2>2. rx[i] # <<>> => (data + 1) % BYTE \in Bytes
        BY <2>1, Increment
    <2> QED BY <2>1, <2>2 DEF Forwarded
<1>5. /\ d1 \in DeviceState /\ StillModest(d, d2)
      /\ rx[i] = <<>> => d2 = d /\ ~Executes(d1) /\ d1 = d
      /\ rx[i] # <<>> => d1 = AfterByte(d, data)
    BY <1>3, <1>4, Settle
<1>6. d2 \in DeviceState /\ d2.thread = d1.thread /\ d2.master = d1.master
    BY <1>5, AfterThreadIs
<1>7. passedOn \in Seq(Bytes) /\ (rx[i] = <<>> => passedOn = <<>>)
      /\ (rx[i] # <<>> => passedOn = <<Forwarded(d, data)>>)
    BY <1>4, EmptySeq
<1>8. executed \in Seq(Packet) /\ (rx[i] = <<>> => executed = done[i])
    <2>1. Executes(d1) => d1.buf \in Packet
        <3>1. HasPacket(d1) => d1.buf \in Seq(Bytes) /\ Len(d1.buf) = MSG_LEN
            BY <1>5 DEF HasPacket, DeviceState
        <3>2. HasPacket(d1) => d1.buf \in [1 .. MSG_LEN -> Bytes]
            BY <3>1, LenProperties, ElementOfSeq
        <3> QED BY <3>2 DEF Executes, Packet
    <2>2. Executes(d1) => Append(done[i], d1.buf) \in Seq(Packet)
        BY <1>3, <2>1, AppendProperties
    <2>3. rx[i] = <<>> => ~Executes(d1) /\ ~arrived
        BY <1>5
    <2> QED BY <1>3, <2>2, <2>3, EmptySeq
<1>9. Entry(i, START) \in Entries /\ START \in Seq(Bytes) /\ START # <<>>
    <2>1. START \in Packet
        BY BusAssumption
    <2>2. START \in Seq(Bytes) /\ Len(START) >= 2
        BY <2>1, PacketIs
    <2> QED BY <2>1, <2>2, EmptySeq, Sizes DEF Entry, Entries
<1>10. Resync(MASTER_FIRST) \in Seq(Bytes) /\ Resync(MASTER_FIRST) # <<>>
    <2>1. MASTER_FIRST \in Bytes
        BY Sizes DEF MASTER_FIRST
    <2>2. Resync(MASTER_FIRST) \in Seq(Bytes) /\ Len(Resync(MASTER_FIRST)) = SYNC_LEN + 1
        BY <2>1, ResyncIs
    <2> QED BY <2>2, EmptySeq, Sizes
<1> HIDE DEF d, data, d1, passedOn, arrived, executed, d2
<1>11. \/ step = <<d2, <<>>>> /\ ~Talking(d2)
       \/ d2.master /\ d2.thread = "timer" /\ step = <<[d2 EXCEPT !.thread = "packet"], Resync(MASTER_FIRST)>>
       \/ Talking(d2) /\ step = <<[d2 EXCEPT !.thread = "timer"], START>>
    BY <1>1, <1>6 DEF MasterSteps, Talking, DeviceState
<1>12. step[1] \in DeviceState /\ step[2] \in Seq(Bytes) /\ StillModest(d, step[1])
    <2>1. CASE step = <<d2, <<>>>>
        BY <1>5, <1>6, <2>1, EmptySeq
    <2>2. CASE step = <<[d2 EXCEPT !.thread = "packet"], Resync(MASTER_FIRST)>>
        BY <1>5, <1>6, <1>10, <2>2 DEF DeviceState, StillModest
    <2>3. CASE step = <<[d2 EXCEPT !.thread = "timer"], START>>
        BY <1>5, <1>6, <1>9, <2>3 DEF DeviceState, StillModest
    <2> QED BY <1>11, <2>1, <2>2, <2>3
<1>13. passedOn \o step[2] \in Seq(Bytes)
    BY <1>7, <1>12, ConcatProperties
<1>14. \E st \in DeviceState, out \in Seq(Bytes), l \in Seq(Entries), x \in Seq(Packet) :
           /\ dev' = [dev EXCEPT ![i] = st] /\ StillModest(dev[i], st)
           /\ rx' = Passed(i, out) /\ KeepHistory(l, [done EXCEPT ![i] = x])
    <2>1. Append(log, Entry(i, START)) \in Seq(Entries)
        BY <1>3, <1>9, AppendProperties
    <2>2. StillModest(dev[i], step[1])
        BY <1>12 DEF d
    <2>3. CASE step[2] # <<>> /\ d1.thread = "packet"
        BY <1>1, <1>8, <1>12, <1>13, <2>1, <2>2, <2>3
    <2>4. CASE ~(step[2] # <<>> /\ d1.thread = "packet")
        BY <1>1, <1>3, <1>8, <1>12, <1>13, <2>2, <2>4
    <2> QED BY <2>3, <2>4
<1>15. trust' \in TrustLevels
    BY <1>1, <1>3 DEF TrustLevels
<1>16. Upset \/ Consumes(i) \/ Bursts(i) \/ Starts(i)
    <2>1. CASE trust = "lost" \/ (step[2] # <<>> /\ ~MayTalk(i, step[2] # <<>> /\ d1.thread = "timer"))
        BY <1>1, <2>1 DEF Upset
    <2>2. ASSUME trust # "lost", step = <<d2, <<>>>>, ~Talking(d2)
          PROVE  Consumes(i)
        <3>1. step[2] = <<>> /\ step[1] = d2 /\ rx[i] # <<>> /\ passedOn \o step[2] = passedOn
            BY <1>1, <1>7, <2>2, ConcatEmptySeq
        <3>2. d1 = AfterByte(dev[i], Head(rx[i])) /\ passedOn = <<Forwarded(dev[i], Head(rx[i]))>>
            BY <1>5, <1>7, <3>1 DEF d, data
        <3>3. executed = IF Executes(d1) THEN Append(done[i], d1.buf)
                         ELSE IF AtAddress(dev[i]) /\ trust = "armed" THEN <<>> ELSE done[i]
            BY <3>1 DEF executed, arrived, d
        <3>4. /\ dev' = [dev EXCEPT ![i] = AfterThread(d1)] /\ ~Talking(d1)
              /\ rx' = Passed(i, passedOn)
              /\ trust' = (IF trust = "armed" /\ Drained' THEN "settled" ELSE trust)
              /\ KeepHistory(log, [done EXCEPT ![i] = executed])
            BY <1>1, <1>6, <2>2, <3>1 DEF d2, Talking
        <3> QED BY <2>2, <3>1, <3>2, <3>3, <3>4 DEF Consumes
    <2>3. ASSUME trust # "lost", step[2] # <<>>, MayTalk(i, step[2] # <<>> /\ d1.thread = "timer")
          PROVE  /\ rx[i] = <<>> /\ passedOn \o step[2] = step[2] /\ d2 = dev[i] /\ d1 = dev[i]
                 /\ [done EXCEPT ![i] = executed] = done
                 /\ d1.thread = "timer" => Quiet
        <3>1. d1.thread = "timer" => Quiet
            BY <2>3 DEF MayTalk
        <3>2. rx[i] = <<>>
            <4>1. i \in 1 .. i
                BY Sizes
            <4>2. Quiet => rx[i] = <<>>
                BY DEF Quiet, Drained
            <4> QED BY <2>3, <4>1, <4>2 DEF MayTalk
        <3>3. passedOn \o step[2] = step[2]
            BY <1>7, <1>12, <3>2, ConcatEmptySeq
        <3> QED BY <1>3, <1>5, <1>8, <3>1, <3>2, <3>3 DEF d
    <2>4. ASSUME trust # "lost", MayTalk(i, step[2] # <<>> /\ d1.thread = "timer"),
                 d2.master, d2.thread = "timer", step = <<[d2 EXCEPT !.thread = "packet"], Resync(MASTER_FIRST)>>
          PROVE  Bursts(i)
        <3>1. step[2] = Resync(MASTER_FIRST) /\ step[2] # <<>> /\ d1.thread = "timer"
              /\ step[1] = [d2 EXCEPT !.thread = "packet"]
            BY <1>6, <1>10, <2>4
        <3> QED BY <1>1, <2>3, <2>4, <3>1 DEF Bursts
    <2>5. ASSUME trust # "lost", MayTalk(i, step[2] # <<>> /\ d1.thread = "timer"),
                 Talking(d2), step = <<[d2 EXCEPT !.thread = "timer"], START>>
          PROVE  Starts(i)
        <3>1. step[2] = START /\ step[2] # <<>> /\ d1.thread = "packet" /\ d1.thread # "timer"
              /\ step[1] = [d2 EXCEPT !.thread = "timer"]
            BY <1>6, <1>9, <2>5 DEF Talking
        <3> QED BY <1>1, <2>3, <2>5, <3>1 DEF Starts
    <2> QED BY <1>9, <1>10, <1>11, <2>1, <2>2, <2>4, <2>5
<1> QED BY <1>2, <1>14, <1>15, <1>16

LEMMA PassedIs ==
    ASSUME rx \in [Device -> Seq(Bytes)], NEW i \in Device, NEW out \in Seq(Bytes)
    PROVE  Passed(i, out) \in [Device -> Seq(Bytes)]
<1> SUFFICES ASSUME NEW j \in Device
             PROVE  (IF j = i /\ rx[i] # <<>> THEN Tail(rx[i])
                     ELSE IF j = i + 1 THEN rx[j] \o out ELSE rx[j]) \in Seq(Bytes)
    BY DEF Passed
<1>1. rx[i] # <<>> => Tail(rx[i]) \in Seq(Bytes)
    BY HeadTailProperties
<1>2. rx[j] \o out \in Seq(Bytes)
    BY ConcatProperties
<1> QED BY <1>1, <1>2

LEMMA TypesPreserved ==
    ASSUME Types, Modest(dev), NoHistory(trust, log, done), [Next]_vars
    PROVE  Types' /\ Modest(dev') /\ NoHistory(trust', log', done')
<1>1. /\ dev \in [Device -> DeviceState] /\ rx \in [Device -> Seq(Bytes)]
      /\ trust \in TrustLevels /\ lastSent \in Bytes \cup {-1}
      /\ log \in Seq(Entries) /\ done \in [Device -> Seq(Packet)] /\ 1 \in Device
    BY Sizes DEF Types
<1>2. \A p \in Packet : Append(log, Entry(0, p)) \in Seq(Entries)
    <2>1. \A p \in Packet : Entry(0, p) \in Entries
        BY Sizes DEF Entry, Entries
    <2> QED BY <1>1, <2>1, AppendProperties
<1>3. ASSUME NEW p \in Packets, SendPacket(p)
      PROVE  Types' /\ Modest(dev') /\ NoHistory(trust', log', done')
    <2>1. p \in Packet /\ p \in Seq(Bytes) /\ Len(p) = MSG_LEN
        BY BusAssumption, PacketIs
    <2>2. p[MSG_LEN] \in Bytes
        <3>1. MSG_LEN \in 1 .. Len(p)
            BY <2>1, Sizes
        <3> QED BY <2>1, <3>1, ElementOfSeq
    <2>3. rx[1] \o p \in Seq(Bytes)
        BY <1>1, <2>1, ConcatProperties
    <2>4. /\ dev' = dev /\ rx' = [rx EXCEPT ![1] = @ \o p] /\ trust' = trust /\ lastSent' = p[MSG_LEN]
          /\ KeepHistory(Append(log, Entry(0, p)), done)
        BY <1>3 DEF SendPacket
    <2>5. rx' \in [Device -> Seq(Bytes)]
        BY <1>1, <2>3, <2>4
    <2>6. log' \in Seq(Entries) /\ done' \in [Device -> Seq(Packet)] /\ NoHistory(trust', log', done')
        BY <1>1, <1>2, <2>1, <2>4, HistoryIs
    <2> QED BY <1>1, <2>2, <2>4, <2>5, <2>6 DEF Types
<1>4. ASSUME NEW cut \in Cuts, SendSync(cut)
      PROVE  Types' /\ Modest(dev') /\ NoHistory(trust', log', done')
    <2>1. cut \in Seq(Bytes) /\ Padded(cut) \in Packet /\ Resync(FIRST) \in Seq(Bytes)
        BY CutIs, ResyncIs, Sizes
    <2>2. rx[1] \o cut \o Resync(FIRST) \in Seq(Bytes)
        BY <1>1, <2>1, ConcatProperties
    <2>3. /\ dev' = dev /\ rx' = [rx EXCEPT ![1] = @ \o cut \o Resync(FIRST)] /\ lastSent' = -1
          /\ trust' \in TrustLevels
          /\ IF trust' = "armed" THEN log' = <<>> /\ done' = done
             ELSE KeepHistory(IF cut = <<>> THEN log ELSE Append(log, Entry(0, Padded(cut))), done)
        BY <1>4 DEF SendSync, TrustLevels
    <2>4. rx' \in [Device -> Seq(Bytes)]
        BY <1>1, <2>2, <2>3
    <2>5. log' \in Seq(Entries) /\ done' \in [Device -> Seq(Packet)] /\ NoHistory(trust', log', done')
        <3>1. CASE trust' = "armed"
            BY <1>1, <2>3, <3>1, EmptySeq DEF NoHistory
        <3>2. CASE trust' # "armed" /\ cut = <<>>
            BY <1>1, <2>3, <3>2, HistoryIs
        <3>3. CASE trust' # "armed" /\ cut # <<>>
            <4>1. Append(log, Entry(0, Padded(cut))) \in Seq(Entries)
                BY <1>2, <2>1
            <4> QED BY <1>1, <2>3, <3>3, <4>1, HistoryIs
        <3> QED BY <3>1, <3>2, <3>3
    <2> QED BY <1>1, <2>3, <2>4, <2>5 DEF Types
<1>5. ASSUME NEW i \in Device, RemotePoll(i)
      PROVE  Types' /\ Modest(dev') /\ NoHistory(trust', log', done')
    <2>1. /\ lastSent' = lastSent /\ trust' \in TrustLevels
          /\ \E st \in DeviceState, out \in Seq(Bytes), l \in Seq(Entries), x \in Seq(Packet) :
                /\ dev' = [dev EXCEPT ![i] = st] /\ StillModest(dev[i], st)
                /\ rx' = Passed(i, out) /\ KeepHistory(l, [done EXCEPT ![i] = x])
        BY <1>5, PollIs
    <2>2. PICK st \in DeviceState, out \in Seq(Bytes), l \in Seq(Entries), x \in Seq(Packet) :
                /\ dev' = [dev EXCEPT ![i] = st] /\ StillModest(dev[i], st)
                /\ rx' = Passed(i, out) /\ KeepHistory(l, [done EXCEPT ![i] = x])
        BY <2>1
    <2>3. rx' \in [Device -> Seq(Bytes)]
        BY <1>1, <2>2, PassedIs
    <2>4. Modest(dev')
        BY <1>1, <2>2 DEF Modest, StillModest
    <2>5. [done EXCEPT ![i] = x] \in [Device -> Seq(Packet)]
        BY <1>1
    <2>6. log' \in Seq(Entries) /\ done' \in [Device -> Seq(Packet)] /\ NoHistory(trust', log', done')
        BY <2>1, <2>2, <2>5, HistoryIs
    <2> QED BY <1>1, <2>1, <2>2, <2>3, <2>4, <2>6 DEF Types
<1>6. ASSUME NEW i \in Device, Restart(i)
      PROVE  Types' /\ Modest(dev') /\ NoHistory(trust', log', done')
    BY <1>6, RestartKeepsIInv DEF IInv
<1>7. CASE UNCHANGED vars
    BY <1>7 DEF vars, Types, TrustLevels
<1> QED BY <1>3, <1>4, <1>5, <1>6, <1>7 DEF Next

-----------------------------------------------------------------------------
(* The controller sends a sync *)

LEMMA FragmentJoin ==
    ASSUME NEW l, NEW i, NEW e, NEW s, NEW p \in Seq(Bytes), NEW t, NEW q \in Seq(Bytes),
           Fragment(l, i, e, s, p), Fragment(l, i, s[Len(s)], t, q),
           NEW u, Joined(s, t, u), NEW v, Joined(p, q, v)
    PROVE  /\ Fragment(l, i, e, u, v) /\ Len(u) = Len(s) + Len(t)
           /\ \A k \in 1 .. Len(u) : u[k] = IF k <= Len(s) THEN s[k] ELSE t[k - Len(s)]
<1>1. u = s \o t /\ v = p \o q
    BY DEF Joined
<1>2. /\ s \in Seq(Tags) /\ t \in Seq(Tags) /\ Len(s) = Len(p) /\ Len(t) = Len(q)
      /\ Len(q) >= 1 /\ Len(p) >= 1
    BY DEF Fragment
<1>3. Len(p) \in Nat /\ Len(q) \in Nat
    BY LenProperties
<1>4. u \in Seq(Tags) /\ Len(u) = Len(s) + Len(t) /\ v \in Seq(Bytes) /\ Len(v) = Len(p) + Len(q)
    <2>1. u \in Seq(Tags) /\ Len(u) = Len(s) + Len(t)
        BY <1>1, <1>2, ConcatProperties
    <2>2. v \in Seq(Bytes) /\ Len(v) = Len(p) + Len(q)
        BY <1>1, ConcatProperties
    <2> QED BY <2>1, <2>2
<1>5. \A k \in 1 .. Len(s) + Len(t) : u[k] = IF k <= Len(s) THEN s[k] ELSE t[k - Len(s)]
    BY <1>1, <1>2, ConcatProperties
<1>6. \A k \in 1 .. Len(p) + Len(q) : v[k] = IF k <= Len(p) THEN p[k] ELSE q[k - Len(p)]
    BY <1>1, ConcatProperties
<1>7. ASSUME NEW k \in 1 .. Len(u)
      PROVE  Sound(l, i, u[k]) /\ v[k] = OnWire(i, u[k])
    <2>1. CASE k <= Len(s)
        BY <1>2, <1>3, <1>4, <1>5, <1>6, <2>1 DEF Fragment
    <2>2. CASE k > Len(s)
        <3> DEFINE j == k - Len(s)
        <3>1. j \in 1 .. Len(t) /\ ~(k <= Len(s)) /\ ~(k <= Len(p)) /\ k - Len(p) = j
            BY <1>2, <1>3, <1>4, <2>2
        <3>2. u[k] = t[j] /\ v[k] = q[j]
            BY <1>2, <1>3, <1>4, <1>5, <1>6, <3>1
        <3> HIDE DEF j
        <3> QED BY <3>1, <3>2 DEF Fragment
    <2> QED BY <1>2, <1>3, <2>1, <2>2
<1>8. ASSUME NEW k \in 1 .. Len(u) - 1
      PROVE  Follows(l, i, u[k], u[k + 1])
    <2>1. CASE k < Len(s)
        <3>1. k \in 1 .. Len(s) - 1 /\ k <= Len(s) /\ k + 1 <= Len(s)
              /\ k \in 1 .. Len(s) + Len(t) /\ k + 1 \in 1 .. Len(s) + Len(t)
            BY <1>2, <1>3, <1>4, <2>1
        <3>2. u[k] = s[k] /\ u[k + 1] = s[k + 1]
            BY <1>5, <3>1
        <3> QED BY <3>1, <3>2 DEF Fragment
    <2>2. CASE k = Len(s)
        <3>1. k \in 1 .. Len(s) + Len(t) /\ k + 1 \in 1 .. Len(s) + Len(t) /\ ~(k + 1 <= Len(s))
              /\ k + 1 - Len(s) = 1 /\ k <= Len(s)
            BY <1>2, <1>3, <1>4, <2>2
        <3>2. u[k] = s[Len(s)] /\ u[k + 1] = t[1]
            BY <1>5, <2>2, <3>1
        <3> QED BY <3>2 DEF Fragment
    <2>3. CASE k > Len(s)
        <3> DEFINE j == k - Len(s)
        <3>1. j \in 1 .. Len(t) - 1 /\ k + 1 - Len(s) = j + 1 /\ ~(k <= Len(s)) /\ ~(k + 1 <= Len(s))
              /\ k \in 1 .. Len(s) + Len(t) /\ k + 1 \in 1 .. Len(s) + Len(t)
            BY <1>2, <1>3, <1>4, <2>3
        <3>2. u[k] = t[j] /\ u[k + 1] = t[j + 1]
            BY <1>5, <3>1
        <3> HIDE DEF j
        <3> QED BY <3>1, <3>2 DEF Fragment
    <2> QED BY <1>2, <1>3, <2>1, <2>2, <2>3
<1>9. u[1] = s[1]
    <2>1. 1 \in 1 .. Len(s) + Len(t) /\ 1 <= Len(s)
        BY <1>2, <1>3
    <2> QED BY <1>5, <2>1
<1>10. Fragment(l, i, e, u, v)
    <2>1. Follows(l, i, e, u[1]) /\ Len(u) = Len(v) /\ Len(v) >= 1
        BY <1>2, <1>3, <1>4, <1>9 DEF Fragment
    <2> QED BY <1>4, <1>7, <1>8, <2>1 DEF Fragment
<1> QED BY <1>4, <1>5, <1>10

\* A sync may follow e on link 1, and cut as much of a packet as there is of it.
UnitFits(l, e, cut, n, an) ==
    /\ Boundary(e) /\ n <= Len(l) /\ an <= Len(l)
    /\ IF n = -1 THEN an \in {-1, 0} ELSE an = n
    /\ e.n = -1 => n = -1
    /\ cut = <<>> => Closed(e) /\ (e.n >= 0 => n >= e.n /\ NoneFor(l, 1, e.n, n))
    /\ cut # <<>> =>
          /\ cut[Len(cut)] # ESC
          /\ e.n >= 0 => n > e.n /\ NoneFor(l, 1, e.n, n - 1)
          /\ n >= 0 => n \in DOMAIN l /\ l[n] = Entry(0, Padded(cut))
\* The tags that are put on the link then.
UnitTags(s, cut, n, an) ==
    /\ Len(s) >= 2 /\ s[1].n = n /\ (s[1].role = "pkt" => cut # <<>>)
    /\ s[Len(s)].role = "addr" /\ s[Len(s)].n = an
    /\ \A k \in 1 .. Len(s) :
          \/ s[k].role \in {"pkt", "esc"} /\ s[k].n = n
          \/ s[k].role = "addr" /\ s[k].n = an

LEMMA SyncUnit ==
    ASSUME NEW l \in Seq(Entries), NEW e, NEW cut \in Cuts,
           NEW n \in Nat \cup {-1}, NEW an \in Nat \cup {-1}, UnitFits(l, e, cut, n, an),
           NEW q, Joined(cut, Resync(FIRST), q)
    PROVE  q \in Seq(Bytes) /\ \E s : Fragment(l, 1, e, s, q) /\ UnitTags(s, cut, n, an)
<1>1. /\ cut \in Seq(Bytes) /\ Len(cut) \in 0 .. MSG_LEN - 1
      /\ Len(cut) >= 2 => cut[2] # ESC
      /\ \A k \in 1 .. Len(cut) : Padded(cut)[k] = cut[k]
      /\ \A k \in Len(cut) + 1 .. MSG_LEN : Padded(cut)[k] = ESC
    BY CutIs
<1>2. 1 \in Device /\ Position(1) = FIRST /\ Resync(FIRST) \in Seq(Bytes)
    <2>1. 1 \in Device /\ FIRST \in Bytes /\ Position(1) = FIRST
        BY Sizes, PositionIs
    <2> QED BY <2>1, ResyncIs
<1>3. q \in Seq(Bytes) /\ q = cut \o Resync(FIRST)
    BY <1>1, <1>2, ConcatProperties DEF Joined
<1>4. SYNC_LEN \in Nat /\ SYNC_LEN >= 2
    BY Sizes
<1>5. CASE cut = <<>>
    <2> DEFINE s == SyncTags(0, n, an)
    <2>1. q = Resync(FIRST) /\ 0 \in 0 .. MSG_LEN - 1
        BY <1>2, <1>3, <1>5, ConcatEmptySeq, Sizes
    <2>2. SyncFits(l, 1, e, 0, n, an) /\ Closed(e)
        BY <1>5 DEF UnitFits, SyncFits
    <2>3. Fragment(l, 1, e, s, q)
        <3>1. Fragment(l, 1, e, s, Resync(Position(1)))
            BY <1>2, <2>1, <2>2, SyncFragment
        <3> QED BY <1>2, <2>1, <3>1
    <2>4. /\ Len(s) = SYNC_LEN + 1
          /\ \A k \in 1 .. SYNC_LEN : s[k].role = "esc" /\ s[k].n = n
          /\ s[SYNC_LEN + 1].role = "addr" /\ s[SYNC_LEN + 1].n = an
        <3>1. SyncRun(s, 0, n, an)
            BY <2>1, SyncTagsAre
        <3> HIDE DEF s
        <3> QED BY <3>1 DEF SyncRun
    <2> HIDE DEF s
    <2>5. UnitTags(s, cut, n, an)
        <3>1. 1 \in 1 .. SYNC_LEN /\ Len(s) >= 2
            BY <1>4, <2>4
        <3>2. ASSUME NEW k \in 1 .. Len(s)
              PROVE  \/ s[k].role \in {"pkt", "esc"} /\ s[k].n = n
                     \/ s[k].role = "addr" /\ s[k].n = an
            <4>1. k \in 1 .. SYNC_LEN \/ k = SYNC_LEN + 1
                BY <1>4, <2>4
            <4> QED BY <2>4, <4>1
        <3> QED BY <2>4, <3>1, <3>2 DEF UnitTags
    <2> QED BY <1>3, <2>3, <2>5
<1>6. CASE cut # <<>>
    <2> DEFINE c == Len(cut)
               t == PacketTags(cut, n)
               f == t[c]
               w == SyncTags(c, n, an)
               s == t \o w
    <2>1. c \in 1 .. MSG_LEN - 1 /\ c \in Nat /\ MSG_LEN \in Nat
        BY <1>1, <1>6, Sizes, EmptySeq
    <2>2. Fragment(l, 1, e, t, cut)
        <3>1. Started(cut)
            BY <1>1, <2>1 DEF Started
        <3>2. Logged(l, 1, n, cut)
            <4> SUFFICES ASSUME n >= 0
                         PROVE  n \in DOMAIN l /\ l[n].from < 1 /\ \A k \in 1 .. Len(cut) : l[n].packet[k] = cut[k]
                BY DEF Logged
            <4>1. n \in DOMAIN l /\ l[n].from = 0 /\ l[n].packet = Padded(cut)
                BY <1>6 DEF UnitFits, Entry
            <4> QED BY <1>1, <4>1
        <3>3. ComesNext(l, 1, e, n) /\ n <= Len(l)
            BY <1>6 DEF UnitFits, ComesNext
        <3> HIDE DEF t
        <3> QED BY <1>1, <1>2, <3>1, <3>2, <3>3, PacketFragment DEF t
    <2>3. /\ Len(t) = c
          /\ \A k \in 1 .. c : t[k].role = "pkt" /\ t[k].pos = k /\ t[k].byte = cut[k] /\ t[k].n = n
        BY <1>1, PacketTagsAre
    <2> HIDE DEF c, t
    <2>4. c \in 1 .. c /\ 1 \in 1 .. c /\ c # MSG_LEN /\ c > 0 /\ c \in 0 .. MSG_LEN - 1
        BY <2>1
    <2>5. f.role = "pkt" /\ f.pos = c /\ f.byte # ESC /\ f.n = n /\ t[1].role = "pkt" /\ t[1].n = n
        BY <1>6, <2>3, <2>4 DEF UnitFits, c
    <2>6. Closed(f) /\ ~Boundary(f)
        BY <2>4, <2>5 DEF Closed, Boundary
    <2> HIDE DEF f
    <2>7. SyncFits(l, 1, f, c, n, an)
        <3>1. n >= 0 => n \in DOMAIN l /\ l[n].from = 0 /\ l[n].packet = Padded(cut)
            BY <1>6 DEF UnitFits, Entry
        <3>2. n >= 0 => \A p \in c + 1 .. MSG_LEN : l[n].packet[p] = ESC
            BY <1>1, <3>1 DEF c
        <3> QED BY <2>4, <2>5, <2>6, <3>1, <3>2 DEF UnitFits, SyncFits
    <2>8. Fragment(l, 1, f, w, Resync(FIRST))
        <3>1. Fragment(l, 1, f, w, Resync(Position(1)))
            BY <1>2, <2>4, <2>6, <2>7, SyncFragment
        <3> QED BY <1>2, <3>1
    <2>9. /\ Len(w) = SYNC_LEN + 1
          /\ \A k \in 1 .. SYNC_LEN : w[k].role = "esc" /\ w[k].n = n
          /\ w[SYNC_LEN + 1].role = "addr" /\ w[SYNC_LEN + 1].n = an
        <3>1. SyncRun(w, c, n, an)
            BY <2>4, SyncTagsAre
        <3> HIDE DEF w
        <3> QED BY <3>1 DEF SyncRun
    <2> HIDE DEF w
    <2>10. Joined(t, w, s) /\ Joined(cut, Resync(FIRST), q) /\ Fragment(l, 1, t[Len(t)], w, Resync(FIRST))
        BY <2>3, <2>8 DEF Joined, f
    <2> HIDE DEF s
    <2>11. /\ Fragment(l, 1, e, s, q) /\ Len(s) = Len(t) + Len(w)
           /\ \A k \in 1 .. Len(s) : s[k] = IF k <= Len(t) THEN t[k] ELSE w[k - Len(t)]
        BY <1>1, <1>2, <2>2, <2>10, FragmentJoin
    <2>12. UnitTags(s, cut, n, an)
        <3>1. 1 \in 1 .. Len(s) /\ 1 <= Len(t) /\ Len(s) \in 1 .. Len(s) /\ ~(Len(s) <= Len(t))
              /\ Len(s) - Len(t) = SYNC_LEN + 1 /\ Len(s) >= 2
            BY <1>4, <2>1, <2>3, <2>9, <2>11
        <3>2. s[1] = t[1] /\ s[Len(s)] = w[SYNC_LEN + 1]
            BY <2>11, <3>1
        <3>3. ASSUME NEW k \in 1 .. Len(s)
              PROVE  \/ s[k].role \in {"pkt", "esc"} /\ s[k].n = n
                     \/ s[k].role = "addr" /\ s[k].n = an
            <4>1. CASE k <= Len(t)
                <5>1. k \in 1 .. c /\ s[k] = t[k]
                    BY <2>1, <2>3, <2>11, <4>1
                <5> QED BY <2>3, <5>1
            <4>2. CASE k > Len(t)
                <5> DEFINE j == k - Len(t)
                <5>1. j \in 1 .. SYNC_LEN \/ j = SYNC_LEN + 1
                    BY <1>4, <2>1, <2>3, <2>9, <2>11, <4>2
                <5>2. s[k] = w[j]
                    BY <2>1, <2>3, <2>11, <4>2
                <5> HIDE DEF j
                <5> QED BY <2>9, <5>1, <5>2
            <4> QED BY <2>1, <2>3, <4>1, <4>2
        <3> QED BY <1>6, <2>5, <2>9, <3>1, <3>2, <3>3 DEF UnitTags
    <2> QED BY <1>3, <2>11, <2>12
<1> QED BY <1>5, <1>6

\* For a new log, what is under way is of no account.
LEMMA RenumberedMeans ==
    ASSUME NEW tag, NEW d, NEW r \in [Device -> Seq(Bytes)], NEW tr, NEW ls, NEW l, NEW dn,
           Meaning(tag, d, r, tr, ls, l, dn), NEW y
    PROVE  \E new : /\ Meaning(new, d, r, "pure", ls, <<>>, y)
                    /\ Closed(Latest(tag, 1)) => Closed(Latest(new, 1))
<1> DEFINE new == [i \in Device |-> Renumbered(tag[i])]
<1>1. /\ Streams(tag, l, r) /\ Tied(tag, d) /\ Counts(tag, d) /\ Sender(tag, ls)
      /\ MasterWaits(tag, d) /\ CaughtUp(tag, l, r)
    BY DEF Meaning
<1>2. 1 \in Device /\ Device = 1 .. N /\ N \in Nat
    BY Sizes
<1>3. Len(<<>>) \in Nat
    BY EmptySeq
<1>4. ASSUME NEW i \in Device
      PROVE  /\ Stream(<<>>, i, new[i], r[i]) /\ Len(new[i]) = Len(tag[i]) /\ Len(tag[i]) >= 1
             /\ \A k \in 1 .. Len(tag[i]) : new[i][k] = [tag[i][k] EXCEPT !.n = -1]
    <2> DEFINE s == tag[i]
               q == r[i]
    <2>1. Stream(l, i, s, q) /\ q \in Seq(Bytes)
        BY <1>1 DEF Streams
    <2> HIDE DEF s, q
    <2>2. Stream(<<>>, i, Renumbered(s), q) /\ Forgets(s, Renumbered(s))
        BY <1>3, <2>1, StreamRenumbered
    <2> QED BY <2>2 DEF s, q, Forgets
<1>5. Streams(new, <<>>, r)
    BY <1>4 DEF Streams
<1> HIDE DEF new
<1>6. ASSUME NEW i \in Device, NEW k \in 1 .. Len(new[i])
      PROVE  /\ k \in 1 .. Len(tag[i]) /\ new[i][k].n = -1
             /\ new[i][k].role = tag[i][k].role /\ new[i][k].pos = tag[i][k].pos
             /\ new[i][k].byte = tag[i][k].byte /\ new[i][k].cut = tag[i][k].cut
    <2>1. k \in 1 .. Len(tag[i]) /\ new[i][k] = [tag[i][k] EXCEPT !.n = -1]
        BY <1>4
    <2>2. tag[i][k] \in Tags
        <3>1. tag[i] \in Seq(Tags)
            BY <1>1, LinkIs
        <3> QED BY <2>1, <3>1, ElementOfSeq
    <2> QED BY <2>1, <2>2, RenumberedTag
<1>7. ASSUME NEW i \in Device
      PROVE  /\ Taken(new, i).n = -1 /\ Taken(new, i).role = Taken(tag, i).role
             /\ Taken(new, i).pos = Taken(tag, i).pos /\ Taken(new, i).byte = Taken(tag, i).byte
             /\ Taken(new, i) = [Taken(tag, i) EXCEPT !.n = -1]
             /\ Latest(new, i).n = -1 /\ Latest(new, i).role = Latest(tag, i).role
             /\ Latest(new, i).pos = Latest(tag, i).pos /\ Latest(new, i).byte = Latest(tag, i).byte
             /\ Latest(new, i) = [Latest(tag, i) EXCEPT !.n = -1]
    <2>1. Len(tag[i]) \in Nat /\ Len(tag[i]) >= 1
        BY <1>1, LinkIs
    <2>2. Len(new[i]) = Len(tag[i]) /\ 1 \in 1 .. Len(new[i]) /\ Len(new[i]) \in 1 .. Len(new[i])
        BY <1>4, <2>1
    <2>3. new[i][1] = [tag[i][1] EXCEPT !.n = -1] /\ new[i][Len(new[i])] = [tag[i][Len(tag[i])] EXCEPT !.n = -1]
        BY <1>4, <2>2
    <2> QED BY <1>6, <2>2, <2>3 DEF Taken, Latest
<1>8. ASSUME NEW i \in Device
      PROVE  /\ Boundary(Taken(tag, i)) <=> Boundary(Taken(new, i))
             /\ Boundary(Latest(tag, i)) <=> Boundary(Latest(new, i))
             /\ Closed(Latest(tag, i)) <=> Closed(Latest(new, i))
    BY <1>7 DEF Boundary, Closed
<1>9. Tied(new, d)
    <2> SUFFICES ASSUME NEW i \in Device, i < N
                 PROVE  Taken(new, i) = Latest(new, i + 1) \/ (i = 1 /\ OwnBytes(new, d))
        BY DEF Tied
    <2>1. i + 1 \in Device
        BY <1>2
    <2>2. CASE Taken(tag, i) = Latest(tag, i + 1)
        BY <1>7, <2>1, <2>2
    <2>3. CASE i = 1 /\ OwnBytes(tag, d)
        <3>1. 2 \in Device
            BY <2>1, <2>3
        <3>2. Len(new[1]) > 1 => new[1][2].n = -1
            <4>1. Len(new[1]) \in Nat
                BY <1>2, <1>5, LinkIs
            <4>2. Len(new[1]) > 1 => 2 \in 1 .. Len(new[1])
                BY <4>1
            <4> QED BY <1>2, <1>6, <4>2
        <3> QED BY <1>2, <1>7, <1>8, <2>3, <3>1, <3>2 DEF OwnBytes
    <2> QED BY <1>1, <2>2, <2>3 DEF Tied
<1>10. Counts(new, d) /\ MasterWaits(new, d)
    BY <1>1, <1>7, <1>8 DEF Counts, Counted, MasterWaits
<1>11. Sender(new, ls)
    BY <1>1, <1>2, <1>7, <1>8 DEF Sender
<1>12. CaughtUp(new, <<>>, r)
    BY <1>1, <1>8 DEF CaughtUp, Caught, NoneFor
<1>13. Numbered(new, "pure", <<>>) /\ OneSync(new, "pure", d, r)
       /\ AllInStep(new, "pure", d, <<>>, y) /\ Reached(new, "pure", d)
    BY <1>6 DEF Numbered, OneSync, AllInStep, Reached, IsLive
<1>14. Meaning(new, d, r, "pure", ls, <<>>, y)
    BY <1>5, <1>9, <1>10, <1>11, <1>12, <1>13 DEF Meaning
<1> QED BY <1>2, <1>8, <1>14

\* On a quiet bus the devices are where they would be if nothing had come yet.
Rest(tag, i) == Tag("start", 0, 0, 0, Taken(tag, i).n)
AtRest(tag, t) == \A i \in Device : t[i] = <<Rest(tag, i)>>

LEMMA RestIs ==
    ASSUME NEW tag, NEW l \in Seq(Entries), NEW r \in [Device -> Seq(Bytes)], Streams(tag, l, r),
           NEW i \in Device
    PROVE  /\ Rest(tag, i) \in Tags /\ Rest(tag, i).role = "start" /\ Rest(tag, i).n = Taken(tag, i).n
           /\ Boundary(Rest(tag, i)) /\ Closed(Rest(tag, i)) /\ Sound(l, i, Rest(tag, i))
<1>1. Sound(l, i, Taken(tag, i))
    BY LinkIs
<1>2. Taken(tag, i).n \in Nat \cup {-1} /\ Taken(tag, i).n <= Len(l)
    BY <1>1 DEF Sound, Tags
<1>3. "start" \in Roles /\ 0 \in Nat /\ 0 \in Bytes /\ 0 \in 0 .. MSG_LEN - 1
    BY Sizes DEF Roles
<1>4. Rest(tag, i) \in Tags /\ Rest(tag, i).role = "start" /\ Rest(tag, i).n = Taken(tag, i).n
    BY <1>2, <1>3, TagIs DEF Rest
<1> QED BY <1>2, <1>4 DEF Boundary, Closed, Sound

LEMMA Resting ==
    ASSUME NEW tag, NEW d, NEW r \in [Device -> Seq(Bytes)], NEW tr, NEW ls,
           NEW l \in Seq(Entries), NEW dn, Meaning(tag, d, r, tr, ls, l, dn),
           \A i \in Device : r[i] = <<>> /\ d[i].sync = 0
    PROVE  \E t : Meaning(t, d, r, tr, ls, l, dn) /\ AtRest(tag, t)
<1> DEFINE t == [i \in Device |-> <<Rest(tag, i)>>]
<1>1. /\ Streams(tag, l, r) /\ Tied(tag, d) /\ Counts(tag, d) /\ Sender(tag, ls)
      /\ MasterWaits(tag, d) /\ CaughtUp(tag, l, r) /\ Numbered(tag, tr, l) /\ OneSync(tag, tr, d, r)
      /\ AllInStep(tag, tr, d, l, dn) /\ Reached(tag, tr, d)
    BY DEF Meaning
<1>2. 1 \in Device /\ Device = 1 .. N /\ N \in Nat
    BY Sizes
<1>3. ASSUME NEW i \in Device
      PROVE  /\ Rest(tag, i) \in Tags /\ Rest(tag, i).role = "start" /\ Rest(tag, i).n = Taken(tag, i).n
             /\ Boundary(Rest(tag, i)) /\ Closed(Rest(tag, i)) /\ Sound(l, i, Rest(tag, i))
    BY <1>1, RestIs
<1>4. ASSUME NEW i \in Device
      PROVE  /\ t[i] \in Seq(Tags) /\ Len(t[i]) = 1 /\ t[i][1] = Rest(tag, i) /\ t[i] = <<Rest(tag, i)>>
             /\ Taken(t, i) = Rest(tag, i) /\ Latest(t, i) = Rest(tag, i)
    BY <1>3 DEF Taken, Latest
<1> HIDE DEF t
<1>5. ASSUME NEW i \in Device
      PROVE  /\ Len(tag[i]) = 1 /\ Taken(tag, i) = Latest(tag, i) /\ Taken(tag, i) \in Tags
             /\ Boundary(Taken(tag, i)) /\ NoneFor(l, i, Taken(tag, i).n, Len(l))
    <2>1. \A j \in 1 .. i : j \in Device
        BY <1>2
    <2>2. Boundary(Taken(tag, i)) /\ NoneFor(l, i, Taken(tag, i).n, Len(l))
        BY <1>1, <2>1 DEF CaughtUp, Caught
    <2> QED BY <1>1, <2>2, LinkIs
<1>6. Streams(t, l, r)
    <2> SUFFICES ASSUME NEW i \in Device
                 PROVE  Stream(l, i, t[i], r[i])
        BY DEF Streams
    <2>1. r[i] = <<>> /\ Len(r[i]) = 0
        OBVIOUS
    <2>2. t[i] \in Seq(Tags) /\ Len(t[i]) = 1 /\ t[i][1] = Rest(tag, i) /\ Sound(l, i, Rest(tag, i))
        BY <1>3, <1>4
    <2> QED BY <2>1, <2>2 DEF Stream
<1>7. Tied(t, d)
    <2> SUFFICES ASSUME NEW i \in Device, i < N
                 PROVE  Taken(t, i) = Latest(t, i + 1) \/ (i = 1 /\ OwnBytes(t, d))
        BY DEF Tied
    <2>1. i + 1 \in Device
        BY <1>2
    <2>2. CASE Taken(tag, i) = Latest(tag, i + 1)
        <3>1. Taken(tag, i).n = Taken(tag, i + 1).n
            BY <1>5, <2>1, <2>2
        <3> QED BY <1>4, <2>1, <3>1 DEF Rest
    <2>3. CASE i = 1 /\ OwnBytes(tag, d)
        <3>1. 2 \in Device
            BY <2>1, <2>3
        <3>2. Taken(tag, 1).n <= Taken(tag, 2).n /\ (Taken(tag, 2).n >= 0 => Taken(tag, 1).n >= 0)
            BY <1>5, <2>3, <3>1 DEF OwnBytes
        <3>3. ~(Len(t[1]) > 1)
            <4>1. Len(t[1]) = 1
                BY <1>2, <1>4
            <4> QED BY <4>1
        <3>4. /\ Taken(t, 1) = Rest(tag, 1) /\ Latest(t, 2) = Rest(tag, 2)
              /\ Boundary(Rest(tag, 1)) /\ Boundary(Rest(tag, 2)) /\ Closed(Rest(tag, 2))
              /\ Rest(tag, 1).n = Taken(tag, 1).n /\ Rest(tag, 2).n = Taken(tag, 2).n
            BY <1>2, <1>3, <1>4, <3>1
        <3> QED BY <2>3, <3>2, <3>3, <3>4 DEF OwnBytes
    <2> QED BY <1>1, <2>2, <2>3 DEF Tied
<1>8. Counts(t, d) /\ MasterWaits(t, d)
    BY <1>3, <1>4 DEF Counts, Counted, MasterWaits
<1>9. Sender(t, ls)
    BY <1>2, <1>3, <1>4 DEF Sender
<1>10. CaughtUp(t, l, r)
    BY <1>3, <1>4, <1>5 DEF CaughtUp, Caught
<1>11. ASSUME NEW i \in Device, NEW k \in 1 .. Len(t[i])
       PROVE  t[i][k] = Rest(tag, i)
    <2>1. k = 1
        <3>1. Len(t[i]) = 1
            BY <1>4
        <3> QED BY <3>1
    <2> QED BY <1>4, <2>1
<1>12. Numbered(t, tr, l)
    <2>1. ASSUME tr = "pure", NEW i \in Device
          PROVE  Taken(tag, i).n = -1
        <3>1. 1 \in 1 .. Len(tag[i])
            BY <1>5
        <3> QED BY <1>1, <2>1, <3>1 DEF Numbered, Taken
    <2>2. \A i \in Device : Latest(t, i).n = Latest(tag, i).n
        BY <1>3, <1>4, <1>5
    <2>3. tr = "pure" => \A i \in Device : \A k \in 1 .. Len(t[i]) : t[i][k].n = -1
        BY <1>3, <1>11, <2>1
    <2>4. IsLive(tr) => Latest(t, 1).n >= 0
        BY <1>1, <1>2, <2>2 DEF Numbered
    <2>5. IsLive(tr) => \A i \in Device : \A m \in DOMAIN l : m > Latest(t, i).n => l[m].from # i - 1
        BY <1>1, <2>2 DEF Numbered
    <2> QED BY <2>3, <2>4, <2>5 DEF Numbered
<1>13. OneSync(t, tr, d, r)
    <2>1. ASSUME NEW i \in Device, NEW k \in 1 .. Len(t[i])
          PROVE  t[i][k].role # "esc"
        BY <1>3, <1>11
    <2> QED BY <1>1, <2>1 DEF OneSync
<1>14. AllInStep(t, tr, d, l, dn)
    <2> SUFFICES ASSUME NEW i \in Device, IsLive(tr), d[i].synced, Taken(t, i).n >= 0
                 PROVE  InStep(l, i, Taken(t, i), d[i], dn[i])
        BY DEF AllInStep
    <2>1. Taken(tag, i).n >= 0 /\ InStep(l, i, Taken(tag, i), d[i], dn[i])
        BY <1>1, <1>3, <1>4 DEF AllInStep
    <2>2. d[i].buf = <<>>
        BY <1>5, <2>1 DEF InStep, Buffered
    <2>3. ~Unfinished(Taken(tag, i)) /\ ~Unfinished(Rest(tag, i))
        BY <1>3, <1>5 DEF Unfinished, Boundary
    <2>4. Completed(Taken(tag, i)) = Taken(tag, i).n /\ Completed(Rest(tag, i)) = Taken(tag, i).n
        BY <1>3, <2>3 DEF Completed
    <2>5. Buffered(l, Rest(tag, i), d[i].buf)
        BY <1>3, <2>2, <2>3 DEF Buffered
    <2> QED BY <1>4, <2>1, <2>4, <2>5 DEF InStep
<1>15. Reached(t, tr, d)
    <2>1. ASSUME NEW i \in Device, UnderWay(tag, i)
          PROVE  FALSE
        <3>1. PICK j \in 1 .. i : \E k \in 2 .. Len(tag[j]) : TRUE
            BY <2>1 DEF UnderWay
        <3>2. j \in Device
            BY <1>2
        <3>3. Len(tag[j]) = 1
            BY <1>5, <3>2
        <3> QED BY <3>1, <3>3
    <2> QED BY <1>1, <1>3, <1>4, <2>1 DEF Reached
<1>16. Meaning(t, d, r, tr, ls, l, dn)
    BY <1>6, <1>7, <1>8, <1>9, <1>10, <1>12, <1>13, <1>14, <1>15 DEF Meaning
<1> QED BY <1>4, <1>16 DEF AtRest

\* When a sync may follow, it does not follow an ESC byte.
LEMMA SyncBase ==
    ASSUME Types, NEW cut, NoOpenEscRun(cut), NEW tag,
           Meaning(tag, dev, rx, trust, lastSent, log, done)
    PROVE  \E t : /\ Meaning(t, dev, rx, trust, lastSent, log, done)
                  /\ cut = <<>> => Closed(Latest(t, 1))
<1>1. rx \in [Device -> Seq(Bytes)] /\ log \in Seq(Entries) /\ 1 \in Device
    BY Sizes DEF Types
<1>2. Sender(tag, lastSent) /\ Streams(tag, log, rx)
    BY DEF Meaning
<1>3. CASE cut # <<>>
    BY <1>3
<1>4. CASE cut = <<>> /\ Quiet
    <2>1. PICK t : Meaning(t, dev, rx, trust, lastSent, log, done) /\ AtRest(tag, t)
        BY <1>1, <1>4, Resting DEF Quiet, Drained
    <2>2. t[1] = <<Rest(tag, 1)>>
        BY <1>1, <2>1 DEF AtRest
    <2>3. Latest(t, 1) = Rest(tag, 1)
        BY <2>2 DEF Latest
    <2>4. Closed(Latest(t, 1))
        BY <1>1, <1>2, <2>3, RestIs
    <2> QED BY <2>1, <2>4
<1>5. CASE cut = <<>> /\ lastSent \notin {-1, ESC}
    <2>1. Closed(Latest(tag, 1))
        BY <1>2, <1>5 DEF Sender, Closed
    <2> QED BY <2>1
<1>6. CASE cut = <<>> /\ lastSent = -1 /\ \A i \in Device : Position(i) # ESC
    <2>1. Closed(Latest(tag, 1))
        BY <1>2, <1>6 DEF Sender, Closed
    <2> QED BY <2>1
<1> QED BY <1>3, <1>4, <1>5, <1>6 DEF NoOpenEscRun

\* tag with a sync, and perhaps a packet cut short, behind what is on link 1.
ComesBehind(tag, new, n, an) ==
    /\ \A i \in Device : Taken(new, i) = Taken(tag, i)
    /\ \A i \in Device : i # 1 => new[i] = tag[i] /\ Latest(new, i) = Latest(tag, i)
    /\ Len(new[1]) \in Nat /\ Len(new[1]) >= 2
    /\ Latest(new, 1).role = "addr" /\ Latest(new, 1).n = an
    /\ \A k \in 1 .. Len(new[1]) :
          \/ k \in 1 .. Len(tag[1]) /\ new[1][k] = tag[1][k]
          \/ new[1][k].role \in {"pkt", "esc"} /\ new[1][k].n = n
          \/ new[1][k].role = "addr" /\ new[1][k].n = an
\* What does not depend on the trust in the bus.
Sent(tag, d, l, r) ==
    Streams(tag, l, r) /\ Tied(tag, d) /\ Counts(tag, d) /\ MasterWaits(tag, d)
\* new is the meaning tag with a sync put on link 1.
SyncSent(tag, d, l, tr, dn, n, an, r2, new) ==
    /\ Sent(new, d, l, r2) /\ CaughtUp(new, l, r2) /\ r2[1] # <<>>
    /\ AllInStep(tag, tr, d, l, dn) => AllInStep(new, tr, d, l, dn)
    /\ ComesBehind(tag, new, n, an)
\* The numbers do not go back on link 1.
NotBack(tag, cut, n) ==
    N > 1 => n >= Latest(tag, 2).n /\ (cut # <<>> /\ n >= 0 => n > Latest(tag, 2).n)

LEMMA SyncPut ==
    ASSUME NEW l \in Seq(Entries), NEW tag, NEW r \in [Device -> Seq(Bytes)],
           NEW d, NEW tr, NEW dn, Sent(tag, d, l, r),
           NEW cut \in Cuts, NEW n \in Nat \cup {-1}, NEW an \in Nat \cup {-1},
           UnitFits(l, Latest(tag, 1), cut, n, an),
           NotBack(tag, cut, n), NEW q, Joined(cut, Resync(FIRST), q), NEW r2, Grown(1, r, q, r2)
    PROVE  \E new : SyncSent(tag, d, l, tr, dn, n, an, r2, new)
<1> DEFINE e == Latest(tag, 1)
<1>1. Streams(tag, l, r) /\ Tied(tag, d) /\ Counts(tag, d) /\ MasterWaits(tag, d)
    BY DEF Sent
<1>2. q \in Seq(Bytes) /\ \E s : Fragment(l, 1, e, s, q) /\ UnitTags(s, cut, n, an)
    <2>1. UnitFits(l, e, cut, n, an)
        OBVIOUS
    <2> HIDE DEF e
    <2> QED BY <2>1, SyncUnit
<1>3. PICK s : Fragment(l, 1, e, s, q) /\ UnitTags(s, cut, n, an)
    BY <1>2
<1> DEFINE new == [i \in Device |-> IF i = 1 THEN tag[i] \o s ELSE tag[i]]
<1>4. Grown(1, tag, s, new)
    BY DEF Grown, Joined
<1>5. FitsBehind(tag, s[1])
    BY <1>3 DEF FitsBehind, UnitTags, NotBack
<1> HIDE DEF new
<1>6. 1 \in Device
    BY Sizes
<1>7. Streams(new, l, r2) /\ r2[1] # <<>> /\ Extends(tag, 1, s, new)
    BY <1>1, <1>2, <1>3, <1>4, <1>6, Put
<1>8. /\ Tied(new, d) /\ Counts(new, d) /\ MasterWaits(new, d) /\ CaughtUp(new, l, r2)
      /\ AllInStep(tag, tr, d, l, dn) => AllInStep(new, tr, d, l, dn)
    BY <1>1, <1>2, <1>3, <1>4, <1>5, PutFirst
<1>9. Len(tag[1]) \in Nat /\ Len(tag[1]) >= 1
    BY <1>1, <1>6, LinkIs
<1>10. Len(s) \in Nat /\ Len(s) >= 2 /\ Len(new[1]) = Len(tag[1]) + Len(s)
    BY <1>3, <1>7 DEF Extends, UnitTags
<1>11. ASSUME NEW k \in 1 .. Len(new[1])
       PROVE  \/ k \in 1 .. Len(tag[1]) /\ new[1][k] = tag[1][k]
              \/ new[1][k].role \in {"pkt", "esc"} /\ new[1][k].n = n
              \/ new[1][k].role = "addr" /\ new[1][k].n = an
    <2>1. CASE k <= Len(tag[1])
        <3>1. k \in 1 .. Len(tag[1])
            BY <1>9, <2>1
        <3> QED BY <1>7, <3>1 DEF Extends
    <2>2. CASE k > Len(tag[1])
        <3> DEFINE j == k - Len(tag[1])
        <3>1. k \in 1 .. Len(tag[1]) + Len(s)
            BY <1>10
        <3>2. j \in 1 .. Len(s) /\ Len(tag[1]) + j = k
            BY <1>9, <1>10, <2>2, <3>1
        <3> HIDE DEF j
        <3>3. new[1][Len(tag[1]) + j] = s[j]
            BY <1>7, <3>2 DEF Extends
        <3>4. new[1][k] = s[j]
            BY <3>2, <3>3
        <3> QED BY <1>3, <3>2, <3>4 DEF UnitTags
    <2> QED BY <1>9, <2>1, <2>2
<1>12. Len(new[1]) \in Nat /\ Len(new[1]) >= 2
    BY <1>9, <1>10
<1>13. Latest(new, 1).role = "addr" /\ Latest(new, 1).n = an
    BY <1>3, <1>7 DEF Extends, UnitTags
<1>14. ComesBehind(tag, new, n, an)
    <2>1. /\ \A i \in Device : Taken(new, i) = Taken(tag, i)
          /\ \A i \in Device : i # 1 => new[i] = tag[i] /\ Latest(new, i) = Latest(tag, i)
        BY <1>7 DEF Extends
    <2> QED BY <1>11, <1>12, <1>13, <2>1 DEF ComesBehind
<1>15. Sent(new, d, l, r2)
    BY <1>7, <1>8 DEF Sent
<1> QED BY <1>7, <1>8, <1>14, <1>15 DEF SyncSent

\* What a sync does that starts a new log.
LEMMA ArmingMeans ==
    ASSUME NEW d, NEW r \in [Device -> Seq(Bytes)], NEW dn, NEW ls,
           NEW cut \in Cuts, NEW tag, Meaning(tag, d, r, "pure", ls, <<>>, dn),
           cut = <<>> => Closed(Latest(tag, 1)), cut # <<>> => cut[Len(cut)] # ESC,
           NEW q, Joined(cut, Resync(FIRST), q), NEW r2, Grown(1, r, q, r2)
    PROVE  \E t : Meaning(t, d, r2, "armed", -1, <<>>, dn)
<1>1. /\ Streams(tag, <<>>, r) /\ Tied(tag, d) /\ Counts(tag, d) /\ Sender(tag, ls)
      /\ MasterWaits(tag, d) /\ Numbered(tag, "pure", <<>>)
    BY DEF Meaning
<1>2. 1 \in Device /\ Device = 1 .. N /\ N \in Nat /\ <<>> \in Seq(Entries) /\ Len(<<>>) = 0
    BY Sizes, EmptySeq
<1>3. \A i \in Device : \A k \in 1 .. Len(tag[i]) : tag[i][k].n = -1
    BY <1>1 DEF Numbered
<1>4. ASSUME NEW i \in Device
      PROVE  Taken(tag, i).n = -1 /\ Latest(tag, i).n = -1
    <2>1. Len(tag[i]) \in Nat /\ Len(tag[i]) >= 1
        BY <1>1, LinkIs
    <2>2. 1 \in 1 .. Len(tag[i]) /\ Len(tag[i]) \in 1 .. Len(tag[i])
        BY <2>1
    <2> QED BY <1>3, <2>2 DEF Taken, Latest
<1>5. UnitFits(<<>>, Latest(tag, 1), cut, -1, 0)
    BY <1>1, <1>2, <1>4 DEF UnitFits, Sender
<1>6. Sent(tag, d, <<>>, r)
    BY <1>1 DEF Sent
<1>7. NotBack(tag, cut, -1)
    BY <1>2, <1>4 DEF NotBack
<1>8. PICK new :
          /\ Sent(new, d, <<>>, r2) /\ CaughtUp(new, <<>>, r2) /\ r2[1] # <<>>
          /\ ComesBehind(tag, new, -1, 0)
    <2> DEFINE l == <<>>
               n == -1
               an == 0
    <2>1. /\ l \in Seq(Entries) /\ n \in Nat \cup {-1} /\ an \in Nat \cup {-1}
          /\ UnitFits(l, Latest(tag, 1), cut, n, an) /\ Sent(tag, d, l, r)
          /\ NotBack(tag, cut, n)
        BY <1>2, <1>5, <1>6, <1>7
    <2> HIDE DEF l, n, an
    <2>2. \E new : SyncSent(tag, d, l, "armed", dn, n, an, r2, new)
        BY <2>1, SyncPut
    <2> QED BY <2>2 DEF l, n, an, SyncSent
<1>9. Streams(new, <<>>, r2) /\ Tied(new, d) /\ Counts(new, d) /\ MasterWaits(new, d)
    BY <1>8 DEF Sent
<1>10. /\ \A i \in Device : Taken(new, i) = Taken(tag, i)
       /\ \A i \in Device : i # 1 => new[i] = tag[i]
       /\ Len(new[1]) \in Nat /\ Len(new[1]) >= 2
       /\ Latest(new, 1).role = "addr" /\ Latest(new, 1).n = 0
    BY <1>8 DEF ComesBehind
<1>11. Sender(new, -1)
    BY <1>10 DEF Sender, Boundary
<1>12. Numbered(new, "armed", <<>>)
    BY <1>2, <1>10 DEF Numbered
<1>13. ASSUME NEW i \in Device, NEW k \in 1 .. Len(new[i]), new[i][k].role = "esc"
       PROVE  new[i][k].n = -1
    <2>1. CASE i # 1
        BY <1>3, <1>10, <2>1
    <2>2. CASE i = 1
        <3>1. \/ k \in 1 .. Len(tag[1]) /\ new[1][k] = tag[1][k]
              \/ new[1][k].n = -1
            BY <1>8, <1>13, <2>2 DEF ComesBehind
        <3> QED BY <1>3, <2>2, <3>1
    <2> QED BY <2>1, <2>2
<1>14. OneSync(new, "armed", d, r2)
    BY <1>2, <1>8, <1>13 DEF OneSync
<1>15. AllInStep(new, "armed", d, <<>>, dn)
    BY <1>4, <1>10 DEF AllInStep
<1>16. Reached(new, "armed", d)
    <2> SUFFICES ASSUME NEW i \in Device
                 PROVE  UnderWay(new, i)
        BY DEF Reached
    <2>1. 1 \in 1 .. i /\ Len(new[1]) \in 2 .. Len(new[1])
        BY <1>2, <1>10
    <2> QED BY <1>10, <2>1 DEF UnderWay, Latest
<1>17. Meaning(new, d, r2, "armed", -1, <<>>, dn)
    BY <1>8, <1>9, <1>11, <1>12, <1>14, <1>15, <1>16 DEF Meaning
<1> QED BY <1>17

\* And one that comes when all devices are addressed.
LEMMA SettledSyncMeans ==
    ASSUME NEW l \in Seq(Entries), NEW d, NEW r \in [Device -> Seq(Bytes)], NEW dn, NEW ls,
           NEW cut \in Cuts, NEW tag, Meaning(tag, d, r, "settled", ls, l, dn),
           \A i \in Device : d[i].synced,
           cut = <<>> => Closed(Latest(tag, 1)), cut # <<>> => cut[Len(cut)] # ESC,
           NEW q, Joined(cut, Resync(FIRST), q), NEW r2, Grown(1, r, q, r2),
           NEW l2, l2 = IF cut = <<>> THEN l ELSE Append(l, Entry(0, Padded(cut)))
    PROVE  \E t : Meaning(t, d, r2, "settled", -1, l2, dn)
<1> DEFINE tr == "settled"
           n == Len(l2)
           e == Latest(tag, 1)
<1>1. /\ Streams(tag, l, r) /\ Tied(tag, d) /\ Counts(tag, d) /\ Sender(tag, ls)
      /\ MasterWaits(tag, d) /\ Numbered(tag, tr, l) /\ OneSync(tag, tr, d, r)
      /\ AllInStep(tag, tr, d, l, dn) /\ Reached(tag, tr, d) /\ IsLive(tr) /\ tr # "armed" /\ tr # "pure"
    BY DEF Meaning, IsLive
<1> HIDE DEF tr
<1>2. 1 \in Device /\ Device = 1 .. N /\ N \in Nat /\ Len(l) \in Nat
    BY Sizes, LenProperties
<1>3. Entry(0, Padded(cut)) \in Entries /\ Entry(0, Padded(cut)).from = 0
    BY CutIs, Sizes DEF Entry, Entries
<1>4. /\ l2 \in Seq(Entries) /\ n \in Nat /\ Streams(tag, l2, r) /\ AllInStep(tag, tr, d, l2, dn)
      /\ Len(l) <= n
      /\ cut = <<>> => l2 = l
      /\ cut # <<>> => n = Len(l) + 1 /\ n \in DOMAIN l2 /\ l2[n] = Entry(0, Padded(cut))
      /\ \A m \in DOMAIN l2 : \/ m \in DOMAIN l /\ l2[m] = l[m]
                              \/ m = n /\ l2[m].from = 0
    <2>1. CASE cut = <<>>
        BY <1>1, <1>2, <2>1
    <2>2. CASE cut # <<>>
        <3> DEFINE x == Entry(0, Padded(cut))
        <3>1. x \in Entries /\ x.from = 0 /\ l2 = Append(l, x)
            BY <1>3, <2>2
        <3> HIDE DEF x
        <3>2. Streams(tag, Append(l, x), r) /\ AllInStep(tag, tr, d, Append(l, x), dn)
            BY <1>1, <3>1, StreamsLonger, AllInStepLonger
        <3>3. /\ l2 \in Seq(Entries) /\ n = Len(l) + 1 /\ DOMAIN l = 1 .. Len(l) /\ DOMAIN l2 = 1 .. Len(l) + 1
              /\ (\A m \in DOMAIN l : l2[m] = l[m]) /\ l2[Len(l) + 1] = x
            BY <3>1, LongerLog
        <3>4. ASSUME NEW m \in DOMAIN l2
              PROVE  (m \in DOMAIN l /\ l2[m] = l[m]) \/ (m = n /\ l2[m].from = 0)
            <4>1. m \in DOMAIN l \/ m = n
                BY <1>2, <3>3
            <4>2. l2[n] = x /\ l2[n].from = 0
                BY <3>1, <3>3
            <4>3. m \in DOMAIN l => l2[m] = l[m]
                BY <3>3
            <4> HIDE DEF n
            <4> QED BY <4>1, <4>2, <4>3
        <3>5. n \in DOMAIN l2 /\ n \in Nat /\ Len(l) <= n
            BY <1>2, <3>3
        <3>6. l2[n] = Entry(0, Padded(cut))
            BY <3>3 DEF x
        <3> HIDE DEF n
        <3>7. Streams(tag, l2, r) /\ AllInStep(tag, tr, d, l2, dn)
            BY <3>1, <3>2
        <3> QED BY <2>2, <3>3, <3>4, <3>5, <3>6, <3>7
    <2> QED BY <2>1, <2>2
<1>5. e.n \in Int /\ e.n >= 0 /\ e.n <= Len(l) /\ NoneFor(l, 1, e.n, Len(l)) /\ Boundary(e)
    <2>1. e.n >= 0
        BY <1>1 DEF Numbered
    <2>2. NoneFor(l, 1, e.n, Len(l))
        BY <1>1, RestNotFor
    <2>3. e \in Tags /\ Sound(l, 1, e)
        BY <1>1, <1>2, LinkIs
    <2>4. e.n \in Int /\ e.n <= Len(l)
        BY <2>3, TagFields DEF Sound
    <2> QED BY <1>1, <2>1, <2>2, <2>4 DEF Sender
<1> HIDE DEF n
<1>6. UnitFits(l2, e, cut, n, n)
    <2>1. n <= Len(l2) /\ n # -1
        BY <1>4 DEF n
    <2>2. ASSUME cut = <<>>
          PROVE  Closed(e) /\ n >= e.n /\ NoneFor(l2, 1, e.n, n)
        BY <1>2, <1>4, <1>5, <2>2 DEF n
    <2>3. ASSUME cut # <<>>
          PROVE  n > e.n /\ NoneFor(l2, 1, e.n, n - 1) /\ n \in DOMAIN l2 /\ l2[n] = Entry(0, Padded(cut))
        <3>1. n = Len(l) + 1 /\ n - 1 = Len(l) /\ l2 = Append(l, Entry(0, Padded(cut)))
            BY <1>2, <1>4, <2>3
        <3>2. NoneFor(Append(l, Entry(0, Padded(cut))), 1, e.n, Len(l))
            BY <1>2, <1>3, <1>5, NoneForLonger
        <3>3. NoneFor(l2, 1, e.n, n - 1)
            BY <3>1, <3>2
        <3>4. n > e.n
            BY <1>2, <1>5, <3>1
        <3> QED BY <1>4, <2>3, <3>3, <3>4
    <2> QED BY <1>4, <1>5, <2>1, <2>2, <2>3 DEF UnitFits
<1>7. NotBack(tag, cut, n)
    <2> SUFFICES ASSUME N > 1
                 PROVE  n >= Latest(tag, 2).n /\ (cut # <<>> /\ n >= 0 => n > Latest(tag, 2).n)
        BY DEF NotBack
    <2>1. 2 \in Device
        BY <1>2
    <2>2. Latest(tag, 2).n \in Int /\ Latest(tag, 2).n <= Len(l)
        BY <1>1, <2>1, LinkIs, TagFields DEF Sound
    <2> QED BY <1>2, <1>4, <2>2
<1>8. Sent(tag, d, l2, r)
    BY <1>1, <1>4 DEF Sent
<1>9. PICK new :
          /\ Sent(new, d, l2, r2) /\ CaughtUp(new, l2, r2) /\ r2[1] # <<>>
          /\ AllInStep(tag, tr, d, l2, dn) => AllInStep(new, tr, d, l2, dn)
          /\ ComesBehind(tag, new, n, n)
    <2>1. n \in Nat \cup {-1} /\ UnitFits(l2, Latest(tag, 1), cut, n, n)
        BY <1>4, <1>6 DEF e
    <2>2. \E new : SyncSent(tag, d, l2, tr, dn, n, n, r2, new)
        BY <1>4, <1>7, <1>8, <2>1, SyncPut
    <2> QED BY <2>2 DEF SyncSent
<1>10. Streams(new, l2, r2) /\ Tied(new, d) /\ Counts(new, d) /\ MasterWaits(new, d)
    BY <1>9 DEF Sent
<1>11. /\ \A i \in Device : Taken(new, i) = Taken(tag, i)
       /\ \A i \in Device : i # 1 => new[i] = tag[i] /\ Latest(new, i) = Latest(tag, i)
       /\ Len(new[1]) \in Nat /\ Len(new[1]) >= 2
       /\ Latest(new, 1).role = "addr" /\ Latest(new, 1).n = n
    BY <1>9 DEF ComesBehind
<1>12. Sender(new, -1)
    BY <1>11 DEF Sender, Boundary
<1>13. Numbered(new, tr, l2)
    <2>1. Latest(new, 1).n >= 0
        BY <1>4, <1>11
    <2>2. ASSUME NEW i \in Device, NEW m \in DOMAIN l2, m > Latest(new, i).n
          PROVE  l2[m].from # i - 1
        <3>1. m \in 1 .. n
            BY <1>4, LenProperties DEF n
        <3>2. CASE i = 1
            BY <1>4, <1>11, <2>2, <3>1, <3>2
        <3>3. CASE i # 1 /\ m \in DOMAIN l /\ l2[m] = l[m]
            BY <1>1, <1>11, <2>2, <3>3 DEF Numbered
        <3>4. CASE i # 1 /\ l2[m].from = 0
            BY <1>2, <3>4
        <3> QED BY <1>4, <3>2, <3>3, <3>4
    <2> QED BY <1>1, <2>1, <2>2 DEF Numbered
<1>14. OneSync(new, tr, d, r2)
    <2> SUFFICES ASSUME NEW i \in Device, NEW k \in 1 .. Len(new[i]), new[i][k].role = "esc"
                 PROVE  new[i][k].n >= 0
        BY <1>1 DEF OneSync
    <2>1. CASE i # 1
        BY <1>1, <1>11, <2>1 DEF OneSync, tr
    <2>2. CASE i = 1
        <3>1. \/ k \in 1 .. Len(tag[1]) /\ new[1][k] = tag[1][k]
              \/ new[1][k].n = n
            BY <1>9, <2>2 DEF ComesBehind
        <3> QED BY <1>1, <1>4, <2>2, <3>1 DEF OneSync, tr
    <2> QED BY <2>1, <2>2
<1>15. Reached(new, tr, d)
    BY <1>1, <1>11 DEF Reached
<1>16. Meaning(new, d, r2, tr, -1, l2, dn)
    BY <1>4, <1>9, <1>10, <1>12, <1>13, <1>14, <1>15 DEF Meaning
<1> QED BY <1>16 DEF tr

LEMMA SendSyncMeans ==
    ASSUME Types, NoHistory(trust, log, done), trust # "lost", NEW cut \in Cuts, SendSync(cut),
           trust' # "lost", NEW tag, Meaning(tag, dev, rx, trust, lastSent, log, done)
    PROVE  \E t : Meaning(t, dev', rx', trust', lastSent', log', done')
<1> DEFINE q == cut \o Resync(FIRST)
<1>1. /\ rx \in [Device -> Seq(Bytes)] /\ log \in Seq(Entries) /\ trust \in TrustLevels /\ 1 \in Device
    BY Sizes DEF Types
<1>2. NoOpenEscRun(cut) /\ trust' \in {"armed", "settled"} /\ dev' = dev /\ lastSent' = -1 /\ done' = done
      /\ (trust' = "armed" => log' = <<>>)
      /\ (trust' = "settled" => /\ trust = "settled" /\ AllSynced
                                /\ log' = IF cut = <<>> THEN log ELSE Append(log, Entry(0, Padded(cut))))
    BY <1>1 DEF SendSync, KeepHistory
<1>3. Joined(cut, Resync(FIRST), q) /\ Grown(1, rx, q, rx')
    <2>1. cut \in Seq(Bytes) /\ Resync(FIRST) \in Seq(Bytes)
        BY CutIs, ResyncIs, Sizes
    <2>2. rx[1] \o cut \o Resync(FIRST) = rx[1] \o q
        BY <1>1, <2>1, ConcatAssociative
    <2>3. rx' = [rx EXCEPT ![1] = rx[1] \o q]
        BY <1>1, <2>2 DEF SendSync
    <2> QED BY <1>1, <2>3 DEF Joined, Grown
<1> HIDE DEF q
<1>4. PICK t : /\ Meaning(t, dev, rx, trust, lastSent, log, done)
               /\ cut = <<>> => Closed(Latest(t, 1))
    BY <1>2, SyncBase
<1>5. cut # <<>> => cut[Len(cut)] # ESC
    BY <1>2 DEF NoOpenEscRun
<1>6. CASE trust' = "armed"
    <2>1. PICK u : /\ Meaning(u, dev, rx, "pure", lastSent, <<>>, done)
                   /\ Closed(Latest(t, 1)) => Closed(Latest(u, 1))
        BY <1>1, <1>4, RenumberedMeans
    <2>2. \E v : Meaning(v, dev, rx', "armed", -1, <<>>, done)
        BY <1>1, <1>3, <1>4, <1>5, <2>1, ArmingMeans
    <2> QED BY <1>2, <1>6, <2>2
<1>7. CASE trust' = "settled"
    <2>1. \E v : Meaning(v, dev, rx', "settled", -1, log', done)
        <3>1. \A i \in Device : dev[i].synced
            BY <1>2, <1>7 DEF AllSynced
        <3>2. trust = "settled" /\ log' = IF cut = <<>> THEN log ELSE Append(log, Entry(0, Padded(cut)))
            BY <1>2, <1>7
        <3>3. Meaning(t, dev, rx, "settled", lastSent, log, done)
            BY <1>4, <3>2
        <3> QED BY <1>1, <1>3, <1>4, <1>5, <3>1, <3>2, <3>3, SettledSyncMeans
    <2> QED BY <1>2, <1>7, <2>1
<1> QED BY <1>2, <1>6, <1>7

-----------------------------------------------------------------------------
(* A master sends: bytes of its own on link 2, when link 1 is empty *)

\* Only the master thread of device 1 moves.
ThreadOnly(d, d2) ==
    \A i \in Device :
        /\ d2[i].address = d[i].address /\ d2[i].sync = d[i].sync /\ d2[i].synced = d[i].synced
        /\ d2[i].buf = d[i].buf /\ (i # 1 => d2[i] = d[i])
\* What holds before.
OwnBase(tag, d, l, r, tr, dn) ==
    /\ Streams(tag, l, r) /\ \A i \in Device : 1 < i /\ i < N => Taken(tag, i) = Latest(tag, i + 1)
    /\ Counts(tag, d) /\ MasterWaits(tag, d) /\ Caught(tag, l, r, 1) /\ AllInStep(tag, tr, d, l, dn)
\* The tags s of the bytes q fit behind what device 1 passed on.
OwnFits(tag, d2, l, s, q) ==
    N > 1 =>
        /\ Fragment(l, 2, Latest(tag, 2), s, q)
        /\ Boundary(s[Len(s)]) /\ Taken(tag, 1).n <= s[Len(s)].n
        /\ s[Len(s)].n >= 0 => Taken(tag, 1).n >= 0
        /\ Closed(s[Len(s)]) \/ Talking(d2[1])
\* new is the meaning tag with s on link 2.
OwnSent(tag, d2, l, tr, dn, s, r2, new) ==
    /\ Streams(new, l, r2) /\ Tied(new, d2) /\ Counts(new, d2) /\ MasterWaits(new, d2)
    /\ CaughtUp(new, l, r2) /\ AllInStep(new, tr, d2, l, dn)
    /\ \A i \in Device : Taken(new, i) = Taken(tag, i)
    /\ \A i \in Device : i # 2 => new[i] = tag[i] /\ Latest(new, i) = Latest(tag, i)
    /\ N > 1 =>
          /\ r2[2] # <<>> /\ Latest(new, 2) = s[Len(s)] /\ Len(new[2]) \in Nat /\ Len(new[2]) >= 2
          /\ \A k \in 1 .. Len(new[2]) :
                \/ k \in 1 .. Len(tag[2]) /\ new[2][k] = tag[2][k]
                \/ \E j \in 1 .. Len(s) : new[2][k] = s[j]
          /\ \A k \in 2 .. Len(tag[2]) : k \in 2 .. Len(new[2]) /\ new[2][k] = tag[2][k]

LEMMA OwnPut ==
    ASSUME NEW l \in Seq(Entries), NEW tag, NEW r \in [Device -> Seq(Bytes)], NEW d, NEW tr, NEW dn,
           OwnBase(tag, d, l, r, tr, dn), r[1] = <<>>, NEW d2, ThreadOnly(d, d2),
           NEW s, NEW q \in Seq(Bytes), OwnFits(tag, d2, l, s, q),
           NEW r2, Grown(2, r, q, r2)
    PROVE  \E new : OwnSent(tag, d2, l, tr, dn, s, r2, new)
<1>1. /\ Streams(tag, l, r) /\ Counts(tag, d) /\ MasterWaits(tag, d) /\ Caught(tag, l, r, 1)
      /\ AllInStep(tag, tr, d, l, dn)
      /\ \A i \in Device : 1 < i /\ i < N => Taken(tag, i) = Latest(tag, i + 1)
    BY DEF OwnBase
<1>2. 1 \in Device /\ Device = 1 .. N /\ N \in Nat /\ N >= 1
    BY Sizes
<1>3. Boundary(Taken(tag, 1))
    <2>1. \A j \in 1 .. 1 : r[j] = <<>>
        OBVIOUS
    <2> QED BY <1>1, <2>1 DEF Caught
<1>4. Counts(tag, d2) /\ MasterWaits(tag, d2) /\ AllInStep(tag, tr, d2, l, dn)
    <2>1. Counts(tag, d2)
        BY <1>1 DEF Counts, ThreadOnly
    <2>2. MasterWaits(tag, d2)
        BY <1>1, <1>3 DEF MasterWaits, ThreadOnly
    <2>3. AllInStep(tag, tr, d2, l, dn)
        BY <1>1 DEF AllInStep, InStep, ThreadOnly
    <2> QED BY <2>1, <2>2, <2>3
<1>5. CASE N = 1
    <2>1. Streams(tag, l, r2) /\ CaughtUp(tag, l, r2)
        <3>1. \A i \in Device : r2[i] = r[i]
            BY <1>2, <1>5 DEF Grown
        <3>2. Streams(tag, l, r2)
            BY <1>1, <3>1 DEF Streams
        <3>3. CaughtUp(tag, l, r2)
            <4>1. r2[1] = r[1]
                BY <1>2, <3>1
            <4>2. Caught(tag, l, r2, 1)
                BY <1>1, <4>1 DEF Caught
            <4>3. \A i \in Device : i = 1
                BY <1>2, <1>5
            <4> QED BY <4>2, <4>3 DEF CaughtUp
        <3> QED BY <3>2, <3>3
    <2>2. Tied(tag, d2)
        BY <1>2, <1>5 DEF Tied
    <2>3. OwnSent(tag, d2, l, tr, dn, s, r2, tag)
        BY <1>4, <1>5, <2>1, <2>2 DEF OwnSent
    <2> QED BY <2>3
<1>6. CASE N > 1
    <2> DEFINE new == [i \in Device |-> IF i = 2 THEN tag[i] \o s ELSE tag[i]]
               last == s[Len(s)]
    <2>1. 2 \in Device
        BY <1>2, <1>6
    <2>2. Grown(2, tag, s, new)
        BY DEF Grown, Joined
    <2> HIDE DEF new
    <2>3. /\ Fragment(l, 2, Latest(tag, 2), s, q) /\ Boundary(last) /\ Taken(tag, 1).n <= last.n
          /\ last.n >= 0 => Taken(tag, 1).n >= 0
          /\ Closed(last) \/ Talking(d2[1])
        BY <1>6 DEF OwnFits
    <2>4. Streams(new, l, r2) /\ r2[2] # <<>> /\ Extends(tag, 2, s, new)
        BY <1>1, <2>1, <2>2, <2>3, Put
    <2> HIDE DEF last
    <2>5. /\ \A i \in Device : Taken(new, i) = Taken(tag, i)
          /\ \A i \in Device : i # 2 => new[i] = tag[i] /\ Latest(new, i) = Latest(tag, i)
          /\ Latest(new, 2) = last /\ Len(new[2]) = Len(tag[2]) + Len(s)
          /\ Len(s) \in Nat /\ Len(s) >= 1
        BY <2>4 DEF Extends, last
    <2>6. Len(tag[2]) \in Nat /\ Len(tag[2]) >= 1
        BY <1>1, <2>1, LinkIs
    <2>7. Tied(new, d2)
        <3> SUFFICES ASSUME NEW i \in Device, i < N
                     PROVE  Taken(new, i) = Latest(new, i + 1) \/ (i = 1 /\ OwnBytes(new, d2))
            BY DEF Tied
        <3>1. CASE i # 1
            <4>1. i + 1 \in Device /\ i + 1 # 2 /\ 1 < i
                BY <1>2, <3>1
            <4> QED BY <1>1, <2>5, <4>1
        <3>2. CASE i = 1
            <4>1. Len(new[1]) = 1
                <5>1. new[1] = tag[1]
                    BY <1>2, <2>5
                <5>2. \A j \in Device : r[j] = <<>> => Len(tag[j]) = 1
                    BY <1>1, LinkIs
                <5> QED BY <1>2, <5>1, <5>2
            <4>2. ~(Len(new[1]) > 1)
                BY <4>1
            <4>3. Taken(new, 1) = Taken(tag, 1) /\ Latest(new, 2) = last
                BY <1>2, <2>5
            <4> QED BY <1>3, <2>3, <3>2, <4>2, <4>3 DEF OwnBytes
        <3> QED BY <3>1, <3>2
    <2>8. Counts(new, d2) /\ MasterWaits(new, d2) /\ AllInStep(new, tr, d2, l, dn)
        BY <1>4, <2>5 DEF Counts, MasterWaits, AllInStep
    <2>9. CaughtUp(new, l, r2)
        <3> SUFFICES ASSUME NEW i \in Device
                     PROVE  Caught(new, l, r2, i)
            BY DEF CaughtUp
        <3>1. CASE i = 1
            <4>1. \A j \in 1 .. 1 : r[j] = <<>>
                OBVIOUS
            <4>2. NoneFor(l, 1, Taken(tag, 1).n, Len(l))
                BY <1>1, <4>1 DEF Caught
            <4> QED BY <1>2, <1>3, <2>5, <3>1, <4>2 DEF Caught
        <3>2. CASE i # 1
            <4>1. 2 \in 1 .. i
                BY <1>2, <3>2
            <4> QED BY <2>4, <4>1 DEF Caught
        <3> QED BY <3>1, <3>2
    <2>10. ASSUME NEW k \in 1 .. Len(new[2])
           PROVE  \/ k \in 1 .. Len(tag[2]) /\ new[2][k] = tag[2][k]
                  \/ \E j \in 1 .. Len(s) : new[2][k] = s[j]
        <3>1. CASE k <= Len(tag[2])
            <4>1. k \in 1 .. Len(tag[2])
                BY <2>6, <3>1
            <4> QED BY <2>4, <4>1 DEF Extends
        <3>2. CASE k > Len(tag[2])
            <4> DEFINE j == k - Len(tag[2])
            <4>1. k \in 1 .. Len(tag[2]) + Len(s)
                BY <2>5
            <4>2. j \in 1 .. Len(s) /\ Len(tag[2]) + j = k
                BY <2>5, <2>6, <3>2, <4>1
            <4> HIDE DEF j
            <4>3. new[2][Len(tag[2]) + j] = s[j]
                BY <2>4, <4>2 DEF Extends
            <4>4. new[2][k] = s[j]
                BY <4>2, <4>3
            <4> QED BY <4>2, <4>4
        <3> QED BY <2>6, <3>1, <3>2
    <2>11. Len(new[2]) \in Nat /\ Len(new[2]) >= 2
        BY <2>5, <2>6
    <2>12. ASSUME NEW k \in 2 .. Len(tag[2])
           PROVE  k \in 2 .. Len(new[2]) /\ new[2][k] = tag[2][k]
        <3>1. k \in 1 .. Len(tag[2]) /\ k \in 2 .. Len(new[2])
            BY <2>5, <2>6
        <3> QED BY <2>4, <3>1 DEF Extends
    <2>13. OwnSent(tag, d2, l, tr, dn, s, r2, new)
        BY <2>4, <2>5, <2>7, <2>8, <2>9, <2>10, <2>11, <2>12 DEF OwnSent, last
    <2> QED BY <2>13
<1> QED BY <1>2, <1>5, <1>6

\* The tags of the sync a master sends.
LEMMA OwnSync ==
    ASSUME NEW l \in Seq(Entries), NEW e, 2 \in Device, Boundary(e), Closed(e),
           NEW n \in Nat \cup {-1}, NEW an \in Nat \cup {-1}, n <= Len(l), an <= Len(l),
           IF n = -1 THEN an \in {-1, 0} ELSE an = n, e.n = -1 => n = -1,
           e.n >= 0 => n >= e.n /\ NoneFor(l, 2, e.n, n)
    PROVE  \E s : /\ Fragment(l, 2, e, s, Resync(Position(2))) /\ SyncRun(s, 0, n, an)
<1>1. 0 \in 0 .. MSG_LEN - 1
    BY Sizes
<1>2. SyncFits(l, 2, e, 0, n, an)
    BY DEF SyncFits
<1>3. Fragment(l, 2, e, SyncTags(0, n, an), Resync(Position(2)))
    BY <1>1, <1>2, SyncFragment
<1>4. SyncRun(SyncTags(0, n, an), 0, n, an)
    BY <1>1, SyncTagsAre
<1> QED BY <1>3, <1>4

LEMMA MasterIs ==
    ASSUME Types, Modest(dev), NEW i \in Device, dev[i].master
    PROVE  /\ i = 1 /\ 1 \in Jumpered /\ dev[1].synced = FALSE
           /\ N > 1 => Position(2) = MASTER_FIRST /\ 2 \in Device /\ 2 \notin Jumpered
           /\ MASTER_FIRST \in Bytes
<1>1. i \in Jumpered /\ dev[i].synced = FALSE
    BY DEF Modest, Types, DeviceState
<1>2. i = 1 /\ FIRST + 1 = MASTER_FIRST /\ 2 \notin Jumpered
    BY <1>1, BusAssumption
<1>3. MASTER_FIRST \in Bytes
    BY Sizes DEF MASTER_FIRST
<1>4. ASSUME N > 1
      PROVE  2 \in Device /\ Position(2) = MASTER_FIRST
    <2>1. 2 \in Device
        BY <1>4, Sizes
    <2>2. FIRST + 2 - 1 < BYTE /\ FIRST + 2 - 1 = MASTER_FIRST
        BY <1>2, Sizes DEF MASTER_FIRST
    <2> QED BY <2>1, <2>2, PositionIs
<1> QED BY <1>1, <1>2, <1>3, <1>4

\* The sync of a master on a bus of which nothing is known but that it is quiet.
Primed(i) == Tag("start", 0, 0, 0, IF i = 1 THEN 0 ELSE -1)

LEMMA PrimedIs ==
    ASSUME NEW i \in Device, NEW l, Len(l) = 0
    PROVE  /\ Primed(i) \in Tags /\ Primed(i).role = "start" /\ Primed(i).n = IF i = 1 THEN 0 ELSE -1
           /\ Boundary(Primed(i)) /\ Closed(Primed(i)) /\ Sound(l, i, Primed(i))
<1>1. "start" \in Roles /\ 0 \in Nat /\ 0 \in Bytes /\ 0 \in 0 .. MSG_LEN - 1
      /\ (IF i = 1 THEN 0 ELSE -1) \in Nat \cup {-1}
    BY Sizes DEF Roles
<1>2. Primed(i) \in Tags /\ Primed(i).role = "start" /\ Primed(i).n = IF i = 1 THEN 0 ELSE -1
    BY <1>1, TagIs DEF Primed
<1> QED BY <1>2 DEF Boundary, Closed, Sound

LEMMA FirstBurstMeans ==
    ASSUME NEW d, NEW r \in [Device -> Seq(Bytes)], NEW ls, NEW dn,
           \A i \in Device : r[i] = <<>> /\ d[i].sync = 0,
           d[1].synced = FALSE, 1 \in Jumpered,
           NEW d2, ThreadOnly(d, d2), Talking(d2[1]),
           NEW q \in Seq(Bytes), N > 1 => q = Resync(Position(2)), NEW r2, Grown(2, r, q, r2)
    PROVE  \E t : Meaning(t, d2, r2, "armed", ls, <<>>, dn)
<1> DEFINE l == <<>>
           tag == [i \in Device |-> <<Primed(i)>>]
           tr == "armed"
<1>1. 1 \in Device /\ Device = 1 .. N /\ N \in Nat /\ N >= 1
    BY Sizes
<1>2. l \in Seq(Entries) /\ Len(l) = 0
    BY EmptySeq
<1>3. IsLive(tr) /\ tr # "pure" /\ tr # "settled" /\ DOMAIN l = {}
    BY DEF IsLive
<1> HIDE DEF l, tr
<1>4. ASSUME NEW i \in Device
      PROVE  /\ Primed(i) \in Tags /\ Primed(i).role = "start" /\ Primed(i).n = IF i = 1 THEN 0 ELSE -1
             /\ Boundary(Primed(i)) /\ Closed(Primed(i)) /\ Sound(l, i, Primed(i))
    BY <1>2, PrimedIs
<1>5. ASSUME NEW i \in Device
      PROVE  /\ tag[i] \in Seq(Tags) /\ Len(tag[i]) = 1 /\ tag[i][1] = Primed(i)
             /\ Taken(tag, i) = Primed(i) /\ Latest(tag, i) = Primed(i)
    BY <1>4 DEF Taken, Latest
<1> HIDE DEF tag
<1>6. OwnBase(tag, d, l, r, tr, dn)
    <2>1. Streams(tag, l, r)
        <3> SUFFICES ASSUME NEW i \in Device
                     PROVE  Stream(l, i, tag[i], r[i])
            BY DEF Streams
        <3>1. r[i] = <<>> /\ Len(r[i]) = 0
            OBVIOUS
        <3>2. tag[i] \in Seq(Tags) /\ Len(tag[i]) = 1 /\ tag[i][1] = Primed(i) /\ Sound(l, i, Primed(i))
            BY <1>4, <1>5
        <3> QED BY <3>1, <3>2 DEF Stream
    <2>2. ASSUME NEW i \in Device, 1 < i, i < N
          PROVE  Taken(tag, i) = Latest(tag, i + 1)
        <3>1. i + 1 \in Device /\ i # 1 /\ i + 1 # 1
            BY <1>1, <2>2
        <3> QED BY <1>5, <3>1 DEF Primed
    <2>3. Counts(tag, d) /\ MasterWaits(tag, d)
        BY <1>4, <1>5 DEF Counts, Counted, MasterWaits
    <2>4. CaughtUp(tag, l, r)
        BY <1>3, <1>4, <1>5 DEF CaughtUp, Caught, NoneFor
    <2>5. AllInStep(tag, tr, d, l, dn)
        <3> SUFFICES ASSUME NEW i \in Device, d[i].synced, Taken(tag, i).n >= 0
                     PROVE  FALSE
            BY DEF AllInStep
        <3> QED BY <1>4, <1>5
    <2> QED BY <1>1, <2>1, <2>2, <2>3, <2>4, <2>5 DEF OwnBase, CaughtUp
<1>7. PICK s : OwnFits(tag, d2, l, s, q) /\ (N > 1 => SyncRun(s, 0, -1, 0))
    <2>1. CASE N > 1
        <3> DEFINE e == Latest(tag, 2)
                   n == -1
                   an == 0
        <3>1. 2 \in Device /\ 2 # 1
            BY <1>1, <2>1
        <3>2. Boundary(e) /\ Closed(e) /\ e.n = -1
            BY <1>4, <1>5, <3>1
        <3>3. /\ n \in Nat \cup {-1} /\ an \in Nat \cup {-1} /\ n <= Len(l) /\ an <= Len(l)
              /\ (IF n = -1 THEN an \in {-1, 0} ELSE an = n) /\ (e.n = -1 => n = -1)
              /\ e.n >= 0 => n >= e.n /\ NoneFor(l, 2, e.n, n)
            BY <1>2, <3>2
        <3> HIDE DEF e, n, an
        <3>4. PICK s : Fragment(l, 2, e, s, Resync(Position(2))) /\ SyncRun(s, 0, n, an)
            BY <1>2, <3>1, <3>2, <3>3, OwnSync
        <3>5. Fragment(l, 2, Latest(tag, 2), s, q) /\ SyncRun(s, 0, -1, 0)
            BY <2>1, <3>4 DEF e, n, an
        <3>6. s[Len(s)].role = "addr" /\ s[Len(s)].n = 0
            BY <3>5 DEF SyncRun
        <3>7. Taken(tag, 1).n = 0 /\ Boundary(s[Len(s)])
            BY <1>1, <1>4, <1>5, <3>6 DEF Boundary
        <3>8. OwnFits(tag, d2, l, s, q)
            BY <3>5, <3>6, <3>7 DEF OwnFits
        <3> QED BY <3>5, <3>8
    <2>2. CASE ~(N > 1)
        BY <2>2 DEF OwnFits
    <2> QED BY <2>1, <2>2
<1>8. PICK new : OwnSent(tag, d2, l, tr, dn, s, r2, new)
    <2>1. r[1] = <<>>
        BY <1>1
    <2> QED BY <1>2, <1>6, <1>7, <2>1, OwnPut
<1>9. /\ Streams(new, l, r2) /\ Tied(new, d2) /\ Counts(new, d2) /\ MasterWaits(new, d2)
      /\ CaughtUp(new, l, r2) /\ AllInStep(new, tr, d2, l, dn)
      /\ \A i \in Device : Taken(new, i) = Taken(tag, i)
      /\ \A i \in Device : i # 2 => new[i] = tag[i] /\ Latest(new, i) = Latest(tag, i)
    BY <1>8 DEF OwnSent
<1>10. Taken(new, 1).n = 0 /\ Latest(new, 1).role = "start" /\ Latest(new, 1).n = 0 /\ Boundary(Latest(new, 1))
    BY <1>1, <1>4, <1>5, <1>9
<1>11. Sender(new, ls)
    BY <1>10 DEF Sender
<1>12. Numbered(new, tr, l)
    BY <1>3, <1>10 DEF Numbered
<1>13. OneSync(new, tr, d2, r2)
    <2>1. ASSUME NEW i \in Device, NEW k \in 1 .. Len(new[i]), new[i][k].role = "esc"
          PROVE  new[i][k].n = -1
        <3>1. ASSUME NEW j \in Device, NEW m \in 1 .. Len(tag[j])
              PROVE  tag[j][m].role # "esc"
            <4>1. Len(tag[j]) = 1
                BY <1>5
            <4>2. m = 1
                BY <4>1
            <4> QED BY <1>4, <1>5, <4>2
        <3>2. CASE i # 2
            BY <1>9, <2>1, <3>1, <3>2
        <3>3. CASE i = 2
            <4>1. N > 1
                BY <1>1, <3>3
            <4>2. \/ k \in 1 .. Len(tag[2]) /\ new[2][k] = tag[2][k]
                  \/ \E j \in 1 .. Len(s) : new[2][k] = s[j]
                BY <1>8, <2>1, <3>3, <4>1 DEF OwnSent
            <4>3. PICK j \in 1 .. Len(s) : new[2][k] = s[j]
                BY <2>1, <3>1, <3>3, <4>2
            <4>4. j \in 1 .. SYNC_LEN \/ j = SYNC_LEN + 1
                BY <1>7, <4>1, Sizes DEF SyncRun
            <4> QED BY <1>7, <2>1, <3>3, <4>1, <4>3, <4>4 DEF SyncRun
        <3> QED BY <3>2, <3>3
    <2>2. N > 1 => \E i \in Device : r2[i] # <<>>
        <3>1. N > 1 => 2 \in Device /\ r2[2] # <<>>
            BY <1>1, <1>8 DEF OwnSent
        <3> QED BY <3>1
    <2> QED BY <1>3, <2>1, <2>2 DEF OneSync
<1>14. Reached(new, tr, d2)
    <2> SUFFICES ASSUME NEW i \in Device
                 PROVE  \/ Taken(new, i).n >= 0 /\ (d2[i].synced \/ i \in Jumpered)
                        \/ tr = "armed" /\ UnderWay(new, i)
        BY DEF Reached
    <2>1. CASE i = 1
        BY <1>10, <2>1
    <2>2. CASE i # 1
        <3>1. 2 \in 1 .. i /\ N > 1
            BY <1>1, <2>2
        <3>2. Latest(new, 2) = s[Len(s)] /\ Len(new[2]) \in 2 .. Len(new[2])
            BY <1>8, <3>1 DEF OwnSent
        <3>3. s[Len(s)].role = "addr" /\ s[Len(s)].n = 0
            BY <1>7, <3>1 DEF SyncRun
        <3>4. UnderWay(new, i)
            BY <3>1, <3>2, <3>3 DEF UnderWay, Latest
        <3> QED BY <3>4 DEF tr
    <2> QED BY <2>1, <2>2
<1>15. Meaning(new, d2, r2, tr, ls, l, dn)
    BY <1>9, <1>11, <1>12, <1>13, <1>14 DEF Meaning
<1> QED BY <1>15 DEF tr, l

\* And on a live bus.
LEMMA LiveBurstMeans ==
    ASSUME NEW l \in Seq(Entries), NEW d, NEW r \in [Device -> Seq(Bytes)], NEW tr, NEW ls, NEW dn,
           IsLive(tr), NEW tag, Meaning(tag, d, r, tr, ls, l, dn),
           \A i \in Device : r[i] = <<>>, \A i \in Device : Latest(tag, i).role = "start",
           N > 1 => 2 \notin Jumpered,
           NEW d2, ThreadOnly(d, d2), Talking(d2[1]),
           NEW q \in Seq(Bytes), N > 1 => q = Resync(Position(2)), NEW r2, Grown(2, r, q, r2)
    PROVE  \E t : Meaning(t, d2, r2, tr, ls, l, dn)
<1> DEFINE n == Len(l)
<1>1. 1 \in Device /\ Device = 1 .. N /\ N \in Nat /\ N >= 1 /\ n \in Nat
    BY Sizes, LenProperties
<1>2. /\ Streams(tag, l, r) /\ Tied(tag, d) /\ Counts(tag, d) /\ Sender(tag, ls)
      /\ MasterWaits(tag, d) /\ CaughtUp(tag, l, r) /\ Numbered(tag, tr, l) /\ OneSync(tag, tr, d, r)
      /\ AllInStep(tag, tr, d, l, dn) /\ Reached(tag, tr, d)
    BY DEF Meaning
<1>3. OwnBase(tag, d, l, r, tr, dn)
    <2>1. ASSUME NEW i \in Device, 1 < i, i < N
          PROVE  Taken(tag, i) = Latest(tag, i + 1)
        BY <1>2, <2>1 DEF Tied
    <2> QED BY <1>1, <1>2, <2>1 DEF OwnBase, CaughtUp
<1>4. N > 1 => tr = "settled"
    BY <1>2 DEF OneSync, IsLive
<1>5. ASSUME N > 1, NEW i \in Device
      PROVE  Taken(tag, i).n >= 0 /\ (d[i].synced \/ i \in Jumpered)
    BY <1>2, <1>4, <1>5 DEF Reached
<1> HIDE DEF n
<1>6. PICK s : OwnFits(tag, d2, l, s, q) /\ (N > 1 => SyncRun(s, 0, n, n))
    <2>1. CASE N > 1
        <3> DEFINE e == Latest(tag, 2)
        <3>1. 2 \in Device /\ \A j \in 1 .. 2 : j \in Device
            BY <1>1, <2>1
        <3>2. e = Taken(tag, 2) /\ e \in Tags /\ Sound(l, 2, e)
            BY <1>2, <3>1, LinkIs
        <3>3. e.n >= 0 /\ e.n \in Int /\ e.n <= n /\ Boundary(e) /\ Closed(e)
            BY <1>5, <2>1, <3>1, <3>2, TagFields DEF Sound, Boundary, Closed, n
        <3>4. NoneFor(l, 2, e.n, n)
            BY <1>2, <3>1, <3>2 DEF CaughtUp, Caught, n
        <3>5. /\ n \in Nat \cup {-1} /\ n <= Len(l) /\ (IF n = -1 THEN n \in {-1, 0} ELSE n = n)
              /\ (e.n = -1 => n = -1) /\ (e.n >= 0 => n >= e.n /\ NoneFor(l, 2, e.n, n))
            BY <1>1, <3>3, <3>4 DEF n
        <3> HIDE DEF e
        <3>6. PICK s : Fragment(l, 2, e, s, Resync(Position(2))) /\ SyncRun(s, 0, n, n)
            BY <3>1, <3>3, <3>5, OwnSync
        <3>7. s[Len(s)].role = "addr" /\ s[Len(s)].n = n
            BY <3>6 DEF SyncRun
        <3>8. Taken(tag, 1).n \in Int /\ Taken(tag, 1).n <= n /\ Taken(tag, 1).n >= 0
            <4>1. Taken(tag, 1) \in Tags /\ Sound(l, 1, Taken(tag, 1))
                BY <1>1, <1>2, LinkIs
            <4> QED BY <1>1, <1>5, <2>1, <4>1, TagFields DEF Sound, n
        <3>9. OwnFits(tag, d2, l, s, q)
            BY <2>1, <3>6, <3>7, <3>8 DEF OwnFits, Boundary, e
        <3> QED BY <3>6, <3>9
    <2>2. CASE ~(N > 1)
        BY <2>2 DEF OwnFits
    <2> QED BY <2>1, <2>2
<1>7. PICK new : OwnSent(tag, d2, l, tr, dn, s, r2, new)
    <2>1. r[1] = <<>>
        BY <1>1
    <2> QED BY <1>3, <1>6, <2>1, OwnPut
<1>8. /\ Streams(new, l, r2) /\ Tied(new, d2) /\ Counts(new, d2) /\ MasterWaits(new, d2)
      /\ CaughtUp(new, l, r2) /\ AllInStep(new, tr, d2, l, dn)
      /\ \A i \in Device : Taken(new, i) = Taken(tag, i)
      /\ \A i \in Device : i # 2 => new[i] = tag[i] /\ Latest(new, i) = Latest(tag, i)
    BY <1>7 DEF OwnSent
<1>9. Latest(new, 1) = Latest(tag, 1) /\ new[1] = tag[1]
    BY <1>1, <1>8
<1>10. Sender(new, ls)
    BY <1>2, <1>9 DEF Sender
<1>11. Numbered(new, tr, l)
    <2>1. tr # "pure"
        BY DEF IsLive
    <2>2. ASSUME NEW i \in Device, NEW m \in DOMAIN l, m > Latest(new, i).n
          PROVE  l[m].from # i - 1
        <3>1. CASE i # 2
            BY <1>2, <1>8, <2>2, <3>1 DEF Numbered
        <3>2. CASE i = 2
            <4>1. N > 1
                BY <1>1, <3>2
            <4>2. Latest(new, 2).n = n
                BY <1>6, <1>7, <4>1 DEF OwnSent, SyncRun
            <4>3. m \in 1 .. n
                BY LenProperties DEF n
            <4> QED BY <1>1, <2>2, <3>2, <4>2, <4>3
        <3> QED BY <3>1, <3>2
    <2> QED BY <1>2, <1>9, <2>1, <2>2 DEF Numbered
<1>12. OneSync(new, tr, d2, r2)
    <2>1. CASE ~(N > 1)
        <3>1. \A i \in Device : new[i] = tag[i]
            BY <1>1, <1>8, <2>1
        <3>2. \A i \in Device : d2[i].synced = d[i].synced
            BY DEF ThreadOnly
        <3>3. N > 1 => \E i \in Device : r2[i] # <<>>
            BY <2>1
        <3>4. /\ tr = "armed" => \A i \in Device : \A k \in 1 .. Len(tag[i]) :
                                     tag[i][k].role = "esc" => tag[i][k].n = -1
              /\ tr = "settled" => \A i \in Device : \A k \in 1 .. Len(tag[i]) :
                                     tag[i][k].role = "esc" => tag[i][k].n >= 0 /\ d[i].synced
            BY <1>2 DEF OneSync
        <3> QED BY <3>1, <3>2, <3>3, <3>4 DEF OneSync
    <2>2. CASE N > 1
        <3>1. tr = "settled" /\ tr # "armed"
            BY <1>4, <2>2
        <3> SUFFICES ASSUME NEW i \in Device, NEW k \in 1 .. Len(new[i]), new[i][k].role = "esc"
                     PROVE  new[i][k].n >= 0 /\ d2[i].synced
            BY <3>1 DEF OneSync
        <3>2. ASSUME NEW m \in 1 .. Len(tag[i]), tag[i][m].role = "esc"
              PROVE  tag[i][m].n >= 0 /\ d2[i].synced
            BY <1>2, <3>1, <3>2 DEF OneSync, ThreadOnly
        <3>3. CASE i # 2
            BY <1>8, <3>2, <3>3
        <3>4. CASE i = 2
            <4>1. \/ k \in 1 .. Len(tag[2]) /\ new[2][k] = tag[2][k]
                  \/ \E j \in 1 .. Len(s) : new[2][k] = s[j]
                BY <1>7, <2>2, <3>4 DEF OwnSent
            <4>2. ASSUME NEW j \in 1 .. Len(s)
                  PROVE  s[j].n >= 0
                <5>1. j \in 1 .. SYNC_LEN \/ j = SYNC_LEN + 1
                    BY <1>6, <2>2, Sizes DEF SyncRun
                <5> QED BY <1>1, <1>6, <2>2, <5>1 DEF SyncRun
            <4>3. d2[2].synced
                BY <1>5, <2>2, <3>4 DEF ThreadOnly
            <4> QED BY <3>2, <3>4, <4>1, <4>2, <4>3
        <3> QED BY <3>3, <3>4
    <2> QED BY <2>1, <2>2
<1>13. Reached(new, tr, d2)
    <2>1. CASE ~(N > 1)
        <3>1. \A i \in Device : new[i] = tag[i] /\ \A j \in 1 .. i : j \in Device
            BY <1>1, <1>8, <2>1
        <3>2. \A i \in Device : UnderWay(tag, i) => UnderWay(new, i)
            BY <3>1 DEF UnderWay
        <3> QED BY <1>2, <1>8, <3>2 DEF Reached, ThreadOnly
    <2>2. CASE N > 1
        BY <1>5, <1>8, <2>2 DEF Reached, ThreadOnly
    <2> QED BY <2>1, <2>2
<1>14. Meaning(new, d2, r2, tr, ls, l, dn)
    BY <1>8, <1>10, <1>11, <1>12, <1>13 DEF Meaning
<1> QED BY <1>14

LEMMA BurstMeans ==
    ASSUME Types, Modest(dev), NoHistory(trust, log, done), NEW i \in Device, Bursts(i),
           lastSent' = lastSent, NEW tag, Meaning(tag, dev, rx, trust, lastSent, log, done)
    PROVE  \E t : Meaning(t, dev', rx', trust', lastSent', log', done')
<1> DEFINE q == Resync(MASTER_FIRST)
<1>1. /\ rx \in [Device -> Seq(Bytes)] /\ log \in Seq(Entries) /\ trust \in TrustLevels /\ 1 \in Device
      /\ dev \in [Device -> DeviceState]
    BY Sizes DEF Types
<1>2. /\ i = 1 /\ 1 \in Jumpered /\ dev[1].synced = FALSE
      /\ N > 1 => Position(2) = MASTER_FIRST /\ 2 \in Device /\ 2 \notin Jumpered
      /\ q \in Seq(Bytes)
    BY MasterIs, ResyncIs DEF Bursts
<1>3. \A j \in Device : rx[j] = <<>> /\ dev[j].sync = 0
    BY DEF Bursts, Quiet, Drained
<1>4. Grown(2, rx, q, rx')
    <2>1. \A j \in Device : rx'[j] = IF j = 1 /\ rx[1] # <<>> THEN Tail(rx[1])
                                    ELSE IF j = 2 THEN rx[j] \o q ELSE rx[j]
        BY <1>2 DEF Bursts, Passed
    <2> QED BY <1>1, <1>3, <2>1 DEF Grown, Joined
<1>5. ThreadOnly(dev, dev') /\ Talking(dev'[1])
    <2>1. dev' = [dev EXCEPT ![1] = [dev[1] EXCEPT !.thread = "packet"]] /\ dev[1].master
        BY <1>2 DEF Bursts
    <2>2. dev'[1] = [dev[1] EXCEPT !.thread = "packet"] /\ dev[1] \in DeviceState
          /\ \A j \in Device : j # 1 => dev'[j] = dev[j]
        BY <1>1, <2>1
    <2> QED BY <2>1, <2>2 DEF ThreadOnly, Talking, DeviceState
<1>6. N > 1 => q = Resync(Position(2))
    BY <1>2
<1> HIDE DEF q
<1>7. CASE trust = "pure"
    <2>1. log = <<>> /\ trust' = "armed" /\ log' = <<>> /\ done' = done
        BY <1>7 DEF Bursts, KeepHistory, NoHistory
    <2>2. \E t : Meaning(t, dev', rx', "armed", lastSent, <<>>, done)
        BY <1>1, <1>2, <1>3, <1>4, <1>5, <1>6, FirstBurstMeans
    <2> QED BY <2>1, <2>2
<1>8. CASE trust # "pure"
    <2>1. IsLive(trust) /\ trust' = trust /\ log' = log /\ done' = done
        BY <1>1, <1>8 DEF Bursts, KeepHistory, TrustLevels, IsLive
    <2>2. PICK t : Meaning(t, dev, rx, trust, lastSent, log, done) /\ AtRest(tag, t)
        BY <1>1, <1>3, Resting
    <2>3. \A j \in Device : Latest(t, j).role = "start"
        <3> TAKE j \in Device
        <3>1. t[j] = <<Rest(tag, j)>>
            BY <2>2 DEF AtRest
        <3>2. Latest(t, j) = Rest(tag, j)
            BY <3>1 DEF Latest
        <3>3. Streams(tag, log, rx)
            BY DEF Meaning
        <3> QED BY <1>1, <3>2, <3>3, RestIs
    <2>4. N > 1 => 2 \notin Jumpered
        BY <1>2
    <2>5. \E u : Meaning(u, dev', rx', trust, lastSent, log, done)
        BY <1>1, <1>2, <1>3, <1>4, <1>5, <1>6, <2>1, <2>2, <2>3, <2>4, LiveBurstMeans
    <2> QED BY <2>1, <2>5
<1> QED BY <1>7, <1>8

\* The packet of a master, behind its sync.
LEMMA StartMeans ==
    ASSUME Types, Modest(dev), NoHistory(trust, log, done), NEW i \in Device, Starts(i),
           lastSent' = lastSent, NEW tag, Meaning(tag, dev, rx, trust, lastSent, log, done)
    PROVE  \E t : Meaning(t, dev', rx', trust', lastSent', log', done')
<1> DEFINE x == Entry(1, START)
           n == IF IsLive(trust) THEN Len(log) + 1 ELSE -1
           e == Latest(tag, 2)
           s == PacketTags(START, n)
<1>1. /\ rx \in [Device -> Seq(Bytes)] /\ log \in Seq(Entries) /\ Len(log) \in Nat
      /\ trust \in TrustLevels /\ trust # "lost" /\ dev \in [Device -> DeviceState]
    BY LenProperties DEF Types, Starts
<1>2. /\ i = 1 /\ 1 \in Jumpered /\ dev[1].synced = FALSE /\ Talking(dev[1]) /\ rx[1] = <<>>
    BY MasterIs DEF Starts, Talking
<1>3. 1 \in Device /\ Device = 1 .. N /\ N \in Nat /\ N >= 1
    BY Sizes
<1>4. /\ START \in Packet /\ START \in Seq(Bytes) /\ Len(START) = MSG_LEN /\ MSG_LEN \in Nat /\ MSG_LEN >= 2
      /\ START[2] # ESC /\ START[MSG_LEN] # ESC
    BY PacketIs, BusAssumption
<1>5. x \in Entries /\ x.from = 1 /\ x.packet = START
    BY <1>3, <1>4 DEF Entry, Entries
<1>6. /\ Grown(2, rx, START, rx') /\ dev' = [dev EXCEPT ![1] = [dev[1] EXCEPT !.thread = "timer"]]
      /\ trust' = IF trust = "armed" /\ Drained' THEN "settled" ELSE trust
      /\ done' = done /\ log' = IF IsLive(trust) THEN Append(log, x) ELSE log
    <2>1. \A j \in Device : rx'[j] = IF j = 1 /\ rx[1] # <<>> THEN Tail(rx[1])
                                    ELSE IF j = 2 THEN rx[j] \o START ELSE rx[j]
        BY <1>2 DEF Starts, Passed
    <2>2. Grown(2, rx, START, rx')
        BY <1>2, <2>1 DEF Grown, Joined
    <2>3. /\ dev' = [dev EXCEPT ![1] = [dev[1] EXCEPT !.thread = "timer"]]
          /\ trust' = IF trust = "armed" /\ Drained' THEN "settled" ELSE trust
          /\ KeepHistory(Append(log, x), done)
        BY <1>2 DEF Starts
    <2>4. done' = done /\ log' = IF IsLive(trust) THEN Append(log, x) ELSE log
        BY <1>1, <2>3 DEF KeepHistory, TrustLevels, IsLive, NoHistory
    <2> QED BY <2>2, <2>3, <2>4
<1>7. ThreadOnly(dev, dev')
    <2>1. dev'[1] = [dev[1] EXCEPT !.thread = "timer"] /\ dev[1] \in DeviceState
          /\ \A j \in Device : j # 1 => dev'[j] = dev[j]
        BY <1>1, <1>3, <1>6
    <2> QED BY <2>1 DEF ThreadOnly, DeviceState
<1>8. /\ Streams(tag, log, rx) /\ Tied(tag, dev) /\ Counts(tag, dev) /\ Sender(tag, lastSent)
      /\ MasterWaits(tag, dev) /\ CaughtUp(tag, log, rx) /\ Numbered(tag, trust, log)
      /\ OneSync(tag, trust, dev, rx) /\ AllInStep(tag, trust, dev, log, done) /\ Reached(tag, trust, dev)
    BY DEF Meaning
<1>9. /\ log' \in Seq(Entries) /\ Streams(tag, log', rx) /\ AllInStep(tag, trust, dev, log', done)
      /\ n \in Nat \cup {-1} /\ n <= Len(log') /\ Len(log') \in Nat
      /\ IsLive(trust) => n = Len(log') /\ n \in DOMAIN log' /\ log'[n] = x /\ n = Len(log) + 1
      /\ \A m \in DOMAIN log' : (m \in DOMAIN log /\ log'[m] = log[m]) \/ (m = n /\ log'[m].from = 1)
    <2>1. CASE IsLive(trust)
        <3>1. log' = Append(log, x) /\ n = Len(log) + 1
            BY <1>6, <2>1
        <3> HIDE DEF x
        <3>2. Streams(tag, Append(log, x), rx) /\ AllInStep(tag, trust, dev, Append(log, x), done)
            BY <1>1, <1>5, <1>8, StreamsLonger, AllInStepLonger
        <3>3. /\ log' \in Seq(Entries) /\ Len(log') = Len(log) + 1 /\ DOMAIN log = 1 .. Len(log)
              /\ DOMAIN log' = 1 .. Len(log) + 1
              /\ (\A m \in DOMAIN log : log'[m] = log[m]) /\ log'[Len(log) + 1] = x
            BY <1>1, <1>5, <3>1, LongerLog
        <3>4. Streams(tag, log', rx) /\ AllInStep(tag, trust, dev, log', done)
            BY <3>1, <3>2
        <3> HIDE DEF n
        <3>5. log'[n] = x /\ n \in DOMAIN log' /\ n = Len(log')
            BY <1>1, <3>1, <3>3
        <3>6. ASSUME NEW m \in DOMAIN log'
              PROVE  (m \in DOMAIN log /\ log'[m] = log[m]) \/ (m = n /\ log'[m].from = 1)
            <4>1. m \in DOMAIN log \/ m = n
                BY <1>1, <3>1, <3>3
            <4> QED BY <1>5, <3>3, <3>5, <4>1
        <3>7. n \in Nat /\ n <= Len(log') /\ Len(log') \in Nat
            BY <1>1, <3>1, <3>3
        <3> QED BY <3>1, <3>3, <3>4, <3>5, <3>6, <3>7
    <2>2. CASE ~IsLive(trust)
        BY <1>1, <1>6, <1>8, <2>2
    <2> QED BY <2>1, <2>2
<1>10. ~IsLive(trust) => \A j \in Device : Taken(tag, j).n = -1 /\ Latest(tag, j).n = -1
    <2> SUFFICES ASSUME ~IsLive(trust), NEW j \in Device
                 PROVE  Taken(tag, j).n = -1 /\ Latest(tag, j).n = -1
        OBVIOUS
    <2>1. trust = "pure"
        BY <1>1 DEF TrustLevels, IsLive
    <2>2. Len(tag[j]) \in Nat /\ Len(tag[j]) >= 1
        BY <1>1, <1>8, LinkIs
    <2>3. 1 \in 1 .. Len(tag[j]) /\ Len(tag[j]) \in 1 .. Len(tag[j])
        BY <2>2
    <2> QED BY <1>8, <2>1, <2>3 DEF Numbered, Taken, Latest
<1>11. /\ Boundary(Taken(tag, 1)) /\ NoneFor(log, 1, Taken(tag, 1).n, Len(log))
       /\ Taken(tag, 1).n \in Int /\ Taken(tag, 1).n <= Len(log)
       /\ IsLive(trust) => Taken(tag, 1).n >= 0
    <2>1. \A j \in 1 .. 1 : rx[j] = <<>>
        BY <1>2
    <2>2. Boundary(Taken(tag, 1)) /\ NoneFor(log, 1, Taken(tag, 1).n, Len(log))
        BY <1>3, <1>8, <2>1 DEF CaughtUp, Caught
    <2>3. Taken(tag, 1) \in Tags /\ Sound(log, 1, Taken(tag, 1))
        BY <1>1, <1>3, <1>8, LinkIs
    <2>4. Taken(tag, 1).n \in Int /\ Taken(tag, 1).n <= Len(log)
        BY <2>3, TagFields DEF Sound
    <2>5. ~UnderWay(tag, 1)
        <3>1. \A j \in Device : rx[j] = <<>> => Len(tag[j]) = 1
            BY <1>1, <1>8, LinkIs
        <3>2. Len(tag[1]) = 1
            BY <1>2, <1>3, <3>1
        <3>3. 2 .. 1 = {}
            OBVIOUS
        <3> QED BY <3>2, <3>3 DEF UnderWay
    <2> QED BY <1>3, <1>8, <2>2, <2>4, <2>5 DEF Reached
<1> HIDE DEF x, n
<1>12. OwnFits(tag, dev', log', s, START) /\ Len(s) = MSG_LEN
       /\ \A k \in 1 .. MSG_LEN : s[k].role = "pkt" /\ s[k].n = n
    <2>1. /\ Len(s) = Len(START)
          /\ \A k \in 1 .. Len(START) :
                s[k].role = "pkt" /\ s[k].pos = k /\ s[k].byte = START[k] /\ s[k].n = n
        BY <1>4, <1>9, PacketTagsAre
    <2>2. ASSUME N > 1
          PROVE  Fragment(log', 2, e, s, START) /\ (n >= 0 => Taken(tag, 1).n >= 0) /\ Taken(tag, 1).n <= n
        <3>1. 2 \in Device /\ 1 < N
            BY <1>3, <2>2
        <3>2. e \in Tags /\ Sound(log, 2, e) /\ e.n \in Int /\ e.n <= Len(log) /\ e.n >= -1
            <4>1. e \in Tags /\ Sound(log, 2, e)
                BY <1>1, <1>8, <3>1, LinkIs
            <4> HIDE DEF e
            <4> QED BY <4>1, TagFields DEF Sound
        <3>3. Taken(tag, 1) = e \/ OwnBytes(tag, dev)
            BY <1>3, <1>8, <3>1 DEF Tied
        <3>4. Boundary(e) /\ Taken(tag, 1).n <= e.n
            BY <1>11, <3>2, <3>3 DEF OwnBytes
        <3>5. IsLive(trust) => e.n >= 0 /\ n > e.n /\ NoneFor(log', 2, e.n, n - 1)
            <4> HAVE IsLive(trust)
            <4>1. e.n >= 0 /\ n = Len(log) + 1 /\ n - 1 = Len(log)
                BY <1>1, <1>9, <1>11, <3>2, <3>4
            <4>2. NoneFor(log, 2, e.n, Len(log))
                <5> SUFFICES ASSUME NEW m \in DOMAIN log, e.n < m, m <= Len(log)
                             PROVE  log[m].from >= 2
                    BY DEF NoneFor
                <5>1. m \in Nat /\ log[m] \in Entries
                    BY <1>1, LenProperties, ElementOfSeq
                <5>2. log[m].from >= 1
                    BY <1>11, <3>2, <3>4, <5>1 DEF NoneFor
                <5>3. log[m].from # 2 - 1
                    BY <1>8, <3>1, <3>2, <5>1 DEF Numbered
                <5> QED BY <5>1, <5>2, <5>3, <1>3 DEF Entries
            <4>3. NoneFor(Append(log, x), 2, e.n, Len(log))
                BY <1>1, <1>5, <4>2, NoneForLonger DEF x
            <4>4. NoneFor(log', 2, e.n, n - 1)
                BY <1>6, <4>1, <4>3
            <4>5. n > e.n
                BY <1>1, <3>2, <4>1
            <4> QED BY <4>1, <4>4, <4>5
        <3>6. ~IsLive(trust) => e.n = -1 /\ n = -1
            BY <1>10, <3>1 DEF n
        <3>7. ComesNext(log', 2, e, n)
            BY <3>4, <3>5, <3>6 DEF ComesNext
        <3>8. Logged(log', 2, n, START)
            <4>1. n >= 0 => IsLive(trust)
                BY DEF n
            <4>2. IsLive(trust) => n \in DOMAIN log' /\ log'[n].from = 1 /\ log'[n].packet = START
                BY <1>5, <1>9
            <4> QED BY <4>1, <4>2 DEF Logged
        <3>9. Started(START)
            BY <1>4 DEF Started
        <3> HIDE DEF e
        <3>10. Fragment(log', 2, e, s, START)
            BY <1>4, <1>9, <3>1, <3>7, <3>8, <3>9, PacketFragment
        <3>11. Taken(tag, 1).n <= n /\ (n >= 0 => Taken(tag, 1).n >= 0)
            BY <1>1, <1>9, <1>10, <1>3, <1>11 DEF n
        <3> QED BY <3>10, <3>11
    <2> HIDE DEF s
    <2>3. MSG_LEN \in 1 .. Len(START)
        BY <1>4
    <2>4. /\ s[Len(s)].role = "pkt" /\ s[Len(s)].pos = MSG_LEN /\ s[Len(s)].byte # ESC /\ s[Len(s)].n = n
        BY <1>4, <2>1, <2>3
    <2>5. OwnFits(tag, dev', log', s, START)
        BY <2>2, <2>4 DEF OwnFits, Boundary, Closed, e
    <2> QED BY <1>4, <2>1, <2>5
<1> HIDE DEF s, e
<1>13. PICK new : OwnSent(tag, dev', log', trust, done, s, rx', new)
    <2>1. ASSUME NEW j \in Device, 1 < j, j < N
          PROVE  Taken(tag, j) = Latest(tag, j + 1)
        BY <1>8, <2>1 DEF Tied
    <2>2. Caught(tag, log', rx, 1)
        <3>1. ASSUME NEW m \in DOMAIN log', Taken(tag, 1).n < m, m <= Len(log')
              PROVE  log'[m].from >= 1
            <4>1. CASE m \in DOMAIN log /\ log'[m] = log[m]
                <5>1. m <= Len(log)
                    BY <1>1, <4>1, LenProperties
                <5> QED BY <1>11, <3>1, <4>1, <5>1 DEF NoneFor
            <4>2. CASE log'[m].from = 1
                BY <4>2
            <4> QED BY <1>9, <4>1, <4>2
        <3> QED BY <1>11, <3>1 DEF Caught, NoneFor
    <2>3. OwnBase(tag, dev, log', rx, trust, done)
        BY <1>8, <1>9, <2>1, <2>2 DEF OwnBase
    <2> DEFINE d2 == dev'
               l2 == log'
               r2 == rx'
    <2>4. /\ OwnBase(tag, dev, l2, rx, trust, done) /\ l2 \in Seq(Entries) /\ ThreadOnly(dev, d2)
          /\ OwnFits(tag, d2, l2, s, START) /\ Grown(2, rx, START, r2)
        BY <1>6, <1>7, <1>9, <1>12, <2>3
    <2> HIDE DEF d2, l2, r2
    <2>5. \E new : OwnSent(tag, d2, l2, trust, done, s, r2, new)
        BY <1>1, <1>2, <1>4, <2>4, OwnPut
    <2> QED BY <2>5 DEF d2, l2, r2
<1>14. /\ Streams(new, log', rx') /\ Tied(new, dev') /\ Counts(new, dev') /\ MasterWaits(new, dev')
       /\ CaughtUp(new, log', rx') /\ AllInStep(new, trust, dev', log', done)
       /\ \A j \in Device : Taken(new, j) = Taken(tag, j)
       /\ \A j \in Device : j # 2 => new[j] = tag[j] /\ Latest(new, j) = Latest(tag, j)
    BY <1>13 DEF OwnSent
<1>15. Latest(new, 1) = Latest(tag, 1)
    BY <1>3, <1>14
<1>16. Sender(new, lastSent')
    BY <1>8, <1>15 DEF Sender
<1>17. ASSUME NEW j \in Device, NEW k \in 1 .. Len(new[j])
       PROVE  \/ k \in 1 .. Len(tag[j]) /\ new[j][k] = tag[j][k]
              \/ new[j][k].role = "pkt" /\ new[j][k].n = n
    <2>1. CASE j # 2
        BY <1>14, <2>1
    <2>2. CASE j = 2
        <3>1. N > 1
            BY <1>3, <2>2
        <3>2. \/ k \in 1 .. Len(tag[2]) /\ new[2][k] = tag[2][k]
              \/ \E m \in 1 .. Len(s) : new[2][k] = s[m]
            BY <1>13, <2>2, <3>1 DEF OwnSent
        <3> QED BY <1>12, <2>2, <3>2
    <2> QED BY <2>1, <2>2
<1>18. IsLive(trust') <=> IsLive(trust)
    BY <1>6 DEF IsLive
<1>19. (trust' = "pure" => trust = "pure" /\ n = -1) /\ (trust' = "settled" => IsLive(trust))
       /\ (trust' = "armed" => trust = "armed" /\ ~Drained')
    BY <1>1, <1>6 DEF n, IsLive, TrustLevels
<1>20. Numbered(new, trust', log')
    <2>1. ASSUME trust' = "pure", NEW j \in Device, NEW k \in 1 .. Len(new[j])
          PROVE  new[j][k].n = -1
        BY <1>8, <1>17, <1>19, <2>1 DEF Numbered
    <2>2. ASSUME IsLive(trust'), NEW j \in Device, NEW m \in DOMAIN log', m > Latest(new, j).n
          PROVE  log'[m].from # j - 1
        <3>1. CASE j # 2 /\ m \in DOMAIN log /\ log'[m] = log[m]
            BY <1>8, <1>14, <1>18, <2>2, <3>1 DEF Numbered
        <3>2. CASE j # 2 /\ log'[m].from = 1
            BY <1>3, <3>2
        <3>3. CASE j = 2
            <4>1. N > 1
                BY <1>3, <3>3
            <4>2. Latest(new, 2) = s[Len(s)]
                BY <1>13, <4>1 DEF OwnSent
            <4>3. MSG_LEN \in 1 .. MSG_LEN
                BY <1>4
            <4>4. Latest(new, 2).n = n
                BY <1>12, <4>2, <4>3
            <4>5. n = Len(log')
                BY <1>9, <1>18, <2>2
            <4>6. m \in 1 .. Len(log')
                BY <1>9, LenProperties
            <4> QED BY <1>9, <2>2, <3>3, <4>4, <4>5, <4>6
        <3> QED BY <1>9, <3>1, <3>2, <3>3
    <2>3. IsLive(trust') => Latest(new, 1).n >= 0
        BY <1>8, <1>15, <1>18 DEF Numbered
    <2> QED BY <2>1, <2>2, <2>3 DEF Numbered
<1>21. OneSync(new, trust', dev', rx')
    <2>1. ASSUME NEW j \in Device, NEW k \in 1 .. Len(new[j]), new[j][k].role = "esc"
          PROVE  k \in 1 .. Len(tag[j]) /\ new[j][k] = tag[j][k]
        BY <1>17, <2>1
    <2>2. CASE trust' = "armed"
        <3>1. \E j \in Device : rx'[j] # <<>>
            BY <1>19, <2>2 DEF Drained
        <3> QED BY <1>8, <1>19, <2>1, <2>2, <3>1 DEF OneSync
    <2>3. CASE trust' = "settled" /\ trust = "settled"
        BY <1>7, <1>8, <2>1, <2>3 DEF OneSync, ThreadOnly
    <2>4. CASE trust' = "settled" /\ trust # "settled"
        <3>1. \A j \in Device : rx'[j] = <<>>
            BY <1>6, <2>4 DEF Drained
        <3>2. ASSUME NEW j \in Device, NEW k \in 1 .. Len(new[j])
              PROVE  new[j][k].role # "esc"
            <4> DEFINE r2 == rx'
                       l2 == log'
            <4>1. r2 \in [Device -> Seq(Bytes)] /\ Streams(new, l2, r2) /\ r2[j] = <<>>
                <5>1. Passed(i, START) \in [Device -> Seq(Bytes)]
                    BY <1>1, <1>4, PassedIs
                <5> QED BY <1>14, <3>1, <5>1 DEF Starts
            <4> HIDE DEF r2, l2
            <4>2. Len(new[j]) = 1
                BY <4>1, LinkIs
            <4>3. k = 1
                BY <4>2
            <4>4. \A m \in 1 .. j : m \in Device
                BY <1>3
            <4>5. Boundary(Taken(new, j))
                BY <1>14, <3>1, <4>4 DEF CaughtUp, Caught
            <4> QED BY <4>3, <4>5 DEF Boundary, Taken
        <3> QED BY <2>4, <3>2 DEF OneSync
    <2>5. CASE trust' \notin {"armed", "settled"}
        BY <2>5 DEF OneSync
    <2> QED BY <2>2, <2>3, <2>4, <2>5
<1>22. Reached(new, trust', dev')
    <2> SUFFICES ASSUME IsLive(trust'), NEW j \in Device
                 PROVE  \/ Taken(new, j).n >= 0 /\ (dev'[j].synced \/ j \in Jumpered)
                        \/ trust' = "armed" /\ UnderWay(new, j)
        BY DEF Reached
    <2>1. \/ Taken(tag, j).n >= 0 /\ (dev[j].synced \/ j \in Jumpered)
          \/ trust = "armed" /\ UnderWay(tag, j)
        BY <1>8, <1>18 DEF Reached
    <2>2. CASE Taken(tag, j).n >= 0 /\ (dev[j].synced \/ j \in Jumpered)
        BY <1>7, <1>14, <2>2 DEF ThreadOnly
    <2>3. CASE trust = "armed" /\ UnderWay(tag, j)
        <3>1. PICK m \in 1 .. j : \E k \in 2 .. Len(tag[m]) : tag[m][k].role = "addr" /\ tag[m][k].n = 0
            BY <2>3 DEF UnderWay
        <3>2. PICK k \in 2 .. Len(tag[m]) : tag[m][k].role = "addr" /\ tag[m][k].n = 0
            BY <3>1
        <3>3. m \in Device
            BY <1>3
        <3>4. N > 1 /\ 2 \in Device
            <4>1. Len(tag[1]) = 1
                <5>1. \A a \in Device : rx[a] = <<>> => Len(tag[a]) = 1
                    BY <1>1, <1>8, LinkIs
                <5> QED BY <1>2, <1>3, <5>1
            <4>2. m # 1
                BY <3>2, <4>1
            <4> QED BY <1>3, <3>3, <4>2
        <3>5. rx'[2] # <<>>
            BY <1>13, <3>4 DEF OwnSent
        <3>6. trust' = "armed"
            BY <1>6, <2>3, <3>4, <3>5 DEF Drained
        <3>7. k \in 2 .. Len(new[m]) /\ new[m][k] = tag[m][k]
            <4>1. CASE m # 2
                BY <1>14, <3>3, <4>1
            <4>2. CASE m = 2
                BY <1>13, <3>4, <4>2 DEF OwnSent
            <4> QED BY <4>1, <4>2
        <3>8. UnderWay(new, j)
            BY <3>2, <3>7 DEF UnderWay
        <3> QED BY <3>6, <3>8
    <2> QED BY <2>1, <2>2, <2>3
<1>23. Meaning(new, dev', rx', trust', lastSent', log', done')
    <2>1. AllInStep(new, trust', dev', log', done')
        BY <1>6, <1>14, <1>18 DEF AllInStep
    <2> QED BY <1>14, <1>16, <1>20, <1>21, <1>22, <2>1 DEF Meaning
<1> QED BY <1>23

-----------------------------------------------------------------------------
(* A device passes a byte on *)

\* b is a with the first of a[i] gone and x behind a[i + 1].
Moves(a, i, x, b) ==
    \A j \in Device :
        IF j = i THEN IsTail(a[j], b[j])
        ELSE IF j = i + 1 THEN Joined(a[j], <<x>>, b[j]) ELSE b[j] = a[j]
\* new is the meaning tag when device i took and passed on the byte of f.
HandedOn(tag, i, f, new) ==
    /\ Taken(new, i) = f /\ Len(new[i]) = Len(tag[i]) - 1 /\ Len(tag[i]) \in Nat /\ Len(tag[i]) >= 2
    /\ \A k \in 1 .. Len(new[i]) : new[i][k] = tag[i][k + 1]
    /\ \A j \in Device : j # i => Taken(new, j) = Taken(tag, j)
    /\ \A j \in Device : j # i + 1 => Latest(new, j) = Latest(tag, j)
    /\ \A j \in Device : j # i /\ j # i + 1 => new[j] = tag[j]
    /\ i + 1 \in Device =>
          /\ Latest(new, i + 1) = f
          /\ Len(tag[i + 1]) \in Nat /\ Len(tag[i + 1]) >= 1 /\ Len(new[i + 1]) = Len(tag[i + 1]) + 1
          /\ \A k \in 1 .. Len(tag[i + 1]) : new[i + 1][k] = tag[i + 1][k]
          /\ new[i + 1][Len(tag[i + 1]) + 1] = f

\* b is a with the first of a[i] gone.
TailAt(a, i, b) == \A j \in Device : IF j = i THEN IsTail(a[j], b[j]) ELSE b[j] = a[j]
One(x, s) == s = <<x>>

LEMMA TakeOff ==
    ASSUME NEW l, NEW tag, NEW r \in [Device -> Seq(Bytes)], Streams(tag, l, r),
           NEW i \in Device, r[i] # <<>>, NEW mid, TailAt(tag, i, mid),
           NEW rm, TailAt(r, i, rm)
    PROVE  /\ Streams(mid, l, rm) /\ rm[i] \in Seq(Bytes)
           /\ Taken(mid, i) = tag[i][2] /\ Latest(mid, i) = Latest(tag, i)
           /\ Len(mid[i]) = Len(tag[i]) - 1 /\ Len(tag[i]) \in Nat /\ Len(tag[i]) >= 2
           /\ \A k \in 1 .. Len(mid[i]) : mid[i][k] = tag[i][k + 1]
           /\ \A j \in Device : j # i => /\ mid[j] = tag[j]
                                         /\ Taken(mid, j) = Taken(tag, j) /\ Latest(mid, j) = Latest(tag, j)
<1> DEFINE s == tag[i]
           q == r[i]
           u == mid[i]
           v == rm[i]
<1>1. Stream(l, i, s, q) /\ q \in Seq(Bytes) /\ q # <<>>
    BY DEF Streams
<1>2. Len(s) \in Nat
    BY LinkIs
<1>3. IsTail(s, u) /\ IsTail(q, v)
    BY DEF TailAt
<1>4. \A j \in Device : j # i => mid[j] = tag[j] /\ rm[j] = r[j]
    BY DEF TailAt
<1>5. Taken(tag, i) = s[1] /\ Latest(tag, i) = s[Len(s)]
      /\ Taken(mid, i) = u[1] /\ Latest(mid, i) = u[Len(u)]
    BY DEF Taken, Latest
<1> HIDE DEF s, q, u, v
<1>6. /\ Stream(l, i, u, v) /\ v \in Seq(Bytes)
      /\ u[1] = s[2] /\ u[Len(u)] = s[Len(s)]
      /\ Len(s) >= 2 /\ Len(u) = Len(s) - 1
      /\ \A k \in 1 .. Len(u) : u[k] = s[k + 1]
    BY <1>1, <1>3, StreamTail
<1>7. Streams(mid, l, rm)
    <2> SUFFICES ASSUME NEW j \in Device
                 PROVE  Stream(l, j, mid[j], rm[j])
        BY DEF Streams
    <2>1. CASE j = i
        BY <1>6, <2>1 DEF u, v
    <2>2. CASE j # i
        BY <1>4, <2>2 DEF Streams
    <2> QED BY <2>1, <2>2
<1>8. Taken(mid, i) = tag[i][2] /\ Latest(mid, i) = Latest(tag, i)
    BY <1>5, <1>6 DEF s
<1>9. Len(mid[i]) = Len(tag[i]) - 1 /\ \A k \in 1 .. Len(mid[i]) : mid[i][k] = tag[i][k + 1]
    BY <1>6 DEF s, u
<1>10. Len(tag[i]) \in Nat /\ Len(tag[i]) >= 2 /\ rm[i] \in Seq(Bytes)
    BY <1>2, <1>6 DEF s, v
<1>11. ASSUME NEW j \in Device, j # i
       PROVE  mid[j] = tag[j] /\ Taken(mid, j) = Taken(tag, j) /\ Latest(mid, j) = Latest(tag, j)
    BY <1>4, <1>11 DEF Taken, Latest
<1> QED BY <1>7, <1>8, <1>9, <1>10, <1>11

LEMMA HandOn ==
    ASSUME NEW l, NEW tag, NEW r \in [Device -> Seq(Bytes)], Streams(tag, l, r),
           NEW i \in Device, r[i] # <<>>, NEW f, f = tag[i][2], NEW s, One(f, s),
           NEW out \in Bytes, NEW q, One(out, q),
           i + 1 \in Device => Fragment(l, i + 1, Latest(tag, i + 1), s, q),
           NEW new, Moves(tag, i, f, new), NEW r2, Moves(r, i, out, r2)
    PROVE  /\ Streams(new, l, r2) /\ HandedOn(tag, i, f, new)
           /\ i + 1 \in Device => r2[i + 1] # <<>>
<1> DEFINE mid == [j \in Device |-> IF j = i THEN Tail(tag[j]) ELSE tag[j]]
           rm == [j \in Device |-> IF j = i THEN Tail(r[j]) ELSE r[j]]
<1>1. TailAt(tag, i, mid) /\ TailAt(r, i, rm)
    BY DEF TailAt, IsTail
<1>2. Device = 1 .. N /\ N \in Nat
    BY Sizes
<1>3. rm[i] \in Seq(Bytes) => rm \in [Device -> Seq(Bytes)]
    OBVIOUS
<1> HIDE DEF mid, rm
<1>4. /\ Streams(mid, l, rm) /\ rm[i] \in Seq(Bytes)
      /\ Taken(mid, i) = tag[i][2] /\ Latest(mid, i) = Latest(tag, i)
      /\ Len(mid[i]) = Len(tag[i]) - 1 /\ Len(tag[i]) \in Nat /\ Len(tag[i]) >= 2
      /\ \A k \in 1 .. Len(mid[i]) : mid[i][k] = tag[i][k + 1]
      /\ \A j \in Device : j # i => /\ mid[j] = tag[j]
                                    /\ Taken(mid, j) = Taken(tag, j) /\ Latest(mid, j) = Latest(tag, j)
    BY <1>1, TakeOff
<1>5. CASE i + 1 \notin Device
    <2>1. \A j \in Device : new[j] = mid[j] /\ r2[j] = rm[j]
        BY <1>1, <1>5 DEF Moves, TailAt, IsTail
    <2>2. Streams(new, l, r2)
        BY <1>4, <2>1 DEF Streams
    <2>3. \A j \in Device : Taken(new, j) = Taken(mid, j) /\ Latest(new, j) = Latest(mid, j)
        BY <2>1 DEF Taken, Latest
    <2>4. HandedOn(tag, i, f, new)
        BY <1>4, <1>5, <2>1, <2>3 DEF HandedOn
    <2> QED BY <1>5, <2>2, <2>4
<1>6. CASE i + 1 \in Device
    <2> DEFINE m == i + 1
    <2>1. m \in Device /\ m # i
        BY <1>2, <1>6
    <2>2. Grown(m, mid, s, new)
        <3> SUFFICES ASSUME NEW j \in Device
                     PROVE  IF j = m THEN Joined(mid[j], s, new[j]) ELSE new[j] = mid[j]
            BY DEF Grown
        <3>1. CASE j = m
            <4>0. j # i /\ j = i + 1
                BY <2>1, <3>1 DEF m
            <4>1. mid[j] = tag[j]
                BY <1>1, <4>0 DEF TailAt
            <4>2. Joined(tag[j], <<f>>, new[j])
                BY <4>0 DEF Moves
            <4> QED BY <3>1, <4>1, <4>2 DEF One
        <3>2. CASE j # m
            BY <1>1, <3>2 DEF Moves, TailAt, IsTail
        <3> QED BY <3>1, <3>2
    <2>3. Grown(m, rm, q, r2)
        <3> SUFFICES ASSUME NEW j \in Device
                     PROVE  IF j = m THEN Joined(rm[j], q, r2[j]) ELSE r2[j] = rm[j]
            BY DEF Grown
        <3>1. CASE j = m
            <4>0. j # i /\ j = i + 1
                BY <2>1, <3>1 DEF m
            <4>1. rm[j] = r[j]
                BY <1>1, <4>0 DEF TailAt
            <4>2. Joined(r[j], <<out>>, r2[j])
                BY <4>0 DEF Moves
            <4> QED BY <3>1, <4>1, <4>2 DEF One
        <3>2. CASE j # m
            BY <1>1, <3>2 DEF Moves, TailAt, IsTail
        <3> QED BY <3>1, <3>2
    <2>4. Fragment(l, m, Latest(mid, m), s, q)
        BY <1>4, <1>6, <2>1
    <2>5. rm \in [Device -> Seq(Bytes)] /\ q \in Seq(Bytes)
        BY <1>3, <1>4 DEF One
    <2> HIDE DEF m
    <2>6. Streams(new, l, r2) /\ r2[m] # <<>> /\ Extends(mid, m, s, new)
        BY <1>4, <2>1, <2>2, <2>3, <2>4, <2>5, Put
    <2>7. Len(s) = 1 /\ s[1] = f
        BY DEF One
    <2>8. /\ \A j \in Device : Taken(new, j) = Taken(mid, j)
          /\ \A j \in Device : j # m => new[j] = mid[j] /\ Latest(new, j) = Latest(mid, j)
          /\ Latest(new, m) = f /\ Len(new[m]) = Len(mid[m]) + 1
          /\ \A k \in 1 .. Len(mid[m]) : new[m][k] = mid[m][k]
          /\ \A k \in 1 .. Len(s) : new[m][Len(mid[m]) + k] = s[k]
        BY <2>6, <2>7 DEF Extends
    <2>9. new[m][Len(tag[m]) + 1] = f /\ Len(tag[m]) \in Nat /\ Len(tag[m]) >= 1
        <3>1. 1 \in 1 .. Len(s) /\ mid[m] = tag[m]
            BY <1>4, <2>1, <2>7
        <3>2. new[m][Len(mid[m]) + 1] = s[1]
            BY <2>8, <3>1
        <3>3. Len(tag[m]) \in Nat /\ Len(tag[m]) >= 1
            BY <2>1, LinkIs
        <3> QED BY <2>7, <3>1, <3>2, <3>3
    <2>10. HandedOn(tag, i, f, new)
        BY <1>4, <2>1, <2>8, <2>9 DEF HandedOn, m
    <2> QED BY <2>6, <2>10 DEF m
<1> QED BY <1>5, <1>6

\* What fits behind the byte a device took fits behind the last it passed on.
LEMMA FitsNext ==
    ASSUME NEW l \in Seq(Entries), NEW tag, NEW r \in [Device -> Seq(Bytes)], Streams(tag, l, r),
           NEW d, NEW tr, tr # "lost", tr \in TrustLevels, Tied(tag, d), Numbered(tag, tr, l),
           NEW i \in Device, i + 1 \in Device, NEW e, e = Taken(tag, i), NEW f, f = tag[i][2],
           Len(tag[i]) >= 2, Sound(l, i, f), Follows(l, i, e, f), f.role = "addr" \/ ~Talking(d[i])
    PROVE  /\ Sound(l, i + 1, f) /\ Follows(l, i + 1, Latest(tag, i + 1), f)
           /\ f.n >= Latest(tag, i + 1).n
<1> DEFINE j == i + 1
           g == Latest(tag, j)
<1>1. j \in Device /\ i \in Nat /\ j = i + 1 /\ i < N /\ Device = 1 .. N /\ N \in Nat
    BY Sizes
<1>2. g \in Tags /\ Sound(l, j, g) /\ e \in Tags /\ Sound(l, i, e) /\ Len(tag[i]) \in Nat
    BY <1>1, LinkIs
<1>3. e = g \/ (i = 1 /\ OwnBytes(tag, d))
    BY <1>1 DEF Tied
<1>4. e.n \in Int /\ e.n >= -1 /\ g.n \in Int /\ g.n >= -1 /\ f \in Tags /\ f.n \in Int /\ f.n >= -1
      /\ f.pos \in Nat /\ e.pos \in Nat
    <2>1. f \in Tags
        BY DEF Sound
    <2> HIDE DEF g
    <2> QED BY <1>2, <2>1, TagFields
<1>5. e.n >= 0 => IsLive(tr)
    <2>1. tr = "pure" => e.n = -1
        <3>1. 1 \in 1 .. Len(tag[i])
            BY <1>2
        <3> QED BY <3>1 DEF Numbered, Taken
    <2> QED BY <2>1 DEF IsLive, TrustLevels
<1>6. ASSUME e.n >= 0, NEW m \in DOMAIN l, m > g.n
      PROVE  l[m].from # i
    BY <1>1, <1>5, <1>6 DEF Numbered
<1>7. \A m \in DOMAIN l : m \in Nat /\ l[m].from \in Nat
    <2> SUFFICES ASSUME NEW m \in DOMAIN l
                 PROVE  m \in Nat /\ l[m].from \in Nat
        OBVIOUS
    <2>1. m \in 1 .. Len(l) /\ Len(l) \in Nat
        BY LenProperties
    <2>2. l[m] \in Entries
        BY <2>1, ElementOfSeq
    <2> QED BY <1>1, <2>1, <2>2 DEF Entries
<1>8. Sound(l, j, f)
    <2>1. f.n \in DOMAIN l /\ l[f.n].from < i => l[f.n].from < j
        BY <1>1, <1>7
    <2> HIDE DEF j
    <2> QED BY <2>1 DEF Sound
<1>9. ASSUME e.n >= 0, e.n <= g.n, NEW b \in Int, NoneFor(l, i, e.n, b)
      PROVE  NoneFor(l, j, g.n, b)
    <2> SUFFICES ASSUME NEW m \in DOMAIN l, g.n < m, m <= b
                 PROVE  l[m].from >= j
        BY DEF NoneFor
    <2>1. l[m].from # i
        BY <1>4, <1>6, <1>7, <1>9
    <2>2. l[m].from >= i
        BY <1>4, <1>7, <1>9 DEF NoneFor
    <2> QED BY <1>1, <1>7, <2>1, <2>2
<1>10. CASE e = g
    <2>1. f.n >= g.n
        BY <1>2, <1>10, NumbersGrow
    <2>2. Follows(l, j, g, f)
        BY <1>4, <1>9, <1>10 DEF Follows, PacketStarts, SyncStarts
    <2> QED BY <1>8, <2>1, <2>2
<1>11. CASE i = 1 /\ OwnBytes(tag, d)
    <2>0. j = 2 /\ Len(tag[1]) > 1
        BY <1>2, <1>11
    <2>1. /\ Boundary(e) /\ Boundary(g) /\ e.n <= g.n
          /\ g.n >= 0 => e.n >= 0
          /\ Closed(g) \/ Talking(d[1])
          /\ f.n >= g.n
          /\ f.role = "pkt" /\ f.n >= 0 => f.n > g.n
        BY <1>11, <2>0 DEF OwnBytes
    <2> HIDE DEF g, j
    <2>2. PacketStarts(l, i, e, f) \/ SyncStarts(l, i, e, f)
        <3>1. ~PacketGoesOn(e, f)
            <4>1. e.role = "pkt" => e.pos = MSG_LEN
                BY <2>1 DEF Boundary
            <4>2. f.role = "pkt" => f.pos <= MSG_LEN
                BY <1>4, Sizes DEF Sound
            <4>3. MSG_LEN \in Nat
                BY Sizes
            <4>4. PacketGoesOn(e, f) => f.pos = MSG_LEN + 1 /\ f.pos <= MSG_LEN
                BY <4>1, <4>2 DEF PacketGoesOn
            <4> QED BY <4>3, <4>4
        <3>2. ~SyncGoesOn(e, f) /\ ~AddressComes(e, f) /\ ~SyncCuts(e, f)
            BY <2>1 DEF SyncGoesOn, AddressComes, SyncCuts, Boundary
        <3> QED BY <3>1, <3>2 DEF Follows
    <2>3. CASE PacketStarts(l, i, e, f)
        <3>1. PacketStarts(l, j, g, f)
            BY <1>4, <1>9, <2>1, <2>3 DEF PacketStarts
        <3>2. f.role # "addr" /\ (e.n = -1 => f.n = -1)
            BY <2>3 DEF PacketStarts, Follows
        <3> QED BY <1>4, <1>8, <2>1, <3>1, <3>2 DEF Follows, g, j
    <2>4. CASE SyncStarts(l, i, e, f)
        <3>1. f.role # "addr" /\ (e.n = -1 => f.n = -1)
            BY <2>4 DEF SyncStarts, Follows
        <3>2. Closed(g)
            BY <1>11, <2>1, <3>1
        <3>3. SyncStarts(l, j, g, f)
            BY <1>4, <1>9, <2>1, <2>4, <3>2 DEF SyncStarts
        <3> QED BY <1>4, <1>8, <2>1, <3>1, <3>3 DEF Follows, g, j
    <2> QED BY <2>2, <2>3, <2>4
<1> QED BY <1>3, <1>10, <1>11

SameBut(i, a, b) == \A j \in Device : j # i => b[j] = a[j]

\* The parts of the meaning that have to do with what each device took.
LEMMA HandedOnIs ==
    ASSUME NEW l \in Seq(Entries), NEW tag, NEW r \in [Device -> Seq(Bytes)], Streams(tag, l, r),
           NEW i \in Device, NEW f, NEW new, HandedOn(tag, i, f, new),
           NEW d, Tied(tag, d), Counts(tag, d), MasterWaits(tag, d),
           NEW d2, SameBut(i, d, d2),
           Counted(i, f, d2[i].sync), ~Talking(d2[i])
    PROVE  Tied(new, d2) /\ Counts(new, d2) /\ MasterWaits(new, d2)
<1>1. Device = 1 .. N /\ N \in Nat /\ i \in Nat
    BY Sizes
<1>2. Counts(new, d2)
    BY DEF Counts, HandedOn, SameBut
<1>3. MasterWaits(new, d2)
    BY DEF MasterWaits, HandedOn, SameBut
<1>4. Tied(new, d2)
    <2> SUFFICES ASSUME NEW j \in Device, j < N
                 PROVE  Taken(new, j) = Latest(new, j + 1) \/ (j = 1 /\ OwnBytes(new, d2))
        BY DEF Tied
    <2>1. j + 1 \in Device /\ j \in Nat
        BY <1>1
    <2>2. CASE j = i
        BY <2>1, <2>2 DEF HandedOn
    <2>3. CASE j # i
        <3>1. j + 1 # i + 1
            BY <1>1, <2>1, <2>3
        <3>2. Taken(new, j) = Taken(tag, j) /\ Latest(new, j + 1) = Latest(tag, j + 1)
            BY <2>1, <2>3, <3>1 DEF HandedOn
        <3>3. Taken(tag, j) = Latest(tag, j + 1) \/ (j = 1 /\ OwnBytes(tag, d))
            BY DEF Tied
        <3>4. ASSUME j = 1, OwnBytes(tag, d)
              PROVE  OwnBytes(new, d2)
            <4>1. 1 # i /\ 1 # i + 1 /\ 1 \in Device /\ j + 1 = 2
                BY <1>1, <2>3, <3>4
            <4>2. new[1] = tag[1] /\ d2[1] = d[1]
                BY <4>1 DEF HandedOn, SameBut
            <4>3. Taken(new, 1) = Taken(tag, 1) /\ Latest(new, 2) = Latest(tag, 2)
                BY <3>2, <3>4, <4>1
            <4> QED BY <3>4, <4>2, <4>3 DEF OwnBytes
        <3> QED BY <3>2, <3>3, <3>4
    <2> QED BY <2>2, <2>3
<1> QED BY <1>2, <1>3, <1>4

\* A device whose link and all before it are empty took all there is.
LEMMA StaysCaughtUp ==
    ASSUME NEW l \in Seq(Entries), NEW tag, NEW r \in [Device -> Seq(Bytes)], Streams(tag, l, r),
           NEW d, NEW tr, Tied(tag, d), CaughtUp(tag, l, r), Numbered(tag, tr, l), IsLive(tr) \/ l = <<>>,
           NEW ls, Sender(tag, ls),
           NEW i \in Device, NEW f, NEW new, HandedOn(tag, i, f, new),
           NEW r2, r2[i] = <<>> => Len(new[i]) = 1,
           \A j \in Device : j # i /\ j # i + 1 => r2[j] = r[j], i + 1 \in Device => r2[i + 1] # <<>>
    PROVE  CaughtUp(new, l, r2)
<1>1. Device = 1 .. N /\ N \in Nat /\ i \in Nat /\ i >= 1
    BY Sizes
<1> SUFFICES ASSUME NEW j \in Device, \A m \in 1 .. j : r2[m] = <<>>
             PROVE  Boundary(Taken(new, j)) /\ NoneFor(l, j, Taken(new, j).n, Len(l))
    BY DEF CaughtUp, Caught
<1>2. j \in Nat /\ j >= 1 /\ j <= N
    BY <1>1
<1>3. j <= i
    <2>1. CASE i + 1 \in Device
        <3>1. i + 1 \in 1 .. j => FALSE
            BY <2>1
        <3> QED BY <1>1, <1>2, <3>1
    <2>2. CASE i + 1 \notin Device
        BY <1>1, <1>2, <2>2
    <2> QED BY <2>1, <2>2
<1>4. \A m \in 1 .. j : m # i => m \in Device /\ r[m] = <<>>
    <2> SUFFICES ASSUME NEW m \in 1 .. j, m # i
                 PROVE  m \in Device /\ r[m] = <<>>
        OBVIOUS
    <2>1. m \in Device /\ m # i + 1
        BY <1>1, <1>2, <1>3
    <2> QED BY <2>1
<1>5. CASE j # i
    <2>1. Taken(new, j) = Taken(tag, j)
        BY <1>5 DEF HandedOn
    <2>2. \A m \in 1 .. j : r[m] = <<>>
        <3>1. \A m \in 1 .. j : m # i
            BY <1>2, <1>3, <1>5
        <3> QED BY <1>4, <3>1
    <2> QED BY <2>1, <2>2 DEF CaughtUp, Caught
<1>6. CASE j = i
    <2>1. Taken(new, i) = Latest(tag, i)
        <3>1. i \in 1 .. j /\ i # i + 1
            BY <1>1, <1>6
        <3>2. Len(new[i]) = 1
            BY <3>1
        <3>3. Latest(new, i) = Latest(tag, i)
            BY <3>1 DEF HandedOn
        <3> QED BY <3>2, <3>3 DEF Latest, Taken
    <2>2. ASSUME IsLive(tr), NEW m \in DOMAIN l, m > Latest(tag, i).n
          PROVE  l[m].from # i - 1
        BY <2>2 DEF Numbered
    <2>3. CASE i = 1
        <3>1. Boundary(Latest(tag, 1))
            BY DEF Sender
        <3>2. IsLive(tr) => NoneFor(l, 1, Latest(tag, 1).n, Len(l))
            BY RestNotFor
        <3>3. l = <<>> => NoneFor(l, 1, Latest(tag, 1).n, Len(l))
            BY EmptySeq DEF NoneFor
        <3> QED BY <1>6, <2>1, <2>3, <3>1, <3>2, <3>3
    <2>4. CASE i # 1
        <3> DEFINE h == i - 1
        <3>1. h \in Device /\ h + 1 = i /\ h < N /\ h \in Nat
            BY <1>1, <2>4
        <3>2. \A m \in 1 .. h : r[m] = <<>>
            <4>1. \A m \in 1 .. h : m \in 1 .. j /\ m # i
                BY <1>1, <1>6
            <4> QED BY <1>4, <4>1
        <3> HIDE DEF h
        <3>3. Boundary(Taken(tag, h)) /\ NoneFor(l, h, Taken(tag, h).n, Len(l))
            BY <3>1, <3>2 DEF CaughtUp, Caught
        <3>4. Taken(tag, h) = Latest(tag, i) \/ (h = 1 /\ OwnBytes(tag, d))
            BY <3>1 DEF Tied
        <3>5. Taken(tag, h) \in Tags /\ Latest(tag, i) \in Tags
            BY <3>1, LinkIs
        <3>6. Taken(tag, h).n \in Int /\ Latest(tag, i).n \in Int
            BY <3>5, TagFields
        <3>7. Boundary(Latest(tag, i)) /\ Taken(tag, h).n <= Latest(tag, i).n
            <4>1. h = 1 => i = 2
                BY <3>1
            <4> QED BY <3>3, <3>4, <3>6, <4>1 DEF OwnBytes
        <3>8. NoneFor(l, i, Latest(tag, i).n, Len(l))
            <4> SUFFICES ASSUME NEW m \in DOMAIN l, Latest(tag, i).n < m, m <= Len(l)
                         PROVE  l[m].from >= i
                BY DEF NoneFor
            <4>1. m \in 1 .. Len(l) /\ Len(l) \in Nat /\ IsLive(tr)
                BY LenProperties, EmptySeq
            <4>2. l[m] \in Entries
                BY <4>1, ElementOfSeq
            <4>3. l[m].from \in Nat
                BY <1>1, <4>2 DEF Entries
            <4>4. l[m].from >= h
                BY <3>3, <3>6, <3>7, <4>1 DEF NoneFor
            <4>5. l[m].from # i - 1
                BY <2>2, <3>6, <4>1
            <4> QED BY <1>1, <3>1, <4>3, <4>4, <4>5
        <3> QED BY <1>6, <2>1, <3>7, <3>8
    <2> QED BY <2>3, <2>4
<1> QED BY <1>5, <1>6

\* Every tag of new is one of the same link, or came from link i to the next.
Kept(tag, i, new) ==
    \A j \in Device : \A k \in 1 .. Len(new[j]) :
        \E m \in Device : \E h \in 1 .. Len(tag[m]) :
            new[j][k] = tag[m][h] /\ (j # m => m = i /\ j = i + 1)

\* The tags move, their numbers stay.
LEMMA StaysNumbered ==
    ASSUME NEW l \in Seq(Entries), NEW tag, NEW r \in [Device -> Seq(Bytes)], Streams(tag, l, r),
           NEW tr, Numbered(tag, tr, l), NEW tr2, tr2 = "pure" => tr = "pure", IsLive(tr2) => IsLive(tr),
           NEW i \in Device, NEW f, NEW new, HandedOn(tag, i, f, new), f \in Tags,
           i + 1 \in Device => f.n >= Latest(tag, i + 1).n
    PROVE  /\ Numbered(new, tr2, l)
           /\ Kept(tag, i, new)
<1>1. Device = 1 .. N /\ N \in Nat /\ i \in Nat /\ i >= 1
    BY Sizes
<1>2. Kept(tag, i, new)
    <2> SUFFICES ASSUME NEW j \in Device, NEW k \in 1 .. Len(new[j])
                 PROVE  \E m \in Device : \E h \in 1 .. Len(tag[m]) :
                            new[j][k] = tag[m][h] /\ (j # m => m = i /\ j = i + 1)
        BY DEF Kept
    <2>1. CASE j = i
        <3>1. k + 1 \in 1 .. Len(tag[i]) /\ new[i][k] = tag[i][k + 1]
            BY <2>1 DEF HandedOn
        <3> QED BY <2>1, <3>1
    <2>2. CASE j = i + 1
        <3>1. CASE k <= Len(tag[j])
            <4>1. k \in 1 .. Len(tag[j]) /\ new[j][k] = tag[j][k]
                BY <2>2, <3>1 DEF HandedOn
            <4> QED BY <4>1
        <3>2. CASE k > Len(tag[j])
            <4>1. k = Len(tag[j]) + 1 /\ new[j][Len(tag[j]) + 1] = f
                BY <2>2, <3>2 DEF HandedOn
            <4>2. 2 \in 1 .. Len(tag[i]) /\ 1 \in 1 .. Len(new[i]) /\ new[i][1] = f
                BY DEF HandedOn, Taken
            <4>3. tag[i][2] = f
                BY <4>2 DEF HandedOn
            <4> QED BY <2>2, <4>1, <4>2, <4>3
        <3>3. k \in Nat /\ Len(tag[j]) \in Nat
            BY <2>2 DEF HandedOn
        <3> QED BY <3>1, <3>2, <3>3
    <2>3. CASE j # i /\ j # i + 1
        <3>1. new[j] = tag[j]
            BY <2>3 DEF HandedOn
        <3> QED BY <3>1
    <2> QED BY <2>1, <2>2, <2>3
<1>3. ASSUME tr2 = "pure", NEW j \in Device, NEW k \in 1 .. Len(new[j])
      PROVE  new[j][k].n = -1
    <2>0. PICK m \in Device : \E h \in 1 .. Len(tag[m]) :
              new[j][k] = tag[m][h] /\ (j # m => m = i /\ j = i + 1)
        BY <1>2 DEF Kept
    <2>1. PICK h \in 1 .. Len(tag[m]) : new[j][k] = tag[m][h]
        BY <2>0
    <2>2. tag[m][h].n = -1
        BY <1>3 DEF Numbered
    <2> QED BY <2>1, <2>2
<1>4. ASSUME IsLive(tr2)
      PROVE  Latest(new, 1).n >= 0
    <2>1. 1 \in Device /\ 1 # i + 1
        BY <1>1
    <2> QED BY <1>4, <2>1 DEF Numbered, HandedOn
<1>5. ASSUME IsLive(tr2), NEW j \in Device, NEW m \in DOMAIN l, m > Latest(new, j).n
      PROVE  l[m].from # j - 1
    <2>1. CASE j # i + 1
        BY <1>5, <2>1 DEF Numbered, HandedOn
    <2>2. CASE j = i + 1
        <3>1. Latest(new, j) = f /\ f.n >= Latest(tag, j).n
            BY <2>2 DEF HandedOn
        <3>2. Latest(tag, j) \in Tags
            BY LinkIs
        <3>3. Latest(tag, j).n \in Int /\ f.n \in Int
            BY <3>2, TagFields
        <3>4. m \in Nat
            BY LenProperties
        <3>5. m > Latest(tag, j).n
            BY <1>5, <3>1, <3>3, <3>4
        <3> QED BY <1>5, <3>5 DEF Numbered
    <2> QED BY <2>1, <2>2
<1> QED BY <1>2, <1>3, <1>4, <1>5 DEF Numbered

\* What the trust becomes when bytes r2 are under way.
Settles(tr, r2) ==
    IF tr = "armed" /\ \A j \in Device : r2[j] = <<>> THEN "settled" ELSE tr

LEMMA StaysOneSync ==
    ASSUME NEW l, NEW tag, NEW r, NEW d, NEW tr, OneSync(tag, tr, d, r), Reached(tag, tr, d),
           NEW i \in Device, NEW new, Kept(tag, i, new),
           NEW r2 \in [Device -> Seq(Bytes)], Streams(new, l, r2), CaughtUp(new, l, r2),
           NEW d2, \A j \in Device : d[j].synced => d2[j].synced,
           NEW tr2, tr2 = Settles(tr, r2)
    PROVE  OneSync(new, tr2, d2, r2)
<1>1. Device = 1 .. N /\ N \in Nat
    BY Sizes
<1>2. CASE tr2 = "armed"
    <2>1. tr = "armed" /\ \E j \in Device : r2[j] # <<>>
        BY <1>2 DEF Settles
    <2>2. ASSUME NEW j \in Device, NEW k \in 1 .. Len(new[j]), new[j][k].role = "esc"
          PROVE  new[j][k].n = -1
        <3>0. PICK m \in Device : \E h \in 1 .. Len(tag[m]) : new[j][k] = tag[m][h]
            BY DEF Kept
        <3>1. PICK h \in 1 .. Len(tag[m]) : new[j][k] = tag[m][h]
            BY <3>0
        <3> QED BY <2>1, <2>2, <3>1 DEF OneSync
    <2> QED BY <1>2, <2>1, <2>2 DEF OneSync
<1>3. CASE tr2 = "settled" /\ tr = "settled"
    <2>1. ASSUME NEW j \in Device, NEW k \in 1 .. Len(new[j]), new[j][k].role = "esc"
          PROVE  new[j][k].n >= 0 /\ d2[j].synced
        <3>0. PICK m \in Device : \E h \in 1 .. Len(tag[m]) :
                  new[j][k] = tag[m][h] /\ (j # m => m = i /\ j = i + 1)
            BY DEF Kept
        <3>1. PICK h \in 1 .. Len(tag[m]) :
                  new[j][k] = tag[m][h] /\ (j # m => m = i /\ j = i + 1)
            BY <3>0
        <3>2. tag[m][h].n >= 0 /\ d[m].synced
            BY <1>3, <2>1, <3>1 DEF OneSync
        <3>3. CASE j = m
            BY <3>1, <3>2, <3>3
        <3>4. CASE j # m
            <4>1. j # 1
                BY <1>1, <3>1, <3>4
            <4>2. j \notin Jumpered
                BY <4>1, BusAssumption
            <4>3. d[j].synced
                BY <1>3, <4>2 DEF Reached, IsLive
            <4> QED BY <3>1, <3>2, <4>3
        <3> QED BY <3>3, <3>4
    <2> QED BY <1>3, <2>1 DEF OneSync
<1>4. CASE tr2 = "settled" /\ tr # "settled"
    <2>1. \A j \in Device : r2[j] = <<>>
        BY <1>4 DEF Settles
    <2>2. ASSUME NEW j \in Device, NEW k \in 1 .. Len(new[j])
          PROVE  new[j][k].role # "esc"
        <3>1. Len(new[j]) = 1
            BY <2>1, LinkIs
        <3>2. k = 1
            BY <3>1
        <3>3. \A m \in 1 .. j : m \in Device
            BY <1>1
        <3>4. Boundary(Taken(new, j))
            BY <2>1, <3>3 DEF CaughtUp, Caught
        <3> QED BY <3>2, <3>4 DEF Boundary, Taken
    <2> QED BY <1>4, <2>2 DEF OneSync
<1>5. CASE tr2 # "armed" /\ tr2 # "settled"
    BY <1>5 DEF OneSync
<1> QED BY <1>2, <1>3, <1>4, <1>5

LEMMA StaysReached ==
    ASSUME NEW l, NEW tag, NEW d, NEW tr, Reached(tag, tr, d),
           NEW i \in Device, NEW f \in Tags, NEW new, HandedOn(tag, i, f, new),
           Taken(tag, i) \in Tags, f.n >= Taken(tag, i).n,
           NEW r2 \in [Device -> Seq(Bytes)], Streams(new, l, r2),
           NEW d2, \A j \in Device : d[j].synced => d2[j].synced, f.role = "addr" => d2[i].synced,
           NEW tr2, tr2 = Settles(tr, r2)
    PROVE  Reached(new, tr2, d2)
<1>1. Device = 1 .. N /\ N \in Nat
    BY Sizes
<1>2. f.n \in Int /\ Taken(tag, i).n \in Int
    BY TagFields
<1> SUFFICES ASSUME IsLive(tr2), NEW j \in Device
             PROVE  \/ Taken(new, j).n >= 0 /\ (d2[j].synced \/ j \in Jumpered)
                    \/ tr2 = "armed" /\ UnderWay(new, j)
    BY DEF Reached
<1>3. IsLive(tr)
    BY DEF IsLive, Settles
<1>4. CASE Taken(tag, j).n >= 0 /\ (d[j].synced \/ j \in Jumpered)
    <2>1. CASE j = i
        BY <1>2, <1>4, <2>1 DEF HandedOn
    <2>2. CASE j # i
        BY <1>4, <2>2 DEF HandedOn
    <2> QED BY <2>1, <2>2
<1>5. CASE tr = "armed" /\ UnderWay(tag, j)
    <2>1. UnderWay(new, j) => tr2 = "armed"
        <3> HAVE UnderWay(new, j)
        <3>1. PICK m \in 1 .. j : \E k \in 2 .. Len(new[m]) : TRUE
            BY DEF UnderWay
        <3>2. m \in Device
            BY <1>1
        <3>3. Len(new[m]) # 1
            <4>1. 2 .. 1 = {}
                OBVIOUS
            <4> QED BY <3>1, <4>1
        <3>4. r2[m] # <<>>
            BY <3>2, <3>3, LinkIs
        <3> QED BY <1>5, <3>2, <3>4 DEF Settles
    <2>2. PICK m \in 1 .. j : \E k \in 2 .. Len(tag[m]) : tag[m][k].role = "addr" /\ tag[m][k].n = 0
        BY <1>5 DEF UnderWay
    <2>3. PICK k \in 2 .. Len(tag[m]) : tag[m][k].role = "addr" /\ tag[m][k].n = 0
        BY <2>2
    <2>4. m \in Device /\ m \in Nat /\ j \in Nat /\ m <= j
        BY <1>1
    <2>5. CASE m # i /\ m # i + 1
        <3>1. new[m] = tag[m]
            BY <2>4, <2>5 DEF HandedOn
        <3>2. UnderWay(new, j)
            BY <2>3, <3>1 DEF UnderWay
        <3> QED BY <2>1, <3>2
    <2>6. CASE m = i + 1
        <3>1. new[m][k] = tag[m][k] /\ k \in 2 .. Len(new[m])
            BY <2>4, <2>6 DEF HandedOn
        <3>2. UnderWay(new, j)
            BY <2>3, <3>1 DEF UnderWay
        <3> QED BY <2>1, <3>2
    <2>7. CASE m = i /\ k > 2
        <3> DEFINE h == k - 1
        <3>1. h \in 2 .. Len(new[i]) /\ h \in 1 .. Len(new[i]) /\ h + 1 = k
            BY <2>7 DEF HandedOn
        <3> HIDE DEF h
        <3>2. new[i][h] = tag[i][k]
            BY <3>1 DEF HandedOn
        <3>3. UnderWay(new, j)
            BY <2>3, <2>7, <3>1, <3>2 DEF UnderWay
        <3> QED BY <2>1, <3>3
    <2>8. CASE m = i /\ k = 2
        <3>1. f.role = "addr" /\ f.n = 0
            <4>1. 1 \in 1 .. Len(new[i]) /\ new[i][1] = f
                BY DEF HandedOn, Taken
            <4>2. tag[i][2] = f
                BY <4>1 DEF HandedOn
            <4> QED BY <2>3, <2>8, <4>2
        <3>2. CASE j = i
            BY <3>1, <3>2 DEF HandedOn
        <3>3. CASE j # i
            <4> DEFINE g == i + 1
            <4>1. g \in Device /\ g \in 1 .. j
                BY <1>1, <2>4, <2>8, <3>3
            <4>2. /\ Len(tag[g]) + 1 \in 2 .. Len(new[g])
                  /\ new[g][Len(tag[g]) + 1] = f
                BY <4>1 DEF HandedOn
            <4> HIDE DEF g
            <4>3. UnderWay(new, j)
                BY <3>1, <4>1, <4>2 DEF UnderWay
            <4> QED BY <2>1, <4>3
        <3> QED BY <3>2, <3>3
    <2> QED BY <2>3, <2>5, <2>6, <2>7, <2>8
<1> QED BY <1>3, <1>4, <1>5 DEF Reached

\* The packets executed when a device has taken a byte, y, were x before.
Runs(c, d1, tr, x, y) ==
    y = IF Executes(d1) THEN Append(x, d1.buf)
        ELSE IF AtAddress(c) /\ tr = "armed" THEN <<>> ELSE x
\* OneSync, for one device.
EscIsSeen(e, c, tr) ==
    e.role = "esc" => (tr = "armed" => e.n = -1) /\ (tr = "settled" => e.n >= 0 /\ c.synced)

LEMMA MovesInStep ==
    ASSUME NEW l \in Seq(Entries), NEW i \in Device, NEW e \in Tags, NEW f \in Tags,
           NEW c \in DeviceState, NEW x \in Seq(Packet), NEW tr, IsLive(tr),
           Sound(l, i, e), Sound(l, i, f), Follows(l, i, e, f), Counted(i, e, c.sync),
           c.synced /\ e.n >= 0 => InStep(l, i, e, c, x), c.synced => Len(c.buf) < MSG_LEN,
           EscIsSeen(e, c, tr),
           NEW data \in Bytes, data = OnWire(i, f), NEW d1, d1 = AfterByte(c, data),
           AfterThread(d1).synced, f.n >= 0,
           NEW y, Runs(c, d1, tr, x, y)
    PROVE  InStep(l, i, f, AfterThread(d1), y)
<1>1. e.n \in Int /\ e.n >= -1 /\ f.n \in Int
    BY TagFields
<1>2. AtAddress(c) <=> f.role = "addr"
    <2>1. c.sync = SYNC_LEN <=> f.role = "addr"
        BY SyncIsSeen
    <2> QED BY <2>1 DEF AtAddress
<1>3. CASE f.role = "addr"
    <2>1. /\ ~Executes(d1)
          /\ f.n = 0 => InStep(l, i, f, AfterThread(d1), <<>>)
          /\ e.n >= 0 /\ InStep(l, i, e, c, x) => InStep(l, i, f, AfterThread(d1), x)
        BY <1>3, ComesInStep
    <2>2. e.role = "esc" /\ (IF e.n = -1 THEN f.n \in {-1, 0} ELSE f.n = e.n)
        BY <1>3 DEF Follows, PacketStarts, PacketGoesOn, SyncStarts, SyncCuts, SyncGoesOn, AddressComes
    <2>3. CASE tr = "armed"
        <3>1. f.n = 0
            BY <2>2, <2>3 DEF EscIsSeen
        <3>2. y = <<>>
            BY <1>2, <1>3, <2>1, <2>3 DEF Runs
        <3> QED BY <2>1, <3>1, <3>2
    <2>4. CASE tr = "settled"
        <3>1. InStep(l, i, e, c, x) /\ e.n >= 0
            BY <2>2, <2>4 DEF EscIsSeen
        <3>2. y = x
            BY <2>1, <2>4 DEF Runs
        <3> QED BY <2>1, <3>1, <3>2
    <2> QED BY <2>3, <2>4 DEF IsLive
<1>4. CASE f.role # "addr"
    <2>1. e.n >= 0
        BY <1>1, <1>4 DEF Follows
    <2>2. ~AtAddress(c)
        BY <1>2, <1>4
    <2>3. d1 \in DeviceState /\ d1.synced = c.synced
        BY <2>2, AfterByteIs
    <2>4. c.synced
        BY <2>3, AfterThreadIs
    <2>5. InStep(l, i, e, c, x) /\ Len(c.buf) < MSG_LEN
        BY <2>1, <2>4
    <2>6. InStep(l, i, f, AfterThread(d1), IF Executes(d1) THEN Append(x, d1.buf) ELSE x)
        BY <1>4, <2>1, <2>4, <2>5, StaysInStep
    <2>7. y = IF Executes(d1) THEN Append(x, d1.buf) ELSE x
        BY <2>2 DEF Runs
    <2> QED BY <2>6, <2>7
<1> QED BY <1>3, <1>4

LEMMA StaysAllInStep ==
    ASSUME NEW l \in Seq(Entries), NEW tag, NEW r \in [Device -> Seq(Bytes)], Streams(tag, l, r),
           NEW d, NEW dn, NEW tr, AllInStep(tag, tr, d, l, dn), OneSync(tag, tr, d, r), Counts(tag, d),
           NEW i \in Device, NEW f, f = tag[i][2], NEW new, HandedOn(tag, i, f, new),
           NEW c \in DeviceState, c = d[i], c.synced => Len(c.buf) < MSG_LEN,
           NEW x \in Seq(Packet), x = dn[i],
           NEW data \in Bytes, data = OnWire(i, f), NEW d1, d1 = AfterByte(c, data),
           Sound(l, i, f), Follows(l, i, Taken(tag, i), f),
           NEW d2, d2[i] = AfterThread(d1), SameBut(i, d, d2),
           NEW tr2, IsLive(tr2) => IsLive(tr),
           NEW dn2, SameBut(i, dn, dn2),
           Runs(c, d1, tr, x, dn2[i])
    PROVE  AllInStep(new, tr2, d2, l, dn2)
<1> DEFINE e == Taken(tag, i)
<1>1. /\ e \in Tags /\ Sound(l, i, e) /\ Follows(l, i, e, f) /\ Counted(i, e, c.sync) /\ f \in Tags
      /\ c \in DeviceState /\ x \in Seq(Packet) /\ d1 = AfterByte(c, data)
      /\ c.synced => Len(c.buf) < MSG_LEN
    <2>1. e \in Tags /\ Sound(l, i, e)
        BY LinkIs
    <2> QED BY <2>1 DEF Counts, Sound
<1>2. IsLive(tr) /\ c.synced /\ e.n >= 0 => InStep(l, i, e, c, x)
    BY DEF AllInStep
<1>3. Len(tag[i]) \in Nat /\ Len(tag[i]) >= 2 /\ 1 \in 1 .. Len(tag[i])
    BY DEF HandedOn
<1>4. EscIsSeen(e, c, tr)
    <2>1. e = tag[i][1]
        BY DEF Taken
    <2> QED BY <1>3, <2>1 DEF OneSync, EscIsSeen
<1>5. Taken(new, i) = f /\ \A j \in Device : j # i => Taken(new, j) = Taken(tag, j)
    BY DEF HandedOn
<1> SUFFICES ASSUME NEW j \in Device, IsLive(tr), d2[j].synced, Taken(new, j).n >= 0
             PROVE  InStep(l, j, Taken(new, j), d2[j], dn2[j])
    BY DEF AllInStep
<1>8. CASE j # i
    BY <1>5, <1>8 DEF AllInStep, SameBut
<1>9. CASE j = i
    <2> DEFINE y == dn2[i]
    <2>1. f.n >= 0 /\ AfterThread(d1).synced /\ IsLive(tr)
        BY <1>5, <1>9
    <2>2. Runs(c, d1, tr, x, y)
        OBVIOUS
    <2>3. c.synced /\ e.n >= 0 => InStep(l, i, e, c, x)
        BY <1>2, <2>1
    <2> HIDE DEF e, y
    <2>4. InStep(l, i, f, AfterThread(d1), y)
        BY <1>1, <1>4, <2>1, <2>2, <2>3, MovesInStep
    <2> QED BY <1>5, <1>9, <2>4 DEF y
<1> QED BY <1>8, <1>9

LEMMA OneFragment ==
    ASSUME NEW l, NEW i, NEW e, NEW f \in Tags, NEW s, One(f, s), NEW out \in Bytes, NEW q, One(out, q),
           Sound(l, i, f), Follows(l, i, e, f), out = OnWire(i, f)
    PROVE  Fragment(l, i, e, s, q)
<1>1. s \in Seq(Tags) /\ Len(s) = 1 /\ Len(q) = 1 /\ s[1] = f /\ q[1] = out
    BY DEF One
<1>2. \A k \in 1 .. Len(s) : k = 1
    BY <1>1
<1>3. 1 .. Len(s) - 1 = {}
    BY <1>1
<1> QED BY <1>1, <1>2, <1>3 DEF Fragment

\* A device takes a byte and passes it on: the tags move.
LEMMA ConsumeMeans ==
    ASSUME Types, Modest(dev), NoHistory(trust, log, done), NEW i \in Device, Consumes(i),
           lastSent' = lastSent, NEW tag, Meaning(tag, dev, rx, trust, lastSent, log, done)
    PROVE  \E t : Meaning(t, dev', rx', trust', lastSent', log', done')
<1> DEFINE f == tag[i][2]
           e == Taken(tag, i)
           c == dev[i]
           x == done[i]
           data == Head(rx[i])
           d1 == AfterByte(c, data)
           out == Forwarded(c, data)
<1>1. /\ rx \in [Device -> Seq(Bytes)] /\ log \in Seq(Entries) /\ trust \in TrustLevels /\ trust # "lost"
      /\ dev \in [Device -> DeviceState] /\ done \in [Device -> Seq(Packet)] /\ rx[i] # <<>>
      /\ rx[i] \in Seq(Bytes) /\ c \in DeviceState /\ x \in Seq(Packet)
      /\ c.synced => Len(c.buf) < MSG_LEN
    BY DEF Types, Consumes, Modest
<1>2. /\ Streams(tag, log, rx) /\ Tied(tag, dev) /\ Counts(tag, dev) /\ Sender(tag, lastSent)
      /\ MasterWaits(tag, dev) /\ CaughtUp(tag, log, rx) /\ Numbered(tag, trust, log)
      /\ OneSync(tag, trust, dev, rx) /\ AllInStep(tag, trust, dev, log, done) /\ Reached(tag, trust, dev)
    BY DEF Meaning
<1>3. /\ Len(tag[i]) \in Nat /\ Len(tag[i]) >= 2 /\ data = OnWire(i, f) /\ Sound(log, i, e)
      /\ Sound(log, i, f) /\ Follows(log, i, e, f) /\ e \in Tags /\ f \in Tags
    <2> DEFINE s == tag[i]
               q == rx[i]
               u == Tail(s)
               v == Tail(q)
    <2>1. Stream(log, i, s, q) /\ q \in Seq(Bytes) /\ q # <<>> /\ Len(s) \in Nat
        BY <1>1, <1>2, LinkIs DEF Streams
    <2>2. IsTail(s, u) /\ IsTail(q, v)
        BY DEF IsTail
    <2> HIDE DEF s, q, u, v
    <2>3. /\ Len(s) >= 2 /\ Head(q) = OnWire(i, s[2]) /\ Sound(log, i, s[1]) /\ Sound(log, i, s[2])
          /\ Follows(log, i, s[1], s[2])
        BY <2>1, <2>2, StreamTail
    <2>4. s[1] \in Tags /\ s[2] \in Tags
        BY <2>3 DEF Sound
    <2> QED BY <2>1, <2>3, <2>4 DEF s, q, Taken
<1>4. data \in Bytes
    BY <1>1, HeadTailProperties
<1>5. out \in Bytes
    <2> HIDE DEF data, c
    <2> QED BY <1>4, Increment DEF Forwarded
<1>6. ~Talking(d1) /\ dev' = [dev EXCEPT ![i] = AfterThread(d1)] /\ rx' = Passed(i, <<out>>)
      /\ trust' = (IF trust = "armed" /\ Drained' THEN "settled" ELSE trust)
      /\ KeepHistory(log, [done EXCEPT ![i] = IF Executes(d1) THEN Append(x, d1.buf)
                                  ELSE IF AtAddress(c) /\ trust = "armed" THEN <<>> ELSE x])
    BY DEF Consumes
<1>7. trust' = Settles(trust, rx') /\ (trust' = "pure" <=> trust = "pure") /\ (IsLive(trust') <=> IsLive(trust))
      /\ trust' \in TrustLevels /\ trust' # "lost" /\ (IsLive(trust) \/ log = <<>>)
    BY <1>1, <1>6 DEF Settles, Drained, IsLive, TrustLevels, NoHistory
<1>8. /\ dev'[i] = AfterThread(d1) /\ SameBut(i, dev, dev')
      /\ log' = log /\ SameBut(i, done, done')
      /\ IsLive(trust') => Runs(c, d1, trust, x, done'[i])
    <2> DEFINE y == IF Executes(d1) THEN Append(x, d1.buf)
                    ELSE IF AtAddress(c) /\ trust = "armed" THEN <<>> ELSE x
    <2>1. Runs(c, d1, trust, x, y)
        BY DEF Runs
    <2>2. KeepHistory(log, [done EXCEPT ![i] = y])
        BY <1>6
    <2> HIDE DEF y
    <2>3. dev'[i] = AfterThread(d1) /\ SameBut(i, dev, dev')
        BY <1>1, <1>6 DEF SameBut
    <2>4. CASE IsLive(trust')
        <3>1. log' = log /\ done' = [done EXCEPT ![i] = y]
            BY <2>2, <2>4 DEF KeepHistory, IsLive
        <3>2. done'[i] = y /\ SameBut(i, done, done')
            BY <1>1, <3>1 DEF SameBut
        <3> QED BY <2>1, <2>3, <3>1, <3>2
    <2>5. CASE ~IsLive(trust')
        <3>1. log' = <<>> /\ done' = NoPackets /\ log = <<>> /\ done = NoPackets
            BY <1>1, <1>7, <2>2, <2>5 DEF KeepHistory, IsLive, NoHistory, TrustLevels
        <3> QED BY <2>3, <2>5, <3>1 DEF SameBut
    <2> QED BY <2>4, <2>5
<1>9. Moves(rx, i, out, rx') /\ rx' \in [Device -> Seq(Bytes)]
    <2>1. <<out>> \in Seq(Bytes)
        BY <1>5
    <2>2. Passed(i, <<out>>) \in [Device -> Seq(Bytes)]
        BY <1>1, <2>1, PassedIs
    <2>3. ASSUME NEW j \in Device
          PROVE  rx'[j] = IF j = i THEN Tail(rx[j])
                          ELSE IF j = i + 1 THEN rx[j] \o <<out>> ELSE rx[j]
        <3> HIDE DEF out
        <3> QED BY <1>1, <1>6 DEF Passed
    <2>4. Moves(rx, i, out, rx')
        <3> HIDE DEF out
        <3> QED BY <2>3 DEF Moves, IsTail, Joined
    <2> QED BY <1>6, <2>2, <2>4
<1>10. d1 \in DeviceState /\ AfterThread(d1).thread = d1.thread /\ AfterThread(d1).master = d1.master
       /\ AfterThread(d1).sync = d1.sync /\ AfterThread(d1).synced = d1.synced
       /\ d1.sync = NextSync(c, data) /\ d1.thread = c.thread
       /\ (AtAddress(c) => d1.synced = TRUE) /\ (~AtAddress(c) => d1.synced = c.synced /\ d1.master = c.master)
    <2> HIDE DEF c, data
    <2>1. d1 \in DeviceState
        BY <1>1, <1>4, AfterByteIs
    <2>2. /\ d1.sync = NextSync(c, data) /\ d1.thread = c.thread
          /\ (AtAddress(c) => d1.synced = TRUE) /\ (~AtAddress(c) => d1.synced = c.synced /\ d1.master = c.master)
        BY <1>1, <1>4, AfterByteIs
    <2> HIDE DEF d1
    <2>3. AfterThread(d1).thread = d1.thread /\ AfterThread(d1).master = d1.master
       /\ AfterThread(d1).sync = d1.sync /\ AfterThread(d1).synced = d1.synced
        BY <2>1, AfterThreadIs
    <2> QED BY <2>1, <2>2, <2>3
<1>11. Counted(i, e, c.sync) /\ c.sync \in Bytes
    BY <1>1, <1>2 DEF Counts, DeviceState
<1> HIDE DEF f, e, c, x, data, d1, out
<1>12. AtAddress(c) <=> f.role = "addr"
    <2>1. c.sync = SYNC_LEN <=> f.role = "addr"
        BY <1>3, <1>11, SyncIsSeen
    <2> QED BY <2>1 DEF AtAddress
<1>13. f.role = "addr" \/ ~Talking(dev[i])
    BY <1>6, <1>10, <1>12 DEF Talking, c
<1>14. /\ f.n >= e.n /\ f.n \in Int /\ e.n \in Int
       /\ i + 1 \in Device => /\ Sound(log, i + 1, f) /\ Follows(log, i + 1, Latest(tag, i + 1), f)
                              /\ f.n >= Latest(tag, i + 1).n
    <2>1. f.n >= e.n /\ f.n \in Int /\ e.n \in Int
        BY <1>3, NumbersGrow, TagFields
    <2>2. e = Taken(tag, i) /\ f = tag[i][2]
        BY DEF e, f
    <2>3. i + 1 \in Device => /\ Sound(log, i + 1, f) /\ Follows(log, i + 1, Latest(tag, i + 1), f)
                              /\ f.n >= Latest(tag, i + 1).n
        BY <1>1, <1>2, <1>3, <1>13, <2>2, FitsNext
    <2> QED BY <2>1, <2>3
<1>15. i + 1 \in Device => out = OnWire(i + 1, f)
    <2> HAVE i + 1 \in Device
    <2>1. CASE f.role = "addr"
        <3>1. out = (data + 1) % BYTE /\ data = Position(i)
            BY <1>3, <1>12, <2>1 DEF out, Forwarded, OnWire
        <3>2. Position(i + 1) = (Position(i) + 1) % BYTE
            BY NextPosition
        <3> QED BY <2>1, <3>1, <3>2 DEF OnWire
    <2>2. CASE f.role # "addr"
        BY <1>3, <1>12, <2>2 DEF out, Forwarded, OnWire
    <2> QED BY <2>1, <2>2
<1> DEFINE s == <<f>>
           q == <<out>>
           new == [j \in Device |-> IF j = i THEN Tail(tag[j])
                                    ELSE IF j = i + 1 THEN tag[j] \o s ELSE tag[j]]
           d2 == dev'
           r2 == rx'
           tr2 == trust'
           dn2 == done'
<1>16. One(f, s) /\ One(out, q)
    BY DEF One
<1>17. Moves(tag, i, f, new)
    BY DEF Moves, IsTail, Joined
<1> HIDE DEF s, q, new
<1>18. i + 1 \in Device => Fragment(log, i + 1, Latest(tag, i + 1), s, q)
    <2> HAVE i + 1 \in Device
    <2> DEFINE j == i + 1
               g == Latest(tag, j)
    <2>1. Sound(log, j, f) /\ Follows(log, j, g, f) /\ out = OnWire(j, f)
        BY <1>14, <1>15
    <2> HIDE DEF j, g
    <2>2. Fragment(log, j, g, s, q)
        BY <1>3, <1>5, <1>16, <2>1, OneFragment
    <2> QED BY <2>2 DEF j, g
<1>19. /\ d2[i] = AfterThread(d1) /\ SameBut(i, dev, d2) /\ SameBut(i, done, dn2)
       /\ IsLive(tr2) => Runs(c, d1, trust, x, dn2[i])
       /\ Moves(rx, i, out, r2) /\ r2 \in [Device -> Seq(Bytes)]
       /\ tr2 = Settles(trust, r2) /\ (tr2 = "pure" => trust = "pure") /\ (IsLive(tr2) => IsLive(trust))
    BY <1>7, <1>8, <1>9
<1>20. dev' = d2 /\ rx' = r2 /\ trust' = tr2 /\ done' = dn2
    OBVIOUS
<1> HIDE DEF d2, r2, tr2, dn2
<1>21. f = tag[i][2] /\ e = Taken(tag, i) /\ c = dev[i] /\ x = done[i] /\ d1 = AfterByte(c, data)
    BY DEF f, e, c, x, d1
<1>22. /\ Streams(new, log, r2) /\ HandedOn(tag, i, f, new)
       /\ i + 1 \in Device => r2[i + 1] # <<>>
    BY <1>1, <1>2, <1>5, <1>16, <1>17, <1>18, <1>19, <1>21, HandOn
<1>23. Counted(i, f, d2[i].sync) /\ ~Talking(d2[i]) /\ (f.role = "addr" => d2[i].synced)
       /\ \A j \in Device : dev[j].synced => d2[j].synced
    <2>1. Counted(i, f, NextSync(c, data))
        BY <1>3, <1>11, SyncIsCounted
    <2>2. d2[i].sync = NextSync(c, data) /\ ~Talking(d2[i])
        BY <1>6, <1>10, <1>19 DEF Talking
    <2>3. (f.role = "addr" => d2[i].synced) /\ (c.synced => d2[i].synced)
        BY <1>10, <1>12, <1>19
    <2>4. ASSUME NEW j \in Device, dev[j].synced
          PROVE  d2[j].synced
        BY <1>19, <1>21, <2>3, <2>4 DEF SameBut
    <2> QED BY <2>1, <2>2, <2>3, <2>4
<1>24. Tied(new, d2) /\ Counts(new, d2) /\ MasterWaits(new, d2)
    BY <1>1, <1>2, <1>19, <1>22, <1>23, HandedOnIs
<1>25. CaughtUp(new, log, r2)
    <2>1. r2[i] = <<>> => Len(new[i]) = 1
        BY <1>19, <1>22, LinkIs
    <2>2. \A j \in Device : j # i /\ j # i + 1 => r2[j] = rx[j]
        BY <1>19 DEF Moves
    <2> QED BY <1>1, <1>2, <1>7, <1>22, <2>1, <2>2, StaysCaughtUp
<1>26. Numbered(new, tr2, log) /\ Kept(tag, i, new)
    BY <1>1, <1>2, <1>3, <1>14, <1>19, <1>22, StaysNumbered
<1>27. OneSync(new, tr2, d2, r2)
    BY <1>2, <1>19, <1>22, <1>23, <1>25, <1>26, StaysOneSync
<1>28. Reached(new, tr2, d2)
    BY <1>2, <1>3, <1>14, <1>19, <1>21, <1>22, <1>23, StaysReached
<1>29. AllInStep(new, tr2, d2, log, dn2)
    <2>1. CASE IsLive(tr2)
        BY <1>1, <1>2, <1>3, <1>4, <1>19, <1>21, <1>22, <2>1, StaysAllInStep
    <2>2. CASE ~IsLive(tr2)
        BY <2>2 DEF AllInStep
    <2> QED BY <2>1, <2>2
<1>30. Sender(new, lastSent')
    <2>1. 1 \in Device /\ 1 # i + 1
        BY Sizes
    <2>2. Latest(new, 1) = Latest(tag, 1)
        BY <1>22, <2>1 DEF HandedOn
    <2> QED BY <1>2, <2>2 DEF Sender
<1>31. Meaning(new, d2, r2, tr2, lastSent', log, dn2)
    BY <1>22, <1>24, <1>25, <1>26, <1>27, <1>28, <1>29, <1>30 DEF Meaning
<1>32. Meaning(new, dev', rx', trust', lastSent', log', done')
    BY <1>8, <1>20, <1>31
<1> QED BY <1>32

-----------------------------------------------------------------------------
(* The invariant holds *)

LEMMA PollKeepsIInv ==
    ASSUME IInv, NEW i \in Device, RemotePoll(i), Types', Modest(dev'), NoHistory(trust', log', done')
    PROVE  IInv'
<1>1. Types /\ Modest(dev) /\ NoHistory(trust, log, done) /\ rx' \in [Device -> Seq(Bytes)]
    BY DEF IInv, Types
<1>2. /\ lastSent' = lastSent
      /\ Upset \/ Consumes(i) \/ Bursts(i) \/ Starts(i)
      /\ \E st \in DeviceState, out \in Seq(Bytes), l \in Seq(Entries), x \in Seq(Packet) :
             KeepHistory(l, [done EXCEPT ![i] = x])
    BY <1>1, PollIs
<1>3. CASE Upset
    <2>1. PICK l \in Seq(Entries), x \in Seq(Packet) : KeepHistory(l, [done EXCEPT ![i] = x])
        BY <1>2
    <2> DEFINE dn == [done EXCEPT ![i] = x]
    <2>2. KeepHistory(l, dn)
        BY <2>1
    <2> HIDE DEF dn
    <2>3. trust' # "lost" => \E tag : Meaning(tag, dev', rx', trust', lastSent', log', done')
        BY <1>1, <1>3, <2>2, UpsetMeans
    <2> QED BY <2>3 DEF IInv
<1>4. CASE Consumes(i) \/ Bursts(i) \/ Starts(i)
    <2>1. trust # "lost"
        BY <1>4 DEF Consumes, Bursts, Starts
    <2>2. PICK tag : Meaning(tag, dev, rx, trust, lastSent, log, done)
        BY <2>1 DEF IInv
    <2>3. \E t : Meaning(t, dev', rx', trust', lastSent', log', done')
        BY <1>1, <1>2, <1>4, <2>2, ConsumeMeans, BurstMeans, StartMeans
    <2> QED BY <2>3 DEF IInv
<1> QED BY <1>2, <1>3, <1>4

LEMMA StepKeepsIInv ==
    ASSUME IInv, [Next]_vars
    PROVE  IInv'
<1>1. Types /\ Modest(dev) /\ NoHistory(trust, log, done)
    BY DEF IInv
<1>2. Types' /\ Modest(dev') /\ NoHistory(trust', log', done')
    BY <1>1, TypesPreserved
<1>3. ASSUME NEW p \in Packets, SendPacket(p)
      PROVE  IInv'
    <2>1. trust' = trust
        BY <1>3 DEF SendPacket
    <2>2. ASSUME trust # "lost"
          PROVE  \E t : Meaning(t, dev', rx', trust', lastSent', log', done')
        <3>1. PICK tag : Meaning(tag, dev, rx, trust, lastSent, log, done)
            BY <2>2 DEF IInv
        <3> QED BY <1>1, <1>3, <2>2, <3>1, SendPacketMeans
    <2> QED BY <1>2, <2>1, <2>2 DEF IInv
<1>4. ASSUME NEW cut \in Cuts, SendSync(cut)
      PROVE  IInv'
    <2>1. ASSUME trust' # "lost"
          PROVE  \E t : Meaning(t, dev', rx', trust', lastSent', log', done')
        <3>1. trust # "lost"
            BY <1>4, <2>1 DEF SendSync
        <3>2. PICK tag : Meaning(tag, dev, rx, trust, lastSent, log, done)
            BY <3>1 DEF IInv
        <3> QED BY <1>1, <1>4, <2>1, <3>1, <3>2, SendSyncMeans
    <2> QED BY <1>2, <2>1 DEF IInv
<1>5. ASSUME NEW i \in Device, RemotePoll(i)
      PROVE  IInv'
    BY <1>2, <1>5, PollKeepsIInv
<1>6. ASSUME NEW i \in Device, Restart(i)
      PROVE  IInv'
    BY <1>1, <1>6, RestartKeepsIInv
<1>7. CASE UNCHANGED vars
    BY <1>7 DEF vars, IInv, Types, TrustLevels
<1> QED BY <1>3, <1>4, <1>5, <1>6, <1>7 DEF Next

LEMMA Invariance == Spec => []IInv
<1>1. IInv /\ [Next]_vars => IInv'
    BY StepKeepsIInv
<1> QED BY <1>1, InitMeans, PTL DEF Spec

-----------------------------------------------------------------------------
(* What it says of a settled bus *)

LEMMA SettledIs ==
    ASSUME IInv, trust = "settled", NEW i \in Device
    PROVE  /\ dev[i].synced \/ i \in Jumpered
           /\ dev[i].synced =>
                /\ dev[i].address = Position(i)
                /\ \E n \in 0 .. Len(log) : Executed(log, Position(i), done[i], i, n)
                /\ Drained => Executed(log, Position(i), done[i], i, Len(log))
<1>1. PICK tag : Meaning(tag, dev, rx, trust, lastSent, log, done)
    BY DEF IInv
<1>2. /\ Streams(tag, log, rx) /\ CaughtUp(tag, log, rx) /\ AllInStep(tag, trust, dev, log, done)
      /\ Reached(tag, trust, dev) /\ IsLive(trust) /\ rx \in [Device -> Seq(Bytes)]
      /\ log \in Seq(Entries) /\ Len(log) \in Nat
    BY <1>1, LenProperties DEF Meaning, IInv, Types, IsLive
<1> DEFINE t == Taken(tag, i)
           n == Completed(t)
<1>3. t \in Tags /\ Sound(log, i, t)
    BY <1>2, LinkIs
<1>4. t.n >= 0 /\ (dev[i].synced \/ i \in Jumpered)
    BY <1>2 DEF Reached
<1>5. dev[i].synced => InStep(log, i, t, dev[i], done[i])
    BY <1>2, <1>4 DEF AllInStep
<1> HIDE DEF t
<1>6. n \in 0 .. Len(log) /\ n <= t.n
    <2>1. t.n \in Int /\ t.n <= Len(log)
        BY <1>3, TagFields DEF Sound
    <2>2. Unfinished(t) => t.n \in DOMAIN log
        BY <1>3, <1>4 DEF Unfinished, Sound
    <2>3. Unfinished(t) => t.n >= 1
        BY <1>2, <2>2, LenProperties
    <2> QED BY <1>2, <1>4, <2>1, <2>3 DEF Completed
<1>7. dev[i].synced => dev[i].address = Position(i) /\ Executed(log, Position(i), done[i], i, n)
    BY <1>5 DEF InStep
<1>8. ASSUME dev[i].synced, Drained
      PROVE  Executed(log, Position(i), done[i], i, Len(log))
    <2>1. \A j \in 1 .. i : j \in Device
        BY Sizes
    <2>2. Boundary(t) /\ NoneFor(log, i, t.n, Len(log))
        BY <1>2, <1>8, <2>1 DEF t, CaughtUp, Caught, Drained
    <2>3. n = t.n
        BY <2>2 DEF Completed, Unfinished, Boundary
    <2>4. ASSUME NEW m \in For(log, Position(i), i)
          PROVE  ~(n < m /\ m <= Len(log))
        <3>1. m \in DOMAIN log /\ log[m].from < i
            BY DEF For
        <3>2. log[m].from \in Nat /\ i \in Nat
            <4>1. m \in 1 .. Len(log)
                BY <3>1, LenProperties, <1>2
            <4>2. log[m] \in Entries
                BY <1>2, <4>1, ElementOfSeq
            <4> QED BY <4>2, Sizes DEF Entries
        <3> QED BY <2>2, <2>3, <3>1, <3>2 DEF NoneFor
    <2> HIDE DEF n
    <2>5. n \in Int /\ Len(log) \in Int /\ n <= Len(log)
        BY <1>2, <1>6
    <2> QED BY <1>2, <1>7, <1>8, <2>4, <2>5, ExecutedSkip
<1> HIDE DEF n
<1> QED BY <1>4, <1>6, <1>7, <1>8

\* In Bus the packets a device has executed are named by its address.
LEMMA ExecutedUpToIs ==
    ASSUME NEW i \in Device, NEW n, dev[i].address = Position(i)
    PROVE  ExecutedUpTo(i, n) <=> Executed(log, Position(i), done[i], i, n)
<1>1. Mine(i) = For(log, Position(i), i)
    BY DEF Mine, For
<1>2. \A m : Rank(i, m) = RankIn(log, Position(i), i, m)
    BY <1>1 DEF Rank, RankIn
<1> QED BY <1>1, <1>2 DEF ExecutedUpTo, Executed

\* Once a sync sequence that could be recognised has passed the chain, every
\* device has its place in the chain for an address, and keeps it, whatever was
\* on the bus before and follows: cut packets, packets full of ESC bytes, another
\* sync, a master that talks between them.
THEOREM AddressesArePositions == Spec => []AddressIsPosition
<1>1. IInv => AddressIsPosition
    <2> SUFFICES ASSUME IInv, trust = "settled", NEW i \in Device
                 PROVE  \/ dev[i].address = Position(i) /\ dev[i].synced
                        \/ i \in Jumpered /\ ~dev[i].synced
        BY DEF AddressIsPosition, Addressed
    <2> QED BY SettledIs
<1> QED BY <1>1, Invariance, PTL

\* The devices agree with the sender where packets start: what a device has
\* executed since the sync is the packets for it up to some place in what was
\* sent, each once and in order, and nothing else.
THEOREM ExecutedInOrder == Spec => []PacketsInOrder
<1>1. IInv => PacketsInOrder
    <2> SUFFICES ASSUME IInv, trust = "settled", NEW i \in Device, dev[i].synced
                 PROVE  \E n \in 0 .. Len(log) : ExecutedUpTo(i, n)
        BY DEF PacketsInOrder
    <2>1. dev[i].address = Position(i)
        BY SettledIs
    <2>2. PICK n \in 0 .. Len(log) : Executed(log, Position(i), done[i], i, n)
        BY SettledIs
    <2>3. ExecutedUpTo(i, n)
        BY <2>1, <2>2, ExecutedUpToIs
    <2> QED BY <2>3
<1> QED BY <1>1, Invariance, PTL

\* When nothing is under way any more, every packet sent since the sync has been
\* executed by every device it was for.
THEOREM AllDelivered == Spec => []PacketsDelivered
<1>1. IInv => PacketsDelivered
    <2> SUFFICES ASSUME IInv, trust = "settled", Drained, NEW i \in Device, dev[i].synced
                 PROVE  ExecutedUpTo(i, Len(log))
        BY DEF PacketsDelivered
    <2>1. dev[i].address = Position(i) /\ Executed(log, Position(i), done[i], i, Len(log))
        BY SettledIs
    <2> QED BY <2>1, ExecutedUpToIs
<1> QED BY <1>1, Invariance, PTL
=============================================================================
