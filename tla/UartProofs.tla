----------------------------- MODULE UartProofs ------------------------------
(***************************************************************************)
(* Proofs about Uart, for every ring size, backlog and set of byte values. *)
(***************************************************************************)
EXTENDS Uart, SequenceTheorems, TLAPS

-----------------------------------------------------------------------------
(* The ring *)

\* Indexes run round, without arithmetic modulo SIZE in what follows.
LEMMA IndexStep ==
    ASSUME NEW i \in Index
    PROVE  NextIndex(i) = (IF i = SIZE - 1 THEN 0 ELSE i + 1) /\ NextIndex(i) \in Index
<1>1. SIZE \in Nat /\ SIZE >= 2
    BY FifoAssumption
<1>2. CASE i = SIZE - 1
    <2>1. SIZE % SIZE = 0
        BY <1>1
    <2> QED BY <1>1, <1>2, <2>1 DEF NextIndex, Index
<1>3. CASE i # SIZE - 1
    <2>1. i + 1 \in 0 .. SIZE - 1
        BY <1>1, <1>3 DEF Index
    <2>2. (i + 1) % SIZE = i + 1
        BY <1>1, <2>1
    <2> QED BY <1>3, <2>1, <2>2 DEF NextIndex, Index
<1> QED BY <1>2, <1>3

\* The slot of the k-th byte of a ring whose first byte is in slot i.
Slot(i, k) == IF i + k <= SIZE THEN i + k - 1 ELSE i + k - 1 - SIZE

\* Stepping through the buffer by k slots wraps round at most once.
LEMMA SlotIs ==
    ASSUME NEW i \in Index, NEW k \in 1 .. SIZE
    PROVE  (i + k - 1) % SIZE = Slot(i, k) /\ Slot(i, k) \in Index
<1>1. SIZE \in Nat /\ SIZE >= 2
    BY FifoAssumption
<1>2. i \in 0 .. SIZE - 1
    BY DEF Index
<1> DEFINE n == i + k - 1
<1>3. n \in 0 .. 2 * SIZE - 1
    BY <1>1, <1>2
<1>4. CASE n < SIZE
    <2>1. n % SIZE = n
        BY <1>1, <1>3, <1>4
    <2> QED BY <1>1, <1>2, <1>4, <2>1 DEF Slot, Index
<1>5. CASE n >= SIZE
    <2>1. n - SIZE \in 0 .. SIZE - 1
        BY <1>1, <1>3, <1>5
    <2>2. (n - SIZE) % SIZE = n - SIZE
        BY <1>1, <2>1
    <2>3. n % SIZE = (n - SIZE) % SIZE
        BY <1>1, <1>3, <1>5
    <2> QED BY <1>1, <1>2, <1>5, <2>1, <2>2, <2>3 DEF Slot, Index
<1> QED BY <1>1, <1>3, <1>4, <1>5

\* The number of bytes in a ring, and the bytes.
LEMMA FillBounds ==
    ASSUME NEW f \in Ring
    PROVE  Fill(f) \in 0 .. SIZE - 1
BY FifoAssumption DEF Ring, Index, Fill

\* The bytes of a ring, oldest first, as a sequence of bytes.
LEMMA ContentsAre ==
    ASSUME NEW f \in Ring
    PROVE  /\ Contents(f) = [k \in 1 .. Fill(f) |-> f.buffer[Slot(f.read, k)]]
           /\ \A k \in 1 .. Fill(f) : f.buffer[Slot(f.read, k)] \in Byte
           /\ Contents(f) \in Seq(Byte) /\ Len(Contents(f)) = Fill(f)
<1>1. SIZE \in Nat /\ SIZE >= 2 /\ Fill(f) \in 0 .. SIZE - 1
    BY FifoAssumption, FillBounds
<1>2. f.read \in Index /\ f.buffer \in [Index -> Byte]
    BY DEF Ring
<1>3. ASSUME NEW k \in 1 .. Fill(f)
      PROVE  /\ (f.read + k - 1) % SIZE = Slot(f.read, k)
             /\ f.buffer[Slot(f.read, k)] \in Byte
    <2>1. k \in 1 .. SIZE
        BY <1>1
    <2> QED BY <1>2, <2>1, SlotIs
<1>4. Contents(f) = [k \in 1 .. Fill(f) |-> f.buffer[Slot(f.read, k)]]
    BY <1>3 DEF Contents
<1> QED BY <1>1, <1>3, <1>4

\* An enqueue adds the byte at the end, as long as there is room for it.
LEMMA Enqueue ==
    ASSUME NEW f \in Ring, NEW b \in Byte, Fill(f) < SIZE - 1
    PROVE  LET s == StoreByte(f, b)
               g == AdvanceWrite(s)
           IN  /\ s \in Ring /\ g \in Ring
               /\ Fill(s) = Fill(f) /\ Fill(g) = Fill(f) + 1
               /\ Contents(s) = Contents(f)
               /\ s.buffer[s.write] = b
               /\ Contents(g) = Append(Contents(f), b)
               /\ FirstByte(g) = FirstByte(s)
               /\ Fill(f) > 0 => FirstByte(s) = FirstByte(f)
<1> DEFINE s == StoreByte(f, b)
           g == AdvanceWrite(s)
<1>1. SIZE \in Nat /\ SIZE >= 2
    BY FifoAssumption
<1>2. /\ f.read \in 0 .. SIZE - 1 /\ f.write \in 0 .. SIZE - 1
      /\ f.buffer \in [Index -> Byte] /\ Index = 0 .. SIZE - 1
    BY DEF Ring, Index
<1>3. /\ s \in Ring /\ s.read = f.read /\ s.write = f.write
      /\ s.buffer = [f.buffer EXCEPT ![f.write] = b]
    BY <1>2 DEF StoreByte, Ring
<1>4. /\ NextIndex(f.write) \in Index
      /\ NextIndex(f.write) = IF f.write = SIZE - 1 THEN 0 ELSE f.write + 1
    BY <1>2, IndexStep
<1>5. /\ g \in Ring /\ g.read = f.read /\ g.write = NextIndex(f.write)
      /\ g.buffer = s.buffer
    BY <1>3, <1>4 DEF AdvanceWrite, Ring
<1>6. Fill(s) = Fill(f) /\ Fill(f) \in 0 .. SIZE - 1
    BY <1>3, FillBounds DEF Fill
<1>7. Fill(g) = Fill(f) + 1
    BY <1>1, <1>2, <1>4, <1>5 DEF Fill
<1>8. \A k \in 1 .. Fill(f) : Slot(f.read, k) \in Index /\ Slot(f.read, k) # f.write
    BY <1>1, <1>2 DEF Fill, Slot
<1>9. Slot(f.read, Fill(f) + 1) = f.write
    BY <1>1, <1>2 DEF Fill, Slot
<1>10. s.buffer[f.write] = b
    BY <1>2, <1>3
<1>11. \A k \in 1 .. Fill(f) : s.buffer[Slot(f.read, k)] = f.buffer[Slot(f.read, k)]
    BY <1>2, <1>3, <1>8
<1>12. Contents(s) = Contents(f)
    <2>1. [k \in 1 .. Fill(f) |-> s.buffer[Slot(f.read, k)]]
            = [k \in 1 .. Fill(f) |-> f.buffer[Slot(f.read, k)]]
        BY <1>11
    <2> QED BY <1>3, <1>6, <2>1, ContentsAre
<1>13. Contents(g) = Append(Contents(f), b)
    <2>1. Contents(g) = [k \in 1 .. Fill(f) + 1 |-> s.buffer[Slot(f.read, k)]]
        BY <1>5, <1>7, ContentsAre
    <2>2. \A k \in 1 .. Fill(f) : Contents(f)[k] = s.buffer[Slot(f.read, k)]
        BY <1>11, ContentsAre
    <2>3. \A k \in 1 .. Fill(f) + 1 :
            s.buffer[Slot(f.read, k)] = IF k <= Fill(f) THEN Contents(f)[k] ELSE b
        BY <1>6, <1>9, <1>10, <2>2
    <2>4. Contents(f) \in Seq(Byte) /\ Len(Contents(f)) = Fill(f)
        BY ContentsAre
    <2>5. Contents(g) \in Seq(Byte) /\ Len(Contents(g)) = Fill(f) + 1
        BY <1>5, <1>7, ContentsAre
    <2>6. \A k \in 1 .. Fill(f) + 1 :
            Contents(g)[k] = IF k <= Fill(f) THEN Contents(f)[k] ELSE b
        BY <2>1, <2>3
    <2>7. /\ Append(Contents(f), b) \in Seq(Byte)
          /\ Len(Append(Contents(f), b)) = Fill(f) + 1
          /\ \A k \in 1 .. Fill(f) + 1 :
                Append(Contents(f), b)[k] = IF k <= Fill(f) THEN Contents(f)[k] ELSE b
        BY <1>6, <2>4, AppendProperties
    <2> HIDE DEF s, g
    <2> QED BY <2>5, <2>6, <2>7, SeqEqual
<1>14. FirstByte(g) = FirstByte(s)
    BY <1>3, <1>5 DEF FirstByte
<1>15. Fill(f) > 0 => FirstByte(s) = FirstByte(f)
    BY <1>1, <1>2, <1>3 DEF FirstByte, Fill
<1> QED BY <1>3, <1>5, <1>6, <1>7, <1>10, <1>12, <1>13, <1>14, <1>15

\* A dequeue gives the first byte and leaves the rest.
LEMMA Dequeue ==
    ASSUME NEW f \in Ring, Fill(f) > 0
    PROVE  LET g == AdvanceRead(f)
           IN  /\ g \in Ring
               /\ FirstByte(f) \in Byte
               /\ Fill(g) = Fill(f) - 1
               /\ Contents(f) # <<>>
               /\ Head(Contents(f)) = FirstByte(f)
               /\ Contents(g) = Tail(Contents(f))
<1> DEFINE g == AdvanceRead(f)
<1>1. SIZE \in Nat /\ SIZE >= 2
    BY FifoAssumption
<1>2. /\ f.read \in 0 .. SIZE - 1 /\ f.write \in 0 .. SIZE - 1
      /\ f.buffer \in [Index -> Byte] /\ Index = 0 .. SIZE - 1
    BY DEF Ring, Index
<1>3. /\ NextIndex(f.read) \in Index
      /\ NextIndex(f.read) = IF f.read = SIZE - 1 THEN 0 ELSE f.read + 1
    BY <1>2, IndexStep
<1>4. /\ g \in Ring /\ g.read = NextIndex(f.read) /\ g.write = f.write
      /\ g.buffer = f.buffer
    BY <1>2, <1>3 DEF AdvanceRead, Ring
<1>5. Fill(g) = Fill(f) - 1 /\ Fill(f) \in 1 .. SIZE - 1
    <2>1. Fill(f) \in 1 .. SIZE - 1
        BY <1>1, FillBounds
    <2>2. CASE f.read = SIZE - 1
        <3>1. g.read = 0 /\ g.write = f.write
            BY <1>3, <1>4, <2>2
        <3> QED BY <1>1, <1>2, <2>1, <2>2, <3>1 DEF Fill
    <2>3. CASE f.read # SIZE - 1
        <3>1. g.read = f.read + 1 /\ g.write = f.write
            BY <1>3, <1>4, <2>3
        <3> QED BY <1>1, <1>2, <2>1, <2>3, <3>1 DEF Fill
    <2> QED BY <2>1, <2>2, <2>3
<1>6. Slot(f.read, 1) = f.read
    BY <1>1, <1>2 DEF Slot
<1>7. \A k \in 1 .. Fill(f) - 1 : Slot(g.read, k) = Slot(f.read, k + 1)
    <2> TAKE k \in 1 .. Fill(f) - 1
    <2>1. k \in 1 .. SIZE - 2
        BY <1>1, <1>5
    <2>2. CASE f.read = SIZE - 1
        <3>1. g.read = 0
            BY <1>3, <1>4, <2>2
        <3>2. Slot(0, k) = k - 1 /\ Slot(SIZE - 1, k + 1) = k - 1
            BY <1>1, <2>1 DEF Slot
        <3> QED BY <2>2, <3>1, <3>2
    <2>3. CASE f.read # SIZE - 1
        <3>1. g.read = f.read + 1
            BY <1>3, <1>4, <2>3
        <3>2. Slot(f.read + 1, k) = Slot(f.read, k + 1)
            BY <1>1, <1>2, <2>1 DEF Slot
        <3> QED BY <3>1, <3>2
    <2> QED BY <2>2, <2>3
<1>8. /\ Contents(f) = [k \in 1 .. Fill(f) |-> f.buffer[Slot(f.read, k)]]
      /\ Contents(f) \in Seq(Byte) /\ Len(Contents(f)) = Fill(f)
    BY ContentsAre
<1>9. Contents(f) # <<>> /\ Head(Contents(f)) = FirstByte(f)
    BY <1>5, <1>6, <1>8 DEF FirstByte
<1>10. Contents(g) = Tail(Contents(f))
    <2>1. Contents(g) = [k \in 1 .. Fill(f) - 1 |-> f.buffer[Slot(f.read, k + 1)]]
        BY <1>4, <1>5, <1>7, ContentsAre
    <2>2. \A k \in 1 .. Fill(f) - 1 : f.buffer[Slot(f.read, k + 1)] = Contents(f)[k + 1]
        BY <1>5, <1>8
    <2>3. Contents(g) = [k \in 1 .. Fill(f) - 1 |-> Contents(f)[k + 1]]
        BY <2>1, <2>2
    <2>4. Tail(Contents(f)) = [k \in 1 .. Fill(f) - 1 |-> Contents(f)[k + 1]]
        BY <1>5, <1>8
    <2> QED BY <2>3, <2>4
<1>11. FirstByte(f) \in Byte
    BY <1>2 DEF FirstByte
<1> QED BY <1>4, <1>5, <1>9, <1>10, <1>11

\* The second half of an enqueue on its own.
LEMMA AdvanceWriteAlone ==
    ASSUME NEW f \in Ring, Fill(f) < SIZE - 1
    PROVE  LET g == AdvanceWrite(f)
           IN  /\ g \in Ring
               /\ Fill(g) = Fill(f) + 1
               /\ Contents(g) = Append(Contents(f), f.buffer[f.write])
<1>1. f.buffer[f.write] \in Byte
    BY DEF Ring
<1>2. StoreByte(f, f.buffer[f.write]) = f
    BY DEF Ring, StoreByte
<1> QED BY <1>1, <1>2, Enqueue

\* A dequeue leaves the slot alone that the next enqueue has already filled.
LEMMA DequeueKeepsStored ==
    ASSUME NEW f \in Ring
    PROVE  LET g == AdvanceRead(f) IN g.buffer[g.write] = f.buffer[f.write]
BY DEF AdvanceRead, Ring

-----------------------------------------------------------------------------
(* The inductive invariant *)

\* Between the last two statements of uart_putc there is something to send,
\* and more than one byte if the data interrupt can still come.
Window ==
    pc = "advanced" => /\ Fill(tx) > 0
                       /\ udrie /\ ~fired => Fill(tx) > 1

\* The byte being handed over is the one at the end of the ring.
Handover ==
    /\ pc = "read" => Fill(rx) > 0 /\ held = FirstByte(rx)
    /\ pc = "stored" => tx.buffer[tx.write] = held

IInv == TypeOK /\ InterruptFollowsRing /\ AllAccountedFor /\ Window /\ Handover

\* What the invariant says about the room in the rings.
LEMMA Room ==
    ASSUME IInv
    PROVE  /\ SIZE \in Nat /\ Backlog \in Nat /\ Backlog < SIZE
           /\ Fill(rx) \in 0 .. SIZE - 1 /\ Fill(tx) \in 0 .. SIZE - 1
           /\ InHand \in 0 .. 1 /\ InDevice = Fill(rx) + InHand + Fill(tx)
           /\ InDevice < Backlog => Fill(rx) < SIZE - 1
           /\ pc \in {"put", "stored"} => Fill(tx) < SIZE - 1
<1>1. rx \in Ring /\ tx \in Ring /\ InDevice <= Backlog
    BY DEF IInv, TypeOK, AllAccountedFor
<1>2. Fill(rx) \in 0 .. SIZE - 1 /\ Fill(tx) \in 0 .. SIZE - 1
    BY <1>1, FillBounds
<1>3. SIZE \in Nat /\ Backlog \in 1 .. SIZE - 1
    BY FifoAssumption, UartAssumption
<1> QED BY <1>1, <1>2, <1>3 DEF InDevice, InHand

\* uart_init establishes the inductive invariant.
LEMMA InitIInv == Init => IInv
<1> SUFFICES ASSUME Init PROVE IInv
    OBVIOUS
<1>1. SIZE \in Nat /\ SIZE >= 2 /\ Backlog \in 1 .. SIZE - 1 /\ MaxBytes \in Nat
    BY FifoAssumption, UartAssumption
<1>2. PICK b \in Byte :
        LET ring == [read |-> 0, write |-> 0, buffer |-> [i \in Index |-> b]]
        IN  rx = ring /\ tx = ring /\ held = b
    BY DEF Init
<1>3. rx \in Ring /\ tx \in Ring
    BY <1>1, <1>2 DEF Ring, Index
<1>4. Fill(rx) = 0 /\ Fill(tx) = 0
    BY <1>2 DEF Fill
<1>5. TypeOK
    <2>1. line \in Seq(Byte) /\ held \in Byte
        BY <1>2 DEF Init
    <2>2. /\ udrie \in BOOLEAN /\ fired \in BOOLEAN /\ udr \in Byte \cup {Empty}
          /\ pc \in Places
        BY DEF Init, Places
    <2>3. bytes \in 0 .. MaxBytes
        BY <1>1 DEF Init
    <2> QED BY <1>3, <2>1, <2>2, <2>3 DEF TypeOK
<1>6. AllAccountedFor
    BY <1>1, <1>4 DEF Init, AllAccountedFor, InDevice, InHand
<1> QED BY <1>4, <1>5, <1>6 DEF Init, IInv, InterruptFollowsRing, Window, Handover

\* The receive interrupt only adds to rx.
LEMMA ReceiveIInv ==
    ASSUME IInv, NEW b \in Byte, ReceiveInterrupt(b)
    PROVE  IInv'
<1>1. rx \in Ring /\ Fill(rx) < SIZE - 1
    BY Room DEF ReceiveInterrupt, IInv, TypeOK
<1>2. /\ rx' \in Ring /\ Fill(rx') = Fill(rx) + 1
      /\ Fill(rx) > 0 => FirstByte(rx') = FirstByte(rx)
    BY <1>1, Enqueue DEF ReceiveInterrupt
<1>3. TypeOK'
    BY <1>2, UartAssumption DEF ReceiveInterrupt, IInv, TypeOK
<1>4. AllAccountedFor'
    BY <1>2, Room, UartAssumption
        DEF ReceiveInterrupt, IInv, TypeOK, AllAccountedFor, InDevice, InHand
<1>5. Handover'
    BY <1>2, Room DEF ReceiveInterrupt, IInv, Handover
<1> QED BY <1>3, <1>4, <1>5 DEF ReceiveInterrupt, IInv, InterruptFollowsRing, Window

\* The data interrupt takes a byte that is there.
LEMMA DataIInv ==
    ASSUME IInv, DataInterrupt
    PROVE  IInv'
<1>1. tx \in Ring /\ Fill(tx) > 0
    BY DEF DataInterrupt, IInv, TypeOK, InterruptFollowsRing
<1>2. /\ tx' \in Ring /\ Fill(tx') = Fill(tx) - 1 /\ udr' \in Byte
      /\ tx'.buffer[tx'.write] = tx.buffer[tx.write]
    BY <1>1, Dequeue, DequeueKeepsStored DEF DataInterrupt
<1>3. line' \in Seq(Byte) /\ Len(line') = Len(line) + 1
    BY <1>2 DEF DataInterrupt, IInv, TypeOK
<1>4. TypeOK'
    BY <1>2, <1>3 DEF DataInterrupt, IInv, TypeOK, MoreToSend
<1>5. AllAccountedFor'
    <2>1. line \in Seq(Byte) /\ Len(line) \in Nat /\ bytes \in Nat
        BY UartAssumption DEF IInv, TypeOK
    <2>2. InHand' = InHand /\ Fill(rx') = Fill(rx) /\ bytes' = bytes
        BY DEF DataInterrupt, InHand
    <2>3. InDevice' = InDevice - 1
        BY <1>2, <2>2, Room DEF InDevice
    <2>4. InDevice \in Nat /\ Backlog \in Nat
        BY Room
    <2>5. InDevice <= Backlog /\ InDevice + Len(line) = bytes
        BY DEF IInv, AllAccountedFor
    <2>6. InDevice' <= Backlog /\ InDevice' + Len(line') = bytes'
        BY <1>3, <2>1, <2>2, <2>3, <2>4, <2>5
    <2> QED BY <2>6 DEF AllAccountedFor
<1>6. (udrie' => Fill(tx') # 0) /\ (Fill(tx') # 0 => udrie') /\ Fill(tx') \in Nat
    <2>1. Fill(tx') \in Nat
        BY <1>1, <1>2, Room
    <2> QED BY <2>1 DEF DataInterrupt, MoreToSend
<1>7. InterruptFollowsRing' /\ Window'
    <2>1. InterruptFollowsRing'
        BY <1>6 DEF InterruptFollowsRing
    <2>2. CASE pc = "advanced"
        <3>1. fired' /\ Fill(tx) > 1
            BY <2>2 DEF DataInterrupt, IInv, Window
        <3> QED BY <1>2, <2>1, <3>1, Room DEF Window
    <2>3. CASE pc # "advanced"
        BY <2>1, <2>3 DEF DataInterrupt, Window
    <2> QED BY <2>1, <2>2, <2>3
<1>8. Handover'
    BY <1>2 DEF DataInterrupt, IInv, Handover
<1> QED BY <1>4, <1>5, <1>7, <1>8 DEF IInv

\* fifo_dequeue on rx, and a byte of the device's own.
LEMMA TakeIInv ==
    ASSUME IInv, PollRead \/ PollAdvance \/ \E b \in Byte : OwnByte(b)
    PROVE  IInv'
<1>1. CASE PollRead
    <2>1. rx \in Ring /\ Fill(rx) > 0 /\ held' \in Byte
        BY <1>1, Dequeue DEF PollRead, IInv, TypeOK
    <2> QED BY <1>1, <2>1, Room
            DEF PollRead, IInv, TypeOK, Places, InterruptFollowsRing, AllAccountedFor,
                InDevice, InHand, Window, Handover
<1>2. CASE PollAdvance
    <2>1. rx \in Ring /\ Fill(rx) > 0
        BY <1>2 DEF PollAdvance, IInv, TypeOK, Handover
    <2>2. rx' \in Ring /\ Fill(rx') = Fill(rx) - 1
        BY <1>2, <2>1, Dequeue DEF PollAdvance
    <2> QED BY <1>2, <2>2, Room
            DEF PollAdvance, IInv, TypeOK, Places, InterruptFollowsRing, AllAccountedFor,
                InDevice, InHand, Window, Handover
<1>3. ASSUME NEW b \in Byte, OwnByte(b)
      PROVE  IInv'
    <2>1. TypeOK'
        BY <1>3, UartAssumption DEF OwnByte, IInv, TypeOK, Places
    <2>2. AllAccountedFor'
        BY <1>3, Room, UartAssumption
            DEF OwnByte, IInv, TypeOK, AllAccountedFor, InDevice, InHand
    <2> QED BY <1>3, <2>1, <2>2 DEF OwnByte, IInv, InterruptFollowsRing, Window, Handover
<1> QED BY <1>1, <1>2, <1>3

\* uart_putc: the byte gets into tx before the interrupt is enabled.
LEMMA PutIInv ==
    ASSUME IInv, PutByte
    PROVE  IInv'
<1> USE DEF IInv
<1>1. CASE PutStore
    <2>1. tx \in Ring /\ held \in Byte /\ Fill(tx) < SIZE - 1
        BY <1>1, Room DEF PutStore, TypeOK
    <2>2. tx' \in Ring /\ Fill(tx') = Fill(tx) /\ tx'.buffer[tx'.write] = held
        BY <1>1, <2>1, Enqueue DEF PutStore
    <2> QED BY <1>1, <2>2, Room
            DEF PutStore, TypeOK, Places, InterruptFollowsRing, AllAccountedFor, InDevice,
                InHand, Window, Handover
<1>2. CASE PutAdvance
    <2>1. tx \in Ring /\ Fill(tx) < SIZE - 1
        BY <1>2, Room DEF PutAdvance, TypeOK
    <2>2. tx' \in Ring /\ Fill(tx') = Fill(tx) + 1
        BY <1>2, <2>1, AdvanceWriteAlone DEF PutAdvance
    <2>3. TypeOK'
        BY <1>2, <2>2 DEF PutAdvance, TypeOK, Places
    <2>4. InDevice' = InDevice
        BY <1>2, <2>2, Room DEF PutAdvance, InDevice, InHand
    <2>5. AllAccountedFor'
        BY <1>2, <2>4 DEF PutAdvance, AllAccountedFor
    <2>6. InterruptFollowsRing' /\ Window'
        BY <1>2, <2>2, Room DEF PutAdvance, InterruptFollowsRing, Window
    <2>7. Handover'
        BY <1>2 DEF PutAdvance, Handover
    <2> QED BY <2>3, <2>5, <2>6, <2>7
<1>3. CASE PutEnable
    BY <1>3, Room
        DEF PutEnable, TypeOK, Places, InterruptFollowsRing, AllAccountedFor, InDevice,
            InHand, Window, Handover
<1> QED BY <1>1, <1>2, <1>3 DEF PutByte

\* Every step preserves the invariant.
LEMMA NextIInv == IInv /\ [Next]_vars => IInv'
<1> SUFFICES ASSUME IInv, [Next]_vars PROVE IInv'
    OBVIOUS
<1>1. CASE Interrupt
    BY <1>1, ReceiveIInv, DataIInv DEF Interrupt
<1>2. CASE ShiftOut
    BY <1>2 DEF ShiftOut, IInv, TypeOK, InterruptFollowsRing, AllAccountedFor, InDevice,
                InHand, Window, Handover
<1>3. CASE Main
    BY <1>3, TakeIInv, PutIInv DEF Main
<1>4. CASE UNCHANGED vars
    BY <1>4 DEF vars, IInv, TypeOK, InterruptFollowsRing, AllAccountedFor, InDevice,
                InHand, Window, Handover
<1> QED BY <1>1, <1>2, <1>3, <1>4 DEF Next

-----------------------------------------------------------------------------
(* Theorems *)

\* The indexes of both rings stay inside their buffers, and the rest of the
\* state stays within its type.
THEOREM RingsTyped == Spec => []TypeOK
<1>1. IInv => TypeOK
    BY DEF IInv
<1> QED BY <1>1, InitIInv, NextIInv, PTL DEF Spec

\* The data interrupt is enabled exactly when tx has something for it, but for
\* the moment between the two statements of uart_putc.
THEOREM InterruptEnabled == Spec => []InterruptFollowsRing
<1>1. IInv => InterruptFollowsRing
    BY DEF IInv
<1> QED BY <1>1, InitIInv, NextIInv, PTL DEF Spec

\* No byte is lost in a ring that has wrapped round, or sent a second time.
THEOREM NoByteLost == Spec => []AllAccountedFor
<1>1. IInv => AllAccountedFor
    BY DEF IInv
<1> QED BY <1>1, InitIInv, NextIInv, PTL DEF Spec

-----------------------------------------------------------------------------
(* Uart implements ByteQueues *)

\* Which program points hold a byte, and which see rx one byte shorter.
LEMMA HandIs ==
    /\ pc = "read" => RxQ = Tail(Contents(rx)) /\ Hand = <<held>>
    /\ pc \in {"put", "stored"} => RxQ = Contents(rx) /\ Hand = <<held>>
    /\ pc \in {"poll", "advanced"} => RxQ = Contents(rx) /\ Hand = <<>>
    /\ pc' = "read" => RxQ' = Tail(Contents(rx')) /\ Hand' = <<held'>>
    /\ pc' \in {"put", "stored"} => RxQ' = Contents(rx') /\ Hand' = <<held'>>
    /\ pc' \in {"poll", "advanced"} => RxQ' = Contents(rx') /\ Hand' = <<>>
BY DEF RxQ, Hand

\* A byte is appended behind the one just taken.
LEMMA TailOfAppend ==
    ASSUME NEW s \in Seq(Byte), s # <<>>, NEW b \in Byte
    PROVE  Tail(Append(s, b)) = Append(Tail(s), b)
<1>1. Append(s, b) \in Seq(Byte) /\ Append(s, b) # <<>> /\ Len(Append(s, b)) = Len(s) + 1
    BY AppendProperties
<1>2. /\ Tail(s) \in Seq(Byte) /\ Len(Tail(s)) = Len(s) - 1
      /\ \A i \in 1 .. Len(Tail(s)) : Tail(s)[i] = s[i + 1]
    BY HeadTailProperties
<1> DEFINE l == Tail(Append(s, b))
           r == Append(Tail(s), b)
<1>3. /\ l \in Seq(Byte) /\ Len(l) = Len(s)
      /\ \A i \in 1 .. Len(s) : l[i] = Append(s, b)[i + 1]
    BY <1>1, HeadTailProperties
<1>4. r \in Seq(Byte) /\ Len(r) = Len(s) /\ Len(s) \in Nat
    BY <1>2, AppendProperties
<1>5. \A i \in 1 .. Len(s) : l[i] = r[i]
    <2> TAKE i \in 1 .. Len(s)
    <2>1. CASE i = Len(s)
        <3>1. Append(s, b)[i + 1] = b
            BY <2>1, AppendProperties
        <3>2. r[i] = b
            BY <1>2, <1>4, <2>1, AppendProperties
        <3> QED BY <1>3, <3>1, <3>2
    <2>2. CASE i # Len(s)
        <3>0. Len(Tail(s)) = Len(s) - 1 /\ Len(s) \in Nat
            BY <1>2, <1>4
        <3>1. i \in 1 .. Len(Tail(s)) /\ i + 1 \in 1 .. Len(s)
            <4> DEFINE n == Len(s)
            <4>1. n \in Nat /\ i \in 1 .. n /\ i # n
                BY <2>2, <3>0
            <4> HIDE DEF n
            <4>2. i \in 1 .. n - 1 /\ i + 1 \in 1 .. n
                BY <4>1
            <4> QED BY <3>0, <4>2 DEF n
        <3>2. Append(s, b)[i + 1] = s[i + 1]
            BY <3>1, AppendProperties
        <3>3. r[i] = Tail(s)[i]
            BY <1>2, <3>1, AppendProperties
        <3> QED BY <1>2, <1>3, <3>1, <3>2, <3>3
    <2> QED BY <2>1, <2>2
<1> HIDE DEF l, r
<1>6. l = r
    BY <1>3, <1>4, <1>5, SeqEqual
<1> QED BY <1>6 DEF l, r

\* The receive interrupt appends to rx what it reads from the line.
LEMMA ReceiveStep ==
    ASSUME IInv, NEW b \in Byte, ReceiveInterrupt(b)
    PROVE  Queues!Receive(b)
<1>1. rx \in Ring /\ Fill(rx) < SIZE - 1 /\ pc \in Places /\ pc' = pc
    BY Room DEF ReceiveInterrupt, IInv, TypeOK
<1>2. Contents(rx') = Append(Contents(rx), b)
    BY <1>1, Enqueue DEF ReceiveInterrupt
<1>3. RxQ' = Append(RxQ, b)
    <2>1. CASE pc = "read"
        <3>1. Contents(rx) \in Seq(Byte) /\ Contents(rx) # <<>>
            BY <1>1, <2>1, ContentsAre, Dequeue DEF IInv, Handover
        <3> QED BY <1>1, <1>2, <2>1, <3>1, HandIs, TailOfAppend
    <2>2. CASE pc # "read"
        BY <1>1, <1>2, <2>2 DEF RxQ
    <2> QED BY <2>1, <2>2
<1>4. Hand' = Hand /\ TxQ' = TxQ /\ line' = line
    BY DEF ReceiveInterrupt, Hand, TxQ
<1> QED BY <1>3, <1>4 DEF Queues!Receive

\* The data interrupt sends the first byte of tx.
LEMMA SendStep ==
    ASSUME IInv, DataInterrupt
    PROVE  Queues!Send
<1>1. tx \in Ring /\ Fill(tx) > 0
    BY DEF DataInterrupt, IInv, TypeOK, InterruptFollowsRing
<1>2. /\ TxQ # <<>> /\ Head(TxQ) = FirstByte(tx) /\ TxQ' = Tail(TxQ)
    BY <1>1, Dequeue DEF DataInterrupt, TxQ
<1>3. line' = Append(line, Head(TxQ))
    BY <1>2 DEF DataInterrupt
<1>4. RxQ' = RxQ /\ Hand' = Hand
    BY DEF DataInterrupt, RxQ, Hand
<1> QED BY <1>2, <1>3, <1>4 DEF Queues!Send

\* The main loop takes the first byte of rx into its hand.
LEMMA TakeStep ==
    ASSUME IInv, PollRead
    PROVE  Queues!Take
<1>1. rx \in Ring /\ Fill(rx) > 0 /\ pc = "poll" /\ pc' = "read" /\ rx' = rx
    BY DEF PollRead, IInv, TypeOK
<1>2. Contents(rx) # <<>> /\ Head(Contents(rx)) = held'
    BY <1>1, Dequeue DEF PollRead
<1>3. RxQ = Contents(rx) /\ Hand = <<>> /\ RxQ' = Tail(Contents(rx)) /\ Hand' = <<held'>>
    BY <1>1, HandIs
<1>4. TxQ' = TxQ /\ line' = line
    BY DEF PollRead, TxQ
<1> QED BY <1>2, <1>3, <1>4 DEF Queues!Take

\* The main loop takes a byte of a message of its own into its hand.
LEMMA OwnStep ==
    ASSUME IInv, NEW b \in Byte, OwnByte(b)
    PROVE  Queues!Originate(b)
<1>1. Hand = <<>> /\ Hand' = <<b>> /\ RxQ' = RxQ /\ TxQ' = TxQ /\ line' = line
    BY DEF OwnByte, Hand, RxQ, TxQ
<1> QED BY <1>1 DEF Queues!Originate

\* The byte in hand enters tx when its write index moves on.
LEMMA PutStep ==
    ASSUME IInv, PutAdvance
    PROVE  Queues!Put
<1>1. tx \in Ring /\ Fill(tx) < SIZE - 1 /\ tx.buffer[tx.write] = held
    BY Room DEF PutAdvance, IInv, TypeOK, Handover
<1>2. TxQ' = Append(TxQ, held)
    BY <1>1, AdvanceWriteAlone DEF PutAdvance, TxQ
<1>3. Hand = <<held>> /\ Hand' = <<>> /\ RxQ' = RxQ /\ line' = line
    BY DEF PutAdvance, Hand, RxQ
<1>4. Hand # <<>> /\ Hand[1] = held
    BY <1>3
<1> QED BY <1>2, <1>3, <1>4 DEF Queues!Put

\* Giving a slot back, storing a byte behind the end of the ring and enabling
\* the interrupt move no byte.
LEMMA SilentSteps ==
    ASSUME IInv, PollAdvance \/ PutStore \/ PutEnable \/ ShiftOut \/ UNCHANGED vars
    PROVE  UNCHANGED Queues!qvars
<1>1. CASE PollAdvance
    <2>1. rx \in Ring /\ Fill(rx) > 0 /\ pc = "read" /\ pc' = "put"
        BY <1>1 DEF PollAdvance, IInv, TypeOK, Handover
    <2>2. Contents(rx') = Tail(Contents(rx))
        BY <1>1, <2>1, Dequeue DEF PollAdvance
    <2>3. RxQ' = RxQ /\ Hand' = Hand
        BY <1>1, <2>1, <2>2, HandIs DEF PollAdvance
    <2> QED BY <1>1, <2>3 DEF PollAdvance, TxQ, Queues!qvars
<1>2. CASE PutStore
    <2>1. tx \in Ring /\ held \in Byte /\ Fill(tx) < SIZE - 1
        BY <1>2, Room DEF PutStore, IInv, TypeOK
    <2>2. TxQ' = TxQ
        BY <1>2, <2>1, Enqueue DEF PutStore, TxQ
    <2>3. RxQ' = RxQ /\ Hand' = Hand /\ line' = line
        BY <1>2 DEF PutStore, RxQ, Hand
    <2> QED BY <2>2, <2>3 DEF Queues!qvars
<1>3. CASE PutEnable
    BY <1>3 DEF PutEnable, RxQ, Hand, TxQ, Queues!qvars
<1>4. CASE ShiftOut
    BY <1>4 DEF ShiftOut, RxQ, Hand, TxQ, Queues!qvars
<1>5. CASE UNCHANGED vars
    BY <1>5 DEF vars, RxQ, Hand, TxQ, Queues!qvars
<1> QED BY <1>1, <1>2, <1>3, <1>4, <1>5

\* Empty rings are empty queues.
LEMMA QueueInit == Init => Queues!QInit
<1> SUFFICES ASSUME Init PROVE Queues!QInit
    OBVIOUS
<1>1. IInv /\ Fill(rx) = 0 /\ Fill(tx) = 0
    <2>1. PICK b \in Byte :
            LET ring == [read |-> 0, write |-> 0, buffer |-> [i \in Index |-> b]]
            IN  rx = ring /\ tx = ring /\ held = b
        BY DEF Init
    <2> QED BY <2>1, InitIInv DEF Fill
<1>2. Contents(rx) = <<>> /\ Contents(tx) = <<>>
    BY <1>1, ContentsAre DEF IInv, TypeOK
<1> QED BY <1>2 DEF Init, RxQ, Hand, TxQ, Queues!QInit

\* Every step of Uart is a step of the queues or leaves them alone.
LEMMA QueueNext == IInv /\ [Next]_vars => [Queues!QNext]_(Queues!qvars)
<1> SUFFICES ASSUME IInv, [Next]_vars
             PROVE  Queues!QNext \/ UNCHANGED Queues!qvars
    OBVIOUS
<1>1. CASE Interrupt
    BY <1>1, ReceiveStep, SendStep DEF Interrupt, Queues!QNext
<1>2. CASE Main
    <2>1. CASE PollRead
        BY <2>1, TakeStep DEF Queues!QNext
    <2>2. CASE \E b \in Byte : OwnByte(b)
        BY <2>2, OwnStep DEF Queues!QNext
    <2>3. CASE PutAdvance
        BY <2>3, PutStep DEF Queues!QNext
    <2>4. CASE PollAdvance \/ PutStore \/ PutEnable
        BY <2>4, SilentSteps
    <2> QED BY <1>2, <2>1, <2>2, <2>3, <2>4 DEF Main, PutByte
<1>3. CASE ShiftOut \/ UNCHANGED vars
    BY <1>3, SilentSteps
<1> QED BY <1>1, <1>2, <1>3 DEF Next

\* Every behaviour of the two rings and their interrupts is one of two queues
\* with a byte in hand between them: bytes leave in the order they came in.
THEOREM PassesBytesOn == Spec => BytesInOrder
BY InitIInv, NextIInv, QueueInit, QueueNext, PTL DEF Spec, BytesInOrder, Queues!QSpec
==============================================================================
