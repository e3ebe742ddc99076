---------------------------- MODULE InfraredProofs ----------------------------
(***************************************************************************)
(* Proofs about Infrared, for every length of time[], every number of      *)
(* clusters, size of packets and set of timings.  Nothing is used of what  *)
(* the clusters are.                                                       *)
(***************************************************************************)
EXTENDS Infrared, SequenceTheorems, TLAPS

IsSeq(s) == \E S : s \in Seq(S)

-----------------------------------------------------------------------------
(* The recording *)

\* Where the recording is, how long it can be there, and that it is even when
\* it is complete.  Only a single edge can come between the decision to listen
\* again and its execution.
Recording ==
    /\ state \in {"ready", "listen", "done"} /\ at \in Places /\ hit \in BOOLEAN
    /\ silent \in BOOLEAN /\ clean \in BOOLEAN /\ timeout \in BOOLEAN
    /\ at \notin {"usb", "poll"} => mode # DISABLED
    /\ IsSeq(time) /\ Len(time) <= MAX_CODE_LENGTH
    /\ mode # DISABLED => time \in Seq(Nat)
    /\ state # "done" => Len(time) < MAX_CODE_LENGTH
    /\ at = "relisten" => Len(time) <= IF hit THEN 2 ELSE 1
    /\ at \in {"close", "zero"} => Len(time) > 1
    /\ at = "zero" => state = "done"
    /\ mode # DISABLED /\ state = "done" /\ at # "zero" => Len(time) > 1 /\ Len(time) % 2 = 0

LEMMA EmptyIs == IsSeq(<<>>) /\ <<>> \in Seq(Nat) /\ Len(<<>>) = 0
<1>1. <<>> \in Seq(Nat) /\ Len(<<>>) = 0
    OBVIOUS
<1> QED BY <1>1 DEF IsSeq

LEMMA SequenceIs == ASSUME NEW t \in Seq(Nat) PROVE IsSeq(t)
BY Zenon DEF IsSeq

\* Decoding halves a recording.
LEMMA DecodedIs ==
    ASSUME NEW t, IsSeq(t)
    PROVE  IsSeq(Decoded(t)) /\ Len(Decoded(t)) <= Len(t)
<1> DEFINE n == Len(t) \div 2
           e(i) == LET on == IrCluster(On(t), MAX_CLUSTERS)
                       off == IrCluster(Off(t), MAX_CLUSTERS)
                   IN  Pair(IrMinCluster(t[2 * i - 1], on), IrMinCluster(t[2 * i], off))
<1>1. Len(t) \in Nat
    BY DEF IsSeq
<1>2. n \in Nat /\ n <= Len(t)
    BY <1>1
<1>3. Decoded(t) = [i \in 1 .. n |-> e(i)]
    BY DEF Decoded
<1> HIDE DEF e, n
<1>4. [i \in 1 .. n |-> e(i)] \in Seq({e(i) : i \in 1 .. n}) /\ Len([i \in 1 .. n |-> e(i)]) = n
    BY <1>2
<1> QED BY <1>2, <1>3, <1>4 DEF IsSeq

\* A silence makes a recording even.
LEMMA ZeroedIs ==
    ASSUME time \in Seq(Nat), Len(time) > 1, Len(time) <= MAX_CODE_LENGTH
    PROVE  /\ Zeroed \in Seq(Nat) /\ Len(Zeroed) % 2 = 0
           /\ Len(Zeroed) = Len(time) + (Len(time) % 2) /\ Len(Zeroed) <= MAX_CODE_LENGTH
           /\ \A i \in 1 .. Len(Zeroed) - 1 : Zeroed[i] = time[i]
           /\ Zeroed[Len(Zeroed)] = 0
<1>1. Len(time) \in Nat /\ MAX_CODE_LENGTH \in Nat /\ MAX_CODE_LENGTH % 2 = 0
    BY InfraredAssumption
<1>2. CASE Len(time) % 2 = 0
    BY <1>1, <1>2 DEF Zeroed
<1>3. CASE Len(time) % 2 # 0
    <2>1. Len(time) % 2 = 1 /\ (Len(time) + 1) % 2 = 0 /\ Len(time) # MAX_CODE_LENGTH
        BY <1>1, <1>3
    <2>2. Zeroed = Append(time, 0)
        BY <1>3 DEF Zeroed
    <2>3. /\ Append(time, 0) \in Seq(Nat) /\ Len(Append(time, 0)) = Len(time) + 1
          /\ Append(time, 0)[Len(time) + 1] = 0
          /\ \A i \in 1 .. Len(time) : Append(time, 0)[i] = time[i]
        OBVIOUS
    <2>4. Len(Zeroed) = Len(time) + 1 /\ Len(Zeroed) % 2 = 0 /\ Len(Zeroed) <= MAX_CODE_LENGTH
        BY <1>1, <2>1, <2>2, <2>3
    <2> QED BY <1>1, <2>1, <2>2, <2>3, <2>4
<1> QED BY <1>2, <1>3

LEMMA RecordingInit == Init => Recording
<1> SUFFICES ASSUME Init PROVE Recording
    OBVIOUS
<1>1. /\ state = "ready" /\ at = "usb" /\ mode = RECEIVE /\ time = <<>>
      /\ hit = FALSE /\ silent = FALSE /\ clean = FALSE /\ timeout = FALSE
    BY DEF Init
<1>2. IsSeq(time) /\ time \in Seq(Nat) /\ Len(time) = 0
    BY <1>1, EmptyIs
<1>3. Len(time) <= MAX_CODE_LENGTH /\ Len(time) < MAX_CODE_LENGTH
    BY <1>2, InfraredAssumption
<1> QED BY <1>1, <1>2, <1>3 DEF Recording, Places

\* The interrupt stores only while there is room.
LEMMA RecordingEdge ==
    ASSUME Recording, NEW value \in Nat, Edge(value)
    PROVE  Recording'
<1>1. time \in Seq(Nat) /\ Len(time) \in Nat
    BY DEF Recording, Edge
<1>2. MAX_CODE_LENGTH \in Nat /\ MAX_CODE_LENGTH > 2 /\ MAX_CODE_LENGTH % 2 = 0
    BY InfraredAssumption
<1>3. hit' \in BOOLEAN /\ silent' \in BOOLEAN /\ clean' \in BOOLEAN /\ timeout' \in BOOLEAN
    BY Zenon DEF Edge, Recording
<1>4. mode # DISABLED /\ mode' = mode /\ at' = at /\ at \in Places
    BY DEF Edge, Recording
<1>5. CASE state = "done"
    <2>1. time' = time /\ state' = state /\ IsSeq(time)
        BY <1>5 DEF Edge, Recording
    <2>2. at = "relisten" => Len(time) <= IF hit' THEN 2 ELSE 1
        BY <1>1 DEF Edge, Recording
    <2> QED BY <1>1, <1>2, <1>3, <1>4, <1>5, <2>1, <2>2 DEF Recording, IsSeq
<1>6. CASE state # "done"
    <2>1. time' = time \/ time' = Append(time, value)
        BY <1>6 DEF Edge
    <2>2. time' \in Seq(Nat) /\ Len(time') \in Nat /\ Len(time') <= Len(time) + 1
          /\ Len(time') >= Len(time)
        BY <1>1, <2>1
    <2>3. Len(time) < MAX_CODE_LENGTH /\ Len(time') <= MAX_CODE_LENGTH
        BY <1>1, <1>2, <1>6, <2>2 DEF Recording
    <2>4. state' \in {"listen", "done"}
          /\ (state' = "done" => Len(time') = MAX_CODE_LENGTH)
          /\ (state' = "listen" => (state = "ready" /\ time' = time) \/ Len(time') # MAX_CODE_LENGTH)
        BY <1>6 DEF Edge, Recording, Stores
    <2>5. at = "relisten" => ~hit /\ hit'
        BY DEF Edge
    <2>6. at = "relisten" => Len(time') <= IF hit' THEN 2 ELSE 1
        BY <1>1, <2>2, <2>5 DEF Recording
    <2>7. at # "zero"
        BY <1>6 DEF Recording
    <2>8. at = "close" => Len(time') > 1
        BY <1>1, <2>2 DEF Recording
    <2> QED BY <1>2, <1>3, <1>4, <2>2, <2>3, <2>4, <2>6, <2>7, <2>8 DEF Recording, IsSeq
<1> QED BY <1>5, <1>6

LEMMA RecordingSilence == Recording /\ Silence => Recording'
BY DEF Recording, Silence, irVars

\* A recording begins empty.
LEMMA RecordingUsb ==
    ASSUME Recording, UsbPoll, hit' = FALSE
    PROVE  Recording'
<1>1. at = "usb" /\ at' = "poll" /\ at' \in Places
    BY DEF UsbPoll, Places
<1>2. CASE UNCHANGED <<irVars, timeout, lineVars>>
    BY <1>1, <1>2 DEF Recording, irVars, lineVars
<1>3. CASE \E m \in 0 .. RECEIVE + 1 : m <= RECEIVE /\ SetMode(m)
    <2>1. PICK m \in 0 .. RECEIVE + 1 : m <= RECEIVE /\ SetMode(m)
        BY <1>3
    <2>2. IrSetMode(m)
        BY <2>1 DEF SetMode
    <2>3. timeout' \in BOOLEAN
        BY <2>2, Zenon DEF IrSetMode, Recording
    <2>4. NewHistory \/ UNCHANGED lineVars
        BY <2>1 DEF SetMode
    <2>5. silent' \in BOOLEAN /\ clean' \in BOOLEAN
        BY <2>4, Zenon DEF NewHistory, lineVars, Recording
    <2>6. 0 <= MAX_CODE_LENGTH /\ 0 < MAX_CODE_LENGTH
        BY InfraredAssumption
    <2>7. CASE mode = DISABLED /\ m # DISABLED
        <3>1. time' = <<>> /\ state' = "ready"
            BY <2>2, <2>7 DEF IrSetMode
        <3>2. IsSeq(time') /\ time' \in Seq(Nat) /\ Len(time') = 0
            BY <3>1, EmptyIs
        <3> QED BY <1>1, <2>3, <2>5, <2>6, <3>1, <3>2 DEF Recording
    <2>8. CASE ~(mode = DISABLED /\ m # DISABLED)
        BY <1>1, <2>2, <2>3, <2>5, <2>8 DEF IrSetMode, Recording, IsSeq
    <2> QED BY <2>7, <2>8
<1>4. ASSUME NEW m \in 0 .. RECEIVE + 1, SetMode(m), ~(m <= RECEIVE)
      PROVE  UNCHANGED <<irVars, timeout, lineVars>>
    BY <1>4 DEF SetMode
<1>5. ASSUME Read \/ NextBlock
      PROVE  UNCHANGED <<irVars, timeout, lineVars>>
    BY <1>5 DEF Read, NextBlock
<1> QED BY <1>2, <1>3, <1>4, <1>5 DEF UsbPoll

\* ir_poll ends a recording in two steps, and works on it in one.
LEMMA RecordingPoll ==
    ASSUME Recording, IrPoll, hit' = FALSE
    PROVE  Recording'
<1>1. MAX_CODE_LENGTH \in Nat /\ MAX_CODE_LENGTH > 2
    BY InfraredAssumption
<1>2. IsSeq(time) /\ Len(time) \in Nat
    BY DEF Recording, IsSeq
<1>3. CASE Poll
    <2>1. timeout' \in BOOLEAN
        BY <1>3, Zenon DEF Poll, Recording
    <2> QED BY <1>3, <2>1 DEF Poll, Goto, Recording, irVars, lineVars, Places
<1>4. CASE Decide
    <2>1. at' = (IF Len(time) > 1 THEN "close" ELSE "relisten") /\ mode # DISABLED
        BY <1>4 DEF Decide, Goto, Recording
    <2>2. at' \in Places /\ at' # "zero" /\ (at' = "close" => Len(time) > 1)
          /\ (at' = "relisten" => Len(time) <= 1)
        BY <1>2, <2>1 DEF Places
    <2>3. UNCHANGED <<irVars, timeout, lineVars>>
        BY <1>4 DEF Decide
    <2> QED BY <1>4, <2>1, <2>2, <2>3 DEF Decide, Recording, irVars, lineVars
<1>5. CASE Relisten
    <2>1. state' = "ready" /\ at' = "state" /\ UNCHANGED <<mode, time, timeout, lineVars>>
        BY <1>5 DEF Relisten, Goto
    <2>2. Len(time) < MAX_CODE_LENGTH
        BY <1>1, <1>2, <1>5 DEF Relisten, Recording
    <2> QED BY <2>1, <2>2, <1>5 DEF Relisten, Recording, lineVars, Places
<1>6. CASE Close /\ at = "close"
    BY <1>2, <1>6 DEF Close, Goto, Recording, lineVars, Places
<1>7. CASE Close /\ at = "zero"
    <2>1. time \in Seq(Nat) /\ Len(time) > 1 /\ Len(time) <= MAX_CODE_LENGTH
        BY <1>7 DEF Recording
    <2>2. /\ time' \in Seq(Nat) /\ Len(time') % 2 = 0
          /\ Len(time') > 1 /\ Len(time') <= MAX_CODE_LENGTH
        BY <1>2, <1>7, <2>1, ZeroedIs DEF Close
    <2>3. state' = "done" /\ at' = "state" /\ mode' = mode
          /\ UNCHANGED <<timeout, lineVars>>
        BY <1>7 DEF Close, Goto, Recording
    <2>4. IsSeq(time')
        BY <2>2, SequenceIs
    <2>5. mode' # DISABLED
        BY <1>7, <2>3 DEF Recording
    <2> QED BY <2>2, <2>3, <2>4, <2>5 DEF Recording, lineVars, Places
<1>8. CASE Process
    <2>1. at' = "usb"
        BY <1>8 DEF Process
    <2>2. CASE state # "done"
        BY <1>8, <2>1, <2>2 DEF Process, Recording, irVars, lineVars, Places
    <2>3. CASE state = "done"
        <3>1. silent' = silent /\ clean' = FALSE /\ (Received \/ Kept)
            BY <1>8, <2>3 DEF Process
        <3>2. 0 <= MAX_CODE_LENGTH /\ 0 < MAX_CODE_LENGTH
            BY <1>1
        <3>3. CASE Received
            <4>1. time' = <<>> /\ state' = "ready" /\ UNCHANGED <<mode, timeout>>
                BY <3>3 DEF Received
            <4>2. IsSeq(time') /\ time' \in Seq(Nat) /\ Len(time') = 0
                BY <4>1, EmptyIs
            <4> QED BY <2>1, <3>1, <3>2, <4>1, <4>2 DEF Recording, Places
        <3>4. CASE Kept
            <4>1. IsSeq(time') /\ Len(time') <= Len(time) /\ Len(time') \in Nat
                BY <1>2, <3>4, DecodedIs DEF Kept, IsSeq
            <4>2. Len(time') <= MAX_CODE_LENGTH
                BY <1>1, <1>2, <4>1 DEF Recording
            <4> QED BY <2>1, <2>3, <3>1, <3>4, <4>1, <4>2 DEF Kept, Recording, Places
        <3> QED BY <3>1, <3>3, <3>4
    <2> QED BY <2>2, <2>3
<1> QED BY <1>3, <1>4, <1>5, <1>6, <1>7, <1>8 DEF IrPoll, Close

LEMMA RecordingNext == Recording /\ [Next]_vars => Recording'
<1> SUFFICES ASSUME Recording, [Next]_vars PROVE Recording'
    OBVIOUS
<1>1. CASE Loop
    BY <1>1, RecordingUsb, RecordingPoll DEF Loop
<1>2. CASE Line
    <2>1. Pulses \subseteq Nat /\ Pauses \subseteq Nat
        BY InfraredAssumption
    <2> QED BY <1>2, <2>1, RecordingSilence, RecordingEdge DEF Line
<1>3. CASE TakeBlock
    BY <1>3 DEF TakeBlock, Recording, irVars, lineVars
<1>4. CASE UNCHANGED vars
    BY <1>4 DEF vars, Recording, irVars, lineVars
<1> QED BY <1>1, <1>2, <1>3, <1>4 DEF Next

\* A recording never runs past the end of time[], whenever edges and timeouts
\* of ir.c meet ir_poll, for every even length of the array.
THEOREM Fits == Spec => []RecordingFits
<1>1. Recording => RecordingFits
    <2> SUFFICES ASSUME Recording PROVE RecordingFits
        OBVIOUS
    <2>1. at = "state" => mode # DISABLED
        BY DEF Recording
    <2> QED BY <2>1 DEF Recording, RecordingFits
<1> QED BY <1>1, RecordingInit, RecordingNext, PTL DEF Spec

-----------------------------------------------------------------------------
(* What is recorded *)

\* A clean recording is the burst until a silence makes it even.  When there
\* has been an edge since the silence it is not clean, so that the decision to
\* listen again never drops a part of a clean one.
Burst ==
    /\ burst \in Seq(Nat)
    /\ clean => mode # DISABLED
    /\ clean /\ Deciding => silent \/ state = "done"
    /\ clean /\ (state = "ready" \/ at = "relisten") => Len(time) <= 1
    /\ clean /\ state = "listen" => time = burst
    /\ clean /\ state = "done" /\ at # "state" =>
           time = burst /\ (at = "zero" \/ Len(burst) = MAX_CODE_LENGTH)
Exact == Burst /\ ExactRecording

LEMMA ExactInit == Init => Exact
BY EmptyIs DEF Init, Exact, Burst, ExactRecording

LEMMA ExactEdge ==
    ASSUME Recording, Exact, NEW value \in Nat, Edge(value)
    PROVE  Exact'
<1>1. time \in Seq(Nat) /\ burst \in Seq(Nat) /\ mode' = mode /\ mode # DISABLED
      /\ at' = at /\ (Deciding' <=> Deciding) /\ silent' = FALSE
    BY DEF Recording, Exact, Burst, Edge, Deciding
<1>2. Len(time) \in Nat /\ Len(burst) \in Nat /\ MAX_CODE_LENGTH \in Nat
      /\ MAX_CODE_LENGTH > 2
    BY <1>1, InfraredAssumption
<1>3. CASE state = "done"
    <2>1. UNCHANGED <<state, time, burst, clean>>
        BY <1>3 DEF Edge
    <2>2. clean => at # "relisten"
        BY <1>2, <1>3 DEF Exact, Burst
    <2> QED BY <1>1, <1>3, <2>1, <2>2 DEF Exact, Burst, ExactRecording
<1>4. CASE state = "ready"
    <2>1. clean' => time = <<>> /\ ~Deciding /\ silent
        BY <1>4 DEF Edge
    <2>2. time' = time /\ burst' = <<>>
        BY <1>4, <2>1 DEF Edge, Stores
    <2>3. state' \in {"listen", "done"} /\ (state' = "done" => FALSE)
        BY <1>4 DEF Edge
    <2>4. clean' => Len(time') <= 1
        BY <2>1, <2>2, EmptyIs
    <2> QED BY <1>1, <2>1, <2>2, <2>3, <2>4, EmptyIs DEF Exact, Burst, ExactRecording
<1>5. CASE state = "listen"
    <2>1. time' = Append(time, value) /\ clean' = (clean /\ ~silent)
        BY <1>5 DEF Edge, Stores
    <2>2. state' = IF Len(time') = MAX_CODE_LENGTH THEN "done" ELSE "listen"
        BY <1>5 DEF Edge
    <2>3. burst' = IF clean' /\ ~silent THEN Append(burst, value) ELSE <<>>
        BY <1>5 DEF Edge
    <2>4. CASE ~clean'
        <3>1. burst' = <<>>
            BY <2>3, <2>4
        <3> QED BY <2>4, <3>1, EmptyIs DEF Exact, Burst, ExactRecording
    <2>5. CASE clean'
        <3>1. clean /\ ~silent /\ time = burst /\ ~Deciding
            BY <1>5, <2>1, <2>5 DEF Exact, Burst
        <3>2. time' = burst' /\ burst' \in Seq(Nat)
            BY <1>1, <2>1, <2>3, <2>5, <3>1
        <3>3. at # "zero" /\ at # "relisten"
            BY <1>5, <3>1 DEF Recording, Deciding
        <3>4. state' = "done" => Len(burst') = MAX_CODE_LENGTH
            BY <2>2, <3>2
        <3>5. state' # "ready"
            BY <2>2
        <3>6. Burst'
            BY <1>1, <2>1, <2>2, <3>1, <3>2, <3>3, <3>4, <3>5 DEF Burst
        <3>7. ExactRecording'
            BY <3>2, <3>4, InfraredAssumption DEF ExactRecording
        <3> QED BY <3>6, <3>7 DEF Exact
    <2> QED BY <2>4, <2>5
<1> QED BY <1>3, <1>4, <1>5 DEF Recording

LEMMA ExactSilence == Recording /\ Exact /\ Silence => Exact'
BY DEF Recording, Exact, Burst, ExactRecording, Silence, irVars, Deciding

LEMMA ExactUsb ==
    ASSUME Exact, UsbPoll
    PROVE  Exact'
<1>1. at = "usb" /\ at' = "poll"
    BY DEF UsbPoll
<1>2. CASE UNCHANGED <<irVars, timeout, lineVars>>
    BY <1>1, <1>2 DEF Exact, Burst, ExactRecording, Deciding, irVars, lineVars
<1>3. ASSUME NEW m \in 0 .. RECEIVE + 1, SetMode(m), m <= RECEIVE
      PROVE  Exact'
    <2>1. CASE m = DISABLED \/ mode = DISABLED
        <3>1. clean' = FALSE /\ burst' = <<>>
            BY <1>3, <2>1 DEF SetMode, NewHistory
        <3> QED BY <3>1, EmptyIs DEF Exact, Burst, ExactRecording
    <2>2. CASE m # DISABLED /\ mode # DISABLED
        <3>1. mode' = m /\ UNCHANGED <<timeout, time, state, lineVars>>
            BY <1>3, <2>2 DEF SetMode, IrSetMode
        <3> QED BY <1>1, <2>2, <3>1 DEF Exact, Burst, ExactRecording, Deciding, lineVars
    <2> QED BY <2>1, <2>2
<1>4. ASSUME NEW m \in 0 .. RECEIVE + 1, SetMode(m), ~(m <= RECEIVE)
      PROVE  UNCHANGED <<irVars, timeout, lineVars>>
    BY <1>4 DEF SetMode
<1>5. ASSUME Read \/ NextBlock
      PROVE  UNCHANGED <<irVars, timeout, lineVars>>
    BY <1>5 DEF Read, NextBlock
<1> QED BY <1>2, <1>3, <1>4, <1>5 DEF UsbPoll

LEMMA ExactPoll ==
    ASSUME Recording, Exact, IrPoll
    PROVE  Exact'
<1>1. MAX_CODE_LENGTH \in Nat /\ MAX_CODE_LENGTH > 2
    BY InfraredAssumption
<1>2. Len(time) \in Nat /\ burst \in Seq(Nat)
    BY DEF Recording, IsSeq, Exact, Burst
<1>3. CASE Poll
    <2>1. at = "poll" /\ at' \in {"usb", "timeout", "state"} /\ UNCHANGED <<irVars, lineVars>>
        BY <1>3 DEF Poll, Goto
    <2>2. Deciding' => Deciding
        BY <1>3 DEF Poll, Goto, Deciding
    <2>3. Burst'
        BY <2>1, <2>2 DEF Exact, Burst, irVars, lineVars
    <2>4. clean /\ state = "done" => ExactRecording'
        BY <2>1, InfraredAssumption DEF Exact, Burst, ExactRecording, irVars, lineVars
    <2>5. ExactRecording'
        BY <2>1, <2>4 DEF ExactRecording, irVars, lineVars
    <2> QED BY <2>3, <2>5 DEF Exact
<1>4. CASE Decide
    <2>1. at' = (IF Len(time) > 1 THEN "close" ELSE "relisten") /\ at = "timeout"
          /\ UNCHANGED <<irVars, timeout, lineVars>>
        BY <1>4 DEF Decide, Goto
    <2>2. Deciding
        BY <2>1 DEF Deciding
    <2>3. at' = "relisten" => Len(time) <= 1
        BY <1>2, <2>1
    <2> QED BY <2>1, <2>2, <2>3 DEF Exact, Burst, ExactRecording, Deciding, irVars, lineVars
<1>5. CASE Relisten
    <2>1. at = "relisten" /\ at' = "state" /\ state' = "ready"
          /\ UNCHANGED <<mode, time, timeout, lineVars>>
        BY <1>5 DEF Relisten, Goto
    <2>2. clean => state # "done"
        BY <1>1, <1>2, <2>1 DEF Exact, Burst
    <2>3. clean => silent
        BY <2>1, <2>2 DEF Exact, Burst, Deciding
    <2> QED BY <2>1, <2>3 DEF Exact, Burst, ExactRecording, lineVars
<1>6. CASE Close /\ at = "close"
    <2>1. state' = "done" /\ at' = "zero" /\ UNCHANGED <<mode, time, timeout, lineVars>>
        BY <1>6 DEF Close, Goto
    <2>2. Len(time) > 1
        BY <1>6 DEF Recording
    <2>3. clean => time = burst
        BY <1>2, <1>6, <2>2 DEF Exact, Burst, Recording
    <2> QED BY <2>1, <2>3 DEF Exact, Burst, ExactRecording, lineVars
<1>7. CASE Close /\ at = "zero"
    <2>1. time' = Zeroed /\ at' = "state" /\ UNCHANGED <<mode, state, timeout, lineVars>>
        BY <1>7 DEF Close, Goto
    <2>2. time \in Seq(Nat) /\ Len(time) > 1 /\ Len(time) <= MAX_CODE_LENGTH
          /\ state = "done"
        BY <1>7 DEF Recording
    <2>3. clean => time = burst
        BY <1>7, <2>2 DEF Exact, Burst
    <2>4. ExactRecording'
        BY <2>1, <2>2, <2>3, ZeroedIs DEF ExactRecording, lineVars
    <2>5. Burst'
        BY <2>1, <2>2 DEF Exact, Burst, lineVars
    <2> QED BY <2>4, <2>5 DEF Exact
<1>8. CASE Process
    <2>1. CASE state = "done"
        <3>1. clean' = FALSE /\ burst' = <<>>
            BY <1>8, <2>1 DEF Process
        <3> QED BY <3>1, EmptyIs DEF Exact, Burst, ExactRecording
    <2>2. CASE state # "done"
        <3>1. at' = "usb" /\ at = "state" /\ UNCHANGED <<irVars, timeout, lineVars>>
            BY <1>8, <2>2 DEF Process
        <3> QED BY <2>2, <3>1 DEF Exact, Burst, ExactRecording, Deciding, irVars, lineVars
    <2> QED BY <2>1, <2>2
<1> QED BY <1>3, <1>4, <1>5, <1>6, <1>7, <1>8 DEF IrPoll, Close

LEMMA ExactNext == Recording /\ Exact /\ [Next]_vars => Exact'
<1> SUFFICES ASSUME Recording, Exact, [Next]_vars PROVE Exact'
    OBVIOUS
<1>1. CASE Loop
    BY <1>1, ExactUsb, ExactPoll DEF Loop
<1>2. CASE Line
    <2>1. Pulses \subseteq Nat /\ Pauses \subseteq Nat
        BY InfraredAssumption
    <2> QED BY <1>2, <2>1, ExactSilence, ExactEdge DEF Line
<1>3. CASE TakeBlock
    BY <1>3 DEF TakeBlock, Exact, Burst, ExactRecording, Deciding, irVars, lineVars
<1>4. CASE UNCHANGED vars
    BY <1>4 DEF vars, Exact, Burst, ExactRecording, Deciding, irVars, lineVars
<1> QED BY <1>1, <1>2, <1>3, <1>4 DEF Next

\* A recording that began with a code holds the durations of that code, in
\* place, up to the pause of 0 that ir_poll puts at its end.
THEOREM RecordsCode == Spec => []ExactRecording
<1>1. Exact => ExactRecording
    BY DEF Exact
<1> QED BY <1>1, RecordingInit, RecordingNext, ExactInit, ExactNext, PTL DEF Spec

-----------------------------------------------------------------------------
(* What is read *)

\* A sequence is the part of another that follows its first n elements.
Part(t, whole, n) == IsSeq(t) /\ \A i \in 1 .. Len(t) : t[i] = whole[n + i]

\* The host has the first part of the recording, the packet that waits for it
\* is the next one, and the pointer stands behind that; as long as it reads the
\* receiver stays turned off.  The last packet is the one that is not full.
Reading ==
    /\ IsSeq(wanted) /\ pending \in BOOLEAN /\ reading \in BOOLEAN
    /\ usbMsgPtr \in Nat /\ usbMsgLen \in Nat \cup {NO_MSG}
    /\ reading /\ wanted # <<>> => mode = DISABLED /\ wanted = time
    /\ Part(got, wanted, 0) /\ Len(got) <= Len(wanted)
    /\ ~reading => usbMsgLen = NO_MSG /\ got = wanted
    /\ reading /\ pending =>
           /\ Part(usbTxBuf, wanted, Len(got))
           /\ usbMsgPtr = Len(got) + Len(usbTxBuf) /\ usbMsgPtr <= Len(wanted)
           /\ usbMsgLen = NO_MSG <=> Len(usbTxBuf) # CHUNK
    /\ reading /\ ~pending => usbMsgPtr = Len(got) /\ usbMsgLen # NO_MSG
    /\ reading => usbMsgPtr + usbMsgLen = Len(wanted) + (IF usbMsgLen = NO_MSG THEN NO_MSG ELSE 0)

LEMMA ReadingInit == Init => Reading
<1> SUFFICES ASSUME Init PROVE Reading
    OBVIOUS
<1>1. /\ wanted = <<>> /\ got = <<>> /\ reading = FALSE /\ pending = FALSE
      /\ usbMsgPtr = 0 /\ usbMsgLen = NO_MSG
    BY DEF Init
<1>2. IsSeq(wanted) /\ Part(got, wanted, 0) /\ Len(got) <= Len(wanted)
    BY <1>1, EmptyIs DEF Part
<1> QED BY <1>1, <1>2 DEF Reading

\* A packet is the next part of the recording.
LEMMA BlockIs ==
    ASSUME NEW t, IsSeq(t), NEW p \in Nat, NEW n \in Nat, p + n <= Len(t)
    PROVE  /\ Part(SubSeq(t, p + 1, p + n), t, p)
           /\ Len(SubSeq(t, p + 1, p + n)) = n
<1>1. PICK S : t \in Seq(S)
    BY DEF IsSeq
<1>2. \A i \in p + 1 .. p + n : t[i] \in S
    BY <1>1
<1> DEFINE b == SubSeq(t, p + 1, p + n)
<1>3. /\ b \in Seq(S)
      /\ Len(b) = IF p + 1 <= p + n THEN p + n - (p + 1) + 1 ELSE 0
      /\ \A i \in 1 .. p + n - (p + 1) + 1 : b[i] = t[p + 1 + i - 1]
    BY <1>2, SubSeqProperties
<1> HIDE DEF b
<1>4. Len(b) = n /\ IsSeq(b)
    BY <1>3 DEF IsSeq
<1>5. \A i \in 1 .. n : b[i] = t[p + i]
    BY <1>3
<1> QED BY <1>4, <1>5 DEF Part, b

\* A part and the part that follows make one.
LEMMA PartsJoin ==
    ASSUME NEW t, NEW u, NEW whole, Part(t, whole, 0), Part(u, whole, Len(t))
    PROVE  Part(t \o u, whole, 0) /\ Len(t \o u) = Len(t) + Len(u)
<1>1. PICK S, T : t \in Seq(S) /\ u \in Seq(T)
    BY DEF Part, IsSeq
<1>2. t \in Seq(S \cup T) /\ u \in Seq(S \cup T)
    BY <1>1
<1>3. /\ t \o u \in Seq(S \cup T) /\ Len(t \o u) = Len(t) + Len(u)
      /\ \A i \in 1 .. Len(t) + Len(u) :
             (t \o u)[i] = IF i <= Len(t) THEN t[i] ELSE u[i - Len(t)]
    BY <1>2, ConcatProperties
<1>4. Len(t) \in Nat /\ Len(u) \in Nat
    BY <1>1
<1>5. ASSUME NEW i \in 1 .. Len(t) + Len(u) PROVE (t \o u)[i] = whole[0 + i]
    <2>1. CASE i <= Len(t)
        BY <1>3, <1>4, <2>1 DEF Part
    <2>2. CASE ~(i <= Len(t))
        <3>1. i - Len(t) \in 1 .. Len(u) /\ Len(t) + (i - Len(t)) = i
            BY <1>4, <2>2
        <3> QED BY <1>3, <1>4, <2>2, <3>1 DEF Part
    <2> QED BY <2>1, <2>2
<1>6. IsSeq(t \o u)
    BY <1>3 DEF IsSeq
<1> QED BY <1>3, <1>5, <1>6 DEF Part

\* A part from the beginning on that is as long as the whole is all of it.
LEMMA PartIsWhole ==
    ASSUME NEW t, NEW whole, IsSeq(whole), Part(t, whole, 0), Len(t) = Len(whole)
    PROVE  t = whole
<1>1. PICK S, T : t \in Seq(S) /\ whole \in Seq(T)
    BY DEF Part, IsSeq
<1>2. \A i \in 1 .. Len(t) : t[i] = whole[i]
    BY <1>1 DEF Part
<1> QED BY <1>1, <1>2

\* The next packet, if all of the recording is still there.
LEMMA ReadingBlock ==
    ASSUME NEW p \in Nat, NEW n \in Nat, BuildTxBlock(p, n), IsSeq(wanted'),
           wanted' = time \/ (p = 0 /\ n = 0), p + n = Len(wanted'),
           Part(got', wanted', 0), Len(got') = p, reading' = TRUE,
           wanted' # <<>> => mode' = DISABLED /\ wanted' = time'
    PROVE  Reading'
<1> DEFINE c == IF n < CHUNK THEN n ELSE CHUNK
<1>1. CHUNK \in Nat
    BY InfraredAssumption
<1>2. c \in Nat /\ c <= n
    BY <1>1
<1>3. /\ usbTxBuf' = SubSeq(time, p + 1, p + c) /\ pending' = TRUE /\ usbMsgPtr' = p + c
      /\ usbMsgLen' = IF c < CHUNK THEN NO_MSG ELSE n - c
    BY DEF BuildTxBlock
<1>4. c = CHUNK \/ (c = n /\ c < CHUNK)
    BY <1>1
<1> HIDE DEF c
<1>5. Part(usbTxBuf', wanted', p) /\ Len(usbTxBuf') = c
    <2>1. CASE wanted' = time
        <3>1. Part(SubSeq(time, p + 1, p + c), time, p) /\ Len(SubSeq(time, p + 1, p + c)) = c
            <4>1. p + c <= Len(time) /\ IsSeq(time)
                BY <1>2, <2>1 DEF IsSeq
            <4> QED BY <1>2, <4>1, BlockIs
        <3> QED BY <1>3, <2>1, <3>1
    <2>2. CASE p = 0 /\ n = 0
        <3>1. c = 0
            BY <1>2, <2>2
        <3>2. SubSeq(time, 0 + 1, 0 + 0) = <<>>
            BY SubSeqEmpty
        <3>3. usbTxBuf' = <<>>
            BY <1>3, <2>2, <3>1, <3>2
        <3>4. Part(<<>>, wanted', p)
            BY EmptyIs DEF Part
        <3> QED BY <3>1, <3>3, <3>4, EmptyIs
    <2> QED BY <2>1, <2>2
<1>6. Len(wanted') \in Nat
    BY DEF IsSeq
<1>7. /\ usbMsgPtr' \in Nat /\ usbMsgLen' \in Nat \cup {NO_MSG}
      /\ usbMsgLen' = NO_MSG <=> c # CHUNK
      /\ usbMsgPtr' <= Len(wanted')
      /\ usbMsgPtr' + usbMsgLen' =
             Len(wanted') + (IF usbMsgLen' = NO_MSG THEN NO_MSG ELSE 0)
    BY <1>1, <1>2, <1>3, <1>4, <1>6 DEF NO_MSG
<1> QED BY <1>2, <1>3, <1>5, <1>6, <1>7 DEF Reading

LEMMA ReadingUsb ==
    ASSUME Recording, Reading, UsbPoll
    PROVE  Reading'
<1>1. IsSeq(time) /\ Len(time) \in Nat
    BY DEF Recording, IsSeq
<1>2. ASSUME NEW m \in 0 .. RECEIVE + 1, SetMode(m) PROVE Reading'
    <2>1. BuildTxBlock(0, 0) /\ got' = <<>> /\ wanted' = <<>> /\ reading' = FALSE
        BY <1>2 DEF SetMode
    <2>2. usbMsgLen' = NO_MSG /\ usbMsgPtr' = 0 /\ pending' = TRUE
        BY <2>1, InfraredAssumption DEF BuildTxBlock
    <2>3. IsSeq(wanted') /\ Part(got', wanted', 0) /\ Len(got') <= Len(wanted')
        BY <2>1, EmptyIs DEF Part
    <2> QED BY <2>1, <2>2, <2>3 DEF Reading
<1>3. CASE Read
    <2>1. /\ BuildTxBlock(0, IF mode = DISABLED THEN Len(time) ELSE 0)
          /\ got' = <<>> /\ reading' = TRUE /\ mode' = mode /\ time' = time
          /\ wanted' = IF mode = DISABLED THEN time ELSE <<>>
        BY <1>3 DEF Read, Readable, irVars
    <2>2. Part(<<>>, wanted', 0)
        BY EmptyIs DEF Part
    <2>3. CASE mode = DISABLED
        BY <1>1, <2>1, <2>2, <2>3, EmptyIs, ReadingBlock
    <2>4. CASE mode # DISABLED
        BY <1>1, <2>1, <2>2, <2>4, EmptyIs, ReadingBlock
    <2> QED BY <2>3, <2>4
<1>4. CASE NextBlock
    <2>1. mode' = mode /\ time' = time /\ UNCHANGED <<got, reading, wanted>>
        BY <1>4 DEF NextBlock, irVars
    <2>2. CASE ~pending /\ usbMsgLen # NO_MSG
        <3>1. BuildTxBlock(usbMsgPtr, usbMsgLen)
            BY <1>4, <2>2 DEF NextBlock
        <3>2. reading /\ usbMsgPtr \in Nat /\ usbMsgLen \in Nat /\ usbMsgPtr = Len(got)
              /\ usbMsgPtr + usbMsgLen = Len(wanted) /\ Len(wanted) \in Nat
            BY <2>2 DEF Reading, IsSeq, NO_MSG
        <3>3. wanted = time \/ (usbMsgPtr = 0 /\ usbMsgLen = 0)
            BY <3>2, EmptyIs DEF Reading
        <3>4. IsSeq(wanted) /\ Part(got, wanted, 0)
              /\ (wanted # <<>> => mode = DISABLED /\ wanted = time)
            BY <3>2 DEF Reading
        <3> QED BY <2>1, <3>1, <3>2, <3>3, <3>4, ReadingBlock
    <2>3. CASE ~(~pending /\ usbMsgLen # NO_MSG)
        BY <1>4, <2>1, <2>3 DEF NextBlock, Reading
    <2> QED BY <2>2, <2>3
<1> QED BY <1>2, <1>3, <1>4 DEF UsbPoll

LEMMA ReadingTake ==
    ASSUME Recording, Reading, TakeBlock
    PROVE  Reading'
<1>1. /\ reading /\ pending /\ got' = got \o usbTxBuf /\ pending' = FALSE
      /\ reading' = (Len(usbTxBuf) = CHUNK)
      /\ UNCHANGED <<mode, time, usbMsgPtr, usbMsgLen, wanted>>
    BY DEF TakeBlock, irVars
<1>2. Part(got', wanted, 0) /\ Len(got') = usbMsgPtr /\ usbMsgPtr <= Len(wanted)
    BY <1>1, PartsJoin DEF Reading
<1>3. reading' \in BOOLEAN
    BY <1>1, Zenon
<1>4. reading' <=> usbMsgLen # NO_MSG
    BY <1>1 DEF Reading
<1>5. ~reading' => got' = wanted
    <2> SUFFICES ASSUME ~reading' PROVE got' = wanted
        OBVIOUS
    <2>1. usbMsgPtr = Len(wanted)
        BY <1>1, <1>4 DEF Reading, NO_MSG, IsSeq
    <2> QED BY <1>2, <2>1, PartIsWhole DEF Reading
<1> QED BY <1>1, <1>2, <1>3, <1>4, <1>5 DEF Reading

\* While the host reads the receiver is turned off, so that ir_poll leaves the
\* recording alone.
LEMMA ReadingPoll == Recording /\ Reading /\ IrPoll => Reading'
<1> SUFFICES ASSUME Recording, Reading, IrPoll PROVE Reading'
    OBVIOUS
<1>1. UNCHANGED usbVars
    BY DEF IrPoll, Poll, Decide, Relisten, Close, Process, Goto
<1>2. CASE Poll \/ Decide \/ Relisten
    <2>1. mode' = mode /\ time' = time
        BY <1>2 DEF Poll, Decide, Relisten, irVars
    <2> QED BY <1>1, <2>1 DEF Reading, usbVars
<1>3. CASE Close \/ Process
    <2>1. mode # DISABLED
        BY <1>3 DEF Close, Process, Recording
    <2> QED BY <1>1, <2>1 DEF Reading, usbVars
<1> QED BY <1>2, <1>3 DEF IrPoll

LEMMA ReadingNext == Recording /\ Reading /\ [Next]_vars => Reading'
<1> SUFFICES ASSUME Recording, Reading, [Next]_vars PROVE Reading'
    OBVIOUS
<1>1. CASE Loop
    BY <1>1, ReadingUsb, ReadingPoll DEF Loop
<1>2. CASE Line
    <2>1. UNCHANGED usbVars /\ mode' = mode /\ mode # DISABLED
        BY <1>2 DEF Line, Edge, Silence, irVars
    <2> QED BY <2>1 DEF Reading, usbVars
<1>3. CASE TakeBlock
    BY <1>3, ReadingTake
<1>4. CASE UNCHANGED vars
    BY <1>4 DEF vars, irVars, usbVars, Reading
<1> QED BY <1>1, <1>2, <1>3, <1>4 DEF Next

\* What the host reads packet by packet is one recording, for every size of
\* packets and of recordings.
THEOREM ReadsRecording == Spec => []ReadIsRecording
<1>1. Reading => ReadIsRecording
    <2> SUFFICES ASSUME Reading PROVE IsPrefix(got, wanted) /\ (~reading => got = wanted)
        BY DEF ReadIsRecording
    <2>1. PICK S, T : got \in Seq(S) /\ wanted \in Seq(T)
        BY DEF Reading, Part, IsSeq
    <2>2. \A i \in 1 .. Len(got) : got[i] = wanted[i]
        BY <2>1 DEF Reading, Part
    <2>3. Len(got) <= Len(wanted) /\ Len(got) \in Nat
        BY <2>1 DEF Reading
    <2>4. SubSeq(got, 1, Len(got)) = got
        BY <2>1, SubSeqFull
    <2>5. /\ SubSeq(wanted, 1, Len(got)) \in Seq(T)
          /\ Len(SubSeq(wanted, 1, Len(got))) = Len(got)
          /\ \A i \in 1 .. Len(got) : SubSeq(wanted, 1, Len(got))[i] = wanted[i]
        BY <2>1, <2>3
    <2>6. SubSeq(wanted, 1, Len(got)) = got
        BY <2>1, <2>2, <2>3, <2>5
    <2> QED BY <2>3, <2>4, <2>6 DEF IsPrefix, Reading
<1> QED BY <1>1, RecordingInit, RecordingNext, ReadingInit, ReadingNext, PTL DEF Spec
===============================================================================
