---------------------------- MODULE SnooperProofs ----------------------------
(****************************************************************************)
(* Proofs about axistream_snooper.v on any bus that obeys AXI Stream, for   *)
(* any lengths of packets, any size of buffer and both builds: every safety *)
(* invariant of SnoopedBus.                                                 *)
(*                                                                          *)
(* A copy in progress (addr # 0) has its buffer and is not skipped, and the *)
(* delayed ready line is never high without the ready line.  So the address *)
(* can differ from the packet's beat only while the packet is being         *)
(* skipped, or once TLAST misled the snooper.                               *)
(****************************************************************************)
EXTENDS SnoopedBus, TLAPS

\* The wires may have the values they have, and the source is within its packet.
OnTheBus == MayCarry(bus) /\ beat < beats

\* A delayed ready line falls no later than the ready line.
DelayedReady == mem_ready_r => pessimistic /\ mem_ready /\ age >= 1

\* A copy in progress is not skipped and keeps its buffer.
Copying == addr # 0 => /\ mem_ready /\ (pessimistic => mem_ready_r)
                       /\ ~need_to_wait

\* How long a copy in progress has had its buffer.
Aged == /\ addr # 0 => age >= IF pessimistic THEN 2 ELSE 1
        /\ addr >= 2 => age >= 2

\* A packet that is skipped has begun; one that is not is copied beat by beat.
SkipsTheRest == need_to_wait => beat # 0
InPlace == misled \/ need_to_wait \/ addr = beat % 2^AddrWidth

IInv == TypeOK /\ OnTheBus /\ DelayedReady /\ Copying /\ Aged /\ SkipsTheRest /\ InPlace

-----------------------------------------------------------------------------

\* The remainder of a sum whose last term is below the divisor.
LEMMA RemainderOfSum ==
    ASSUME NEW n \in Nat \ {0}, NEW q \in Nat, NEW r \in 0..n-1
    PROVE  (n * q + r) % n = r
OBVIOUS

\* Counting modulo n is counting, modulo n.
LEMMA NextRemainder ==
    ASSUME NEW n \in Nat \ {0}, NEW b \in Nat
    PROVE  (b + 1) % n = ((b % n) + 1) % n
<1> DEFINE q == b \div n
           r == b % n
<1>1. q \in Nat /\ r \in 0..n-1 /\ b = n * q + r
  OBVIOUS
<1>2. CASE r + 1 < n
  <2>1. b + 1 = n * q + (r + 1) /\ r + 1 \in 0..n-1
    BY <1>1, <1>2
  <2>2. (b + 1) % n = r + 1
    BY <1>1, <2>1, RemainderOfSum
  <2> QED
    BY <1>1, <1>2, <2>2
<1>3. CASE r + 1 = n
  <2>1. b + 1 = n * (q + 1) + 0 /\ 0 \in 0..n-1 /\ q + 1 \in Nat
    BY <1>1, <1>3
  <2>2. (b + 1) % n = 0
    BY <2>1, RemainderOfSum
  <2> QED
    BY <1>3, <2>2
<1> QED
  BY <1>1, <1>2, <1>3

\* An address of a buffer counts up or starts again.
LEMMA NextAddress ==
    ASSUME NEW a \in BeatAddr
    PROVE  /\ (a + 1) % 2^AddrWidth \in BeatAddr
           /\ (a + 1) % 2^AddrWidth \in {0, a + 1}
           /\ a \in Nat
<1> DEFINE D == 2^AddrWidth
<1>1. D \in Nat \ {0} /\ BeatAddr = 0..D-1
  BY DepthAssumption DEF BeatAddr
<1> HIDE DEF D
<1>2. /\ (a + 1) % D \in 0..D-1
      /\ (a + 1) % D \in {0, a + 1}
      /\ a \in Nat
  BY <1>1
<1> QED
  BY <1>1, <1>2 DEF D

-----------------------------------------------------------------------------

\* The wires and the registers are bits.
LEMMA Bits ==
    ASSUME TypeOK
    PROVE  /\ bus.tvalid \in BOOLEAN /\ bus.tready \in BOOLEAN /\ bus.tlast \in BOOLEAN
           /\ pessimistic \in BOOLEAN /\ mem_ready \in BOOLEAN /\ mem_ready_r \in BOOLEAN
           /\ need_to_wait \in BOOLEAN /\ misled \in BOOLEAN
           /\ wr_en \in BOOLEAN /\ done \in BOOLEAN
BY SourceAssumption, ParamsAssumption
DEF TypeOK, SnooperTypeOK, Wires, wr_en, done, WrEn, SnooperDone, MemReadyInternal

\* The source stays within its packet.
LEMMA SourceStep ==
    ASSUME TypeOK, OnTheBus, Next
    PROVE  SourceTypeOK' /\ OnTheBus'
<1> USE DEF SourceTypeOK
<1>1. pkt' \in 0..PktIds-1
  BY SourceAssumption DEF TypeOK, Next, SourceClock
<1>2. /\ beats' \in MinBeats..MaxBeats /\ beat' \in 0..MaxBeats-1 /\ beat' < beats'
  <2>1. CASE Transfer(bus) /\ LastBeat
    BY <2>1, SourceAssumption DEF TypeOK, Next, SourceClock
  <2>2. CASE ~(Transfer(bus) /\ LastBeat)
    BY <2>2, SourceAssumption DEF TypeOK, OnTheBus, Next, SourceClock, LastBeat
  <2> QED
    BY <2>1, <2>2
<1>3. offered' \in BOOLEAN /\ MayCarry(bus)'
  BY DEF Next, SourceClock
<1> QED
  BY <1>1, <1>2, <1>3 DEF OnTheBus

\* The snooper's outputs, seen by what they need.
LEMMA Outputs ==
    ASSUME IInv
    PROVE  /\ wr_en => Transfer(bus) /\ mem_ready /\ ~need_to_wait
           /\ wr_en => (pessimistic => mem_ready_r)
           /\ done <=> wr_en /\ bus.tlast
           /\ Transfer(bus) => bus.tlast = LastBeat
           /\ Transfer(bus) /\ ~wr_en => need_to_wait \/ ~MemReadyInternal(mem_ready)
BY Bits DEF IInv, OnTheBus, DelayedReady, MayCarry, Transfer, wr_en, done, WrEn, SnooperDone,
            MemReadyInternal

\* One clock edge.
LEMMA IInvStep == ASSUME IInv, Next PROVE IInv'
<1>1. TypeOK /\ OnTheBus
  BY DEF IInv
<1>2. /\ need_to_wait' = NextNeedToWait(bus, mem_ready)
      /\ mem_ready_r' = (pessimistic /\ mem_ready /\ ~done)
      /\ addr' = IF done THEN 0 ELSE IF wr_en THEN (addr + 1) % 2^AddrWidth ELSE addr
      /\ pessimistic' = pessimistic
      /\ mem_ready /\ ~done => mem_ready'
      /\ age' = IF ~mem_ready \/ done THEN 0 ELSE IF age < 2 THEN age + 1 ELSE age
  BY DEF Next, SnooperClock, NextWrAddr, wr_en, done, MinJob
<1>3. addr \in BeatAddr /\ addr \in Nat /\ age \in 0..2
  BY <1>1, NextAddress DEF TypeOK, SnooperTypeOK, MinJob
<1>4. addr' \in {0, addr, addr + 1} /\ addr' \in BeatAddr
  <2>1. 0 \in BeatAddr
    BY DepthAssumption DEF BeatAddr
  <2> QED
    BY <2>1, <1>2, <1>3, NextAddress
<1>5. TypeOK'
  <2>1. SnooperTypeOK'
    BY <1>2, <1>4, <1>1, Bits DEF SnooperTypeOK, NextNeedToWait
  <2>2. mem_ready' \in BOOLEAN /\ misled' \in BOOLEAN /\ bus' \in BusWires
    BY DEF Next
  <2>3. pessimistic' \in Builds /\ age' \in 0..2
    BY <1>1, <1>2, <1>3 DEF TypeOK
  <2> QED
    BY <1>1, <2>1, <2>2, <2>3, SourceStep DEF TypeOK, MinJob
<1>6. OnTheBus'
  BY <1>1, SourceStep
<1>7. DelayedReady'
  <2> SUFFICES ASSUME mem_ready_r' PROVE pessimistic' /\ mem_ready' /\ age' >= 1
    BY DEF DelayedReady
  <2>1. pessimistic /\ mem_ready /\ ~done
    BY <1>2
  <2>2. age' = IF age < 2 THEN age + 1 ELSE age
    BY <2>1, <1>2
  <2> QED
    BY <2>1, <2>2, <1>2, <1>3
<1>8. Copying'
  <2> SUFFICES ASSUME addr' # 0
               PROVE  mem_ready' /\ (pessimistic' => mem_ready_r') /\ ~need_to_wait'
    BY DEF Copying
  <2>1. ~done /\ (wr_en \/ addr # 0)
    BY <1>2
  <2>2. mem_ready /\ MemReadyInternal(mem_ready) /\ ~need_to_wait
    BY <2>1 DEF IInv, Copying, MemReadyInternal, wr_en, WrEn, DelayedReady
  <2>3. ~need_to_wait'
    BY <2>2, <1>2 DEF NextNeedToWait
  <2>4. pessimistic' => mem_ready_r'
    BY <2>1, <2>2, <1>2
  <2> QED
    BY <2>1, <2>2, <2>3, <2>4, <1>2
<1>9. Aged'
  <2>1. CASE done
    BY <2>1, <1>2 DEF Aged
  <2>2. CASE wr_en /\ ~done
    <3>1. mem_ready /\ (pessimistic => age >= 1) /\ (addr # 0 => age >= 1)
      BY <2>2, Outputs DEF IInv, DelayedReady, Aged
    <3>2. addr' \in {0, addr + 1} /\ age' = IF age < 2 THEN age + 1 ELSE age
      BY <2>2, <3>1, <1>2, <1>3, NextAddress
    <3> QED
      BY <3>1, <3>2, <1>2, <1>3 DEF Aged
  <2>3. CASE ~wr_en
    <3>1. ~done /\ addr' = addr /\ (addr # 0 => mem_ready)
      BY <2>3, <1>2, Outputs DEF IInv, Copying
    <3> QED
      BY <3>1, <1>2, <1>3 DEF IInv, Aged
  <2> QED
    BY <2>1, <2>2, <2>3, Bits, <1>1
<1>10. SkipsTheRest'
  <2> SUFFICES ASSUME need_to_wait' PROVE beat' # 0
    BY DEF SkipsTheRest
  <2>1. ~bus.tlast /\ (Transfer(bus) \/ need_to_wait)
    BY <1>2 DEF NextNeedToWait, Transfer
  <2>2. ~(Transfer(bus) /\ LastBeat)
    BY <2>1, Outputs
  <2> QED
    BY <2>1, <2>2, <1>1 DEF IInv, SkipsTheRest, TypeOK, SourceTypeOK, Next, SourceClock
<1>11. InPlace'
  <2>1. CASE Transfer(bus) /\ LastBeat
    <3>1. beat' = 0 /\ 0 % 2^AddrWidth = 0
      BY <2>1, DepthAssumption DEF Next, SourceClock
    <3>2. addr' = 0
      BY <2>1, <1>2, Outputs, Bits, <1>1 DEF IInv, Copying, MemReadyInternal
    <3> QED
      BY <3>1, <3>2 DEF InPlace
  <2>2. CASE Transfer(bus) /\ ~LastBeat
    <3>1. beat' = beat + 1 /\ beat \in Nat /\ (misled => misled') /\ ~bus.tlast
      BY <2>2, <1>1, SourceAssumption, Outputs DEF Next, SourceClock, TypeOK, SourceTypeOK
    <3>2. CASE wr_en
      <4>1. ~done /\ ~need_to_wait /\ addr' = (addr + 1) % 2^AddrWidth
        BY <3>1, <3>2, <1>2, Outputs
      <4>2. (beat + 1) % 2^AddrWidth = ((beat % 2^AddrWidth) + 1) % 2^AddrWidth
        BY <3>1, DepthAssumption, NextRemainder
      <4>3. misled \/ addr = beat % 2^AddrWidth
        BY <4>1 DEF IInv, InPlace
      <4>4. CASE misled
        BY <4>4, <3>1 DEF InPlace
      <4>5. CASE addr = beat % 2^AddrWidth
        <5>1. addr' = (beat + 1) % 2^AddrWidth
          BY <4>1, <4>2, <4>5
        <5> QED
          BY <5>1, <3>1 DEF InPlace
      <4> QED
        BY <4>3, <4>4, <4>5
    <3>3. CASE ~wr_en
      <4>1. need_to_wait'
        BY <2>2, <3>1, <3>3, <1>2, Outputs DEF NextNeedToWait, Transfer
      <4> QED
        BY <4>1 DEF InPlace
    <3> QED
      BY <3>2, <3>3
  <2>3. CASE ~Transfer(bus)
    <3>1. beat' = beat /\ addr' = addr
      BY <2>3, <1>2, Outputs DEF Next, SourceClock
    <3>2. misled' = (misled \/ bus.tlast) /\ need_to_wait' = (need_to_wait /\ ~bus.tlast)
      BY <2>3, <1>1, <1>2, Bits DEF Next, NextNeedToWait, Transfer
    <3> QED
      BY <3>1, <3>2, <1>1, Bits DEF IInv, InPlace
  <2> QED
    BY <2>1, <2>2, <2>3
<1> QED
  BY <1>5, <1>6, <1>7, <1>8, <1>9, <1>10, <1>11 DEF IInv

\* The invariant holds at all times.
LEMMA Invariant == Spec => []IInv
<1>1. Init => IInv
  <2> SUFFICES ASSUME Init PROVE IInv
    OBVIOUS
  <2>1. addr = 0 /\ beat = 0 /\ 0 \in BeatAddr /\ 0 % 2^AddrWidth = 0
    BY DepthAssumption DEF Init, SnooperInit, SourceInit, BeatAddr
  <2>2. TypeOK
    <3>1. /\ pkt \in 0..PktIds-1 /\ beats \in MinBeats..MaxBeats /\ beat \in 0..MaxBeats-1
          /\ age \in 0..MinJob
      BY SourceAssumption DEF Init, SourceInit, MinJob
    <3>2. SnooperTypeOK /\ offered \in BOOLEAN /\ misled \in BOOLEAN
      BY <2>1 DEF Init, SourceInit, SnooperInit, SnooperTypeOK
    <3> QED
      BY <3>1, <3>2 DEF Init, TypeOK, SourceTypeOK
  <2>3. OnTheBus
    BY <2>1, SourceAssumption DEF Init, SourceInit, OnTheBus
  <2>4. DelayedReady /\ Copying /\ Aged /\ SkipsTheRest /\ InPlace
    BY <2>1 DEF Init, SnooperInit, DelayedReady, Copying, Aged, SkipsTheRest, InPlace
  <2> QED
    BY <2>2, <2>3, <2>4 DEF IInv
<1>2. IInv /\ UNCHANGED vars => IInv'
  BY DEF vars, IInv, TypeOK, SourceTypeOK, SnooperTypeOK, OnTheBus, MayCarry, LastBeat, DelayedReady,
         Copying, Aged, SkipsTheRest, InPlace
<1> QED
  BY <1>1, <1>2, IInvStep, PTL DEF Spec

-----------------------------------------------------------------------------

\* The registers of the snooper and the history keep their types, for every bus, size
\* of buffer and set of builds.
THEOREM SnooperTypes == Spec => []TypeOK
<1>1. IInv => TypeOK
  BY DEF IInv
<1> QED
  BY <1>1, Invariant, PTL

\* The snooper never writes to a buffer that is not its own, though in a PESSIMISTIC
\* build it looks at a ready line that is one cycle old.
THEOREM NeverWritesLate == Spec => []WritesOnlyWhenReady
<1>1. IInv => WritesOnlyWhenReady
  BY Outputs DEF WritesOnlyWhenReady
<1> QED
  BY <1>1, Invariant, PTL

\* A copy that was begun is complete when done is raised.
THEOREM CopiesAreWhole == Spec => []MissesNoBeat
<1>1. IInv => MissesNoBeat
  <2> SUFFICES ASSUME IInv, Transfer(bus), addr # 0 PROVE wr_en
    BY DEF MissesNoBeat
  <2> QED
    BY DEF IInv, Copying, Transfer, wr_en, WrEn, MemReadyInternal
<1> QED
  BY <1>1, Invariant, PTL

\* Skipping the rest of one packet does not spoil the next.
THEOREM EveryStartIsTaken == Spec => []TakesEveryStart
<1>1. IInv => TakesEveryStart
  BY DEF IInv, SkipsTheRest, TakesEveryStart, Transfer, wr_en, WrEn
<1> QED
  BY <1>1, Invariant, PTL

\* Every beat is written at the address of its place in the packet, unless TLAST was
\* high in a cycle without a transfer.
THEOREM CopiesInPlace == Spec => []CopiesUnlessMisled
<1>1. IInv => CopiesUnlessMisled
  BY Outputs DEF IInv, InPlace, CopiesUnlessMisled
<1> QED
  BY <1>1, Invariant, PTL

\* What the dispatcher's exclusion rests on holds of the snooper: a copy of two beats, three
\* without the delay, has had its buffer for two cycles when done is raised.
THEOREM JobsAreLongEnough == Spec => []KeepsJobLongEnough
<1>1. IInv => KeepsJobLongEnough
  <2>1. ASSUME IInv PROVE addr \in Nat /\ age \in 0..2 /\ pessimistic \in BOOLEAN
    BY <2>1, Bits, NextAddress DEF IInv, TypeOK, SnooperTypeOK, MinJob
  <2> QED
    BY <2>1 DEF IInv, Aged, KeepsJobLongEnough, MinJob
<1> QED
  BY <1>1, Invariant, PTL
=============================================================================
