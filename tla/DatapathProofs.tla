--------------------------- MODULE DatapathProofs ---------------------------
(****************************************************************************)
(* Proofs about the data path of one packet filter, for any bus on which    *)
(* TLAST comes with a transfer, any packets that fit their buffers, buffers *)
(* of any size, both builds and any CPU that takes two cycles or more: each *)
(* buffer belongs to one agent, the multiplexers agree, packets stay in     *)
(* their buffers as they came, and the sink gets the accepted ones.         *)
(*                                                                          *)
(* The parts of the invariant are those of the dispatcher, the snooper and  *)
(* the forwarder, each in terms of the others instead of an environment,    *)
(* and what the buffers hold between them.  At the end, how the CPU reads   *)
(* the bytes of its buffer, for every size of the memory.                   *)
(****************************************************************************)
EXTENDS FilterDatapath, QueueProofs

\* A buffer as the read size adapter sees it, byte by byte.
CONSTANTS Byte, Words
VARIABLES mem, bigword, sz_r, offset_r, resized_mem_data_r, request, earlier
Reads == INSTANCE ReadSize

\* Every beat of the source is a word the buffers can hold.
BeatsFit == [pkt : 0..PktIds-1, n : 0..MaxBeats-1] \subseteq Data

\* The source is within a packet of a length of this build.
WithinPacket == pessimistic \in Builds /\ beat < beats /\ LongEnough

TypeInv == TypeOK /\ WithinPacket

\* Addresses of beats and of half beats.
LEMMA Addresses ==
    /\ 0 \in BeatAddr /\ 0 \in PortAddr
    /\ \A a \in BeatAddr : a \in Nat /\ 2 * a \in PortAddr /\ (a + 1) % 2^AddrWidth \in BeatAddr
                           /\ a < 2^AddrWidth
    /\ \A a \in PortAddr : a \in Nat /\ a \div 2 \in BeatAddr
                           /\ (a + 1) % 2^(AddrWidth + 1) \in PortAddr
    /\ \A a \in BeatAddr : /\ (2 * a) \div 2 = a /\ (2 * a) % 2 = 0
                           /\ (2 * a + 1) % 2^(AddrWidth + 1) = 2 * a + 1
                           /\ (2 * a + 1) \div 2 = a /\ (2 * a + 1) % 2 = 1
    /\ \A a \in Nat : a + 1 < 2^AddrWidth => (a + 1) % 2^AddrWidth = a + 1
    /\ \A a \in Nat : a < 2^AddrWidth => a \in BeatAddr
<1> DEFINE D == 2^AddrWidth
<1>1. D \in Nat \ {0} /\ BeatAddr = 0..D-1 /\ PortAddr = 0..2*D-1 /\ 2^(AddrWidth + 1) = 2 * D
  BY DepthAssumption DEF BeatAddr, PortAddr
<1> HIDE DEF D
<1>2. \A a \in 0..D-1 : a \in Nat /\ 2 * a \in 0..2*D-1 /\ (a + 1) % D \in 0..D-1 /\ a < D
  BY <1>1
<1>3. \A a \in 0..2*D-1 : a \in Nat /\ a \div 2 \in 0..D-1 /\ (a + 1) % (2 * D) \in 0..2*D-1
  BY <1>1
<1>4. \A a \in 0..D-1 : /\ (2 * a) \div 2 = a /\ (2 * a) % 2 = 0
                        /\ (2 * a + 1) % (2 * D) = 2 * a + 1
                        /\ (2 * a + 1) \div 2 = a /\ (2 * a + 1) % 2 = 1
  BY <1>1
<1>5. \A a \in Nat : a + 1 < D => (a + 1) % D = a + 1
  BY <1>1
<1>6. \A a \in Nat : a < D => a \in 0..D-1
  BY <1>1
<1>7. \A a \in BeatAddr : a \in Nat /\ 2 * a \in PortAddr /\ (a + 1) % 2^AddrWidth \in BeatAddr
                           /\ a < 2^AddrWidth
  BY <1>1, <1>2 DEF D
<1>8. \A a \in PortAddr : a \in Nat /\ a \div 2 \in BeatAddr
                           /\ (a + 1) % 2^(AddrWidth + 1) \in PortAddr
  BY <1>1, <1>3, Zenon
<1>9. \A a \in BeatAddr : /\ (2 * a) \div 2 = a /\ (2 * a) % 2 = 0
                           /\ (2 * a + 1) % 2^(AddrWidth + 1) = 2 * a + 1
                           /\ (2 * a + 1) \div 2 = a /\ (2 * a + 1) % 2 = 1
  BY <1>1, <1>4, Zenon
<1>10. /\ \A a \in Nat : a + 1 < 2^AddrWidth => (a + 1) % 2^AddrWidth = a + 1
       /\ \A a \in Nat : a < 2^AddrWidth => a \in BeatAddr
  BY <1>1, <1>5, <1>6 DEF D
<1>11. 0 \in BeatAddr /\ 0 \in PortAddr
  BY <1>1
<1> QED
  BY <1>7, <1>8, <1>9, <1>10, <1>11, Zenon

\* What a half of a beat reads as.
LEMMA Halves ==
    /\ \A d \in Data \cup {Zero}, h \in 0..1 : Half(d, h) \in HalfBeats
    /\ Zero \in HalfBeats
<1>1. Zero \in HalfBeats
  BY DEF HalfBeats
<1>2. ASSUME NEW d \in Data \cup {Zero}, NEW h \in 0..1
      PROVE  Half(d, h) \in HalfBeats
  <2>1. CASE d = Zero
    BY <1>1, <2>1 DEF Half
  <2>2. CASE d # Zero
    <3>1. d \in Data
      BY <2>2
    <3>2. Half(d, h) \in {Half(x, g) : x \in Data, g \in 0..1}
      BY <3>1
    <3> QED
      BY <3>2 DEF HalfBeats
  <2> QED
    BY <2>1, <2>2
<1> QED
  BY <1>1, <1>2

\* One clock edge of a buffer, whatever is on its inputs.
LEMMA RamTypes ==
    ASSUME NEW r \in RamType, NEW rst \in BOOLEAN,
           NEW port \in [addr : PortAddr, data : Data \cup {Zero}, wr_en : BOOLEAN, rd_en : BOOLEAN]
    PROVE  RamNext(r, port, rst) \in RamType
<1>1. /\ r.mem \in [BeatAddr -> Data \cup {Zero}] /\ r.len \in PortAddr
      /\ r.do \in HalfBeats \X HalfBeats
      /\ port.addr \in PortAddr /\ port.data \in Data \cup {Zero}
  BY DEF RamType
<1>2. \A a \in PortAddr : HalfAt(r.mem, a) \in HalfBeats
  <2> SUFFICES ASSUME NEW a \in PortAddr PROVE HalfAt(r.mem, a) \in HalfBeats
    OBVIOUS
  <2>1. a \in Nat /\ a \div 2 \in BeatAddr
    BY Addresses, Zenon
  <2>2. a % 2 \in 0..1
    BY <2>1
  <2> QED
    BY <1>1, <2>1, <2>2, Halves DEF HalfAt
<1>3. LenNext(r.len, port, rst) \in PortAddr
  BY <1>1, Addresses DEF LenNext
<1>4. [r.mem EXCEPT ![port.addr \div 2] = port.data] \in [BeatAddr -> Data \cup {Zero}]
  BY <1>1
<1>5. /\ HalfAt(r.mem, port.addr) \in HalfBeats
      /\ HalfAt(r.mem, (port.addr + 1) % 2^(AddrWidth + 1)) \in HalfBeats
  BY <1>1, <1>2, Addresses
<1> QED
  BY <1>1, <1>3, <1>4, <1>5 DEF RamNext, RamType

\* What an agent gets back from its buffer.
LEMMA Outputs ==
    ASSUME NEW sel \in Token, ram \in [Buffer -> RamType]
    PROVE  /\ sel # Nothing => OutputTo(sel) = [do |-> ram[sel].do, len |-> ram[sel].len]
           /\ sel = Nothing => OutputTo(sel) = NoOutput
           /\ OutputTo(sel).do \in HalfBeats \X HalfBeats /\ OutputTo(sel).len \in PortAddr
<1>1. /\ sel = Nothing => OutputTo(sel) = NoOutput
      /\ sel = Ping => OutputTo(sel) = [do |-> ram[Ping].do, len |-> ram[Ping].len]
      /\ sel = Pang => OutputTo(sel) = [do |-> ram[Pang].do, len |-> ram[Pang].len]
      /\ sel = Pung => OutputTo(sel) = [do |-> ram[Pung].do, len |-> ram[Pung].len]
  BY DEF OutputTo, Mux3, Nothing, Ping, Pang, Pung
<1>2. sel = Nothing \/ sel = Ping \/ sel = Pang \/ sel = Pung
  BY DEF Token, Buffer
<1>3. \A b \in Buffer : ram[b].do \in HalfBeats \X HalfBeats /\ ram[b].len \in PortAddr
  BY DEF RamType
<1>4. NoOutput.do \in HalfBeats \X HalfBeats /\ NoOutput.len \in PortAddr
  BY Addresses, Halves DEF NoOutput
<1> QED
  BY <1>1, <1>2, <1>3, <1>4 DEF Buffer

-----------------------------------------------------------------------------

\* What the CPU puts on its wires.
LEMMA CpuWires ==
    ASSUME pessimistic \in BOOLEAN, NEW cpu \in CpuMayDrive
    PROVE  /\ cpu.addr \in PortAddr /\ cpu.rd_en \in BOOLEAN
           /\ cpu.acc \in BOOLEAN /\ cpu.rej \in BOOLEAN /\ ~(cpu.acc /\ cpu.rej)
           /\ cpu.acc \/ cpu.rej => ready_for_cpu /\ cpu_age >= MinVerdict
<1>1. CASE cpu = Idle
  BY <1>1, Addresses DEF Idle
<1>2. ASSUME ready_for_cpu, NEW a \in CpuReads[pessimistic],
             cpu = [Idle EXCEPT !.addr = a, !.rd_en = TRUE]
      PROVE  /\ cpu.addr \in PortAddr /\ cpu.rd_en \in BOOLEAN
             /\ cpu.acc = FALSE /\ cpu.rej = FALSE
  <2>1. CpuReads[pessimistic] \subseteq PortAddr
    BY DatapathAssumption
  <2> QED
    BY <1>2, <2>1 DEF Idle
<1>3. ASSUME ready_for_cpu, cpu_age >= MinVerdict, NEW v \in BOOLEAN,
             cpu = [Idle EXCEPT !.acc = v, !.rej = ~v]
      PROVE  /\ cpu.addr \in PortAddr /\ cpu.rd_en \in BOOLEAN
             /\ cpu.acc = v /\ cpu.rej = ~v
  BY <1>3, Addresses DEF Idle
<1>4. \/ cpu = Idle
      \/ ready_for_cpu /\ \E a \in CpuReads[pessimistic] :
                              cpu = [Idle EXCEPT !.addr = a, !.rd_en = TRUE]
      \/ ready_for_cpu /\ cpu_age >= MinVerdict /\ \E v \in BOOLEAN :
                              cpu = [Idle EXCEPT !.acc = v, !.rej = ~v]
  BY DEF CpuMayDrive
<1> QED
  BY <1>1, <1>2, <1>3, <1>4

\* The wires of the bus, the registers and the wires between the modules are bits.
LEMMA Bits ==
    ASSUME TypeInv
    PROVE  /\ pessimistic \in BOOLEAN /\ need_to_wait \in BOOLEAN /\ mem_ready_r \in BOOLEAN
           /\ TVALID \in BOOLEAN /\ TLAST \in BOOLEAN /\ TLAST_r \in BOOLEAN /\ TREADY_r \in BOOLEAN
           /\ ready_for_forwarder_r \in BOOLEAN
           /\ ready_for_snooper \in BOOLEAN /\ ready_for_cpu \in BOOLEAN
           /\ ready_for_forwarder \in BOOLEAN
           /\ \A bus \in BusWires : /\ bus.tvalid \in BOOLEAN /\ bus.tready \in BOOLEAN
                                    /\ bus.tlast \in BOOLEAN
BY ParamsAssumption, SourceAssumption
DEF TypeInv, TypeOK, WithinPacket, SnooperTypeOK, ForwarderTypeOK, Wires,
    ready_for_snooper, ready_for_cpu, ready_for_forwarder

\* The agents' wires as the packet memory sees them.
LEMMA WireTypes ==
    ASSUME TypeInv, NEW bus \in BusWires, NEW TREADY \in BOOLEAN
    PROVE  /\ SnooperWires(bus).wr_en \in BOOLEAN /\ SnooperWires(bus).done \in BOOLEAN
           /\ ForwarderWires(TREADY).rd_en \in BOOLEAN /\ ForwarderWires(TREADY).done \in BOOLEAN
           /\ WrEn(bus, ready_for_snooper) \in BOOLEAN
           /\ RdEn(ready_for_forwarder, fwdIn.len, TREADY) \in BOOLEAN
           /\ ForwarderDone(TREADY) \in BOOLEAN
<1>1. WrEn(bus, ready_for_snooper) \in BOOLEAN
  BY Bits DEF WrEn, MemReadyInternal
<1>2. RdEn(ready_for_forwarder, fwdIn.len, TREADY) \in BOOLEAN
  BY DEF RdEn
<1>3. ForwarderDone(TREADY) \in BOOLEAN
  BY DEF ForwarderDone
<1>4. SnooperDone(bus, ready_for_snooper) \in BOOLEAN
  BY DEF SnooperDone
<1> QED
  BY <1>1, <1>2, <1>3, <1>4, Bits DEF SnooperWires, ForwarderWires

\* What the multiplexers put on the inputs of a buffer.
LEMMA PortTypes ==
    ASSUME TypeInv, BeatsFit, NEW bus \in BusWires, NEW cpu \in CpuMayDrive,
           NEW TREADY \in BOOLEAN, NEW b \in Buffer
    PROVE  PortOf(b, SnooperWires(bus), cpu, ForwarderWires(TREADY))
             \in [addr : PortAddr, data : Data \cup {Zero}, wr_en : BOOLEAN, rd_en : BOOLEAN]
<1> DEFINE sn == SnooperWires(bus)
           fwd == ForwarderWires(TREADY)
           P == [addr : PortAddr, data : Data \cup {Zero}, wr_en : BOOLEAN, rd_en : BOOLEAN]
<1>1. sn.addr = addr /\ sn.data = TDATA_in /\ fwd.addr = forwarder_rd_addr
  BY DEF SnooperWires, ForwarderWires
<1>2. addr \in BeatAddr /\ forwarder_rd_addr \in BeatAddr
  BY DEF TypeInv, TypeOK, SnooperTypeOK, ForwarderTypeOK
<1>3. TDATA_in \in Data
  BY DEF TypeInv, TypeOK, SourceTypeOK, TDATA_in, BeatsFit
<1>4. /\ sn.wr_en \in BOOLEAN /\ fwd.rd_en \in BOOLEAN
  BY WireTypes
<1>5. cpu.addr \in PortAddr /\ cpu.rd_en \in BOOLEAN
  BY Bits, CpuWires
<1> HIDE DEF sn, fwd
<1>6. [addr |-> 2 * sn.addr, data |-> sn.data, wr_en |-> sn.wr_en, rd_en |-> FALSE] \in P
  BY <1>1, <1>2, <1>3, <1>4, Addresses
<1>7. [addr |-> cpu.addr, data |-> Zero, wr_en |-> FALSE, rd_en |-> cpu.rd_en] \in P
  BY <1>5
<1>8. [addr |-> 2 * fwd.addr, data |-> Zero, wr_en |-> FALSE, rd_en |-> fwd.rd_en] \in P
  BY <1>1, <1>2, <1>4, Addresses
<1>9. NoPort \in P
  BY Addresses DEF NoPort
<1>10. bufSel[b] \in 0..3
  BY DEF bufSel, MuxSelInvert, SelBits, Buffer, Ping, Pang, Pung
<1>11. bufSel[b] = 0 \/ bufSel[b] = 1 \/ bufSel[b] = 2 \/ bufSel[b] = 3
  BY <1>10
<1> HIDE DEF P
<1>12. PortOf(b, sn, cpu, fwd) \in P
  BY <1>6, <1>7, <1>8, <1>9, <1>11 DEF PortOf, Mux3
<1> QED
  BY <1>12 DEF P, sn, fwd

\* The queues keep their types at every clock edge, in a reset too.
LEMMA QueueTypes ==
    ASSUME QueuesTypeOK, NEW A_done, NEW B_acc, NEW B_rej, NEW C_done,
           QueuesReset \/ QueuesClock(A_done, B_acc, B_rej, C_done)
    PROVE  QueuesTypeOK'
<1>1. CASE QueuesReset
  BY <1>1 DEF QueuesReset, QueuesTypeOK, FullQueue, EmptyQueue, Queue, Token, Buffer
<1>2. CASE QueuesClock(A_done, B_acc, B_rej, C_done)
  BY <1>2 DEF QueuesClock, SnqueueNext, CpuqueueNext, FwdqueueNext, Shift,
     QueuesTypeOK, Queue, sn_sel, cpu_sel, fwd_sel, Front, Token
<1> QED BY <1>1, <1>2

\* One clock edge keeps the types, with rst high or low.
LEMMA ClockTypes ==
    ASSUME TypeInv, BeatsFit, NEW rst \in BOOLEAN, NEW bus \in BusWires, NEW cpu \in CpuMayDrive,
           NEW TREADY \in BOOLEAN, Clock(rst, bus, cpu, TREADY)
    PROVE  TypeInv'
<1> DEFINE sn == SnooperWires(bus)
           fwd == ForwarderWires(TREADY)
<1>1. /\ pessimistic' = pessimistic /\ LongEnough'
      /\ SourceClock(bus)
      /\ SnooperClock(bus, ready_for_snooper)
      /\ MemClock(rst, sn, cpu, fwd)
      /\ ForwarderClock(ready_for_forwarder, fwdIn.len, fwdIn.do, TREADY)
  BY DEF Clock
<1>2. SourceTypeOK' /\ beat' < beats'
  <2>1. pkt \in 0..PktIds-1 /\ beats \in MinBeats..MaxBeats /\ beat \in 0..MaxBeats-1
        /\ beat < beats
    BY DEF TypeInv, TypeOK, SourceTypeOK, WithinPacket
  <2>2. (pkt + 1) % PktIds \in 0..PktIds-1
    BY <2>1, SourceAssumption
  <2>3. offered' \in BOOLEAN
    BY <1>1 DEF SourceClock
  <2>4. CASE Transfer(bus) /\ LastBeat
    BY <1>1, <2>2, <2>3, <2>4, SourceAssumption DEF SourceClock, SourceTypeOK
  <2>5. CASE ~(Transfer(bus) /\ LastBeat)
    <3>1. pkt' = pkt /\ beats' = beats /\ beat' = IF Transfer(bus) THEN beat + 1 ELSE beat
      BY <1>1, <2>5 DEF SourceClock
    <3>2. beat' \in 0..MaxBeats-1 /\ beat' < beats'
      BY <2>1, <2>5, <3>1, SourceAssumption DEF LastBeat
    <3> QED
      BY <2>1, <2>3, <3>1, <3>2 DEF SourceTypeOK
  <2> QED
    BY <2>4, <2>5
<1>3. SnooperTypeOK'
  <2>1. addr \in BeatAddr
    BY DEF TypeInv, TypeOK, SnooperTypeOK
  <2>2. addr' \in BeatAddr
    BY <1>1, <2>1, Addresses DEF SnooperClock, NextWrAddr
  <2>3. need_to_wait' \in BOOLEAN
    BY <1>1 DEF SnooperClock, NextNeedToWait
  <2>4. mem_ready_r' \in BOOLEAN
    BY <1>1 DEF SnooperClock
  <2> QED
    BY <2>2, <2>3, <2>4 DEF SnooperTypeOK
<1>4. MemTypeOK'
  <2>1. QueuesTypeOK'
    BY <1>1, QueueTypes DEF MemClock, TypeInv, TypeOK, MemTypeOK
  <2>2. \A b \in Buffer : RamNext(ram[b], PortOf(b, sn, cpu, fwd), LenRst(b, cpu, fwd)) \in RamType
    <3> SUFFICES ASSUME NEW b \in Buffer
                 PROVE  RamNext(ram[b], PortOf(b, sn, cpu, fwd), LenRst(b, cpu, fwd)) \in RamType
      OBVIOUS
    <3>1. ram[b] \in RamType
      BY DEF TypeInv, TypeOK, MemTypeOK
    <3>2. LenRst(b, cpu, fwd) \in BOOLEAN
      BY DEF LenRst
    <3> QED
      BY <3>1, <3>2, PortTypes, RamTypes
  <2>3. ram' \in [Buffer -> RamType]
    BY <1>1, <2>2 DEF MemClock
  <2> QED
    BY <2>1, <2>3 DEF MemTypeOK
<1>5. ForwarderTypeOK(HalfBeats \X HalfBeats \cup {Zero})'
  <2>1. fwdIn.do \in HalfBeats \X HalfBeats /\ fwdIn.len \in PortAddr
    <3>1. fwd_sel \in Token /\ ram \in [Buffer -> RamType]
      BY DEF TypeInv, TypeOK, MemTypeOK, QueuesTypeOK, Queue, fwd_sel, Front
    <3> QED
      BY <3>1, Outputs DEF fwdIn
  <2>2. /\ forwarder_rd_addr \in BeatAddr /\ len_to_forwarder_r \in PortAddr
        /\ TDATA_r \in HalfBeats \X HalfBeats \cup {Zero}
    BY DEF TypeInv, TypeOK, ForwarderTypeOK
  <2>3. forwarder_rd_addr' \in BeatAddr
    BY <1>1, <2>2, Addresses DEF ForwarderClock
  <2>4. TDATA_r' \in HalfBeats \X HalfBeats \cup {Zero} /\ len_to_forwarder_r' \in PortAddr
    BY <1>1, <2>1, <2>2 DEF ForwarderClock, TDATA
  <2>5. TVALID' \in BOOLEAN
    BY <1>1 DEF ForwarderClock
  <2>6. TLAST' \in BOOLEAN
    BY <1>1 DEF ForwarderClock
  <2>7. TLAST_r' \in BOOLEAN /\ TREADY_r' \in BOOLEAN
    BY <1>1, Bits DEF ForwarderClock
  <2>8. ready_for_forwarder_r' \in BOOLEAN
    BY <1>1 DEF ForwarderClock
  <2> QED
    BY <2>3, <2>4, <2>5, <2>6, <2>7, <2>8 DEF ForwarderTypeOK
<1>6. cpu_age' \in 0..MinVerdict
  BY DatapathAssumption DEF Clock, TypeInv, TypeOK
<1> QED
  BY <1>1, <1>2, <1>3, <1>4, <1>5, <1>6 DEF TypeInv, TypeOK, WithinPacket

\* The registers start with values of their types (the initial values of the modules).
LEMMA TypesAtStart == ASSUME BeatsFit, Init PROVE TypeInv
<1>1. SourceTypeOK /\ beat < beats
  <2>1. pkt = 0 /\ beat = 0 /\ offered = FALSE /\ beats \in MinBeats..MaxBeats
    BY DEF Init, SourceInit
  <2>2. MinBeats \in Nat /\ MinBeats >= 1 /\ MaxBeats \in Nat /\ MaxBeats >= 1 /\ PktIds \in Nat /\ PktIds >= 1
    BY SourceAssumption
  <2>3. 0 \in 0..PktIds-1 /\ 0 \in 0..MaxBeats-1 /\ beats > 0
    BY <2>1, <2>2
  <2> QED
    BY <2>1, <2>3 DEF SourceTypeOK
<1>2. SnooperTypeOK
  BY Addresses DEF Init, SnooperInit, SnooperTypeOK
<1>3. MemTypeOK
  <2>1. QueuesTypeOK
    BY DEF Init, MemInit, QueuesInit, QueuesTypeOK, FullQueue, EmptyQueue, Queue, Token, Buffer
  <2>2. EmptyRam \in RamType
    BY Addresses, Halves DEF EmptyRam, RamType
  <2> QED
    BY <2>1, <2>2 DEF Init, MemInit, MemTypeOK
<1>4. ForwarderTypeOK(HalfBeats \X HalfBeats \cup {Zero})
  <2>1. len_to_forwarder_r \in PortAddr
    BY Addresses DEF Init, ForwarderInit
  <2> QED
    BY <2>1, Addresses DEF Init, ForwarderInit, ForwarderTypeOK
<1>5. cpu_age \in 0..MinVerdict
  BY DatapathAssumption DEF Init
<1> QED
  BY <1>1, <1>2, <1>3, <1>4, <1>5 DEF Init, TypeInv, TypeOK, WithinPacket

\* Every step, a stop and a stutter included, keeps the types.
LEMMA TypesStep == ASSUME BeatsFit, TypeInv, [Next]_vars PROVE TypeInv'
<1>1. ASSUME NEW bus \in BusWires, NEW cpu \in CpuMayDrive, NEW TREADY \in BOOLEAN,
             Clock(FALSE, bus, cpu, TREADY)
      PROVE  TypeInv'
  BY <1>1, ClockTypes
<1>2. ASSUME NEW bus \in BusWires, NEW TREADY \in BOOLEAN, Clock(TRUE, bus, Idle, TREADY)
      PROVE  TypeInv'
  <2>1. Idle \in CpuMayDrive
    BY DEF CpuMayDrive
  <2> QED
    BY <1>2, <2>1, ClockTypes
<1>3. CASE UNCHANGED vars
  BY <1>3 DEF vars, history, TypeInv, TypeOK, WithinPacket, LongEnough, SourceTypeOK, SnooperTypeOK, MemTypeOK,
     QueuesTypeOK, ForwarderTypeOK
<1> QED
  BY <1>1, <1>2, <1>3 DEF Next, Running, Stopped

\* The registers of the agents, the queues, the buffers with their outputs and lengths, and the
\* wires between them keep their types, in both builds and with stops at any time.
THEOREM DatapathTypes ==
    ASSUME BeatsFit
    PROVE  Spec => []TypeOK
<1>1. TypeInv => TypeOK
  BY DEF TypeInv
<1> QED
  BY <1>1, TypesAtStart, TypesStep, PTL DEF Spec

-----------------------------------------------------------------------------
(* The deployment and the invariant *)

\* The deployments the other theorems are about: TLAST comes only with a transfer, packets fit
\* their buffers, the CPU takes at least two cycles, and a stop waits until the filter is quiet.
Deployment == /\ BeatsFit
              /\ \A w \in BusWires : w.tlast => w.tvalid /\ w.tready
              /\ \A build \in BOOLEAN : \A n \in PacketBeats[build] : n <= 2^AddrWidth
              /\ MinVerdict >= 2
              /\ StopWhen # "any"

\* How long, at least, the snooper's and the forwarder's present jobs have been visible.
snooperAge == IF addr >= 2 \/ (pessimistic /\ addr # 0) THEN 2
              ELSE IF addr # 0 \/ mem_ready_r THEN 1 ELSE 0
forwarderAge == IF TVALID /\ (pessimistic \/ taken # 0) THEN 2
                ELSE IF TVALID \/ ready_for_forwarder_r THEN 1 ELSE 0

\* Every buffer is in one queue, and each front has moved down as its job grew older.
Places == /\ \A b \in Buffer : Total(b) = 1
          /\ SettledQueue(snq, snooperAge)
          /\ SettledQueue(cpuq, cpu_age)
          /\ SettledQueue(fwdq, forwarderAge)
          /\ snq.third # Nothing /\ (snq.first = Nothing \/ snq.second = Nothing)
               => cpu_age = 0 \/ forwarderAge = 0

\* A copy in progress has its buffer; a packet is skipped, or copied beat by beat.
Copying == /\ mem_ready_r => pessimistic /\ ready_for_snooper
           /\ addr # 0 => /\ ready_for_snooper /\ (pessimistic => mem_ready_r)
                          /\ ~need_to_wait
           /\ need_to_wait => beat # 0
           /\ need_to_wait \/ addr = beat
           /\ copying \in Seq(Data) /\ Len(copying) = addr

\* The buffers of the snooper: the first has the beats copied so far, the others are empty.
HalfCopied(b) == /\ ram[b].len = IF addr = 0 THEN 0 ELSE 2 * (addr - 1)
                 /\ \A i \in 1..addr : ram[b].mem[i - 1] = copying[i]
SnooperBuffers == \A b \in Buffer : InQueue(snq, b) = 1 =>
                     IF b = sn_sel THEN HalfCopied(b) ELSE ram[b].len = 0

Packets == {p \in Seq(Data) : Len(p) \in PacketBeats[pessimistic]}
Histories == waiting \in Seq(Packets) /\ accepted \in Seq(Packets) /\ taken \in Nat

\* The forwarder is where the sink is: see ForwarderProofs.
Last == Len(accepted[1]) - 1
HalvesOf(d) == <<Half(d, 0), Half(d, 1)>>
Delayed == ready_for_forwarder_r => /\ pessimistic /\ ready_for_forwarder
                                    /\ len_to_forwarder_r = fwdIn.len
Offers == TVALID => /\ ready_for_forwarder /\ (pessimistic => ready_for_forwarder_r)
                    /\ taken <= Last /\ (TLAST <=> taken = Last)
                    /\ fwdIn.do = HalvesOf(accepted[1][taken + 1])
Ahead == forwarder_rd_addr = IF TVALID /\ ~TLAST THEN taken + 1 ELSE 0
NothingOffered == ~TVALID => ~TLAST /\ taken = 0
Hanging == still_hangin_on => TLAST /\ TDATA_r = fwdIn.do
Sending == Delayed /\ Offers /\ Ahead /\ NothingOffered /\ Hanging

IInv == TypeInv /\ Places /\ Copying /\ SnooperBuffers /\ Histories /\ StoredIntact /\ Sending

\* What a step does apart from the queues; Next is one of these in the cases below.
Edge(bus, cpu, TREADY) ==
    LET sn == SnooperWires(bus)
        fwd == ForwarderWires(TREADY)
    IN /\ pessimistic' = pessimistic
       /\ SourceClock(bus)
       /\ SnooperClock(bus, ready_for_snooper)
       /\ ram' = [b \in Buffer |-> RamNext(ram[b], PortOf(b, sn, cpu, fwd), LenRst(b, cpu, fwd))]
       /\ ForwarderClock(ready_for_forwarder, fwdIn.len, fwdIn.do, TREADY)
       /\ cpu_age' = IF ~ready_for_cpu \/ cpu.acc \/ cpu.rej THEN 0
                     ELSE IF cpu_age < MinVerdict THEN cpu_age + 1 ELSE cpu_age
       /\ History(FALSE, sn, cpu, fwd, TREADY)

\* The queues with it: a clock edge, or a restart while the filter is quiet.
Queues(bus, cpu, TREADY) ==
    LET sn == SnooperWires(bus)
        fwd == ForwarderWires(TREADY)
    IN \/ QueuesClock(sn.done, cpu.acc, cpu.rej, fwd.done)
       \/ QueuesReset /\ Quiet /\ ~Transfer(bus) /\ cpu = Idle

\* The wires of a cycle.
Cycle(bus, cpu, TREADY) == /\ bus \in BusWires /\ MayCarry(bus) /\ cpu \in CpuMayDrive /\ TREADY \in BOOLEAN
                           /\ Edge(bus, cpu, TREADY) /\ Queues(bus, cpu, TREADY)

-----------------------------------------------------------------------------
(* What the invariant says about the wires of a cycle *)

\* The first jobs of the queues are the agents' fronts.
LEMMA QueueFacts ==
    ASSUME TypeInv, Places
    PROVE  /\ QueuesTypeOK /\ \A b \in Buffer : Total(b) = 1
           /\ snq \in Queue /\ cpuq \in Queue /\ fwdq \in Queue
           /\ \A b \in Buffer : /\ InQueue(snq, b) <= 1 /\ InQueue(cpuq, b) <= 1 /\ InQueue(fwdq, b) <= 1
                                /\ InQueue(cpuq, b) = 1 => InQueue(snq, b) = 0 /\ InQueue(fwdq, b) = 0
                                /\ InQueue(fwdq, b) = 1 => InQueue(snq, b) = 0 /\ InQueue(cpuq, b) = 0
           /\ sn_sel # Nothing => sn_sel \in Buffer /\ InQueue(snq, sn_sel) = 1
           /\ cpu_sel # Nothing => cpu_sel \in Buffer /\ InQueue(cpuq, cpu_sel) = 1
           /\ fwd_sel # Nothing => fwd_sel \in Buffer /\ InQueue(fwdq, fwd_sel) = 1
<1>1. QueuesTypeOK /\ \A b \in Buffer : Total(b) = 1
  BY DEF TypeInv, TypeOK, MemTypeOK, Places
<1>2. snq \in Queue /\ cpuq \in Queue /\ fwdq \in Queue
  BY <1>1 DEF QueuesTypeOK
<1>3. \A b \in Buffer : /\ InQueue(snq, b) <= 1 /\ InQueue(cpuq, b) <= 1 /\ InQueue(fwdq, b) <= 1
                        /\ InQueue(cpuq, b) = 1 => InQueue(snq, b) = 0 /\ InQueue(fwdq, b) = 0
                        /\ InQueue(fwdq, b) = 1 => InQueue(snq, b) = 0 /\ InQueue(cpuq, b) = 0
  BY <1>1 DEF Total, InQueue, Count
<1>4. \A b \in Buffer : InQueue(snq, b) \in Nat /\ InQueue(cpuq, b) \in Nat /\ InQueue(fwdq, b) \in Nat
  BY DEF InQueue, Count
<1>5. /\ sn_sel # Nothing => sn_sel \in Buffer /\ InQueue(snq, sn_sel) >= 1
      /\ cpu_sel # Nothing => cpu_sel \in Buffer /\ InQueue(cpuq, cpu_sel) >= 1
      /\ fwd_sel # Nothing => fwd_sel \in Buffer /\ InQueue(fwdq, fwd_sel) >= 1
  BY <1>2 DEF Queue, Token, sn_sel, cpu_sel, fwd_sel, Front, InQueue, Count
<1> QED
  BY <1>1, <1>2, <1>3, <1>4, <1>5

\* The lengths of packets in the deployment.
LEMMA PacketLengths ==
    ASSUME Deployment, pessimistic \in BOOLEAN, NEW n \in PacketBeats[pessimistic]
    PROVE  n \in Nat /\ n >= 2 /\ (~pessimistic => n >= 3) /\ n <= 2^AddrWidth
<1>1. CASE pessimistic
  <2>1. pessimistic = TRUE
    BY <1>1
  <2>2. n \in PacketBeats[TRUE] /\ TRUE \in BOOLEAN
    BY <2>1
  <2>3. n \in Nat /\ n >= 2 /\ n <= 2^AddrWidth
    BY <2>2, DatapathAssumption, Zenon DEF Deployment
  <2> QED
    BY <1>1, <2>3
<1>2. CASE ~pessimistic
  <2>1. pessimistic = FALSE
    BY <1>2
  <2>2. n \in PacketBeats[FALSE] /\ FALSE \in BOOLEAN
    BY <2>1
  <2>3. n \in Nat /\ n >= 3 /\ n <= 2^AddrWidth
    BY <2>2, DatapathAssumption, Zenon DEF Deployment
  <2> QED
    BY <1>2, <2>3
<1> QED
  BY <1>1, <1>2

\* Numbers behind IInv.
LEMMA Numbers ==
    ASSUME Deployment, IInv
    PROVE  /\ addr \in Nat /\ beat \in Nat /\ beats \in Nat /\ beat < beats /\ taken \in Nat
           /\ beats \in PacketBeats[pessimistic] /\ beats <= 2^AddrWidth
           /\ beats >= 2 /\ (~pessimistic => beats >= 3)
           /\ cpu_age \in Nat /\ MinVerdict \in Nat /\ 2^AddrWidth \in Nat
           /\ addr < beats
           /\ snooperAge \in 0..2 /\ forwarderAge \in 0..2
<1>1. /\ addr \in Nat /\ beats \in Nat /\ beat \in Nat /\ beat < beats /\ pessimistic \in BOOLEAN
  BY Addresses, Bits, SourceAssumption DEF IInv, TypeInv, TypeOK, SnooperTypeOK, SourceTypeOK, WithinPacket
<1>2. /\ beats \in PacketBeats[pessimistic]
  BY DEF IInv, TypeInv, WithinPacket, LongEnough
<1>3. beats >= 2 /\ (~pessimistic => beats >= 3) /\ beats <= 2^AddrWidth
  BY <1>1, <1>2, PacketLengths
<1>4. cpu_age \in Nat /\ MinVerdict \in Nat /\ 2^AddrWidth \in Nat
  BY DatapathAssumption, DepthAssumption DEF IInv, TypeInv, TypeOK
<1>5. addr < beats
  BY <1>1, <1>3 DEF IInv, Copying
<1>6. snooperAge \in 0..2 /\ forwarderAge \in 0..2
  BY DEF snooperAge, forwarderAge
<1> QED
  BY <1>1, <1>2, <1>3, <1>4, <1>5, <1>6 DEF IInv, Histories

\* The snooper's wires, seen by what they need.
LEMMA SnooperFacts ==
    ASSUME Deployment, IInv, NEW bus \in BusWires, MayCarry(bus)
    PROVE  /\ SnooperWires(bus).wr_en <=> WrEn(bus, ready_for_snooper)
           /\ SnooperWires(bus).done <=> SnooperDone(bus, ready_for_snooper)
           /\ WrEn(bus, ready_for_snooper) => /\ Transfer(bus) /\ ready_for_snooper /\ ~need_to_wait
                                              /\ addr = beat /\ (pessimistic => mem_ready_r)
           /\ SnooperDone(bus, ready_for_snooper) <=> WrEn(bus, ready_for_snooper) /\ LastBeat
           /\ SnooperDone(bus, ready_for_snooper) => snooperAge = 2 /\ addr = beats - 1
           /\ Transfer(bus) /\ addr # 0 => WrEn(bus, ready_for_snooper)
           /\ Transfer(bus) => bus.tlast = LastBeat
           /\ ~Transfer(bus) => ~bus.tlast
<1>1. /\ Transfer(bus) => bus.tlast = LastBeat
      /\ ~Transfer(bus) => ~bus.tlast
  BY DEF Deployment, MayCarry, Transfer
<1>2. WrEn(bus, ready_for_snooper) => /\ Transfer(bus) /\ ready_for_snooper /\ ~need_to_wait
                                      /\ addr = beat /\ (pessimistic => mem_ready_r)
  BY DEF IInv, Copying, WrEn, MemReadyInternal, Transfer
<1>3. SnooperDone(bus, ready_for_snooper) <=> WrEn(bus, ready_for_snooper) /\ LastBeat
  BY <1>1, <1>2, Bits DEF SnooperDone, IInv, TypeInv, LastBeat
<1>4. SnooperDone(bus, ready_for_snooper) => snooperAge = 2 /\ addr = beats - 1
  <2> SUFFICES ASSUME SnooperDone(bus, ready_for_snooper) PROVE snooperAge = 2 /\ addr = beats - 1
    OBVIOUS
  <2>1. addr = beats - 1
    BY <1>2, <1>3 DEF LastBeat
  <2>2. addr >= 1 /\ (~pessimistic => addr >= 2)
    BY <2>1, Numbers
  <2> QED
    BY <2>1, <2>2 DEF snooperAge
<1>5. Transfer(bus) /\ addr # 0 => WrEn(bus, ready_for_snooper)
  BY DEF IInv, Copying, WrEn, MemReadyInternal, Transfer
<1>6. SnooperWires(bus).wr_en <=> WrEn(bus, ready_for_snooper)
  BY <1>2 DEF SnooperWires
<1>7. SnooperWires(bus).done <=> SnooperDone(bus, ready_for_snooper)
  BY <1>2, <1>3 DEF SnooperWires
<1> QED
  BY <1>1, <1>2, <1>3, <1>4, <1>5, <1>6, <1>7

\* The CPU and the forwarder work on the oldest packets that wait for them.
LEMMA Oldests ==
    ASSUME Deployment, IInv
    PROVE  /\ ready_for_cpu => waiting # <<>> /\ HoldsPacket(cpu_sel, waiting[1])
           /\ ready_for_forwarder => /\ accepted # <<>> /\ accepted[1] \in Packets
                                     /\ HoldsPacket(fwd_sel, accepted[1])
           /\ ~ready_for_cpu => waiting = <<>>
           /\ ~ready_for_forwarder => accepted = <<>>
<1>1. /\ snq \in Queue /\ cpuq \in Queue /\ fwdq \in Queue
      /\ \A b \in Buffer : InQueue(cpuq, b) <= 1 /\ InQueue(fwdq, b) <= 1
  BY QueueFacts DEF IInv
<1>2. /\ Len(JobsOf(cpuq)) = Len(waiting) /\ Len(JobsOf(fwdq)) = Len(accepted)
      /\ \A i \in 1..Len(waiting) : HoldsPacket(JobsOf(cpuq)[i], waiting[i])
      /\ \A i \in 1..Len(accepted) : HoldsPacket(JobsOf(fwdq)[i], accepted[i])
      /\ waiting \in Seq(Packets) /\ accepted \in Seq(Packets)
  BY DEF IInv, StoredIntact, QueueHolds, Histories
<1>3. /\ Front(cpuq) = Nothing => JobsOf(cpuq) = <<>>
      /\ Front(cpuq) # Nothing => Len(JobsOf(cpuq)) >= 1 /\ JobsOf(cpuq)[1] = Front(cpuq)
  BY <1>1, JobsAreDistinct
<1>4. /\ Front(fwdq) = Nothing => JobsOf(fwdq) = <<>>
      /\ Front(fwdq) # Nothing => Len(JobsOf(fwdq)) >= 1 /\ JobsOf(fwdq)[1] = Front(fwdq)
  BY <1>1, JobsAreDistinct
<1>5. \A s \in Seq(Packets) : /\ Len(s) = 0 => s = <<>>
                              /\ Len(s) >= 1 => s # <<>> /\ s[1] \in Packets /\ 1 \in 1..Len(s)
  OBVIOUS
<1>6. Len(<<>>) = 0
  OBVIOUS
<1> HIDE DEF Packets
<1>7. ASSUME ready_for_cpu PROVE waiting # <<>> /\ HoldsPacket(cpu_sel, waiting[1])
  BY <1>2, <1>3, <1>5, <1>7 DEF ready_for_cpu, cpu_sel
<1>8. ASSUME ready_for_forwarder
      PROVE  accepted # <<>> /\ accepted[1] \in Packets /\ HoldsPacket(fwd_sel, accepted[1])
  BY <1>2, <1>4, <1>5, <1>8 DEF ready_for_forwarder, fwd_sel
<1>9. ~ready_for_cpu => waiting = <<>>
  BY <1>2, <1>3, <1>5, <1>6 DEF ready_for_cpu, cpu_sel
<1>10. ~ready_for_forwarder => accepted = <<>>
  BY <1>2, <1>4, <1>5, <1>6 DEF ready_for_forwarder, fwd_sel
<1> QED
  BY <1>7, <1>8, <1>9, <1>10

\* The forwarder's job: its packet, as the wires of the memory show it.
LEMMA ForwarderJob ==
    ASSUME Deployment, IInv, ready_for_forwarder
    PROVE  /\ fwd_sel \in Buffer
           /\ fwdIn.do = ram[fwd_sel].do /\ fwdIn.len = ram[fwd_sel].len
           /\ fwdIn.len = 2 * Last /\ fwdIn.len \div 2 = Last
           /\ Last \in Nat /\ Last \in BeatAddr /\ Last >= 1
           /\ accepted[1] \in Seq(Data) /\ Len(accepted[1]) = Last + 1
           /\ \A n \in 0..Last : ram[fwd_sel].mem[n] = accepted[1][n + 1]
<1>1. fwd_sel \in Buffer /\ fwd_sel \in Token /\ fwd_sel # Nothing
  BY QueueFacts DEF IInv, ready_for_forwarder, Token
<1>2. fwdIn = [do |-> ram[fwd_sel].do, len |-> ram[fwd_sel].len]
  BY <1>1, Outputs DEF fwdIn, IInv, TypeInv, TypeOK, MemTypeOK
<1>3. accepted[1] \in Packets /\ HoldsPacket(fwd_sel, accepted[1])
  BY Oldests
<1>4. accepted[1] \in Seq(Data) /\ Len(accepted[1]) \in PacketBeats[pessimistic]
      /\ pessimistic \in BOOLEAN
  BY <1>3, Bits DEF Packets, IInv
<1>5. Len(accepted[1]) \in Nat /\ Len(accepted[1]) >= 2 /\ Len(accepted[1]) <= 2^AddrWidth
  BY <1>4, PacketLengths
<1>6. Last \in Nat /\ Last >= 1 /\ Last < 2^AddrWidth /\ Len(accepted[1]) = Last + 1
  BY <1>5, DepthAssumption DEF Last
<1>7. ram[fwd_sel].len = 2 * Last
  BY <1>3 DEF HoldsPacket, Last
<1>8. Last \in BeatAddr /\ (2 * Last) \div 2 = Last
  BY <1>6, Addresses
<1>9. \A n \in 0..Last : ram[fwd_sel].mem[n] = accepted[1][n + 1]
  <2> SUFFICES ASSUME NEW n \in 0..Last PROVE ram[fwd_sel].mem[n] = accepted[1][n + 1]
    OBVIOUS
  <2>1. n + 1 \in 1..Len(accepted[1]) /\ (n + 1) - 1 = n
    BY <1>6
  <2>2. ram[fwd_sel].mem[(n + 1) - 1] = accepted[1][n + 1]
    BY <1>3, <2>1 DEF HoldsPacket
  <2> QED
    BY <2>1, <2>2
<1> QED
  BY <1>1, <1>2, <1>4, <1>6, <1>7, <1>8, <1>9

\* The forwarder's wires, seen by what they need.
LEMMA ForwarderFacts ==
    ASSUME Deployment, IInv, NEW TREADY \in BOOLEAN
    PROVE  /\ ForwarderWires(TREADY).done <=> ForwarderDone(TREADY)
           /\ ForwarderDone(TREADY) => /\ TVALID /\ TLAST /\ TREADY /\ ready_for_forwarder
                                       /\ taken = Last /\ forwarderAge = 2
           /\ ForwarderWires(TREADY).rd_en <=> RdEn(ready_for_forwarder, fwdIn.len, TREADY)
           /\ RdEn(ready_for_forwarder, fwdIn.len, TREADY) <=>
                /\ IF pessimistic THEN ready_for_forwarder_r ELSE ready_for_forwarder
                /\ TREADY \/ ~TVALID
                /\ ~TLAST
           /\ RdEn(ready_for_forwarder, fwdIn.len, TREADY) =>
                /\ ready_for_forwarder /\ (pessimistic => ready_for_forwarder_r)
                /\ ReadyInternal(ready_for_forwarder)
                /\ MaxAddr(fwdIn.len) = Last /\ ~ForwarderDone(TREADY)
                /\ forwarder_rd_addr \in 0..Last
                /\ forwarder_rd_addr = IF TVALID THEN taken + 1 ELSE taken
<1>1. ForwarderDone(TREADY) => /\ TVALID /\ TLAST /\ TREADY /\ ready_for_forwarder
                               /\ taken = Last /\ forwarderAge = 2
  <2> SUFFICES ASSUME ForwarderDone(TREADY)
               PROVE  /\ TVALID /\ TLAST /\ TREADY /\ ready_for_forwarder
                      /\ taken = Last /\ forwarderAge = 2
    OBVIOUS
  <2>1. TVALID /\ TLAST /\ TREADY
    BY DEF ForwarderDone
  <2>2. ready_for_forwarder /\ taken = Last
    BY <2>1 DEF IInv, Sending, Offers
  <2>3. taken # 0
    BY <2>2, ForwarderJob
  <2> QED
    BY <2>1, <2>2, <2>3 DEF forwarderAge
<1>2. ~TLAST => ~still_hangin_on
  BY DEF IInv, Sending, Hanging
<1>3. ASSUME ~TLAST, IF pessimistic THEN ready_for_forwarder_r ELSE ready_for_forwarder
      PROVE  /\ ready_for_forwarder /\ (pessimistic => ready_for_forwarder_r)
             /\ ReadyInternal(ready_for_forwarder) /\ MaxAddr(fwdIn.len) = Last
             /\ forwarder_rd_addr \in 0..Last
             /\ forwarder_rd_addr = IF TVALID THEN taken + 1 ELSE taken
  <2>1. ready_for_forwarder /\ (pessimistic => ready_for_forwarder_r)
    BY <1>3 DEF IInv, Sending, Delayed
  <2>2. ReadyInternal(ready_for_forwarder)
    BY <1>2, <1>3 DEF ReadyInternal
  <2>3. MaxAddr(fwdIn.len) = Last
    BY <1>3, <2>1, ForwarderJob DEF MaxAddr, IInv, Sending, Delayed
  <2>4. forwarder_rd_addr = IF TVALID THEN taken + 1 ELSE taken
    BY <1>3 DEF IInv, Sending, Ahead, NothingOffered
  <2>5. TVALID => taken <= Last /\ taken # Last
    BY <1>3 DEF IInv, Sending, Offers
  <2>6. ~TVALID => taken = 0
    BY DEF IInv, Sending, NothingOffered
  <2>7. forwarder_rd_addr \in 0..Last
    BY <2>1, <2>4, <2>5, <2>6, ForwarderJob, Numbers
  <2> QED
    BY <2>1, <2>2, <2>3, <2>4, <2>7
<1>4. RdEn(ready_for_forwarder, fwdIn.len, TREADY) <=>
                /\ IF pessimistic THEN ready_for_forwarder_r ELSE ready_for_forwarder
                /\ TREADY \/ ~TVALID
                /\ ~TLAST
  <2>1. ASSUME RdEn(ready_for_forwarder, fwdIn.len, TREADY)
        PROVE  /\ IF pessimistic THEN ready_for_forwarder_r ELSE ready_for_forwarder
               /\ TREADY \/ ~TVALID
               /\ ~TLAST
    BY <2>1 DEF RdEn, ReadyInternal
  <2>2. ASSUME IF pessimistic THEN ready_for_forwarder_r ELSE ready_for_forwarder,
               TREADY \/ ~TVALID, ~TLAST
        PROVE  RdEn(ready_for_forwarder, fwdIn.len, TREADY)
    <3>1. ReadyInternal(ready_for_forwarder) /\ MaxAddr(fwdIn.len) = Last
          /\ forwarder_rd_addr \in 0..Last
      BY <1>3, <2>2
    <3>2. forwarder_rd_addr <= MaxAddr(fwdIn.len)
      BY <3>1
    <3> QED
      BY <3>1, <3>2, <2>2 DEF RdEn
  <2> QED
    BY <2>1, <2>2
<1>5. ForwarderDone(TREADY) => TLAST
  BY DEF ForwarderDone
<1>6. ForwarderWires(TREADY).done <=> ForwarderDone(TREADY)
  BY <1>1 DEF ForwarderWires
<1>7. ForwarderWires(TREADY).rd_en <=> RdEn(ready_for_forwarder, fwdIn.len, TREADY)
  BY <1>3, <1>4 DEF ForwarderWires
<1> QED
  BY <1>1, <1>3, <1>4, <1>5, <1>6, <1>7

-----------------------------------------------------------------------------
(* One cycle *)

\* The snooper's registers after a cycle.
LEMMA SnooperNext ==
    ASSUME Deployment, IInv, NEW bus, NEW cpu, NEW TREADY, Cycle(bus, cpu, TREADY)
    PROVE  LET done == SnooperDone(bus, ready_for_snooper)
               wr_en == WrEn(bus, ready_for_snooper)
           IN /\ addr' = IF done THEN 0 ELSE IF wr_en THEN addr + 1 ELSE addr
              /\ mem_ready_r' <=> pessimistic /\ ready_for_snooper /\ ~done
              /\ need_to_wait' <=> /\ ~(Transfer(bus) /\ LastBeat)
                                   /\ (Transfer(bus) /\ ~wr_en) \/ need_to_wait
              /\ beat' = IF Transfer(bus) /\ LastBeat THEN 0
                         ELSE IF Transfer(bus) THEN beat + 1 ELSE beat
              /\ copying' = IF done THEN <<>>
                            ELSE IF wr_en THEN Append(copying, TDATA_in) ELSE copying
              /\ \/ snooperAge' = 0
                 \/ ready_for_snooper /\ ~done /\ snooperAge' <= snooperAge + 1
<1> DEFINE done == SnooperDone(bus, ready_for_snooper)
           wr_en == WrEn(bus, ready_for_snooper)
<1>1. /\ bus \in BusWires /\ MayCarry(bus) /\ pessimistic' = pessimistic
      /\ SourceClock(bus) /\ SnooperClock(bus, ready_for_snooper)
      /\ History(FALSE, SnooperWires(bus), cpu, ForwarderWires(TREADY), TREADY)
  BY DEF Cycle, Edge
<1>2. /\ SnooperWires(bus).wr_en <=> wr_en
      /\ SnooperWires(bus).done <=> done
      /\ wr_en => /\ Transfer(bus) /\ ready_for_snooper /\ ~need_to_wait
                  /\ addr = beat /\ (pessimistic => mem_ready_r)
      /\ done <=> wr_en /\ LastBeat
      /\ Transfer(bus) /\ addr # 0 => wr_en
      /\ Transfer(bus) => bus.tlast = LastBeat
      /\ ~Transfer(bus) => ~bus.tlast
  BY <1>1, SnooperFacts
<1>3. /\ addr \in Nat /\ beat \in Nat /\ beats \in Nat /\ beat < beats /\ beats <= 2^AddrWidth
      /\ 2^AddrWidth \in Nat
  BY Numbers
<1>4. addr' = IF done THEN 0 ELSE IF wr_en THEN addr + 1 ELSE addr
  <2>1. addr' = IF done THEN 0 ELSE IF wr_en THEN (addr + 1) % 2^AddrWidth ELSE addr
    BY <1>1 DEF SnooperClock, NextWrAddr
  <2> HIDE DEF done, wr_en
  <2>2. wr_en /\ ~done => addr + 1 < beats
    BY <1>2, <1>3 DEF LastBeat
  <2>3. wr_en /\ ~done => addr + 1 < 2^AddrWidth
    BY <2>2, <1>3
  <2>4. wr_en /\ ~done => (addr + 1) % 2^AddrWidth = addr + 1
    BY <2>3, <1>3, Addresses
  <2> QED
    BY <2>1, <2>4
<1>5. mem_ready_r' <=> pessimistic /\ ready_for_snooper /\ ~done
  BY <1>1 DEF SnooperClock
<1>6. need_to_wait' <=> /\ ~(Transfer(bus) /\ LastBeat)
                        /\ (Transfer(bus) /\ ~wr_en) \/ need_to_wait
  <2>1. need_to_wait' <=> /\ ~bus.tlast
                          /\ (Transfer(bus) /\ ~MemReadyInternal(ready_for_snooper)) \/ need_to_wait
    BY <1>1 DEF SnooperClock, NextNeedToWait, Transfer
  <2>2. wr_en <=> Transfer(bus) /\ MemReadyInternal(ready_for_snooper) /\ ~need_to_wait
    BY DEF WrEn, Transfer
  <2>3. bus.tlast <=> Transfer(bus) /\ LastBeat
    BY <1>2
  <2> HIDE DEF wr_en
  <2> QED
    BY <2>1, <2>2, <2>3
<1>7. beat' = IF Transfer(bus) /\ LastBeat THEN 0
              ELSE IF Transfer(bus) THEN beat + 1 ELSE beat
  BY <1>1 DEF SourceClock
<1>8. copying' = IF done THEN <<>> ELSE IF wr_en THEN Append(copying, TDATA_in) ELSE copying
  BY <1>1, <1>2 DEF History
<1>9. snooperAge' = 0 \/ (ready_for_snooper /\ ~done /\ snooperAge' <= snooperAge + 1)
  <2> HIDE DEF done, wr_en
  <2>1. snooperAge \in 0..2 /\ snooperAge' \in 0..2
    BY DEF snooperAge
  <2>2. CASE done
    BY <1>4, <1>5, <1>1, <2>2 DEF snooperAge
  <2>3. CASE ~done /\ ~ready_for_snooper
    <3>1. addr = 0 /\ ~wr_en
      BY <1>2, <2>3 DEF IInv, Copying
    <3> QED
      BY <1>4, <1>5, <2>3, <3>1 DEF snooperAge
  <2>4. CASE ~done /\ ready_for_snooper /\ wr_en
    <3>1. addr' = addr + 1 /\ (pessimistic => mem_ready_r)
      BY <1>2, <1>4, <2>4
    <3>2. CASE snooperAge = 0
      <4>1. addr = 0 /\ ~pessimistic
        BY <3>1, <3>2, <1>3 DEF snooperAge
      <4> QED
        BY <4>1, <3>1, <2>1, <2>4, <3>2, <1>1, <1>5 DEF snooperAge
    <3>3. CASE snooperAge # 0
      BY <3>3, <2>1, <2>4
    <3> QED
      BY <3>2, <3>3
  <2>5. CASE ~done /\ ready_for_snooper /\ ~wr_en
    <3>1. addr' = addr
      BY <1>4, <2>5
    <3>2. snooperAge' = 2 => snooperAge = 2
      BY <3>1, <1>1 DEF snooperAge
    <3> QED
      BY <2>1, <2>5, <3>2
  <2> QED
    BY <2>2, <2>3, <2>4, <2>5
<1> QED
  BY <1>4, <1>5, <1>6, <1>7, <1>8, <1>9

\* The forwarder's registers after a cycle.
LEMMA ForwarderNext ==
    ASSUME Deployment, IInv, NEW bus, NEW cpu, NEW TREADY, Cycle(bus, cpu, TREADY)
    PROVE  LET rd_en == RdEn(ready_for_forwarder, fwdIn.len, TREADY)
               done == ForwarderDone(TREADY)
               atEnd == forwarder_rd_addr >= Last
           IN /\ forwarder_rd_addr' = IF ~rd_en THEN forwarder_rd_addr
                                      ELSE IF atEnd THEN 0 ELSE forwarder_rd_addr + 1
              /\ TVALID' <=> rd_en \/ (~TREADY /\ TVALID)
              /\ TLAST' <=> (atEnd /\ rd_en) \/ (TLAST /\ ~TREADY)
              /\ TDATA_r' = TDATA(fwdIn.do) /\ TLAST_r' = TLAST /\ TREADY_r' = TREADY
              /\ ready_for_forwarder_r' <=> pessimistic /\ ready_for_forwarder /\ ~done
              /\ pessimistic => len_to_forwarder_r' = fwdIn.len
              /\ taken' = IF done THEN 0 ELSE IF TVALID /\ TREADY THEN taken + 1 ELSE taken
              /\ rd_en => taken' = forwarder_rd_addr
              /\ \/ forwarderAge' = 0
                 \/ ready_for_forwarder /\ ~done /\ forwarderAge' <= forwarderAge + 1
<1> DEFINE rd_en == RdEn(ready_for_forwarder, fwdIn.len, TREADY)
           done == ForwarderDone(TREADY)
           atEnd == forwarder_rd_addr >= Last
<1>1. /\ TREADY \in BOOLEAN /\ pessimistic' = pessimistic
      /\ ForwarderClock(ready_for_forwarder, fwdIn.len, fwdIn.do, TREADY)
      /\ History(FALSE, SnooperWires(bus), cpu, ForwarderWires(TREADY), TREADY)
  BY DEF Cycle, Edge
<1>2. /\ ForwarderWires(TREADY).done <=> done
      /\ done => TVALID /\ TLAST /\ TREADY /\ ready_for_forwarder
      /\ rd_en <=> /\ IF pessimistic THEN ready_for_forwarder_r ELSE ready_for_forwarder
                   /\ TREADY \/ ~TVALID
                   /\ ~TLAST
      /\ rd_en => /\ ready_for_forwarder /\ (pessimistic => ready_for_forwarder_r)
                  /\ ReadyInternal(ready_for_forwarder)
                  /\ MaxAddr(fwdIn.len) = Last /\ ~done
                  /\ forwarder_rd_addr \in 0..Last
                  /\ forwarder_rd_addr = IF TVALID THEN taken + 1 ELSE taken
  BY <1>1, ForwarderFacts
<1>3. /\ TDATA_r' = TDATA(fwdIn.do) /\ TLAST_r' = TLAST /\ TREADY_r' = TREADY
      /\ pessimistic => len_to_forwarder_r' = fwdIn.len
  BY <1>1 DEF ForwarderClock
<1>4. forwarder_rd_addr' = IF ~rd_en THEN forwarder_rd_addr
                           ELSE IF atEnd THEN 0 ELSE forwarder_rd_addr + 1
  <2>1. CASE ~rd_en
    BY <1>1, <2>1 DEF ForwarderClock
  <2>2. CASE rd_en
    <3>1. forwarder_rd_addr' = IF atEnd THEN 0 ELSE (forwarder_rd_addr + 1) % 2^AddrWidth
      BY <1>1, <1>2, <2>2 DEF ForwarderClock
    <3>2. ~atEnd => (forwarder_rd_addr + 1) % 2^AddrWidth = forwarder_rd_addr + 1
      <4>1. Last \in BeatAddr /\ Last \in Nat /\ forwarder_rd_addr \in 0..Last
        BY <1>2, <2>2, ForwarderJob
      <4>2. Last < 2^AddrWidth /\ 2^AddrWidth \in Nat
        BY <4>1, Addresses, Numbers
      <4>3. ~atEnd => forwarder_rd_addr \in Nat /\ forwarder_rd_addr + 1 < 2^AddrWidth
        BY <4>1, <4>2
      <4> QED
        BY <4>3, Addresses
    <3> QED
      BY <3>1, <3>2, <2>2
  <2> QED
    BY <2>1, <2>2
<1>5. TVALID' <=> rd_en \/ (~TREADY /\ TVALID)
  BY <1>1 DEF ForwarderClock
<1>6. TLAST' <=> (atEnd /\ rd_en) \/ (TLAST /\ ~TREADY)
  <2>1. TLAST' <=> (forwarder_rd_addr >= MaxAddr(fwdIn.len) /\ rd_en) \/ (TLAST /\ ~TREADY)
    BY <1>1 DEF ForwarderClock
  <2> QED
    BY <2>1, <1>2
<1>7. ready_for_forwarder_r' <=> pessimistic /\ ready_for_forwarder /\ ~done
  BY <1>1 DEF ForwarderClock
<1>8. taken' = IF done THEN 0 ELSE IF TVALID /\ TREADY THEN taken + 1 ELSE taken
  BY <1>1, <1>2 DEF History
<1> HIDE DEF done, rd_en, atEnd
<1>9. rd_en => taken' = forwarder_rd_addr
  BY <1>2, <1>8
<1>10. forwarderAge' = 0 \/ (ready_for_forwarder /\ ~done /\ forwarderAge' <= forwarderAge + 1)
  <2>1. forwarderAge \in 0..2 /\ forwarderAge' \in 0..2
    BY DEF forwarderAge
  <2>2. CASE done
    <3>1. ~TVALID' /\ ~ready_for_forwarder_r'
      BY <2>2, <1>2, <1>5, <1>7
    <3> QED
      BY <3>1 DEF forwarderAge
  <2>3. CASE ~ready_for_forwarder
    <3>1. ~TVALID /\ ~rd_en
      BY <2>3, <1>2 DEF IInv, Sending, Offers
    <3>2. ~TVALID' /\ ~ready_for_forwarder_r'
      BY <2>3, <3>1, <1>5, <1>7
    <3> QED
      BY <3>2 DEF forwarderAge
  <2>4. CASE ready_for_forwarder /\ ~done
    <3>1. CASE forwarderAge = 0
      <4>1. ~TVALID /\ ~ready_for_forwarder_r
        BY <3>1 DEF forwarderAge
      <4>2. taken = 0 /\ taken' = 0
        BY <4>1, <1>8, <2>4 DEF IInv, Sending, NothingOffered
      <4>3. pessimistic => ~rd_en /\ ~TVALID'
        BY <4>1, <1>2, <1>5
      <4>4. forwarderAge' <= 1
        BY <4>2, <4>3, <1>1 DEF forwarderAge
      <4> QED
        BY <4>4, <3>1, <2>4
    <3>2. CASE forwarderAge # 0
      BY <2>1, <2>4, <3>2
    <3> QED
      BY <3>1, <3>2
  <2> QED
    BY <2>2, <2>3, <2>4
<1> QED
  BY <1>3, <1>4, <1>5, <1>6, <1>7, <1>8, <1>9, <1>10 DEF rd_en, done, atEnd

\* The agents that finish have their buffer in the first slot.
LEMMA Position ==
    ASSUME Deployment, IInv, NEW bus, NEW cpu, NEW TREADY, Cycle(bus, cpu, TREADY)
    PROVE  /\ SnooperWires(bus).done \in BOOLEAN /\ ForwarderWires(TREADY).done \in BOOLEAN
           /\ cpu.acc \in BOOLEAN /\ cpu.rej \in BOOLEAN
           /\ InPosition(SnooperWires(bus).done, cpu.acc, cpu.rej, ForwarderWires(TREADY).done)
<1>1. /\ bus \in BusWires /\ MayCarry(bus) /\ cpu \in CpuMayDrive /\ TREADY \in BOOLEAN
      /\ TypeInv /\ pessimistic \in BOOLEAN
  BY Bits DEF Cycle, IInv
<1>2. SnooperWires(bus).done \in BOOLEAN /\ ForwarderWires(TREADY).done \in BOOLEAN
  BY <1>1, WireTypes
<1>3. /\ cpu.acc \in BOOLEAN /\ cpu.rej \in BOOLEAN /\ ~(cpu.acc /\ cpu.rej)
      /\ cpu.acc \/ cpu.rej => ready_for_cpu /\ cpu_age >= 2
  <2>1. cpu_age >= MinVerdict => cpu_age >= 2
    BY Numbers DEF Deployment
  <2> QED
    BY <1>1, <2>1, CpuWires
<1>4. SnooperWires(bus).done => snq.first # Nothing
  <2>1. SnooperWires(bus).done => ready_for_snooper /\ snooperAge = 2
    BY <1>1, SnooperFacts
  <2> QED
    BY <2>1 DEF IInv, Places, SettledQueue, ready_for_snooper, sn_sel
<1>5. cpu.acc \/ cpu.rej => cpuq.first # Nothing
  BY <1>3 DEF IInv, Places, SettledQueue, ready_for_cpu, cpu_sel
<1>6. ForwarderWires(TREADY).done => forwarderAge = 2 /\ fwdq.first # Nothing
  <2>1. ForwarderWires(TREADY).done => ready_for_forwarder /\ forwarderAge = 2
    BY <1>1, ForwarderFacts
  <2> QED
    BY <2>1 DEF IInv, Places, SettledQueue, ready_for_forwarder, fwd_sel
<1>7. cpu.rej /\ ForwarderWires(TREADY).done /\ snq.third # Nothing
        => snq.first # Nothing /\ snq.second # Nothing
  BY <1>3, <1>6, Numbers DEF IInv, Places
<1> QED
  BY <1>2, <1>3, <1>4, <1>5, <1>6, <1>7 DEF InPosition

\* A restart of the quiet filter: no agent finishes, and no packet is lost.
LEMMA Restart ==
    ASSUME Deployment, IInv, NEW bus, NEW cpu, NEW TREADY, Cycle(bus, cpu, TREADY),
           QueuesReset, Quiet, ~Transfer(bus), cpu = Idle
    PROVE  /\ ~SnooperWires(bus).done /\ ~ForwarderWires(TREADY).done /\ ~cpu.acc /\ ~cpu.rej
           /\ addr = 0 /\ ~WrEn(bus, ready_for_snooper)
           /\ ~ready_for_cpu /\ ~ready_for_forwarder
           /\ snq' = FullQueue /\ cpuq = EmptyQueue /\ fwdq = EmptyQueue
           /\ cpuq' = EmptyQueue /\ fwdq' = EmptyQueue
           /\ \A b \in Buffer : InQueue(snq, b) = 1
<1>1. /\ snq' = FullQueue /\ cpuq = EmptyQueue /\ fwdq = EmptyQueue
      /\ cpuq' = EmptyQueue /\ fwdq' = EmptyQueue /\ addr = 0
  BY DEF QueuesReset, Quiet
<1>2. ~ready_for_cpu /\ ~ready_for_forwarder
  BY <1>1 DEF EmptyQueue, ready_for_cpu, ready_for_forwarder, cpu_sel, fwd_sel, Front
<1>3. ~cpu.acc /\ ~cpu.rej
  BY DEF Idle
<1>4. ~WrEn(bus, ready_for_snooper)
  BY DEF WrEn, Transfer
<1>5. ~SnooperWires(bus).done
  BY <1>4 DEF SnooperWires, SnooperDone
<1>6. ~ForwarderWires(TREADY).done
  BY <1>2 DEF ForwarderWires
<1>7. \A b \in Buffer : InQueue(snq, b) = 1
  <2>1. \A b \in Buffer : InQueue(cpuq, b) = 0 /\ InQueue(fwdq, b) = 0
    BY <1>1 DEF EmptyQueue, InQueue, Count, Buffer, Nothing, Ping, Pang, Pung
  <2>2. \A b \in Buffer : Total(b) = 1 /\ InQueue(snq, b) \in Nat
    BY DEF IInv, Places, InQueue, Count
  <2> QED
    BY <2>1, <2>2 DEF Total
<1> QED
  BY <1>1, <1>2, <1>3, <1>4, <1>5, <1>6, <1>7

\* The queues after a cycle.
LEMMA QueuesNext ==
    ASSUME Deployment, IInv, NEW bus, NEW cpu, NEW TREADY, Cycle(bus, cpu, TREADY)
    PROVE  LET snDone == SnooperWires(bus).done
               fwdDone == ForwarderWires(TREADY).done
           IN /\ JobsOf(cpuq') = Remaining(cpuq, cpu.acc \/ cpu.rej) \o Given(snq, snDone)
              /\ JobsOf(fwdq') = Remaining(fwdq, fwdDone) \o Given(cpuq, cpu.acc)
              /\ sn_sel # Nothing /\ ~snDone =>
                   /\ sn_sel' # Nothing
                   /\ addr # 0 \/ WrEn(bus, ready_for_snooper) => sn_sel' = sn_sel
              /\ cpu_sel # Nothing /\ ~cpu.acc /\ ~cpu.rej => cpu_sel' = cpu_sel
              /\ fwd_sel # Nothing /\ ~fwdDone => fwd_sel' = fwd_sel
              /\ \A b \in Buffer : InQueue(snq', b) = 1 =>
                   \/ InQueue(snq, b) = 1 /\ ~(snDone /\ b = sn_sel)
                   \/ cpu.rej /\ b = cpu_sel
                   \/ fwdDone /\ b = fwd_sel
<1> DEFINE A_done == SnooperWires(bus).done
           B_acc == cpu.acc
           B_rej == cpu.rej
           C_done == ForwarderWires(TREADY).done
<1>1. /\ A_done \in BOOLEAN /\ B_acc \in BOOLEAN /\ B_rej \in BOOLEAN /\ C_done \in BOOLEAN
      /\ InPosition(A_done, B_acc, B_rej, C_done)
  BY Position
<1>2. QueuesTypeOK /\ \A b \in Buffer : Total(b) = 1
  BY QueueFacts DEF IInv
<1>3. \/ QueuesClock(A_done, B_acc, B_rej, C_done)
      \/ QueuesReset /\ Quiet /\ ~Transfer(bus) /\ cpu = Idle
  BY DEF Cycle, Queues
<1>4. CASE QueuesClock(A_done, B_acc, B_rej, C_done)
  <2> HIDE DEF A_done, B_acc, B_rej, C_done
  <2>1. /\ JobsOf(cpuq') = Remaining(cpuq, B_acc \/ B_rej) \o Given(snq, A_done)
        /\ JobsOf(fwdq') = Remaining(fwdq, C_done) \o Given(cpuq, B_acc)
    BY <1>1, <1>2, <1>4, ClockJobs
  <2>2. /\ sn_sel # Nothing /\ ~A_done => sn_sel' = sn_sel
        /\ cpu_sel # Nothing /\ ~B_acc /\ ~B_rej => cpu_sel' = cpu_sel
        /\ fwd_sel # Nothing /\ ~C_done => fwd_sel' = fwd_sel
    BY <1>1, <1>2, <1>4, ClockKeepsFronts
  <2>3. \A b \in Buffer : InQueue(snq', b) = 1 =>
                   \/ InQueue(snq, b) = 1 /\ ~(A_done /\ b = sn_sel)
                   \/ B_rej /\ b = cpu_sel
                   \/ C_done /\ b = fwd_sel
    BY <1>1, <1>2, <1>4, BackToTheSnooper
  <2> QED
    BY <2>1, <2>2, <2>3 DEF A_done, B_acc, B_rej, C_done
<1>5. CASE QueuesReset /\ Quiet /\ ~Transfer(bus) /\ cpu = Idle
  <2>1. /\ ~A_done /\ ~B_acc /\ ~B_rej /\ ~C_done /\ addr = 0 /\ ~WrEn(bus, ready_for_snooper)
        /\ ~ready_for_cpu /\ ~ready_for_forwarder
        /\ snq' = FullQueue /\ cpuq = EmptyQueue /\ fwdq = EmptyQueue
        /\ cpuq' = EmptyQueue /\ fwdq' = EmptyQueue
        /\ \A b \in Buffer : InQueue(snq, b) = 1
    BY <1>5, Restart
  <2>2. <<>> \o <<>> = <<>>
    OBVIOUS
  <2>3. /\ JobsOf(cpuq') = Remaining(cpuq, B_acc \/ B_rej) \o Given(snq, A_done)
        /\ JobsOf(fwdq') = Remaining(fwdq, C_done) \o Given(cpuq, B_acc)
    BY <2>1, <2>2, StartingJobs DEF Remaining, Given
  <2>4. sn_sel' # Nothing
    BY <2>1 DEF sn_sel, Front, FullQueue, Nothing, Ping
  <2> QED
    BY <2>1, <2>3, <2>4 DEF ready_for_cpu, ready_for_forwarder
<1> QED
  BY <1>3, <1>4, <1>5

\* Every buffer stays in one queue, and moves down while its agent works.
LEMMA PlacesStep ==
    ASSUME Deployment, IInv, NEW bus, NEW cpu, NEW TREADY, Cycle(bus, cpu, TREADY), TypeInv'
    PROVE  Places'
<1> DEFINE A_done == SnooperWires(bus).done
           B_acc == cpu.acc
           B_rej == cpu.rej
           C_done == ForwarderWires(TREADY).done
<1>1. /\ A_done \in BOOLEAN /\ B_acc \in BOOLEAN /\ B_rej \in BOOLEAN /\ C_done \in BOOLEAN
      /\ InPosition(A_done, B_acc, B_rej, C_done)
  BY Position
<1>2. QueuesTypeOK /\ \A b \in Buffer : Total(b) = 1
  BY QueueFacts DEF IInv
<1>3. /\ snooperAge \in Nat /\ snooperAge' \in Nat /\ forwarderAge \in Nat /\ forwarderAge' \in Nat
      /\ cpu_age \in Nat /\ cpu_age' \in Nat
  <2>1. /\ snooperAge \in 0..2 /\ snooperAge' \in 0..2 /\ forwarderAge \in 0..2 /\ forwarderAge' \in 0..2
    BY DEF snooperAge, forwarderAge
  <2>2. cpu_age \in Nat /\ cpu_age' \in Nat
    BY DatapathAssumption DEF IInv, TypeInv, TypeOK
  <2> QED
    BY <2>1, <2>2
<1>4. /\ SettledQueue(snq, snooperAge) /\ SettledQueue(cpuq, cpu_age)
      /\ SettledQueue(fwdq, forwarderAge)
  BY DEF IInv, Places
<1>5. snooperAge' = 0 \/ (sn_sel # Nothing /\ ~A_done /\ snooperAge' <= snooperAge + 1)
  <2>1. A_done <=> SnooperDone(bus, ready_for_snooper)
    BY SnooperFacts DEF Cycle
  <2> QED
    BY <2>1, SnooperNext DEF ready_for_snooper
<1>6. forwarderAge' = 0 \/ (fwd_sel # Nothing /\ ~C_done /\ forwarderAge' <= forwarderAge + 1)
  <2>1. C_done <=> ForwarderDone(TREADY)
    BY ForwarderFacts DEF Cycle
  <2> QED
    BY <2>1, ForwarderNext DEF ready_for_forwarder
<1>7. /\ cpu_age' = 0 \/ (cpu_sel # Nothing /\ ~B_acc /\ ~B_rej /\ cpu_age' <= cpu_age + 1)
      /\ B_rej => cpu_age' = 0
  <2>1. cpu_age' = IF ~ready_for_cpu \/ cpu.acc \/ cpu.rej THEN 0
                   ELSE IF cpu_age < MinVerdict THEN cpu_age + 1 ELSE cpu_age
    BY DEF Cycle, Edge
  <2> QED
    BY <1>3, <2>1 DEF ready_for_cpu
<1>8. CASE QueuesClock(A_done, B_acc, B_rej, C_done)
  <2> HIDE DEF A_done, B_acc, B_rej, C_done
  <2>1. \A b \in Buffer : Total(b)' = 1
    BY <1>1, <1>2, <1>8, ClockCounts
  <2>2. SettledQueue(snq', snooperAge')
    BY <1>1, <1>2, <1>3, <1>4, <1>5, <1>8, ClockSettles
  <2>3. SettledQueue(cpuq', cpu_age')
    BY <1>1, <1>2, <1>3, <1>4, <1>7, <1>8, ClockSettles
  <2>4. SettledQueue(fwdq', forwarderAge')
    BY <1>1, <1>2, <1>3, <1>4, <1>6, <1>8, ClockSettles
  <2>5. snq'.third # Nothing /\ (snq'.first = Nothing \/ snq'.second = Nothing) => B_rej \/ C_done
    BY <1>1, <1>2, <1>8, ClockSettles
  <2> QED
    BY <2>1, <2>2, <2>3, <2>4, <2>5, <1>6, <1>7 DEF Places
<1>9. CASE QueuesReset /\ Quiet /\ ~Transfer(bus) /\ cpu = Idle
  <2>1. /\ snq' = FullQueue /\ cpuq' = EmptyQueue /\ fwdq' = EmptyQueue
    BY <1>9, Restart
  <2> QED
    BY <2>1 DEF Places, FullQueue, EmptyQueue, Total, InQueue, Count, SettledQueue, Front,
       Buffer, Nothing, Ping, Pang, Pung
<1> QED
  BY <1>8, <1>9 DEF Cycle, Queues

-----------------------------------------------------------------------------
(* The buffers *)

\* The select lines of the buffers are those of the agents.
LEMMA Selected ==
    ASSUME QueuesTypeOK, \A b \in Buffer : Total(b) = 1
    PROVE  SelectsAgree
<1>1. /\ sn_sel \in {Nothing, Ping, Pang, Pung} /\ cpu_sel \in {Nothing, Ping, Pang, Pung}
      /\ fwd_sel \in {Nothing, Ping, Pang, Pung}
      /\ sn_sel = cpu_sel => sn_sel = Nothing
      /\ sn_sel = fwd_sel => sn_sel = Nothing
      /\ cpu_sel = fwd_sel => cpu_sel = Nothing
  BY FrontsDiffer DEF Token, Buffer
<1>2. \A b \in Buffer : b = Ping \/ b = Pang \/ b = Pung
  BY DEF Buffer
<1>3. /\ bufSel[Ping] = SelBits(fwd_sel = Ping \/ (cpu_sel = Ping /\ sn_sel # Ping), fwd_sel = Ping \/ sn_sel = Ping)
      /\ bufSel[Pang] = SelBits(fwd_sel = Pang \/ cpu_sel = Pang, fwd_sel = Pang \/ sn_sel = Pang)
      /\ bufSel[Pung] = SelBits(fwd_sel = Pung \/ (cpu_sel = Pung /\ sn_sel # Pung), fwd_sel = Pung \/ sn_sel = Pung)
  BY DEF bufSel, MuxSelInvert, Buffer, Ping, Pang, Pung
<1> QED
  BY <1>1, <1>2, <1>3 DEF SelectsAgree, SelBits, Nothing, Ping, Pang, Pung

\* What a cycle does to a buffer.
LEMMA BufferNext ==
    ASSUME Deployment, IInv, NEW bus, NEW cpu, NEW TREADY, Cycle(bus, cpu, TREADY),
           NEW b \in Buffer
    PROVE  LET wr_en == WrEn(bus, ready_for_snooper)
               rd_en == RdEn(ready_for_forwarder, fwdIn.len, TREADY)
               emptied == (b = cpu_sel /\ cpu.rej) \/ (b = fwd_sel /\ ForwarderDone(TREADY))
           IN /\ b = sn_sel /\ wr_en =>
                   /\ ram'[b].mem = [ram[b].mem EXCEPT ![addr] = TDATA_in]
                   /\ ram'[b].len = IF 2 * addr > ram[b].len THEN 2 * addr ELSE ram[b].len
              /\ ~(b = sn_sel /\ wr_en) =>
                   /\ ram'[b].mem = ram[b].mem
                   /\ ram'[b].len = IF emptied THEN 0 ELSE ram[b].len
              /\ b = fwd_sel =>
                   ram'[b].do = IF rd_en THEN HalvesOf(ram[b].mem[forwarder_rd_addr]) ELSE ram[b].do
<1> DEFINE sn == SnooperWires(bus)
           fwd == ForwarderWires(TREADY)
           port == PortOf(b, sn, cpu, fwd)
           rst == LenRst(b, cpu, fwd)
<1>1. ram'[b] = RamNext(ram[b], port, rst)
  BY DEF Cycle, Edge
<1>2. /\ sn.addr = addr /\ sn.data = TDATA_in /\ (sn.wr_en <=> WrEn(bus, ready_for_snooper))
      /\ fwd.addr = forwarder_rd_addr /\ (fwd.done <=> ForwarderDone(TREADY))
      /\ fwd.rd_en <=> RdEn(ready_for_forwarder, fwdIn.len, TREADY)
  BY SnooperFacts, ForwarderFacts DEF Cycle, SnooperWires, ForwarderWires
<1>3. /\ (sn_sel = b)  <=> bufSel[b] = 1
      /\ (cpu_sel = b) <=> bufSel[b] = 2
      /\ (fwd_sel = b) <=> bufSel[b] = 3
  BY Selected, QueueFacts DEF SelectsAgree, IInv
<1>4. bufSel[b] = 0 \/ bufSel[b] = 1 \/ bufSel[b] = 2 \/ bufSel[b] = 3
  BY DEF bufSel, MuxSelInvert, SelBits, Buffer, Ping, Pang, Pung
<1>5. rst <=> (b = cpu_sel /\ cpu.rej) \/ (b = fwd_sel /\ ForwarderDone(TREADY))
  BY <1>2, <1>3 DEF LenRst
<1>6. /\ addr \in BeatAddr /\ forwarder_rd_addr \in BeatAddr
  BY DEF IInv, TypeInv, TypeOK, SnooperTypeOK, ForwarderTypeOK
<1>7. /\ (2 * addr) \div 2 = addr
      /\ (2 * forwarder_rd_addr) \div 2 = forwarder_rd_addr /\ (2 * forwarder_rd_addr) % 2 = 0
      /\ (2 * forwarder_rd_addr + 1) % 2^(AddrWidth + 1) = 2 * forwarder_rd_addr + 1
      /\ (2 * forwarder_rd_addr + 1) \div 2 = forwarder_rd_addr
      /\ (2 * forwarder_rd_addr + 1) % 2 = 1
  BY <1>6, Addresses, Zenon
<1>8. /\ ram'[b].mem = IF port.wr_en THEN [ram[b].mem EXCEPT ![port.addr \div 2] = port.data]
                       ELSE ram[b].mem
      /\ ram'[b].len = IF rst THEN 0
                       ELSE IF port.addr > ram[b].len /\ port.wr_en THEN port.addr ELSE ram[b].len
      /\ ram'[b].do = IF port.wr_en \/ port.rd_en
                        THEN <<HalfAt(ram[b].mem, port.addr),
                               HalfAt(ram[b].mem, (port.addr + 1) % 2^(AddrWidth + 1))>>
                        ELSE ram[b].do
  BY <1>1 DEF RamNext, LenNext
<1>9. CASE bufSel[b] = 1
  <2>1. port = [addr |-> 2 * sn.addr, data |-> sn.data, wr_en |-> sn.wr_en, rd_en |-> FALSE]
    BY <1>9 DEF PortOf, Mux3
  <2>2. ~rst /\ b = sn_sel /\ b # cpu_sel /\ b # fwd_sel
    BY <1>3, <1>9 DEF LenRst
  <2>3. /\ port.addr = 2 * addr /\ port.data = TDATA_in /\ (port.wr_en <=> WrEn(bus, ready_for_snooper))
    BY <2>1, <1>2
  <2> HIDE DEF port, rst, sn, fwd
  <2> QED
    BY <2>2, <2>3, <1>7, <1>8
<1>10. CASE bufSel[b] = 2
  <2>1. port = [addr |-> cpu.addr, data |-> Zero, wr_en |-> FALSE, rd_en |-> cpu.rd_en]
    BY <1>10 DEF PortOf, Mux3
  <2>2. b = cpu_sel /\ b # sn_sel /\ b # fwd_sel
    BY <1>3, <1>10
  <2>3. ~port.wr_en
    BY <2>1
  <2> HIDE DEF port, rst, sn, fwd
  <2> QED
    BY <2>2, <2>3, <1>5, <1>8
<1>11. CASE bufSel[b] = 3
  <2>1. port = [addr |-> 2 * fwd.addr, data |-> Zero, wr_en |-> FALSE, rd_en |-> fwd.rd_en]
    BY <1>11 DEF PortOf, Mux3
  <2>2. b = fwd_sel /\ b # sn_sel /\ b # cpu_sel
    BY <1>3, <1>11
  <2>3. /\ ~port.wr_en /\ port.addr = 2 * forwarder_rd_addr
        /\ port.rd_en <=> RdEn(ready_for_forwarder, fwdIn.len, TREADY)
    BY <2>1, <1>2
  <2> HIDE DEF port, rst, sn, fwd
  <2>4. <<HalfAt(ram[b].mem, port.addr), HalfAt(ram[b].mem, (port.addr + 1) % 2^(AddrWidth + 1))>>
          = HalvesOf(ram[b].mem[forwarder_rd_addr])
    <3>1. HalfAt(ram[b].mem, 2 * forwarder_rd_addr) = Half(ram[b].mem[forwarder_rd_addr], 0)
      BY <1>7 DEF HalfAt
    <3>2. HalfAt(ram[b].mem, (2 * forwarder_rd_addr + 1) % 2^(AddrWidth + 1))
            = Half(ram[b].mem[forwarder_rd_addr], 1)
      BY <1>7, Zenon DEF HalfAt
    <3> QED
      BY <2>3, <3>1, <3>2 DEF HalvesOf
  <2> QED
    BY <2>2, <2>3, <2>4, <1>5, <1>8
<1>12. CASE bufSel[b] = 0
  <2>1. port = NoPort
    BY <1>12 DEF PortOf, Mux3
  <2>2. b # cpu_sel /\ b # sn_sel /\ b # fwd_sel
    BY <1>3, <1>12
  <2>3. ~port.wr_en
    BY <2>1 DEF NoPort
  <2> HIDE DEF port, rst, sn, fwd
  <2> QED
    BY <2>2, <2>3, <1>5, <1>8
<1> QED
  BY <1>4, <1>9, <1>10, <1>11, <1>12

-----------------------------------------------------------------------------

\* Every step of the deployment is a cycle: the filter is restarted only while no packet is in it,
\* and then the restart differs from a clock edge in the queues alone.
LEMMA StepsAreCycles ==
    ASSUME Deployment, IInv, Next
    PROVE  \E bus \in BusWires, cpu \in CpuMayDrive, TREADY \in BOOLEAN : Cycle(bus, cpu, TREADY)
<1>1. CASE Running
  <2>1. PICK bus \in BusWires, cpu \in CpuMayDrive, TREADY \in BOOLEAN :
                MayCarry(bus) /\ Clock(FALSE, bus, cpu, TREADY)
    BY <1>1 DEF Running
  <2>2. QueuesClock(SnooperWires(bus).done, cpu.acc, cpu.rej, ForwarderWires(TREADY).done)
    BY <2>1 DEF Clock, MemClock
  <2>3. Edge(bus, cpu, TREADY)
    BY <2>1 DEF Clock, MemClock, Edge
  <2> QED
    BY <2>1, <2>2, <2>3 DEF Cycle, Queues
<1>2. CASE Stopped
  <2>1. PICK bus \in BusWires, TREADY \in BOOLEAN :
                /\ MayCarry(bus)
                /\ StopWhen = "quiet" => Quiet /\ ~Transfer(bus)
                /\ Clock(TRUE, bus, Idle, TREADY)
    BY <1>2 DEF Stopped
  <2>2. Quiet /\ ~Transfer(bus)
    BY <1>2, <2>1, DatapathAssumption DEF Stopped, Deployment
  <2>3. Idle \in CpuMayDrive /\ Idle.acc = FALSE /\ Idle.rej = FALSE
    BY DEF CpuMayDrive, Idle
  <2>4. QueuesReset
    BY <2>1 DEF Clock, MemClock
  <2>5. ~ready_for_cpu /\ ~ready_for_forwarder
    BY <2>2 DEF Quiet, EmptyQueue, ready_for_cpu, ready_for_forwarder, cpu_sel, fwd_sel, Front
  <2>6. waiting = <<>> /\ accepted = <<>> /\ ~TVALID /\ taken = 0
    <3>1. waiting = <<>> /\ accepted = <<>>
      BY <2>5, Oldests
    <3>2. ~TVALID /\ taken = 0
      BY <2>5 DEF IInv, Sending, Offers, NothingOffered
    <3> QED
      BY <3>1, <3>2
  <2>7. ~SnooperWires(bus).done /\ ~ForwarderWires(TREADY).done
    BY <2>2, <2>5 DEF SnooperWires, ForwarderWires, SnooperDone, WrEn, Transfer
  <2>8. History(FALSE, SnooperWires(bus), Idle, ForwarderWires(TREADY), TREADY)
    <3>1. /\ copying' = IF SnooperWires(bus).done THEN <<>>
                        ELSE IF SnooperWires(bus).wr_en THEN Append(copying, TDATA_in) ELSE copying
          /\ waiting' = <<>> /\ accepted' = <<>> /\ taken' = 0
      BY <2>1 DEF Clock, History
    <3>2. <<>> \o <<>> = <<>>
      OBVIOUS
    <3>3. Dequeue(waiting, Idle.acc \/ Idle.rej) = <<>> /\ Dequeue(accepted, ForwarderWires(TREADY).done) = <<>>
      BY <2>6 DEF Dequeue
    <3> QED
      BY <2>3, <2>6, <2>7, <3>1, <3>2, <3>3 DEF History
  <2>9. cpu_age' = 0
    BY <2>1 DEF Clock
  <2>10. Edge(bus, Idle, TREADY)
    BY <2>1, <2>3, <2>5, <2>8, <2>9 DEF Clock, MemClock, Edge
  <2>11. Cycle(bus, Idle, TREADY)
    BY <2>1, <2>2, <2>3, <2>4, <2>10 DEF Cycle, Queues
  <2> QED
    BY <2>3, <2>11
<1> QED
  BY <1>1, <1>2 DEF Next

\* The copy of a packet goes on, beat by beat, or the packet is skipped to its end.
LEMMA CopyingStep ==
    ASSUME Deployment, IInv, NEW bus, NEW cpu, NEW TREADY, Cycle(bus, cpu, TREADY)
    PROVE  Copying'
<1> DEFINE done == SnooperDone(bus, ready_for_snooper)
           wr_en == WrEn(bus, ready_for_snooper)
<1>1. bus \in BusWires /\ MayCarry(bus) /\ pessimistic' = pessimistic
  BY DEF Cycle, Edge
<1>2. /\ wr_en => /\ Transfer(bus) /\ ready_for_snooper /\ ~need_to_wait
                  /\ addr = beat /\ (pessimistic => mem_ready_r)
      /\ done <=> wr_en /\ LastBeat
      /\ Transfer(bus) /\ addr # 0 => wr_en
  BY <1>1, SnooperFacts
<1>3. /\ addr' = IF done THEN 0 ELSE IF wr_en THEN addr + 1 ELSE addr
      /\ mem_ready_r' <=> pessimistic /\ ready_for_snooper /\ ~done
      /\ need_to_wait' <=> /\ ~(Transfer(bus) /\ LastBeat)
                           /\ (Transfer(bus) /\ ~wr_en) \/ need_to_wait
      /\ beat' = IF Transfer(bus) /\ LastBeat THEN 0
                 ELSE IF Transfer(bus) THEN beat + 1 ELSE beat
      /\ copying' = IF done THEN <<>>
                    ELSE IF wr_en THEN Append(copying, TDATA_in) ELSE copying
  BY SnooperNext
<1>4. /\ addr \in Nat /\ beat \in Nat
  BY Numbers
<1>5. /\ mem_ready_r => pessimistic /\ ready_for_snooper
      /\ addr # 0 => ready_for_snooper /\ (pessimistic => mem_ready_r) /\ ~need_to_wait
      /\ need_to_wait => beat # 0
      /\ need_to_wait \/ addr = beat
      /\ copying \in Seq(Data) /\ Len(copying) = addr
  BY DEF IInv, Copying
<1>6. ready_for_snooper /\ ~done => ready_for_snooper'
  <2>1. SnooperWires(bus).done <=> done
    BY <1>1, SnooperFacts
  <2> QED
    BY <2>1, QueuesNext DEF ready_for_snooper
<1>7. copying' \in Seq(Data) /\ Len(copying') = addr'
  <2>1. TDATA_in \in Data
    BY DEF IInv, TypeInv, TypeOK, SourceTypeOK, TDATA_in, Deployment, BeatsFit
  <2>2. Append(copying, TDATA_in) \in Seq(Data) /\ Len(Append(copying, TDATA_in)) = addr + 1
    BY <1>5, <2>1
  <2>3. <<>> \in Seq(Data) /\ Len(<<>>) = 0
    OBVIOUS
  <2> HIDE DEF done, wr_en
  <2> QED
    BY <1>3, <1>5, <2>2, <2>3
<1> HIDE DEF done, wr_en
<1>8. mem_ready_r' => pessimistic' /\ ready_for_snooper'
  BY <1>1, <1>3, <1>6
<1>9. addr' # 0 => ready_for_snooper' /\ (pessimistic' => mem_ready_r') /\ ~need_to_wait'
  BY <1>1, <1>2, <1>3, <1>5, <1>6
<1>10. need_to_wait' => beat' # 0
  BY <1>3, <1>4, <1>5
<1>11. need_to_wait' \/ addr' = beat'
  BY <1>2, <1>3, <1>4, <1>5
<1> QED
  BY <1>7, <1>8, <1>9, <1>10, <1>11 DEF Copying

\* The beats of the packet being copied are in the snooper's buffer, and buffers come back empty.
LEMMA SnooperBuffersStep ==
    ASSUME Deployment, IInv, NEW bus, NEW cpu, NEW TREADY, Cycle(bus, cpu, TREADY)
    PROVE  SnooperBuffers'
<1> DEFINE done == SnooperDone(bus, ready_for_snooper)
           wr_en == WrEn(bus, ready_for_snooper)
<1>1. /\ SnooperWires(bus).done <=> done
      /\ wr_en => ready_for_snooper
      /\ done => wr_en
      /\ ForwarderWires(TREADY).done <=> ForwarderDone(TREADY)
  BY SnooperFacts, ForwarderFacts DEF Cycle
<1>2. /\ addr' = IF done THEN 0 ELSE IF wr_en THEN addr + 1 ELSE addr
      /\ copying' = IF done THEN <<>>
                    ELSE IF wr_en THEN Append(copying, TDATA_in) ELSE copying
  BY SnooperNext
<1>3. /\ addr \in Nat /\ addr \in BeatAddr /\ copying \in Seq(Data) /\ Len(copying) = addr
      /\ TDATA_in \in Data /\ (addr # 0 => ready_for_snooper)
      /\ \A b \in Buffer : ram[b].mem \in [BeatAddr -> Data \cup {Zero}]
  BY Numbers DEF IInv, Copying, TypeInv, TypeOK, SnooperTypeOK, SourceTypeOK, MemTypeOK, RamType,
                 TDATA_in, Deployment, BeatsFit
<1>4. /\ sn_sel # Nothing => sn_sel # cpu_sel /\ sn_sel # fwd_sel
      /\ Nothing \notin Buffer
  BY QueueFacts, FrontsDiffer DEF IInv, Buffer, Nothing, Ping, Pang, Pung
<1> SUFFICES ASSUME NEW b \in Buffer, InQueue(snq', b) = 1
             PROVE  IF b = sn_sel' THEN HalfCopied(b)' ELSE ram'[b].len = 0
  BY DEF SnooperBuffers
<1>5. /\ b = sn_sel /\ wr_en =>
            /\ ram'[b].mem = [ram[b].mem EXCEPT ![addr] = TDATA_in]
            /\ ram'[b].len = IF 2 * addr > ram[b].len THEN 2 * addr ELSE ram[b].len
      /\ ~(b = sn_sel /\ wr_en) =>
            /\ ram'[b].mem = ram[b].mem
            /\ ram'[b].len = IF (b = cpu_sel /\ cpu.rej) \/ (b = fwd_sel /\ ForwarderDone(TREADY))
                             THEN 0 ELSE ram[b].len
  BY BufferNext
<1>6. /\ \/ InQueue(snq, b) = 1 /\ ~(done /\ b = sn_sel)
         \/ cpu.rej /\ b = cpu_sel
         \/ ForwarderDone(TREADY) /\ b = fwd_sel
      /\ ready_for_snooper /\ ~done /\ (addr # 0 \/ wr_en) => sn_sel' = sn_sel
  <2>1. /\ \A x \in Buffer : InQueue(snq', x) = 1 =>
              \/ InQueue(snq, x) = 1 /\ ~(SnooperWires(bus).done /\ x = sn_sel)
              \/ cpu.rej /\ x = cpu_sel
              \/ ForwarderWires(TREADY).done /\ x = fwd_sel
        /\ sn_sel # Nothing /\ ~SnooperWires(bus).done /\ (addr # 0 \/ wr_en) => sn_sel' = sn_sel
    BY QueuesNext
  <2> QED
    BY <1>1, <2>1 DEF ready_for_snooper
<1>7. InQueue(snq, b) = 1 => IF b = sn_sel THEN HalfCopied(b) ELSE ram[b].len = 0
  BY DEF IInv, SnooperBuffers
<1> HIDE DEF done, wr_en
<1>8. CASE b # sn_sel
  <2>1. ram'[b].len = 0
    BY <1>1, <1>5, <1>6, <1>7, <1>8
  <2>2. b = sn_sel' => addr' = 0
    BY <1>1, <1>2, <1>3, <1>6, <1>8
  <2> QED
    BY <2>1, <2>2 DEF HalfCopied
<1>9. CASE b = sn_sel
  <2>1. InQueue(snq, b) = 1 /\ ~done /\ HalfCopied(b) /\ b # cpu_sel /\ b # fwd_sel
    BY <1>4, <1>6, <1>7, <1>9
  <2>2. CASE wr_en
    <3>1. sn_sel' = b /\ addr' = addr + 1 /\ copying' = Append(copying, TDATA_in)
      BY <1>1, <1>2, <1>6, <1>9, <2>1, <2>2
    <3>2. ram'[b].len = 2 * (addr' - 1)
      BY <1>3, <1>5, <1>9, <2>1, <2>2, <3>1 DEF HalfCopied
    <3>3. ASSUME NEW i \in 1..addr' PROVE ram'[b].mem[i - 1] = copying'[i]
      <4>1. ram'[b].mem = [ram[b].mem EXCEPT ![addr] = TDATA_in]
        BY <1>5, <1>9, <2>2
      <4>2. CASE i = addr + 1
        <5>1. ram'[b].mem[addr] = TDATA_in
          BY <1>3, <4>1
        <5>2. i - 1 = addr /\ copying'[i] = TDATA_in
          BY <1>3, <3>1, <4>2
        <5> QED
          BY <5>1, <5>2
      <4>3. CASE i # addr + 1
        <5>1. i \in 1..addr /\ i - 1 # addr
          BY <1>3, <3>1, <4>3
        <5>2. copying'[i] = copying[i]
          BY <1>3, <3>1, <5>1
        <5>3. ram'[b].mem[i - 1] = ram[b].mem[i - 1]
          BY <1>3, <4>1, <5>1
        <5> QED
          BY <2>1, <5>1, <5>2, <5>3 DEF HalfCopied
      <4> QED
        BY <4>2, <4>3
    <3>4. addr' # 0
      BY <1>3, <3>1
    <3> QED
      BY <3>1, <3>2, <3>3, <3>4 DEF HalfCopied
  <2>3. CASE ~wr_en
    <3>1. addr' = addr /\ copying' = copying /\ ram'[b].mem = ram[b].mem /\ ram'[b].len = ram[b].len
      BY <1>2, <1>5, <2>1, <2>3
    <3>2. HalfCopied(b)'
      BY <2>1, <3>1 DEF HalfCopied
    <3>3. addr # 0 => sn_sel' = b
      BY <1>3, <1>6, <1>9, <2>1
    <3>4. addr = 0 => ram[b].len = 0
      BY <2>1 DEF HalfCopied
    <3> QED
      BY <3>1, <3>2, <3>3, <3>4
  <2> QED
    BY <2>2, <2>3
<1> QED
  BY <1>8, <1>9

-----------------------------------------------------------------------------

\* The list J1 runs beside P1: an element is one of J from place f on, beside its partner in P, or
\* one of G beside its partner in Q.
Beside(B, S, J, P, f, G, Q, J1, P1) ==
    /\ P1 \in Seq(S) /\ Len(J1) = Len(P1)
    /\ \A i \in 1..Len(P1) : \/ \E k \in f..Len(P) : J1[i] = J[k] /\ P1[i] = P[k]
                             \/ \E k \in 1..Len(Q) : J1[i] = G[k] /\ P1[i] = Q[k]

\* Two lists that run side by side and are made longer at once: elements keep their partners.
LEMMA PairsJoin ==
    ASSUME NEW B, NEW S, NEW J \in Seq(B), NEW P \in Seq(S), Len(J) = Len(P),
           NEW G \in Seq(B), NEW Q \in Seq(S), Len(G) = Len(Q)
    PROVE  Beside(B, S, J, P, 1, G, Q, J \o G, P \o Q)
<1>1. Len(J) \in Nat /\ Len(P) \in Nat /\ Len(G) \in Nat /\ Len(Q) \in Nat
  OBVIOUS
<1>2. /\ P \o Q \in Seq(S) /\ Len(J \o G) = Len(J) + Len(G) /\ Len(P \o Q) = Len(P) + Len(Q)
      /\ \A i \in 1..(Len(J) + Len(G)) : (J \o G)[i] = IF i <= Len(J) THEN J[i] ELSE G[i - Len(J)]
      /\ \A i \in 1..(Len(P) + Len(Q)) : (P \o Q)[i] = IF i <= Len(P) THEN P[i] ELSE Q[i - Len(P)]
  BY ConcatProperties
<1>3. ASSUME NEW i \in 1..Len(P \o Q)
      PROVE  \/ \E k \in 1..Len(P) : (J \o G)[i] = J[k] /\ (P \o Q)[i] = P[k]
             \/ \E k \in 1..Len(Q) : (J \o G)[i] = G[k] /\ (P \o Q)[i] = Q[k]
  <2>1. CASE i <= Len(P)
    <3>1. i \in 1..Len(P) /\ (J \o G)[i] = J[i] /\ (P \o Q)[i] = P[i]
      BY <1>1, <1>2, <2>1
    <3> QED
      BY <3>1
  <2>2. CASE ~(i <= Len(P))
    <3>1. i - Len(P) \in 1..Len(Q)
      BY <1>1, <1>2, <2>2
    <3>2. (J \o G)[i] = G[i - Len(P)] /\ (P \o Q)[i] = Q[i - Len(P)]
      BY <1>1, <1>2, <2>2
    <3> QED
      BY <3>1, <3>2
  <2> QED
    BY <2>1, <2>2
<1>4. Len(J \o G) = Len(P \o Q)
  BY <1>1, <1>2
<1> QED
  BY <1>2, <1>3, <1>4, Zenon DEF Beside

\* The same, when both lose their first elements: the others still keep their partners.
LEMMA PairsAdvance ==
    ASSUME NEW B, NEW S, NEW J \in Seq(B), NEW P \in Seq(S), Len(J) = Len(P), J # <<>>,
           NEW G \in Seq(B), NEW Q \in Seq(S), Len(G) = Len(Q)
    PROVE  Beside(B, S, J, P, 2, G, Q, Tail(J) \o G, Tail(P) \o Q)
<1> DEFINE T == Tail(J)
           U == Tail(P)
           T1 == T \o G
           U1 == U \o Q
<1>1. Len(J) \in Nat /\ Len(P) \in Nat /\ Len(J) # 0 /\ P # <<>>
  OBVIOUS
<1>2. /\ T \in Seq(B) /\ U \in Seq(S) /\ Len(T) = Len(U) /\ Len(U) = Len(P) - 1
      /\ \A k \in 1..Len(U) : T[k] = J[k + 1] /\ U[k] = P[k + 1]
  BY <1>1
<1> HIDE DEF T, U
<1>3. Beside(B, S, T, U, 1, G, Q, T1, U1)
  BY <1>2, PairsJoin
<1> HIDE DEF T1, U1
<1>4. \A k \in 1..Len(U) : k + 1 \in 2..Len(P)
  BY <1>1, <1>2
<1>5. Beside(B, S, J, P, 2, G, Q, T1, U1)
  BY <1>2, <1>3, <1>4, Zenon DEF Beside
<1> QED
  BY <1>5 DEF T1, U1, T, U

\* A list of one element.
LEMMA OneElement ==
    ASSUME NEW S, NEW x \in S
    PROVE  <<x>> \in Seq(S) /\ Len(<<x>>) = 1 /\ <<x>>[1] = x
OBVIOUS

\* HoldsPacket, said of the contents of a buffer.
Stores(r, p) == /\ r.len = 2 * (Len(p) - 1)
                /\ \A i \in 1..Len(p) : r.mem[i - 1] = p[i]

\* A packet that waits for an agent stays as it is, until that agent gives its buffer back.
LEMMA PacketsStay ==
    ASSUME Deployment, IInv, NEW bus, NEW cpu, NEW TREADY, Cycle(bus, cpu, TREADY),
           NEW b \in Buffer, InQueue(cpuq, b) = 1 \/ InQueue(fwdq, b) = 1,
           ~(b = cpu_sel /\ cpu.rej), ~(b = fwd_sel /\ ForwarderDone(TREADY))
    PROVE  ram'[b].mem = ram[b].mem /\ ram'[b].len = ram[b].len
<1>1. b # sn_sel
  <2>1. InQueue(snq, b) = 0
    BY QueueFacts DEF IInv
  <2>2. b # Nothing
    BY DEF Buffer, Nothing, Ping, Pang, Pung
  <2> QED
    BY <2>1, <2>2, QueueFacts DEF IInv
<1> QED
  BY <1>1, BufferNext

\* What the snooper hands on when it finishes: its buffer, with all the beats of the packet.
LEMMA CopiedPacket ==
    ASSUME Deployment, IInv, NEW bus, NEW cpu, NEW TREADY, Cycle(bus, cpu, TREADY),
           SnooperDone(bus, ready_for_snooper)
    PROVE  /\ Append(copying, TDATA_in) \in Packets
           /\ Stores(ram'[sn_sel], Append(copying, TDATA_in))
           /\ SnooperWires(bus).wr_en
<1> DEFINE p == Append(copying, TDATA_in)
<1>1. /\ WrEn(bus, ready_for_snooper) /\ ready_for_snooper /\ addr = beats - 1
      /\ SnooperWires(bus).wr_en
  BY SnooperFacts DEF Cycle
<1>2. /\ addr \in Nat /\ addr \in BeatAddr /\ copying \in Seq(Data) /\ Len(copying) = addr
      /\ TDATA_in \in Data /\ beats \in PacketBeats[pessimistic] /\ beats \in Nat
  BY Numbers DEF IInv, Copying, TypeInv, TypeOK, SnooperTypeOK, SourceTypeOK, TDATA_in,
                 Deployment, BeatsFit
<1>3. sn_sel \in Buffer /\ InQueue(snq, sn_sel) = 1 /\ HalfCopied(sn_sel)
  BY <1>1, QueueFacts DEF IInv, SnooperBuffers, ready_for_snooper
<1>4. /\ ram[sn_sel].mem \in [BeatAddr -> Data \cup {Zero}]
      /\ ram'[sn_sel].mem = [ram[sn_sel].mem EXCEPT ![addr] = TDATA_in]
      /\ ram'[sn_sel].len = IF 2 * addr > ram[sn_sel].len THEN 2 * addr ELSE ram[sn_sel].len
  BY <1>1, <1>3, BufferNext DEF IInv, TypeInv, TypeOK, MemTypeOK, RamType
<1>5. p \in Seq(Data) /\ Len(p) = addr + 1 /\ Len(p) = beats
      /\ p[addr + 1] = TDATA_in /\ \A i \in 1..addr : p[i] = copying[i]
  BY <1>1, <1>2
<1> HIDE DEF p
<1>6. p \in Packets
  BY <1>2, <1>5 DEF Packets
<1>7. ram'[sn_sel].len = 2 * (Len(p) - 1)
  BY <1>2, <1>3, <1>4, <1>5 DEF HalfCopied
<1>8. ASSUME NEW i \in 1..Len(p) PROVE ram'[sn_sel].mem[i - 1] = p[i]
  <2>1. CASE i = addr + 1
    BY <1>2, <1>4, <1>5, <2>1
  <2>2. CASE i # addr + 1
    <3>1. i \in 1..addr /\ i - 1 # addr
      BY <1>2, <1>5, <2>2
    <3>2. ram'[sn_sel].mem[i - 1] = ram[sn_sel].mem[i - 1]
      BY <1>2, <1>4, <3>1
    <3> QED
      BY <1>3, <1>5, <3>1, <3>2 DEF HalfCopied
  <2> QED
    BY <2>1, <2>2
<1> QED
  BY <1>1, <1>6, <1>7, <1>8 DEF p, Stores

\* The queues of the CPU and the forwarder hold the packets that wait for them, after a cycle too.
LEMMA ListsStep ==
    ASSUME Deployment, IInv, NEW bus, NEW cpu, NEW TREADY, Cycle(bus, cpu, TREADY)
    PROVE  /\ Histories' /\ StoredIntact'
           /\ accepted # <<>> /\ ~ForwarderDone(TREADY) => accepted' # <<>> /\ accepted'[1] = accepted[1]
<1> DEFINE snDone == SnooperWires(bus).done
           fwdDone == ForwarderWires(TREADY).done
           judged == cpu.acc \/ cpu.rej
           copied == IF SnooperWires(bus).wr_en THEN Append(copying, TDATA_in) ELSE copying
           Q == IF snDone THEN <<copied>> ELSE <<>>
           R == IF cpu.acc THEN Oldest(waiting) ELSE <<>>
<1>1. /\ snDone \in BOOLEAN /\ fwdDone \in BOOLEAN /\ cpu.acc \in BOOLEAN /\ cpu.rej \in BOOLEAN
      /\ judged \in BOOLEAN /\ InPosition(snDone, cpu.acc, cpu.rej, fwdDone)
  BY Position
<1>2. /\ snDone <=> SnooperDone(bus, ready_for_snooper)
      /\ fwdDone <=> ForwarderDone(TREADY)
  BY SnooperFacts, ForwarderFacts DEF Cycle
<1>3. /\ snq \in Queue /\ cpuq \in Queue /\ fwdq \in Queue
      /\ \A b \in Buffer : InQueue(cpuq, b) <= 1 /\ InQueue(fwdq, b) <= 1
  BY QueueFacts DEF IInv
<1>4. /\ waiting \in Seq(Packets) /\ accepted \in Seq(Packets) /\ taken \in Nat
      /\ Len(JobsOf(cpuq)) = Len(waiting) /\ Len(JobsOf(fwdq)) = Len(accepted)
      /\ \A i \in 1..Len(waiting) : HoldsPacket(JobsOf(cpuq)[i], waiting[i])
      /\ \A i \in 1..Len(accepted) : HoldsPacket(JobsOf(fwdq)[i], accepted[i])
  BY DEF IInv, Histories, StoredIntact, QueueHolds
<1>5. /\ waiting' = Dequeue(waiting, judged) \o Q
      /\ accepted' = Dequeue(accepted, fwdDone) \o R
      /\ taken' = IF fwdDone THEN 0 ELSE IF TVALID /\ TREADY THEN taken + 1 ELSE taken
      /\ pessimistic' = pessimistic
  BY DEF Cycle, Edge, History
<1>6. /\ JobsOf(cpuq') = Remaining(cpuq, judged) \o Given(snq, snDone)
      /\ JobsOf(fwdq') = Remaining(fwdq, fwdDone) \o Given(cpuq, cpu.acc)
  BY QueuesNext
<1>7. /\ JobsOf(cpuq) \in Seq(Buffer) /\ JobsOf(fwdq) \in Seq(Buffer)
      /\ Given(snq, snDone) \in Seq(Buffer) /\ Given(cpuq, cpu.acc) \in Seq(Buffer)
      /\ snDone => Given(snq, snDone) = OneJob(sn_sel) /\ sn_sel \in Buffer
      /\ ~snDone => Given(snq, snDone) = <<>>
      /\ cpu.acc => Given(cpuq, cpu.acc) = OneJob(cpu_sel) /\ cpu_sel \in Buffer
      /\ ~cpu.acc => Given(cpuq, cpu.acc) = <<>>
      /\ judged => JobsOf(cpuq) # <<>>
      /\ fwdDone => JobsOf(fwdq) # <<>>
  <2>1. /\ snDone => snq.first # Nothing
        /\ judged => cpuq.first # Nothing
        /\ cpu.acc => cpuq.first # Nothing
        /\ fwdDone => fwdq.first # Nothing
    BY <1>1 DEF InPosition
  <2> HIDE DEF snDone, fwdDone, judged
  <2>2. JobsOf(cpuq) \in Seq(Buffer) /\ JobsOf(fwdq) \in Seq(Buffer)
    BY <1>3, JobsAreAList
  <2>3. /\ Given(snq, snDone) \in Seq(Buffer)
        /\ snDone => Given(snq, snDone) = OneJob(sn_sel) /\ sn_sel \in Buffer
    BY <1>1, <1>3, <2>1, GivenIsTheFront DEF sn_sel
  <2>4. /\ Given(cpuq, cpu.acc) \in Seq(Buffer)
        /\ cpu.acc => Given(cpuq, cpu.acc) = OneJob(cpu_sel) /\ cpu_sel \in Buffer
    BY <1>1, <1>3, <2>1, GivenIsTheFront DEF cpu_sel
  <2>5. judged => JobsOf(cpuq) # <<>>
    BY <1>1, <1>3, <2>1, GivenIsTheFront
  <2>6. fwdDone => JobsOf(fwdq) # <<>>
    BY <1>1, <1>3, <2>1, GivenIsTheFront
  <2> QED
    BY <2>2, <2>3, <2>4, <2>5, <2>6 DEF Given
<1>8. /\ snDone => copied \in Packets /\ Stores(ram'[sn_sel], copied)
      /\ cpu.acc => waiting # <<>> /\ waiting[1] \in Packets /\ HoldsPacket(cpu_sel, waiting[1])
  <2>1. snDone => copied \in Packets /\ Stores(ram'[sn_sel], copied)
    BY <1>2, CopiedPacket
  <2>2. cpu.acc => ready_for_cpu
    BY CpuWires, Bits DEF Cycle, IInv
  <2>3. waiting # <<>> => waiting[1] \in Packets
    BY <1>4
  <2> QED
    BY <2>1, <2>2, <2>3, Oldests
<1>9. \A b \in Buffer : OneJob(b) = <<b>>
  BY DEF OneJob, Buffer, Nothing, Ping, Pang, Pung
<1> HIDE DEF Packets, snDone, fwdDone, judged, copied
<1>10. /\ Q \in Seq(Packets) /\ Len(Q) = Len(Given(snq, snDone))
       /\ snDone => \A k \in 1..Len(Q) : Given(snq, snDone)[k] = sn_sel /\ Q[k] = copied
       /\ ~snDone => Len(Q) = 0
  <2>1. CASE snDone
    <3>1. Given(snq, snDone) = <<sn_sel>> /\ Q = <<copied>>
      BY <1>7, <1>9, <2>1
    <3> HIDE DEF Q
    <3> QED
      <4>1. Q \in Seq(Packets) /\ Len(Q) = 1 /\ Q[1] = copied
        BY <1>8, <2>1, <3>1, OneElement, Zenon
      <4>2. Len(Given(snq, snDone)) = 1 /\ Given(snq, snDone)[1] = sn_sel
        BY <1>7, <2>1, <3>1, OneElement, Zenon
      <4>3. \A k \in 1..Len(Q) : k = 1
        BY <4>1
      <4> QED
        BY <2>1, <4>1, <4>2, <4>3
  <2>2. CASE ~snDone
    <3>1. Given(snq, snDone) = <<>> /\ Q = <<>>
      BY <1>7, <2>2
    <3> HIDE DEF Q
    <3> QED
      BY <2>2, <3>1
  <2> QED
    BY <2>1, <2>2
<1>11. /\ R \in Seq(Packets) /\ Len(R) = Len(Given(cpuq, cpu.acc))
       /\ cpu.acc => \A k \in 1..Len(R) : Given(cpuq, cpu.acc)[k] = cpu_sel /\ R[k] = waiting[1]
       /\ ~cpu.acc => Len(R) = 0
  <2>1. CASE cpu.acc
    <3>1. Given(cpuq, cpu.acc) = <<cpu_sel>>
      BY <1>7, <1>9, <2>1
    <3>2. R = <<waiting[1]>>
      BY <1>8, <2>1 DEF Oldest
    <3> HIDE DEF R
    <3> QED
      <4>1. R \in Seq(Packets) /\ Len(R) = 1 /\ R[1] = waiting[1]
        BY <1>8, <2>1, <3>2, OneElement, Zenon
      <4>2. Len(Given(cpuq, cpu.acc)) = 1 /\ Given(cpuq, cpu.acc)[1] = cpu_sel
        BY <1>7, <2>1, <3>1, OneElement, Zenon
      <4>3. \A k \in 1..Len(R) : k = 1
        BY <4>1
      <4> QED
        BY <2>1, <4>1, <4>2, <4>3
  <2>2. CASE ~cpu.acc
    <3>1. Given(cpuq, cpu.acc) = <<>> /\ R = <<>>
      BY <1>7, <2>2
    <3> HIDE DEF R
    <3> QED
      BY <2>2, <3>1
  <2> QED
    BY <2>1, <2>2
<1> HIDE DEF Q, R
<1>12. Beside(Buffer, Packets, JobsOf(cpuq), waiting, IF judged THEN 2 ELSE 1, Given(snq, snDone), Q,
              JobsOf(cpuq'), waiting')
  <2> DEFINE J == JobsOf(cpuq)
             G == Given(snq, snDone)
             J1 == JobsOf(cpuq')
             P1 == waiting'
  <2>1. /\ J \in Seq(Buffer) /\ waiting \in Seq(Packets) /\ Len(J) = Len(waiting)
        /\ G \in Seq(Buffer) /\ Q \in Seq(Packets) /\ Len(G) = Len(Q)
    BY <1>4, <1>7, <1>10
  <2>2. judged => J # <<>> /\ waiting # <<>>
    BY <1>7, <2>1
  <2>3. CASE ~judged
    <3>1. J1 = J \o G /\ P1 = waiting \o Q
      BY <1>5, <1>6, <2>3 DEF Remaining, Dequeue
    <3> HIDE DEF J, G, J1, P1
    <3>2. Beside(Buffer, Packets, J, waiting, 1, G, Q, J \o G, waiting \o Q)
      BY <2>1, PairsJoin
    <3> QED
      BY <2>3, <3>1, <3>2 DEF J, G, J1, P1
  <2>4. CASE judged
    <3>1. J1 = Tail(J) \o G /\ P1 = Tail(waiting) \o Q
      BY <1>5, <1>6, <2>2, <2>4 DEF Remaining, Dequeue
    <3>2. J # <<>>
      BY <2>2, <2>4
    <3> HIDE DEF J, G, J1, P1
    <3>3. Beside(Buffer, Packets, J, waiting, 2, G, Q, Tail(J) \o G, Tail(waiting) \o Q)
      BY <2>1, <3>2, PairsAdvance
    <3> QED
      BY <2>4, <3>1, <3>3 DEF J, G, J1, P1
  <2> QED
    BY <2>3, <2>4
<1>13. Beside(Buffer, Packets, JobsOf(fwdq), accepted, IF fwdDone THEN 2 ELSE 1, Given(cpuq, cpu.acc), R,
              JobsOf(fwdq'), accepted')
  <2> DEFINE J == JobsOf(fwdq)
             G == Given(cpuq, cpu.acc)
             J1 == JobsOf(fwdq')
             P1 == accepted'
  <2>1. /\ J \in Seq(Buffer) /\ accepted \in Seq(Packets) /\ Len(J) = Len(accepted)
        /\ G \in Seq(Buffer) /\ R \in Seq(Packets) /\ Len(G) = Len(R)
    BY <1>4, <1>7, <1>11
  <2>2. fwdDone => J # <<>> /\ accepted # <<>>
    BY <1>7, <2>1
  <2>3. CASE ~fwdDone
    <3>1. J1 = J \o G /\ P1 = accepted \o R
      BY <1>5, <1>6, <2>3 DEF Remaining, Dequeue
    <3> HIDE DEF J, G, J1, P1
    <3>2. Beside(Buffer, Packets, J, accepted, 1, G, R, J \o G, accepted \o R)
      BY <2>1, PairsJoin
    <3> QED
      BY <2>3, <3>1, <3>2 DEF J, G, J1, P1
  <2>4. CASE fwdDone
    <3>1. J1 = Tail(J) \o G /\ P1 = Tail(accepted) \o R
      BY <1>5, <1>6, <2>2, <2>4 DEF Remaining, Dequeue
    <3>2. J # <<>>
      BY <2>2, <2>4
    <3> HIDE DEF J, G, J1, P1
    <3>3. Beside(Buffer, Packets, J, accepted, 2, G, R, Tail(J) \o G, Tail(accepted) \o R)
      BY <2>1, <3>2, PairsAdvance
    <3> QED
      BY <2>4, <3>1, <3>3 DEF J, G, J1, P1
  <2> QED
    BY <2>3, <2>4
<1>14. ASSUME NEW k \in 1..Len(waiting), judged => k # 1
       PROVE  Stores(ram'[JobsOf(cpuq)[k]], waiting[k])
  <2> DEFINE b == JobsOf(cpuq)[k]
  <2>1. b \in Buffer /\ InQueue(cpuq, b) = 1 /\ InQueue(fwdq, b) = 0 /\ HoldsPacket(b, waiting[k])
    BY <1>3, <1>4, JobsAreDistinct, QueueFacts DEF IInv
  <2>2. b # fwd_sel
    BY <2>1, QueueFacts DEF IInv, Buffer, Nothing, Ping, Pang, Pung
  <2>3. ~(b = cpu_sel /\ cpu.rej)
    <3>1. k # 1 => b # JobsOf(cpuq)[1]
      BY <1>3, <1>4, JobsAreDistinct
    <3>2. cpu_sel = JobsOf(cpuq)[1]
      BY <1>3, <1>4, JobsAreDistinct DEF cpu_sel
    <3> QED
      BY <1>14, <3>1, <3>2 DEF judged
  <2>4. ram'[b].mem = ram[b].mem /\ ram'[b].len = ram[b].len
    BY <2>1, <2>2, <2>3, PacketsStay
  <2> QED
    BY <2>1, <2>4 DEF HoldsPacket, Stores
<1>15. ASSUME NEW k \in 1..Len(accepted), fwdDone => k # 1
       PROVE  Stores(ram'[JobsOf(fwdq)[k]], accepted[k])
  <2> DEFINE b == JobsOf(fwdq)[k]
  <2>1. b \in Buffer /\ InQueue(fwdq, b) = 1 /\ InQueue(cpuq, b) = 0 /\ HoldsPacket(b, accepted[k])
    BY <1>3, <1>4, JobsAreDistinct, QueueFacts DEF IInv
  <2>2. b # cpu_sel
    BY <2>1, QueueFacts DEF IInv, Buffer, Nothing, Ping, Pang, Pung
  <2>3. ~(b = fwd_sel /\ ForwarderDone(TREADY))
    <3>1. k # 1 => b # JobsOf(fwdq)[1]
      BY <1>3, <1>4, JobsAreDistinct
    <3>2. fwd_sel = JobsOf(fwdq)[1]
      BY <1>3, <1>4, JobsAreDistinct DEF fwd_sel
    <3> QED
      BY <1>2, <1>15, <3>1, <3>2
  <2>4. ram'[b].mem = ram[b].mem /\ ram'[b].len = ram[b].len
    BY <2>1, <2>2, <2>3, PacketsStay
  <2> QED
    BY <2>1, <2>4 DEF HoldsPacket, Stores
<1>16. cpu.acc => Stores(ram'[cpu_sel], waiting[1])
  <2> SUFFICES ASSUME cpu.acc PROVE Stores(ram'[cpu_sel], waiting[1])
    OBVIOUS
  <2>1. cpu_sel \in Buffer /\ InQueue(cpuq, cpu_sel) = 1 /\ InQueue(fwdq, cpu_sel) = 0
    BY <1>7, QueueFacts DEF IInv, Buffer, Nothing, Ping, Pang, Pung
  <2>2. cpu_sel # fwd_sel /\ ~cpu.rej
    BY <1>1, <2>1, QueueFacts DEF IInv, InPosition, Buffer, Nothing, Ping, Pang, Pung
  <2>3. ram'[cpu_sel].mem = ram[cpu_sel].mem /\ ram'[cpu_sel].len = ram[cpu_sel].len
    BY <2>1, <2>2, PacketsStay
  <2> QED
    BY <1>8, <2>3 DEF HoldsPacket, Stores
<1>17. ASSUME NEW i \in 1..Len(waiting') PROVE Stores(ram'[JobsOf(cpuq')[i]], waiting'[i])
  <2>1. CASE \E k \in (IF judged THEN 2 ELSE 1)..Len(waiting) :
                JobsOf(cpuq')[i] = JobsOf(cpuq)[k] /\ waiting'[i] = waiting[k]
    <3>1. PICK k \in (IF judged THEN 2 ELSE 1)..Len(waiting) :
                JobsOf(cpuq')[i] = JobsOf(cpuq)[k] /\ waiting'[i] = waiting[k]
      BY <2>1
    <3>2. k \in 1..Len(waiting) /\ (judged => k # 1)
      BY <1>4
    <3> QED
      BY <1>14, <3>1, <3>2
  <2>2. CASE \E k \in 1..Len(Q) : JobsOf(cpuq')[i] = Given(snq, snDone)[k] /\ waiting'[i] = Q[k]
    <3>1. snDone
      BY <1>10, <2>2
    <3> QED
      BY <1>8, <1>10, <2>2, <3>1
  <2> QED
    BY <1>12, <2>1, <2>2, Zenon DEF Beside
<1>18. ASSUME NEW i \in 1..Len(accepted') PROVE Stores(ram'[JobsOf(fwdq')[i]], accepted'[i])
  <2>1. CASE \E k \in (IF fwdDone THEN 2 ELSE 1)..Len(accepted) :
                JobsOf(fwdq')[i] = JobsOf(fwdq)[k] /\ accepted'[i] = accepted[k]
    <3>1. PICK k \in (IF fwdDone THEN 2 ELSE 1)..Len(accepted) :
                JobsOf(fwdq')[i] = JobsOf(fwdq)[k] /\ accepted'[i] = accepted[k]
      BY <2>1
    <3>2. k \in 1..Len(accepted) /\ (fwdDone => k # 1)
      BY <1>4
    <3> QED
      BY <1>15, <3>1, <3>2
  <2>2. CASE \E k \in 1..Len(R) : JobsOf(fwdq')[i] = Given(cpuq, cpu.acc)[k] /\ accepted'[i] = R[k]
    <3>1. cpu.acc
      BY <1>11, <2>2
    <3> QED
      BY <1>11, <1>16, <2>2, <3>1
  <2> QED
    BY <1>13, <2>1, <2>2, Zenon DEF Beside
<1>19. StoredIntact'
  <2>1. /\ Len(JobsOf(cpuq')) = Len(waiting') /\ Len(JobsOf(fwdq')) = Len(accepted')
    BY <1>12, <1>13 DEF Beside
  <2>2. QueueHolds(cpuq, waiting)' <=>
           /\ Len(JobsOf(cpuq')) = Len(waiting')
           /\ \A i \in 1..Len(waiting') : Stores(ram'[JobsOf(cpuq')[i]], waiting'[i])
    BY DEF QueueHolds, HoldsPacket, Stores, JobsOf, OneJob
  <2>3. QueueHolds(fwdq, accepted)' <=>
           /\ Len(JobsOf(fwdq')) = Len(accepted')
           /\ \A i \in 1..Len(accepted') : Stores(ram'[JobsOf(fwdq')[i]], accepted'[i])
    BY DEF QueueHolds, HoldsPacket, Stores, JobsOf, OneJob
  <2> QED
    BY <1>17, <1>18, <2>1, <2>2, <2>3 DEF StoredIntact
<1>20. Histories'
  <2>1. Packets' = Packets
    BY <1>5 DEF Packets
  <2>2. taken' \in Nat
    BY <1>4, <1>5
  <2>3. waiting' \in Seq(Packets) /\ accepted' \in Seq(Packets)
    BY <1>12, <1>13 DEF Beside
  <2> QED
    BY <2>1, <2>2, <2>3 DEF Histories
<1>21. accepted # <<>> /\ ~fwdDone => accepted' # <<>> /\ accepted'[1] = accepted[1]
  <2> SUFFICES ASSUME accepted # <<>>, ~fwdDone PROVE accepted' # <<>> /\ accepted'[1] = accepted[1]
    OBVIOUS
  <2>1. accepted' = accepted \o R
    BY <1>5 DEF Dequeue
  <2>2. Len(accepted) \in Nat /\ Len(accepted) # 0 /\ Len(R) \in Nat
    BY <1>4, <1>11
  <2>3. /\ Len(accepted') = Len(accepted) + Len(R)
        /\ \A i \in 1..(Len(accepted) + Len(R)) :
              accepted'[i] = IF i <= Len(accepted) THEN accepted[i] ELSE R[i - Len(accepted)]
    BY <1>4, <1>11, <2>1, ConcatProperties
  <2>4. 1 \in 1..(Len(accepted) + Len(R)) /\ 1 <= Len(accepted) /\ Len(accepted') # 0
    BY <2>2, <2>3
  <2>5. Len(<<>>) = 0
    OBVIOUS
  <2> QED
    BY <2>3, <2>4, <2>5
<1> QED
  BY <1>2, <1>19, <1>20, <1>21

-----------------------------------------------------------------------------

\* The forwarder's buffer, and the wires from it, until its packet is sent.
LEMMA ForwarderBuffer ==
    ASSUME Deployment, IInv, NEW bus, NEW cpu, NEW TREADY, Cycle(bus, cpu, TREADY),
           ready_for_forwarder, ~ForwarderDone(TREADY)
    PROVE  /\ ready_for_forwarder' /\ Last' = Last /\ accepted'[1] = accepted[1]
           /\ fwdIn'.len = fwdIn.len
           /\ fwdIn'.do = IF RdEn(ready_for_forwarder, fwdIn.len, TREADY)
                            THEN HalvesOf(accepted[1][forwarder_rd_addr + 1]) ELSE fwdIn.do
<1>1. fwd_sel' = fwd_sel
  <2>1. ForwarderWires(TREADY).done <=> ForwarderDone(TREADY)
    BY ForwarderFacts DEF Cycle
  <2> QED
    BY <2>1, QueuesNext DEF ready_for_forwarder
<1>2. /\ fwd_sel \in Buffer /\ fwdIn.do = ram[fwd_sel].do /\ fwdIn.len = ram[fwd_sel].len
      /\ \A n \in 0..Last : ram[fwd_sel].mem[n] = accepted[1][n + 1]
  BY ForwarderJob
<1>3. fwdIn' = [do |-> ram'[fwd_sel].do, len |-> ram'[fwd_sel].len]
  BY <1>1, <1>2 DEF fwdIn, OutputTo, Mux3, Buffer, Ping, Pang, Pung
<1>4. accepted'[1] = accepted[1]
  BY Oldests, ListsStep
<1>5. Last' = Last
  BY <1>4 DEF Last
<1>6. fwd_sel # sn_sel /\ fwd_sel # cpu_sel
  BY <1>2, QueueFacts, FrontsDiffer DEF IInv, Buffer, Nothing, Ping, Pang, Pung
<1>7. /\ ram'[fwd_sel].len = ram[fwd_sel].len
      /\ ram'[fwd_sel].do = IF RdEn(ready_for_forwarder, fwdIn.len, TREADY)
                              THEN HalvesOf(ram[fwd_sel].mem[forwarder_rd_addr]) ELSE ram[fwd_sel].do
  BY <1>2, <1>6, BufferNext
<1>8. RdEn(ready_for_forwarder, fwdIn.len, TREADY) => forwarder_rd_addr \in 0..Last
  BY ForwarderFacts DEF Cycle
<1>9. ready_for_forwarder'
  BY <1>1 DEF ready_for_forwarder
<1>10. fwdIn'.len = fwdIn.len
  BY <1>2, <1>3, <1>7
<1>11. fwdIn'.do = IF RdEn(ready_for_forwarder, fwdIn.len, TREADY)
                     THEN HalvesOf(accepted[1][forwarder_rd_addr + 1]) ELSE fwdIn.do
  <2> DEFINE rd_en == RdEn(ready_for_forwarder, fwdIn.len, TREADY)
  <2>1. fwdIn'.do = ram'[fwd_sel].do
    BY <1>3
  <2>2. rd_en => ram[fwd_sel].mem[forwarder_rd_addr] = accepted[1][forwarder_rd_addr + 1]
    BY <1>2, <1>8
  <2> HIDE DEF rd_en
  <2> QED
    BY <1>2, <1>7, <2>1, <2>2 DEF rd_en
<1> QED
  BY <1>4, <1>5, <1>9, <1>10, <1>11

\* The forwarder stays where the sink is: in every cycle it reads the next beat, or has sent the
\* last one, or waits for the sink or for a packet.
LEMMA SendingStep ==
    ASSUME Deployment, IInv, NEW bus, NEW cpu, NEW TREADY, Cycle(bus, cpu, TREADY)
    PROVE  Sending'
<1> DEFINE rd_en == RdEn(ready_for_forwarder, fwdIn.len, TREADY)
           done == ForwarderDone(TREADY)
           atEnd == forwarder_rd_addr >= Last
<1>1. /\ forwarder_rd_addr' = IF ~rd_en THEN forwarder_rd_addr
                              ELSE IF atEnd THEN 0 ELSE forwarder_rd_addr + 1
      /\ TVALID' <=> rd_en \/ (~TREADY /\ TVALID)
      /\ TLAST' <=> (atEnd /\ rd_en) \/ (TLAST /\ ~TREADY)
      /\ TDATA_r' = TDATA(fwdIn.do) /\ TLAST_r' = TLAST /\ TREADY_r' = TREADY
      /\ ready_for_forwarder_r' <=> pessimistic /\ ready_for_forwarder /\ ~done
      /\ pessimistic => len_to_forwarder_r' = fwdIn.len
      /\ taken' = IF done THEN 0 ELSE IF TVALID /\ TREADY THEN taken + 1 ELSE taken
      /\ rd_en => taken' = forwarder_rd_addr
  BY ForwarderNext
<1>2. /\ done <=> TLAST /\ TVALID /\ TREADY
      /\ rd_en <=> /\ IF pessimistic THEN ready_for_forwarder_r ELSE ready_for_forwarder
                   /\ TREADY \/ ~TVALID
                   /\ ~TLAST
      /\ rd_en => ready_for_forwarder /\ forwarder_rd_addr \in 0..Last
                  /\ forwarder_rd_addr = IF TVALID THEN taken + 1 ELSE taken
      /\ pessimistic' = pessimistic
  BY ForwarderFacts DEF Cycle, Edge, ForwarderDone
<1>3. ready_for_forwarder /\ ~done =>
         /\ ready_for_forwarder' /\ Last' = Last /\ accepted'[1] = accepted[1]
         /\ fwdIn'.len = fwdIn.len
         /\ fwdIn'.do = IF rd_en THEN HalvesOf(accepted[1][forwarder_rd_addr + 1]) ELSE fwdIn.do
  BY ForwarderBuffer
<1>4. /\ TVALID => /\ ready_for_forwarder /\ (pessimistic => ready_for_forwarder_r)
                   /\ taken <= Last /\ (TLAST <=> taken = Last)
                   /\ fwdIn.do = HalvesOf(accepted[1][taken + 1])
      /\ forwarder_rd_addr = IF TVALID /\ ~TLAST THEN taken + 1 ELSE 0
      /\ ~TVALID => ~TLAST /\ taken = 0
      /\ still_hangin_on => TLAST /\ TDATA_r = fwdIn.do
  BY DEF IInv, Sending, Offers, Ahead, NothingOffered, Hanging
<1>5. taken \in Nat /\ (ready_for_forwarder => Last \in Nat)
  BY Numbers, ForwarderJob
<1>6. fwdIn.do = TDATA(fwdIn.do)
  BY <1>4 DEF TDATA
<1> HIDE DEF rd_en, done, atEnd
<1>7. Delayed'
  BY <1>1, <1>2, <1>3 DEF Delayed
<1>8. Offers'
  <2>1. CASE rd_en
    <3>1. ready_for_forwarder /\ ~done /\ taken' = forwarder_rd_addr
      BY <1>1, <1>2, <2>1
    <3>2. TLAST' <=> taken' = Last
      BY <1>1, <1>2, <1>5, <2>1, <3>1 DEF atEnd
    <3>3. taken' <= Last
      BY <1>2, <1>5, <2>1, <3>1
    <3>4. fwdIn'.do = HalvesOf(accepted'[1][taken' + 1])
      BY <1>3, <2>1, <3>1
    <3>5. ready_for_forwarder' /\ (pessimistic' => ready_for_forwarder_r')
      BY <1>1, <1>2, <1>3, <3>1
    <3> QED
      BY <1>3, <3>1, <3>2, <3>3, <3>4, <3>5 DEF Offers, HalvesOf
  <2>2. CASE ~rd_en /\ TVALID'
    <3>1. ~TREADY /\ TVALID /\ ~done /\ ready_for_forwarder /\ taken' = taken /\ (TLAST' <=> TLAST)
      BY <1>1, <1>2, <1>4, <2>2
    <3>2. fwdIn'.do = HalvesOf(accepted'[1][taken' + 1])
      BY <1>3, <1>4, <2>2, <3>1
    <3>3. ready_for_forwarder' /\ (pessimistic' => ready_for_forwarder_r')
      BY <1>1, <1>2, <1>3, <3>1
    <3> QED
      BY <1>3, <1>4, <3>1, <3>2, <3>3 DEF Offers, HalvesOf
  <2>3. CASE ~TVALID'
    BY <2>3 DEF Offers
  <2> QED
    BY <2>1, <2>2, <2>3
<1>9. Ahead'
  <2>1. CASE rd_en
    <3>1. TVALID' /\ taken' = forwarder_rd_addr /\ (TLAST' <=> atEnd)
      BY <1>1, <1>2, <2>1
    <3> QED
      BY <1>1, <2>1, <3>1 DEF Ahead
  <2>2. CASE ~rd_en /\ TVALID'
    <3>1. TVALID /\ taken' = taken /\ (TLAST' <=> TLAST) /\ forwarder_rd_addr' = forwarder_rd_addr
      BY <1>1, <1>2, <2>2
    <3> QED
      BY <1>4, <2>2, <3>1 DEF Ahead
  <2>3. CASE ~TVALID'
    <3>1. ~rd_en /\ (TREADY \/ ~TVALID) /\ forwarder_rd_addr' = forwarder_rd_addr
      BY <1>1, <2>3
    <3>2. ~(TVALID /\ ~TLAST)
      BY <1>2, <1>4, <3>1
    <3> QED
      BY <1>4, <2>3, <3>1, <3>2 DEF Ahead
  <2> QED
    BY <2>1, <2>2, <2>3
<1>10. NothingOffered'
  <2> SUFFICES ASSUME ~TVALID' PROVE ~TLAST' /\ taken' = 0
    BY DEF NothingOffered
  <2>1. ~rd_en /\ (TREADY \/ ~TVALID)
    BY <1>1
  <2>2. ~TLAST'
    BY <1>1, <1>4, <2>1
  <2>3. taken' = 0
    BY <1>1, <1>2, <1>4, <2>1
  <2> QED
    BY <2>2, <2>3
<1>11. Hanging'
  <2> SUFFICES ASSUME still_hangin_on' PROVE TLAST' /\ TDATA_r' = fwdIn'.do
    BY DEF Hanging
  <2>1. TLAST /\ ~TREADY
    BY <1>1 DEF still_hangin_on
  <2>2. TVALID /\ ~rd_en /\ ~done /\ ready_for_forwarder
    BY <1>2, <1>4, <2>1
  <2> QED
    BY <1>1, <1>3, <1>6, <2>1, <2>2
<1> QED
  BY <1>7, <1>8, <1>9, <1>10, <1>11 DEF Sending

-----------------------------------------------------------------------------

\* The empty filter satisfies the invariant.
LEMMA InvariantAtStart == ASSUME Deployment, Init PROVE IInv
<1>1. TypeInv
  BY TypesAtStart DEF Deployment
<1>2. /\ snq = FullQueue /\ cpuq = EmptyQueue /\ fwdq = EmptyQueue /\ ram = [b \in Buffer |-> EmptyRam]
      /\ need_to_wait = FALSE /\ addr = 0 /\ mem_ready_r = FALSE /\ beat = 0
      /\ TVALID = FALSE /\ TLAST = FALSE /\ forwarder_rd_addr = 0 /\ TLAST_r = FALSE
      /\ ready_for_forwarder_r = FALSE /\ cpu_age = 0
      /\ copying = <<>> /\ waiting = <<>> /\ accepted = <<>> /\ taken = 0
  BY DEF Init, SourceInit, SnooperInit, MemInit, QueuesInit, ForwarderInit
<1>3. Places
  <2>1. snooperAge = 0 /\ forwarderAge = 0
    BY <1>2 DEF snooperAge, forwarderAge
  <2> QED
    BY <1>2, <2>1 DEF Places, FullQueue, EmptyQueue, Total, InQueue, Count, SettledQueue, Front,
       Buffer, Nothing, Ping, Pang, Pung
<1>4. Copying
  <2>1. <<>> \in Seq(Data) /\ Len(<<>>) = 0
    OBVIOUS
  <2> QED
    BY <1>2, <2>1 DEF Copying
<1>5. SnooperBuffers
  <2>1. \A b \in Buffer : ram[b].len = 0
    BY <1>2 DEF EmptyRam
  <2> QED
    BY <1>2, <2>1 DEF SnooperBuffers, HalfCopied
<1>6. Histories
  <2>1. <<>> \in Seq(Packets)
    OBVIOUS
  <2> QED
    BY <1>2, <2>1 DEF Histories
<1>7. StoredIntact
  <2>1. Len(<<>>) = 0
    OBVIOUS
  <2>2. JobsOf(cpuq) = <<>> /\ JobsOf(fwdq) = <<>>
    BY <1>2, StartingJobs
  <2> QED
    BY <1>2, <2>1, <2>2 DEF StoredIntact, QueueHolds
<1>8. Sending
  BY <1>2 DEF Sending, Delayed, Offers, Ahead, NothingOffered, Hanging, still_hangin_on
<1> QED
  BY <1>1, <1>3, <1>4, <1>5, <1>6, <1>7, <1>8 DEF IInv

\* Every cycle of the filter preserves the invariant.
LEMMA InvariantStep == ASSUME Deployment, IInv, [Next]_vars PROVE IInv'
<1>1. CASE Next
  <2>1. PICK bus \in BusWires, cpu \in CpuMayDrive, TREADY \in BOOLEAN : Cycle(bus, cpu, TREADY)
    BY <1>1, StepsAreCycles
  <2>2. TypeInv'
    BY TypesStep DEF IInv, Deployment
  <2>3. Places'
    BY <2>1, <2>2, PlacesStep
  <2>4. Copying' /\ SnooperBuffers'
    BY <2>1, CopyingStep, SnooperBuffersStep
  <2>5. Histories' /\ StoredIntact'
    BY <2>1, ListsStep
  <2>6. Sending'
    BY <2>1, SendingStep
  <2> QED
    BY <2>2, <2>3, <2>4, <2>5, <2>6 DEF IInv
<1>2. CASE UNCHANGED vars
  <2>1. TypeInv'
    BY TypesStep DEF IInv, Deployment
  <2>2. /\ UNCHANGED <<pessimistic, beats, beat, need_to_wait, addr, mem_ready_r, snq, cpuq, fwdq, ram>>
        /\ UNCHANGED <<TVALID, TLAST, forwarder_rd_addr, TDATA_r, TLAST_r, TREADY_r>>
        /\ UNCHANGED <<ready_for_forwarder_r, len_to_forwarder_r, cpu_age>>
        /\ UNCHANGED <<copying, waiting, accepted, taken>>
    BY <1>2 DEF vars, history
  <2>3. Places'
    BY <2>2 DEF IInv, Places, snooperAge, forwarderAge, SettledQueue, Front, Total, InQueue, Count
  <2>4. Copying'
    BY <2>2 DEF IInv, Copying, ready_for_snooper, sn_sel, Front
  <2>5. SnooperBuffers'
    BY <2>2 DEF IInv, SnooperBuffers, HalfCopied, InQueue, Count, sn_sel, Front
  <2>6. Histories'
    BY <2>2 DEF IInv, Histories, Packets
  <2>7. StoredIntact'
    BY <2>2 DEF IInv, StoredIntact, QueueHolds, HoldsPacket, JobsOf, OneJob
  <2>8. Sending'
    <3>1. fwdIn' = fwdIn /\ ready_for_forwarder' = ready_for_forwarder /\ Last' = Last
      BY <2>2 DEF fwdIn, OutputTo, Mux3, fwd_sel, Front, ready_for_forwarder, Last
    <3>2. still_hangin_on' = still_hangin_on
      BY <2>2 DEF still_hangin_on
    <3> QED
      BY <2>2, <3>1, <3>2 DEF IInv, Sending, Delayed, Offers, Ahead, NothingOffered, Hanging
  <2> QED
    BY <2>1, <2>3, <2>4, <2>5, <2>6, <2>7, <2>8 DEF IInv
<1> QED
  BY <1>1, <1>2

\* So the invariant holds in every cycle of the filter.
LEMMA Invariant == ASSUME Deployment PROVE Spec => []IInv
  BY InvariantAtStart, InvariantStep, PTL DEF Spec

\* One agent always has exclusive control of a buffer (painfulmuxes.v): no buffer is lost, given
\* to two agents or queued twice, whatever the bus, the CPU and the sink do.
THEOREM BuffersAreExclusive == ASSUME Deployment PROVE Spec => []ExclusiveBuffers
<1>1. IInv => ExclusiveBuffers
  BY QueueFacts, TotalIsOneSlot DEF IInv, ExclusiveBuffers
<1> QED
  BY <1>1, Invariant, PTL

\* An agent selects a buffer if and only if the buffer selects the agent (muxselinvert.v), so that
\* what an agent drives goes to its buffer only, and it reads what that buffer puts out.
THEOREM MultiplexersAgree == ASSUME Deployment PROVE Spec => []SelectsAgree
<1>1. IInv => SelectsAgree
  BY QueueFacts, Selected DEF IInv
<1> QED
  BY <1>1, Invariant, PTL

\* From the snooper's done pulse to the forwarder's, a buffer holds the beats of its packet and
\* their number, while the other agents work on theirs (packetmem.v).
THEOREM PacketsAreStoredIntact == ASSUME Deployment PROVE Spec => []StoredIntact
<1>1. IInv => StoredIntact
  BY DEF IInv
<1> QED
  BY <1>1, Invariant, PTL

\* The sink gets what the CPU accepted: the right packet, each beat once, in order, and TLAST with
\* its last beat, though data come one or two cycles after their address (axistream_forwarder.v).
THEOREM AcceptedAreDelivered == ASSUME Deployment PROVE Spec => []DeliversAccepted
<1>1. ASSUME Deployment, IInv PROVE DeliversAccepted
  <2> SUFFICES ASSUME TVALID
               PROVE  /\ accepted # <<>>
                      /\ taken < Len(accepted[1])
                      /\ TDATA_out = HalvesOf(accepted[1][taken + 1])
                      /\ TLAST <=> taken + 1 = Len(accepted[1])
    BY DEF DeliversAccepted, HalvesOf
  <2>1. /\ ready_for_forwarder /\ taken <= Last /\ (TLAST <=> taken = Last)
        /\ fwdIn.do = HalvesOf(accepted[1][taken + 1])
    BY <1>1 DEF IInv, Sending, Offers
  <2>2. accepted # <<>> /\ Last \in Nat /\ Len(accepted[1]) = Last + 1 /\ taken \in Nat
    BY <1>1, <2>1, Oldests, ForwarderJob, Numbers
  <2>3. TDATA_out = fwdIn.do
    BY <1>1 DEF IInv, Sending, Hanging, TDATA_out, TDATA
  <2> QED
    BY <2>1, <2>2, <2>3
<1> QED
  BY <1>1, Invariant, PTL

-----------------------------------------------------------------------------
(* Reads of the CPU (read_size_adapter.v) *)

\* The eight bytes that the memory puts out for an address start at the word of that
\* address (packetram.v:85, read_size_adapter.v:84-104).
LEMMA TwoWords ==
    ASSUME Words \in Nat \ {0}, NEW a \in Reads!ByteAddr, NEW i \in 0..3
    PROVE  Reads!BigWordAt(a \div 4)[(a % 4) + i] = mem[Reads!Wrapped(a + i)]
<1> DEFINE w == a \div 4
           o == a % 4
<1>1. /\ w \in 0..Words - 1 /\ o \in 0..3 /\ a = 4 * w + o
    BY DEF Reads!ByteAddr
<1>2. PICK j \in 0..7 : j = o + i
    BY <1>1
<1>3. Reads!BigWordAt(w)[j] = mem[IF j < 4 THEN 4 * w + j ELSE 4 * Reads!NextWord(w) + (j - 4)]
    BY DEF Reads!BigWordAt
<1>4. (IF j < 4 THEN 4 * w + j ELSE 4 * Reads!NextWord(w) + (j - 4)) = Reads!Wrapped(a + i)
    <2> HIDE DEF w, o
    <2> QED
        BY <1>1, <1>2 DEF Reads!NextWord, Reads!Wrapped
<1> QED
    BY <1>2, <1>3, <1>4

\* A clock edge with a read makes the selected bytes those the request asks for.
LEMMA ReadSelects ==
    ASSUME Words \in Nat \ {0}, NEW r \in Reads!Request, Reads!Clock(r), r.rd_en
    PROVE  (Reads!resized_mem_data_internal = Reads!Wanted(r))'
<1>1. /\ bigword' = Reads!BigWordAt(r.addr \div 4) /\ sz_r' = r.sz /\ offset_r' = r.addr % 4 /\ mem' = mem
    BY DEF Reads!Clock
<1>2. r.addr \in Reads!ByteAddr /\ r.sz \in 0..3
    BY DEF Reads!Request
<1>3. \A i \in 0..3 : Reads!selected'[i] = mem[Reads!Wrapped(r.addr + i)]
    BY <1>1, <1>2, TwoWords DEF Reads!selected
<1>4. \A p \in 0..3 : Reads!resized_mem_data_internal'[p] = Reads!Wanted(r)'[p]
    <2> SUFFICES ASSUME NEW p \in 0..3
                 PROVE  Reads!resized_mem_data_internal'[p] = Reads!Wanted(r)'[p]
        OBVIOUS
    <2>1. CASE r.sz = Reads!BPF_W
        BY <1>1, <1>2, <1>3, <2>1 DEF Reads!resized_mem_data_internal, Reads!Wanted, Reads!Bytes, Reads!BPF_W, Reads!ByteAddr
    <2>2. CASE r.sz = Reads!BPF_H
        <3>1. CASE p < 2
            BY <1>1, <2>2, <3>1 DEF Reads!resized_mem_data_internal, Reads!Wanted, Reads!Bytes, Reads!BPF_W, Reads!BPF_H
        <3>2. CASE p >= 2
            <4>1. Reads!resized_mem_data_internal'[p] = Reads!selected'[p - 2]
                BY <1>1, <2>2, <3>2 DEF Reads!resized_mem_data_internal, Reads!BPF_W, Reads!BPF_H
            <4>2. Reads!Wanted(r)'[p] = mem[Reads!Wrapped(r.addr + p - 2)]
                BY <1>1, <2>2, <3>2 DEF Reads!Wanted, Reads!Bytes, Reads!BPF_W, Reads!BPF_H
            <4>3. Reads!selected'[p - 2] = mem[Reads!Wrapped(r.addr + (p - 2))] /\ r.addr + (p - 2) = r.addr + p - 2
                BY <1>2, <1>3, <3>2 DEF Reads!ByteAddr
            <4> QED
                BY <4>1, <4>2, <4>3
        <3> QED
            BY <3>1, <3>2
    <2>3. CASE r.sz # Reads!BPF_W /\ r.sz # Reads!BPF_H
        <3>1. CASE p < 3
            BY <1>1, <2>3, <3>1 DEF Reads!resized_mem_data_internal, Reads!Wanted, Reads!Bytes
        <3>2. CASE p = 3
            <4>1. Reads!resized_mem_data_internal'[p] = Reads!selected'[0]
                BY <1>1, <2>3, <3>2 DEF Reads!resized_mem_data_internal
            <4>2. Reads!Wanted(r)'[p] = mem[Reads!Wrapped(r.addr + 0)]
                BY <1>1, <1>2, <2>3, <3>2 DEF Reads!Wanted, Reads!Bytes, Reads!ByteAddr
            <4> QED
                BY <1>3, <4>1, <4>2
        <3> QED
            BY <3>1, <3>2
    <2> QED
        BY <2>1, <2>2, <2>3
<1> QED
    BY <1>4 DEF Reads!resized_mem_data_internal, Reads!Wanted

\* For every memory size and all bytes: the CPU reads the bytes it asks for, in both
\* builds (read_size_adapter.v:84-133).
THEOREM ReadsAreExact ==
    ASSUME Words \in Nat \ {0}
    PROVE  Reads!Spec => []Reads!ReadsTheBytes
<1>1. Reads!Init => Reads!Staged
    BY DEF Reads!Init, Reads!Staged, Reads!Request, Reads!ByteAddr
<1>2. Reads!Staged /\ [Reads!Next]_Reads!vars => Reads!Staged'
    <2> SUFFICES ASSUME Reads!Staged, [Reads!Next]_Reads!vars PROVE Reads!Staged'
        OBVIOUS
    <2>1. CASE Reads!Next
        <3> PICK r \in Reads!Request : Reads!Clock(r)
            BY <2>1 DEF Reads!Next
        <3>1. pessimistic' = pessimistic /\ mem' = mem /\ request' = r /\ earlier' = request
            BY DEF Reads!Clock
        <3>2. r.rd_en => (Reads!resized_mem_data_internal = Reads!Wanted(r))'
            BY ReadSelects
        <3>3. pessimistic /\ request.rd_en => resized_mem_data_r' = Reads!Wanted(request)
            BY DEF Reads!Staged, Reads!Clock
        <3>4. Reads!Wanted(earlier)' = Reads!Wanted(request)
            BY <3>1 DEF Reads!Wanted
        <3>5. /\ pessimistic' \in BOOLEAN
              /\ request' \in Reads!Request' /\ earlier' \in Reads!Request'
            BY <3>1 DEF Reads!Staged, Reads!Request, Reads!ByteAddr
        <3>6. request'.rd_en => Reads!resized_mem_data_internal' = Reads!Wanted(request)'
            BY <3>1, <3>2
        <3>7. pessimistic' /\ earlier'.rd_en => resized_mem_data_r' = Reads!Wanted(earlier)'
            BY <3>1, <3>3, <3>4
        <3> QED
            BY <3>5, <3>6, <3>7 DEF Reads!Staged
    <2>2. CASE UNCHANGED Reads!vars
        BY <2>2 DEF Reads!vars, Reads!Staged, Reads!Wanted, Reads!resized_mem_data_internal, Reads!selected
    <2> QED
        BY <2>1, <2>2
<1>3. Reads!Staged => Reads!ReadsTheBytes
    BY DEF Reads!Staged, Reads!ReadsTheBytes, Reads!resized_mem_data
<1> QED
    BY <1>1, <1>2, <1>3, PTL DEF Reads!Spec
=============================================================================
