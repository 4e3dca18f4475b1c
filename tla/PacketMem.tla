------------------------------ MODULE PacketMem ------------------------------
(****************************************************************************)
(* packetmem.v: the three packet buffers (packetram.v), the dispatcher that *)
(* hands them to the agents (p3ctrl.v) and the multiplexers between them    *)
(* (painfulmuxes.v, muxselinvert.v).  The agents' output wires are the      *)
(* parameters sn, cpu and fwd:                                              *)
(*   sn  = [addr, data, wr_en, done]   the snooper writes one beat          *)
(*   cpu = [addr, rd_en, acc, rej]     the CPU reads two half beats at a port*)
(*                                     address (after read_size_adapter.v)  *)
(*   fwd = [addr, rd_en, done]         the forwarder reads one beat         *)
(****************************************************************************)
EXTENDS P3Ctrl, FilterParams

CONSTANT Data                     \* what a beat can carry

VARIABLE ram                      \* ram[b]: contents, length and output register

memVars == <<snq, cpuq, fwdq, ram>>

\* A buffer holds beats; a port reads one half of a beat.
Half(beat, h) == IF beat = Zero THEN Zero ELSE [beat |-> beat, half |-> h]
HalfBeats == {Half(d, h) : d \in Data, h \in 0..1} \cup {Zero}

RamType == [mem : [BeatAddr -> Data \cup {Zero}], len : PortAddr, do : HalfBeats \X HalfBeats]

MemTypeOK == QueuesTypeOK /\ ram \in [Buffer -> RamType]

EmptyRam == [mem |-> [a \in BeatAddr |-> Zero], len |-> 0, do |-> <<Zero, Zero>>]

MemInit == QueuesInit /\ ram = [b \in Buffer |-> EmptyRam]

\* The ready lines.
ready_for_snooper   == sn_sel # Nothing
ready_for_cpu       == cpu_sel # Nothing
ready_for_forwarder == fwd_sel # Nothing

(****************************************************************************)
(* The select lines of the buffers, from those of the agents: 1, 2 and 3    *)
(* wire the buffer to the snooper, the CPU and the forwarder.               *)
(****************************************************************************)
SelBits(bit1, bit0) == (IF bit1 THEN 2 ELSE 0) + (IF bit0 THEN 1 ELSE 0)

\* Mutant of MuxSelInvert: pung looks at pang's forwarder select.
MuxSelInvertTypo(sn, cpu, fwd) ==
    [b \in Buffer |->
       CASE b = Ping -> SelBits(fwd = Ping \/ (cpu = Ping /\ sn # Ping), fwd = Ping \/ sn = Ping)
         [] b = Pang -> SelBits(fwd = Pang \/ cpu = Pang, fwd = Pang \/ sn = Pang)
         [] b = Pung -> SelBits(fwd = Pang \/ (cpu = Pung /\ sn # Pung), fwd = Pung \/ sn = Pung)]

MuxSelInvert(sn, cpu, fwd) ==
    [b \in Buffer |->
       CASE b = Ping -> SelBits(fwd = Ping \/ (cpu = Ping /\ sn # Ping), fwd = Ping \/ sn = Ping)
         [] b = Pang -> SelBits(fwd = Pang \/ cpu = Pang, fwd = Pang \/ sn = Pang)
         [] b = Pung -> SelBits(fwd = Pung \/ (cpu = Pung /\ sn # Pung), fwd = Pung \/ sn = Pung)]

bufSel == MuxSelInvert(sn_sel, cpu_sel, fwd_sel)

\* The three-way multiplexer with 0 as the fourth input.
Mux3(A, B, C, none, sel) ==
    CASE sel = 0 -> none [] sel = 1 -> A [] sel = 2 -> B [] sel = 3 -> C

\* What the multiplexers put on the inputs of buffer b.
NoPort == [addr |-> 0, data |-> Zero, wr_en |-> FALSE, rd_en |-> FALSE]
PortOf(b, sn, cpu, fwd) ==
    Mux3([addr |-> 2 * sn.addr, data |-> sn.data, wr_en |-> sn.wr_en, rd_en |-> FALSE],
         [addr |-> cpu.addr, data |-> Zero, wr_en |-> FALSE, rd_en |-> cpu.rd_en],
         [addr |-> 2 * fwd.addr, data |-> Zero, wr_en |-> FALSE, rd_en |-> fwd.rd_en],
         NoPort, bufSel[b])

\* What the agents get back: the output register and length of their buffer.
NoOutput == [do |-> <<Zero, Zero>>, len |-> 0]
OutputTo(sel) ==
    Mux3([do |-> ram[Ping].do, len |-> ram[Ping].len],
         [do |-> ram[Pang].do, len |-> ram[Pang].len],
         [do |-> ram[Pung].do, len |-> ram[Pung].len], NoOutput, sel)

(****************************************************************************)
(* A buffer: a synchronous, read-first memory with an output register, and  *)
(* the length, which is the highest port address written since len_rst.     *)
(****************************************************************************)
HalfAt(mem, a) == Half(mem[a \div 2], a % 2)

LenNext(len, port, len_rst) ==
    IF len_rst THEN 0
    ELSE IF port.addr > len /\ port.wr_en THEN port.addr
    ELSE len

RamNext(r, port, len_rst) ==
    [mem |-> IF port.wr_en THEN [r.mem EXCEPT ![port.addr \div 2] = port.data] ELSE r.mem,
     len |-> LenNext(r.len, port, len_rst),
     do  |-> IF port.wr_en \/ port.rd_en
               THEN <<HalfAt(r.mem, port.addr),
                      HalfAt(r.mem, (port.addr + 1) % 2^(AddrWidth + 1))>>
               ELSE r.do]

\* Mutants of LenRst: only the forwarder, or only the CPU, resets the length.
LenRstForwarder(b, cpu, fwd) == bufSel[b] = 3 /\ fwd.done
LenRstCpu(b, cpu, fwd) == bufSel[b] = 2 /\ cpu.rej

\* The length is reset when the buffer leaves the CPU by reject or the forwarder.
LenRst(b, cpu, fwd) == \/ bufSel[b] = 2 /\ cpu.rej
                       \/ bufSel[b] = 3 /\ fwd.done

\* One clock edge; rst goes to the dispatcher only.
MemClock(rst, sn, cpu, fwd) ==
    /\ IF rst THEN QueuesReset ELSE QueuesClock(sn.done, cpu.acc, cpu.rej, fwd.done)
    /\ ram' = [b \in Buffer |->
                 RamNext(ram[b], PortOf(b, sn, cpu, fwd), LenRst(b, cpu, fwd))]
=============================================================================
