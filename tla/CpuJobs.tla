------------------------------- MODULE CpuJobs -------------------------------
(****************************************************************************)
(* The CPU with the packet memory that gives it one packet after another,   *)
(* and with a host that may stop it (rst: bpfvm.v, axistream_packetfilt.v). *)
(*                                                                          *)
(* The memory takes a packet away after the verdict and may give the next   *)
(* in the next cycle.                                                       *)
(****************************************************************************)
EXTENDS BpfCpu

CONSTANTS Programs,               \* of each kind of build, the programs in code memory
          Packets, StopAnywhere

\* Code memory is filled, and its contents are instructions.
ASSUME JobsAssumption ==
    /\ Packets \subseteq Packet
    /\ \A p \in BOOLEAN : Programs[p] \subseteq [Address -> Instruction]

VARIABLES mem_ready, packet,      \* the memory's wires to the CPU
          age                     \* history: cycles the present packet was visible

vars == <<cpuVars, mem_ready, packet, age>>

MinJob == 2                       \* what the dispatcher needs of its agents

TypeOK == /\ CpuTypeOK
          /\ mem_ready \in BOOLEAN /\ packet \in Packet /\ age \in 0..MinJob

Init == /\ \E p \in BOOLEAN : \E program \in Programs[p] : CpuInit(program, p)
        /\ mem_ready \in BOOLEAN /\ packet \in Packets /\ age = 0

\* An instruction that waits for a register it will write itself.
WaitsForItself(i) == (we_read_A(i) /\ A_en(i)) \/ (we_read_X(i) /\ X_en(i))

\* An instruction that works on X, whether or not it waits for it.
UsesX(i) == we_read_X(i) \/ (i.class \in {"ALU", "JMP"} /\ i.src = "X")

\* The instructions that come within n places before place a, with nothing between that
\* jumps or returns.
Behind(p, a, n) ==
    {p[(a - d) % CodeSize] : d \in {d \in 1..n : \A e \in 1..d :
        LET i == p[(a - e) % CodeSize] IN i.class # "JMP" /\ ~RetImm(i)}}

\* The programs that the CPU can execute: none begins with an instruction that waits
\* for itself; none has one shortly after a write to a register; X is not used by a
\* comparison or an ALU operation shortly after a write to it; and in a PESSIMISTIC
\* build A and X are only loaded from the packet or from each other.
WaitsForNothing(p, n) == /\ ~WaitsForItself(p[0])
                         /\ \A a \in Address : \A i \in Behind(p, a, n) :
                               WaitsForItself(p[a]) => ~A_en(i) /\ ~X_en(i)
UsesXLate(p, n) == \A a \in Address : \A i \in Behind(p, a, n) :
                      UsesX(p[a]) /\ ~we_read_X(p[a]) => ~X_en(i)
LoadsFromPacket(p) == \A a \in Address :
                         p[a].class # "ALU" /\ (Loads(p[a]) => p[a].mode \notin {"IMM", "MEM"})

Depth(is_pessimistic) == IF is_pessimistic THEN 3 ELSE 2
Executable(p, is_pessimistic) == /\ WaitsForNothing(p, Depth(is_pessimistic))
                                 /\ UsesXLate(p, Depth(is_pessimistic))
                                 /\ is_pessimistic => LoadsFromPacket(p)

\* The host stops the filter at any time, or when the CPU holds no such instruction.
MayStop == StopAnywhere \/ ~WaitsForItself(IR)

PacketFor(rst) ==
    IF rst \/ verdict \/ ~mem_ready
      THEN /\ mem_ready' \in (IF rst THEN {FALSE} ELSE BOOLEAN)
           /\ packet' \in (IF mem_ready' THEN Packets ELSE {packet})
           /\ age' = 0
      ELSE /\ UNCHANGED <<mem_ready, packet>>
           /\ age' = IF age < MinJob THEN age + 1 ELSE age

Clock(rst) == CpuClock(rst, mem_ready, packet) /\ PacketFor(rst)

Running == Clock(FALSE)
Stopped == MayStop /\ Clock(TRUE)

Next == Running \/ Stopped

Spec == Init /\ [][Next]_vars

\* The clock runs.
FairSpec == Spec /\ WF_vars(Next)

-----------------------------------------------------------------------------

\* A packet is judged by the instructions of the program, in its order and from its
\* first, with those that jumps skip left out and none issued twice ("Its job is to
\* handle the instruction register", fetch_stage0.v).
ExecutesInOrder == issue /\ mem_ready /\ isa.pc # Unknown => IR = code[isa.pc]

\* An instruction leaves stage 1 when the registers it works on hold what the
\* instructions before it have written to them (the stall conditions that
\* decode_compute1_stage1.v lists).
OperandsCurrent ==
    issue /\ mem_ready => /\ we_read_A(IR) => isa.A \in {Unknown, A}
                          /\ UsesX(IR) => isa.X \in {Unknown, X}

\* When no instruction on its way will write a register, it holds what the
\* instructions issued so far leave in it when they are executed one by one.
WritesA == (stage2.valid /\ stage2.A_en) \/ (pessimistic /\ stage2_5.A_en) \/ stage3.A_en
WritesX == (stage2.valid /\ stage2.X_en) \/ (pessimistic /\ stage2_5.X_en) \/ stage3.X_en
WritesScratch == stage2.valid /\ regfile_wr_en(stage2.op)
CommittedState ==
    /\ ~WritesA => isa.A \in {Unknown, A}
    /\ ~WritesX => isa.X \in {Unknown, X}
    /\ ~WritesScratch => \A r \in Register : isa.M[r] \in {Unknown, scratch[r]}

\* The verdict comes no sooner than the dispatcher can take it (cpuqueue.v shifts one
\* slot a cycle).
KeepsJobLongEnough == verdict => mem_ready /\ age >= MinJob

\* A program without backward jumps judges every packet, unless it is stopped.
GetsVerdict == []<>(verdict \/ ~mem_ready)
=============================================================================
