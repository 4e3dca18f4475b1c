------------------------------- MODULE BpfCpu -------------------------------
(****************************************************************************)
(* The pipelined CPU (pipelined_bpfcpu.v): the controller of                *)
(* pipelined_bpfvm_ctrl.v with its stages, and the datapath of              *)
(* pipelined_datapath.v, with the code memory that holds the program and    *)
(* the output registers of the packet memory.  One step is one clock cycle. *)
(*                                                                          *)
(*   stage 0   fetches code[PC] into IR                                     *)
(*   stage 1   decodes IR; an instruction leaves it ("issues") or stalls    *)
(*   stage 2   flags decide a jump; memories are read, scratch is written   *)
(*   stage 2.5 only in a PESSIMISTIC build                                  *)
(*   stage 3   A and X are written                                          *)
(*                                                                          *)
(* A stage keeps the whole instruction instead of its decoded control       *)
(* lines.                                                                   *)
(****************************************************************************)
EXTENDS BpfIsa

VARIABLES pessimistic,            \* PESSIMISTIC: a parameter of the build, never changes
          code,                   \* the code memory
          PC, IR, valid,          \* stage 0
          stage2, stage2_5, stage3,
          imm2, imm3,             \* the immediate's copies
          ops, ALU_out,           \* the ALU's registered inputs and its output
          packet_addr_r,
          do, data_r,             \* packet data: the RAM's output, and a copy (PESSIMISTIC)
          A, X, scratch, scratch_odata_r,
          isa                     \* history: the machine that executes in sequence

cpuVars == <<pessimistic, code, PC, IR, valid, stage2, stage2_5, stage3, imm2, imm3, ops, ALU_out,
             packet_addr_r, do, data_r, A, X, scratch, scratch_odata_r, isa>>

Stage == [op : Instruction, A_en : BOOLEAN, X_en : BOOLEAN, valid : BOOLEAN]

CpuTypeOK ==
    /\ {pessimistic, valid} \subseteq BOOLEAN
    /\ code \in [Address -> Instruction] /\ PC \in Address /\ IR \in Instruction
    /\ {stage2, stage2_5, stage3} \subseteq Stage
    /\ {imm2, imm3, packet_addr_r, do, data_r, A, X, scratch_odata_r} \subseteq Word
    /\ ops \in [A : Word, B : Word] /\ ALU_out \in UnknownWord
    /\ scratch \in [Register -> Word]
    /\ isa \in Machine

\* What loading leaves in IR. A write to the code memory clocks its read port as well, at PC, which a
\* reset keeps at 0: the write of the second instruction reads the first. (A program of one instruction
\* finds there what the load before it left; CpuJobs has none, see Executable.)
LoadedIR(program) == program[0]

\* Loaded, and after a long reset: stages 2 and 3 have seen the instruction in IR again and again.
CpuInit(program, is_pessimistic) ==
    LET idle == [op |-> LoadedIR(program), A_en |-> FALSE, X_en |-> FALSE, valid |-> FALSE]
    IN /\ pessimistic = is_pessimistic /\ code = program
       /\ PC = 0 /\ IR = LoadedIR(program) /\ valid = FALSE
       /\ stage2 = [idle EXCEPT !.A_en = A_en(IR), !.X_en = X_en(IR)]
       /\ stage2_5 = idle /\ stage3 = idle
       /\ imm2 = 0 /\ imm3 = 0 /\ ops = [A |-> 0, B |-> 0] /\ ALU_out = 0
       /\ packet_addr_r = 0 /\ do = 0 /\ data_r = 0
       /\ A = 0 /\ X = 0 /\ scratch = [r \in Register |-> 0] /\ scratch_odata_r = 0
       /\ isa = Fresh

-----------------------------------------------------------------------------
(****************************************************************************)
(* The controller's wires.                                                  *)
(****************************************************************************)
\* Mutant of A_en_stall_sig: an instruction in stage 3 is forgotten.
A_en_stall_sigBefore3 == stage2.A_en \/ (pessimistic /\ stage2_5.A_en)

A_en_stall_sig == stage2.A_en \/ (pessimistic /\ stage2_5.A_en) \/ stage3.A_en
X_en_stall_sig == stage2.X_en \/ (pessimistic /\ stage2_5.X_en) \/ stage3.X_en

stage1_stalled == (we_read_A(IR) /\ A_en_stall_sig) \/ (we_read_X(IR) /\ X_en_stall_sig)

\* Stage 1 passes its instruction on.
issue == valid /\ ~stage1_stalled

\* Mutant of accept: the valid bit is not looked at.
acceptUngated == Accepts(IR)

accept == valid /\ Accepts(IR)
reject == valid /\ Rejects(IR)
verdict == accept \/ reject

\* Mutant of jump: the valid bit is not looked at.
jumpUngated == stage2.op.class = "JMP"

jump == stage2.valid /\ stage2.op.class = "JMP"
good2go == ~(stage1_stalled \/ (issue /\ IR.class = "JMP") \/ jump)

(****************************************************************************)
(* The clocked registers.  off is rst or the lack of a packet: it resets    *)
(* the datapath; a verdict also resets stage 0 and the program counter.     *)
(****************************************************************************)
\* Mutant of NextPC: a verdict does not reset the program counter.
NextPCKept(off) ==
    IF off THEN 0
    ELSE IF jump THEN (PC + Offset([IR EXCEPT !.k = imm2], ops.A, ops.B)) % CodeSize
    ELSE IF good2go THEN (PC + 1) % CodeSize ELSE PC

\* The type of a jump and its targets come straight from IR, where the jump stays
\* while it is in stage 2.
NextPC(off) ==
    IF off \/ verdict THEN 0
    ELSE IF jump THEN (PC + Offset([IR EXCEPT !.k = imm2], ops.A, ops.B)) % CodeSize
    ELSE IF good2go THEN (PC + 1) % CodeSize ELSE PC

Fetch(off) ==
    LET rst == off \/ verdict
    IN /\ IR' = IF good2go /\ ~rst THEN code[PC] ELSE IR
       /\ valid' = (~rst /\ (good2go \/ (valid /\ stage1_stalled)))
       /\ PC' = NextPC(off)

Gated(s) == [s EXCEPT !.A_en = s.valid /\ s.A_en, !.X_en = s.valid /\ s.X_en]

\* Stage 2 is told of A_en and X_en even when stage 1 is stalled or empty.
Advance ==
    /\ stage2' = [op |-> IR, A_en |-> A_en(IR), X_en |-> X_en(IR), valid |-> issue]
    /\ stage2_5' = IF pessimistic THEN Gated(stage2) ELSE stage2_5
    /\ stage3' = Gated(IF pessimistic THEN stage2_5 ELSE stage2)

\* Mutant of Immediates: one register too few on the way to stage 3.
ImmediatesShort(off) ==
    /\ imm2' = IF off THEN 0 ELSE IR.k
    /\ imm3' = IF off THEN 0 ELSE IR.k

Immediates(off) ==
    /\ imm2' = IF off THEN 0 ELSE IR.k
    /\ imm3' = IF off THEN 0 ELSE imm2

\* The ALU computes all operations on registered operands and then selects one; what
\* it selects for another class of instruction is not modelled.
Alu ==
    /\ ops' = [A |-> A, B |-> IF IR.src = "X" THEN X ELSE IR.k]
    /\ ALU_out' = IF stage2.op.class = "ALU" THEN AluOp(stage2.op.mode, ops.A, ops.B) ELSE Unknown

PacketAddress(off) ==
    packet_addr_r' = IF off THEN 0 ELSE IF IR.mode = "IND" THEN Wrap(X + IR.k) ELSE IR.k

\* The RAM keeps its output while it is not read; do is the part of it that the size and the offset select.
PacketRam(packet) ==
    do' = IF stage2.valid /\ packet_mem_rd_en(stage2.op) THEN packet.data[packet_addr_r] ELSE do

\* PESSIMISTIC: the selected bytes pass through a register.
DelayedRead == data_r' = IF pessimistic THEN do ELSE data_r

Scratch(off) ==
    LET r == imm2 % ScratchSize
        wr_en == stage2.valid /\ regfile_wr_en(stage2.op)
    IN /\ scratch' = IF off THEN [s \in Register |-> 0]
                     ELSE IF wr_en THEN [scratch EXCEPT ![r] = IF stage2.op.class = "STX" THEN X ELSE A]
                     ELSE scratch
       /\ scratch_odata_r' = IF off THEN 0 ELSE scratch[r]

\* What the multiplexers of A and X select for the instruction in stage 3.
Loaded3(packet) ==
    LET data == IF pessimistic THEN data_r ELSE do
    IN CASE stage3.op.mode = "IMM" -> imm3
         [] stage3.op.mode = "MEM" -> scratch_odata_r
         [] stage3.op.mode = "LEN" -> packet.len
         [] stage3.op.mode = "MSH" -> MSH(data)
         [] OTHER -> data

WriteBack(packet) ==
    /\ A' = IF ~stage3.A_en THEN A
            ELSE CASE stage3.op.class = "LD" -> Loaded3(packet)
                   [] stage3.op.class = "ALU" -> ALU_out
                   [] OTHER -> X
    /\ X' = IF ~stage3.X_en THEN X
            ELSE IF stage3.op.class = "LDX" THEN Loaded3(packet) ELSE A

History(off, packet) ==
    isa' = IF off \/ verdict THEN Fresh ELSE IF issue THEN Execute(isa, IR, packet) ELSE isa

\* One clock cycle, with the wires rst, mem_ready and those of the packet memory.
CpuClock(rst, mem_ready, packet) ==
    LET off == rst \/ ~mem_ready
    IN /\ UNCHANGED <<pessimistic, code>>
       /\ Fetch(off) /\ Advance /\ Immediates(off) /\ Alu
       /\ PacketAddress(off) /\ PacketRam(packet) /\ DelayedRead
       /\ Scratch(off) /\ WriteBack(packet)
       /\ History(off, packet)
=============================================================================
