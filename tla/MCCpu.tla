-------------------------------- MODULE MCCpu --------------------------------
(* Programs of Straight instructions of a Pool followed by two returns, for TLC. *)
EXTENDS CpuJobs

CONSTANTS Pool,                   \* names of the instructions of a program's body
          Straight,               \* how many of them
          Builds,                 \* the values of PESSIMISTIC
          Careful                 \* only programs that keep clear of the known hazards

I(class, mode, k) == [class |-> class, mode |-> mode, src |-> "K", k |-> k, jt |-> 0, jf |-> 0]
WithX(i) == [i EXCEPT !.src = "X"]
To(i, jt, jf) == [i EXCEPT !.jt = jt, !.jf = jf]

Named == [ld3    |-> I("LD", "IMM", 3),    ldabs |-> I("LD", "ABS", 1), ldind |-> I("LD", "IND", 1),
          ldmem  |-> I("LD", "MEM", 0),    ldlen |-> I("LD", "LEN", 0),
          ldx2   |-> I("LDX", "IMM", 2),   ldxmsh |-> I("LDX", "MSH", 1), ldxmem |-> I("LDX", "MEM", 0),
          ldxabs |-> I("LDX", "ABS", 2),
          st     |-> I("ST", "MEM", 0),    stx |-> I("STX", "MEM", 0),
          add    |-> I("ALU", "ADD", 6),   subx |-> WithX(I("ALU", "SUB", 0)),
          jeq    |-> To(I("JMP", "JEQ", 3), 1, 0), jgtx |-> To(WithX(I("JMP", "JGT", 0)), 0, 1),
          ja     |-> I("JMP", "JA", 1),
          tax    |-> I("MISC", "TAX", 0),  txa |-> I("MISC", "TXA", 0)]

Accept == I("RET", "IMM", 1)
Reject == I("RET", "IMM", 0)

MCWordBits == 3
MCCodeSize == 8
MCScratchSize == 2

Program(body) == [a \in 0..7 |-> IF a < Straight THEN Named[body[a + 1]]
                                 ELSE IF a = Straight THEN Reject ELSE Accept]

Bodies == {Program(body) : body \in [1..Straight -> Pool]}
MCPrograms == [b \in BOOLEAN |-> IF b \notin Builds THEN {}
                                 ELSE {p \in Bodies : Careful => Executable(p, b)}]

MCPackets == {[data |-> [w \in 0..7 |-> (5 * w + 3) % 8], len |-> 4],
              [data |-> [w \in 0..7 |-> (w + 2) % 8], len |-> 6]}
=============================================================================
