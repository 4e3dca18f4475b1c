------------------------------- MODULE BpfIsa -------------------------------
(****************************************************************************)
(* The instructions of the BPF machine (bpf_defs.vh), what the decoder      *)
(* knows of them (decode_compute1_stage1.v), its arithmetic                 *)
(* (pipelined_alu.v), and what an instruction does when each one ends       *)
(* before the next begins: the machine that the pipeline of BpfCpu stands   *)
(* for.                                                                     *)
(*                                                                          *)
(* A word has WordBits bits.  Left out: the size of a packet load (byte,    *)
(* half- word, word), so that a packet is a word for every address, and a   *)
(* length; and the operations the ALU does not support (MUL, DIV, MOD give  *)
(* error codes).                                                            *)
(****************************************************************************)
EXTENDS Integers

CONSTANTS WordBits, CodeSize, ScratchSize

ASSUME IsaAssumption == /\ WordBits \in 1..32
                        /\ CodeSize \in Nat \ {0}
                        /\ ScratchSize \in Nat \ {0}

Word == 0 .. 2^WordBits - 1
Address == 0 .. CodeSize - 1
Register == 0 .. ScratchSize - 1

\* An instruction: its class; its mode, which is the addressing mode, the ALU operation,
\* the type of jump, the value to return or the direction of a transfer; where the
\* second operand comes from; and the fields k, jt and jf.
Mode == [LD   |-> {"IMM", "ABS", "IND", "MEM", "LEN"},
         LDX  |-> {"IMM", "ABS", "IND", "MEM", "LEN", "MSH"},
         ST   |-> {"MEM"},
         STX  |-> {"MEM"},
         ALU  |-> {"ADD", "SUB", "OR", "AND", "LSH", "RSH", "NEG", "XOR"},
         JMP  |-> {"JA", "JEQ", "JGT", "JGE", "JSET"},
         RET  |-> {"IMM", "X", "A"},
         MISC |-> {"TAX", "TXA"}]

Instruction == {i \in [class : DOMAIN Mode, mode : UNION {Mode[c] : c \in DOMAIN Mode}, src : {"K", "X"},
                        k : Word, jt : Address, jf : Address] : i.mode \in Mode[i.class]}

Packet == [data : [Word -> Word], len : Word]

Loads(i) == i.class \in {"LD", "LDX"}
Is(i, class, mode) == i.class = class /\ i.mode = mode

(****************************************************************************)
(* The decoder.                                                             *)
(****************************************************************************)
we_read_A(i) == \/ i.class \in {"ALU", "JMP", "ST"}
                \/ Is(i, "RET", "A") \/ Is(i, "MISC", "TAX")

we_read_X(i) == \/ Loads(i) /\ i.mode = "IND"
                \/ i.class = "STX"
                \/ Is(i, "RET", "X") \/ Is(i, "MISC", "TXA")

A_en(i) == i.class \in {"LD", "ALU"} \/ Is(i, "MISC", "TXA")
X_en(i) == i.class = "LDX" \/ Is(i, "MISC", "TAX")

packet_mem_rd_en(i) == \/ Loads(i) /\ i.mode \in {"ABS", "IND"}
                       \/ Is(i, "LDX", "MSH")
regfile_wr_en(i) == i.class \in {"ST", "STX"}

\* A verdict is the lowest bit of a constant; other values are not returned.
RetImm(i) == Is(i, "RET", "IMM")
Accepts(i) == RetImm(i) /\ i.k % 2 = 1
Rejects(i) == RetImm(i) /\ i.k % 2 = 0

(****************************************************************************)
(* Arithmetic, modulo the width of a word.                                  *)
(****************************************************************************)
Wrap(n) == n % 2^WordBits

Bits(n) == {i \in 0..WordBits-1 : (n \div 2^i) % 2 = 1}
FromBits(S) == CHOOSE n \in Word : Bits(n) = S

\* Mutant of AluOp: a sum keeps its carry.
AluOpWide(op, a, b) == IF op = "ADD" THEN a + b ELSE Wrap(a)

AluOp(op, a, b) ==
    CASE op = "ADD" -> Wrap(a + b)
      [] op = "SUB" -> Wrap(a - b)
      [] op = "OR"  -> FromBits(Bits(a) \cup Bits(b))
      [] op = "AND" -> FromBits(Bits(a) \cap Bits(b))
      [] op = "LSH" -> IF b < WordBits THEN Wrap(a * 2^b) ELSE 0
      [] op = "RSH" -> IF b < WordBits THEN a \div 2^b ELSE 0
      [] op = "NEG" -> 2^WordBits - 1 - a
      [] op = "XOR" -> FromBits((Bits(a) \cup Bits(b)) \ (Bits(a) \cap Bits(b)))

\* The field a jump adds to the program counter.
Offset(i, a, b) ==
    CASE i.mode = "JA" -> i.k
      [] \/ i.mode = "JEQ" /\ a = b
         \/ i.mode = "JGT" /\ a > b
         \/ i.mode = "JGE" /\ a >= b
         \/ i.mode = "JSET" /\ Bits(a) \cap Bits(b) # {} -> i.jt
      [] OTHER -> i.jf

MSH(d) == Wrap(4 * (d % 16))

(****************************************************************************)
(* One instruction after another.  A register that the program has not      *)
(* written is Unknown, and so is what is computed from it.                  *)
(****************************************************************************)
Unknown == -1
UnknownWord == Word \cup {Unknown}
Machine == [pc : Address \cup {Unknown}, A : UnknownWord, X : UnknownWord,
            M : [Register -> UnknownWord]]
Fresh == [pc |-> 0, A |-> Unknown, X |-> Unknown, M |-> [r \in Register |-> Unknown]]

Operand(m, i) == IF i.src = "X" THEN m.X ELSE i.k
OperandsKnown(m, i) == Unknown \notin {m.A, Operand(m, i)}

Loaded(m, i, packet) ==
    CASE i.mode = "IMM" -> i.k
      [] i.mode = "MEM" -> m.M[i.k % ScratchSize]
      [] i.mode = "LEN" -> packet.len
      [] i.mode = "ABS" -> packet.data[i.k]
      [] i.mode = "IND" -> IF m.X = Unknown THEN Unknown ELSE packet.data[Wrap(m.X + i.k)]
      [] i.mode = "MSH" -> MSH(packet.data[i.k])

NextPc(m, i) ==
    IF m.pc = Unknown \/ (i.class = "JMP" /\ i.mode # "JA" /\ ~OperandsKnown(m, i)) THEN Unknown
    ELSE (m.pc + 1 + IF i.class = "JMP" THEN Offset(i, m.A, Operand(m, i)) ELSE 0) % CodeSize

Execute(m, i, packet) ==
    [pc |-> NextPc(m, i),
     A  |-> CASE i.class = "LD" -> Loaded(m, i, packet)
              [] i.class = "ALU" -> IF OperandsKnown(m, i) THEN AluOp(i.mode, m.A, Operand(m, i)) ELSE Unknown
              [] Is(i, "MISC", "TXA") -> m.X
              [] OTHER -> m.A,
     X  |-> CASE i.class = "LDX" -> Loaded(m, i, packet)
              [] Is(i, "MISC", "TAX") -> m.A
              [] OTHER -> m.X,
     M  |-> IF regfile_wr_en(i)
              THEN [m.M EXCEPT ![i.k % ScratchSize] = IF i.class = "ST" THEN m.A ELSE m.X]
              ELSE m.M]
=============================================================================
