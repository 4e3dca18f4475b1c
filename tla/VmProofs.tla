------------------------------ MODULE VmProofs ------------------------------
(****************************************************************************)
(* Proofs about the VMs of the filter: the CPU of one of them, and the      *)
(* arbitration that chooses among several.                                  *)
(*                                                                          *)
(* The CPU (CpuJobs): for every program, packet, word size, memory size and *)
(* for both builds, the pipeline executes a program in order and leaves in  *)
(* its registers what sequential execution leaves there.  The invariant     *)
(* compares the machine that executes in sequence (isa) with what the       *)
(* pipeline's registers will hold when the instructions in stages 2, 2.5    *)
(* and 3 have been written back (PendingA, PendingX, PendingM), and says    *)
(* where the writes to X stand in the program (XPlaces), since nothing      *)
(* stalls an ALU operation or a comparison on X.                            *)
(*                                                                          *)
(* The arbitration (ParallelFilts): for any number of VMs, one ready VM is  *)
(* wired to each agent, and a packet keeps its VM.                          *)
(****************************************************************************)
EXTENDS CpuJobs, ParallelFilts, FiniteSetTheorems, WellFoundedInduction, TLAPS

(****************************************************************************)
(* The CPU: its invariant.                                                  *)
(****************************************************************************)

\* The address of the instruction in IR, when it is valid.
Before(a) == IF a = 0 THEN CodeSize - 1 ELSE a - 1
Place == Before(PC)

\* Every instruction in the pipeline is one of the program.
Inside == {IR, stage2.op, stage2_5.op, stage3.op} \subseteq {code[a] : a \in Address}

\* A value of the sequential machine is v, or is not known.
Matches(u, v) == u = Unknown \/ u = v

\* A stage that will write a register holds a valid instruction that writes it.
Decoded(s) == (s.A_en => s.valid /\ A_en(s.op)) /\ (s.X_en => s.valid /\ X_en(s.op))

\* The control lines of a stage are those of its instruction, and the first copy of
\* the immediate belongs to the instruction in stage 2.
Stages ==
    /\ stage2.A_en = A_en(stage2.op) /\ stage2.X_en = X_en(stage2.op)
    /\ Decoded(stage2_5) /\ Decoded(stage3)
    /\ mem_ready /\ stage2.valid => imm2 = stage2.op.k
    /\ ~pessimistic /\ stage3.op.class = "ALU" => ALU_out \in Word

\* The instruction in IR, when valid, is the one that the sequential machine executes
\* next; after a jump it is the one the jump in stage 2 leads to; otherwise it is
\* the next to be fetched.
Control ==
    /\ valid => mem_ready
    /\ ~mem_ready => isa = Fresh
    /\ valid => IR = code[Place] /\ Matches(isa.pc, Place)
    /\ jump => ~valid
    /\ mem_ready /\ jump => IR = stage2.op /\ Matches(isa.pc, (PC + Offset(IR, ops.A, ops.B)) % CodeSize)
    /\ mem_ready /\ ~valid /\ ~jump => Matches(isa.pc, PC)

\* One of the n instructions before the one in IR writes X.
XWriteBehind(n) == \E i \in Behind(code, Place, n) : X_en(i)

\* How far behind IR the instructions are that have yet to write X.
XPlaces ==
    /\ mem_ready /\ ~valid => ~(stage2.valid /\ stage2.X_en)
    /\ mem_ready /\ ~valid /\ ~jump /\ pessimistic => ~stage2_5.X_en \/ isa.X = Unknown
    /\ valid => /\ stage2.valid /\ stage2.X_en => XWriteBehind(1)
                /\ pessimistic /\ stage2_5.X_en => XWriteBehind(2)
                /\ stage3.X_en => isa.X = Unknown \/ XWriteBehind(Depth(pessimistic))

\* An instruction behind stage 2 has yet to write the register.
Behind2A == (pessimistic /\ stage2_5.A_en) \/ stage3.A_en
Behind2X == (pessimistic /\ stage2_5.X_en) \/ stage3.X_en

\* An instruction that waits for a register has left stage 1 with no write to that
\* register before it.
Ordered ==
    /\ stage2.valid /\ we_read_A(stage2.op) => ~Behind2A
    /\ stage2.valid /\ we_read_X(stage2.op) => ~Behind2X
    /\ pessimistic /\ stage2_5.valid => /\ we_read_A(stage2_5.op) => ~stage3.A_en
                                        /\ we_read_X(stage2_5.op) => ~stage3.X_en

\* What the load in stage 2, or in stage 2.5, is going to load.
Loaded2 ==
    CASE stage2.op.mode = "IMM" -> imm2
      [] stage2.op.mode = "MEM" -> scratch[imm2 % ScratchSize]
      [] stage2.op.mode = "LEN" -> packet.len
      [] stage2.op.mode = "MSH" -> MSH(packet.data[packet_addr_r])
      [] OTHER -> packet.data[packet_addr_r]
Loaded2_5 ==
    CASE stage2_5.op.mode = "LEN" -> packet.len
      [] stage2_5.op.mode = "MSH" -> MSH(do)
      [] OTHER -> do

\* What an instruction on its way will write to A, or to X.
ResultA(s, loaded, alu) == CASE s.op.class = "LD" -> loaded
                             [] s.op.class = "ALU" -> alu
                             [] OTHER -> X
ResultX(s, loaded) == IF s.op.class = "LDX" THEN loaded ELSE A

\* The values that A, X and scratch memory will have when the instructions on their
\* way have written back: the youngest writer decides.
PendingA ==
    CASE stage2.valid /\ stage2.A_en -> ResultA(stage2, Loaded2, AluOp(stage2.op.mode, ops.A, ops.B))
      [] ~(stage2.valid /\ stage2.A_en) /\ pessimistic /\ stage2_5.A_en -> ResultA(stage2_5, Loaded2_5, ALU_out)
      [] ~(stage2.valid /\ stage2.A_en) /\ ~(pessimistic /\ stage2_5.A_en) /\ stage3.A_en -> ResultA(stage3, Loaded3(packet), ALU_out)
      [] OTHER -> A
PendingX ==
    CASE stage2.valid /\ stage2.X_en -> ResultX(stage2, Loaded2)
      [] ~(stage2.valid /\ stage2.X_en) /\ pessimistic /\ stage2_5.X_en -> ResultX(stage2_5, Loaded2_5)
      [] ~(stage2.valid /\ stage2.X_en) /\ ~(pessimistic /\ stage2_5.X_en) /\ stage3.X_en -> ResultX(stage3, Loaded3(packet))
      [] OTHER -> X
PendingM(r) ==
    IF WritesScratch /\ r = imm2 % ScratchSize
      THEN IF stage2.op.class = "STX" THEN X ELSE A
      ELSE scratch[r]

\* The sequential machine has them already.
Data == /\ Matches(isa.A, PendingA)
        /\ Matches(isa.X, PendingX)
        /\ \A r \in Register : Matches(isa.M[r], PendingM(r))

\* The program keeps clear of the uses of X that nothing stalls.
Suits == UsesXLate(code, Depth(pessimistic)) /\ (pessimistic => LoadsFromPacket(code))

\* The hypothesis about programs: no comparison or ALU operation uses X shortly after
\* a write to it, and in a PESSIMISTIC build A and X are loaded only from the packet
\* or from each other.  Instructions that wait for themselves, and stops in any
\* cycle, are not excluded.
Suitable == \A p \in BOOLEAN : \A program \in Programs[p] :
               UsesXLate(program, Depth(p)) /\ (p => LoadsFromPacket(program))

IInv == TypeOK /\ Inside /\ Suits /\ Stages /\ Control /\ XPlaces /\ Ordered /\ Data

-----------------------------------------------------------------------------
\* A power of two counts the subsets of an interval, which is how the provers know it.
LEMMA Power == ASSUME NEW n \in Nat PROVE 2^n \in Nat \ {0} /\ 2^n = Cardinality(SUBSET (1..n))
<1>1. IsFiniteSet(1..n) /\ Cardinality(1..n) = n
  BY FS_Interval
<1>2. IsFiniteSet(SUBSET (1..n)) /\ Cardinality(SUBSET (1..n)) = 2^n
  BY <1>1, FS_SUBSET
<1>3. Cardinality(SUBSET (1..n)) # 0 /\ Cardinality(SUBSET (1..n)) \in Nat
  BY <1>2, FS_EmptySet, FS_CardinalityType
<1> QED
  BY <1>2, <1>3

LEMMA PowerZero == 2^0 = 1
<1>1. 2^0 = Cardinality(SUBSET (1..0))
  BY Power
<1>2. SUBSET (1..0) = {{}}
  OBVIOUS
<1>3. Cardinality({{}}) = 1
  BY FS_Singleton
<1> QED
  BY <1>1, <1>2, <1>3

\* Half of the subsets of 1..n+1 have n+1 in them.
LEMMA PowerDoubles == ASSUME NEW n \in Nat PROVE 2^(n + 1) = 2 * 2^n
<1> DEFINE S == SUBSET (1..n)
           T == {U \in SUBSET (1..n+1) : n + 1 \in U}
           f == [U \in S |-> U \cup {n + 1}]
<1>1. IsFiniteSet(S) /\ Cardinality(S) = 2^n
  <2>1. IsFiniteSet(1..n)
    BY FS_Interval
  <2> QED
    BY <2>1, Power, FS_SUBSET, Zenon
<1>2. f \in Bijection(S, T)
  <2>1. \A U \in S : f[U] \in T
    OBVIOUS
  <2>2. \A U \in S, V \in S : f[U] = f[V] => U = V
    <3> SUFFICES ASSUME NEW U \in S, NEW V \in S, U \cup {n + 1} = V \cup {n + 1} PROVE U = V
      OBVIOUS
    <3>1. n + 1 \notin U /\ n + 1 \notin V
      OBVIOUS
    <3> QED BY <3>1
  <2>3. \A V \in T : \E U \in S : f[U] = V
    <3> SUFFICES ASSUME NEW V \in T PROVE \E U \in S : f[U] = V
      OBVIOUS
    <3>1. V \ {n + 1} \in S
      OBVIOUS
    <3>2. f[V \ {n + 1}] = V
      BY <3>1
    <3> QED BY <3>1, <3>2
  <2> QED
    BY <2>1, <2>2, <2>3 DEF Bijection, Injection, Surjection, IsInjective
<1>3. IsFiniteSet(T) /\ Cardinality(T) = 2^n
  BY <1>1, <1>2, FS_Bijection DEF ExistsBijection
<1>4. SUBSET (1..n+1) = S \cup T /\ S \cap T = {}
  OBVIOUS
<1> HIDE DEF S, T
<1>5. Cardinality(S \cup T) = 2^n + 2^n - Cardinality({})
  BY <1>1, <1>3, <1>4, FS_Union
<1>6. 2^(n + 1) = Cardinality(SUBSET (1..n+1))
  <2>1. n + 1 \in Nat
    OBVIOUS
  <2> QED
    BY <2>1, Power, Zenon
<1>7. 2^n \in Nat /\ Cardinality({}) = 0
  BY Power, FS_EmptySet
<1>8. 2^(n + 1) = 2^n + 2^n - Cardinality({})
  BY <1>4, <1>5, <1>6, Zenon
<1> DEFINE p == 2^n
          q == 2^(n + 1)
<1>9. p \in Nat /\ q = p + p - 0
  BY <1>7, <1>8
<1> HIDE DEF p, q
<1>10. q = 2 * p
  BY <1>9
<1> QED
  BY <1>10 DEF p, q

-----------------------------------------------------------------------------
\* Bit i of n; and that every set of positions below w is that of the bits of a number.
Bit(n, i) == (n \div 2^i) % 2 = 1
HaveNumbers(w) == \A S \in SUBSET (0..w-1) : \E n \in 0..2^w-1 : \A i \in 0..w-1 : Bit(n, i) <=> i \in S

\* A number is its quotient times the divisor and its remainder.
LEMMA DivMod ==
    ASSUME NEW m \in Nat, NEW c \in Nat, c > 0
    PROVE  m = c * (m \div c) + (m % c)
BY Z3

\* Doubling a number and adding a bit shifts the bits up by one.
LEMMA BitsOfDouble ==
    ASSUME NEW m \in Nat, NEW b \in {0, 1}, NEW i \in Nat
    PROVE  /\ Bit(2 * m + b, 0) <=> b = 1
           /\ Bit(2 * m + b, i + 1) <=> Bit(m, i)
<1> DEFINE c == 2^i
<1>1. c \in Nat \ {0} /\ 2^(i + 1) = 2 * c
  BY Power, PowerDoubles
<1> HIDE DEF c
<1>2. PICK q \in Nat, r \in 0..c-1 : m = c * q + r
  <2>1. c \in Nat /\ c > 0
    BY <1>1
  <2> DEFINE d == m \div c
             e == m % c
  <2>2. d \in Nat /\ e \in 0..c-1
    BY <1>1
  <2>3. m = c * d + e
    BY <2>1, DivMod, Zenon
  <2> HIDE DEF d, e
  <2> QED
    BY <2>2, <2>3
<1>3. m \div c = q
  BY <1>1, <1>2
<1>4. (2 * m + b) \div (2 * c) = q
  <2>1. 2 * m + b = (2 * c) * q + (2 * r + b) /\ 2 * r + b \in 0..2*c-1
    BY <1>1, <1>2
  <2> QED
    BY <1>1, <2>1
<1>5. Bit(2 * m + b, i + 1) <=> Bit(m, i)
  BY <1>1, <1>3, <1>4 DEF Bit, c
<1>6. (2 * m + b) \div 1 = 2 * m + b /\ (2 * m + b) % 2 = b
  OBVIOUS
<1> QED
  BY <1>5, <1>6, PowerZero DEF Bit

\* What holds of w bits holds of one more.
LEMMA NumbersDouble == ASSUME NEW w \in Nat, HaveNumbers(w) PROVE HaveNumbers(w + 1)
<1> SUFFICES ASSUME NEW S \in SUBSET (0..w)
             PROVE  \E n \in 0..2^(w+1)-1 : \A i \in 0..w : Bit(n, i) <=> i \in S
  BY DEF HaveNumbers
<1> DEFINE T == {i \in 0..w-1 : i + 1 \in S}
           b == IF 0 \in S THEN 1 ELSE 0
<1>1. PICK m \in 0..2^w-1 : \A i \in 0..w-1 : Bit(m, i) <=> i \in T
  BY DEF HaveNumbers
<1>2. 2^w \in Nat /\ 2^(w + 1) = 2 * 2^w
  BY Power, PowerDoubles
<1> DEFINE p == 2^w
           q == 2^(w + 1)
<1>3. p \in Nat /\ q = 2 * p /\ m \in 0..p-1
  BY <1>1, <1>2
<1>4. b \in {0, 1} /\ (b = 1 <=> 0 \in S)
  OBVIOUS
<1> HIDE DEF p, q, b
<1>5. m \in Nat /\ 2 * m + b \in 0..q-1
  BY <1>3, <1>4
<1>6. ASSUME NEW i \in 0..w PROVE Bit(2 * m + b, i) <=> i \in S
  <2>1. CASE i = 0
    BY <2>1, <1>4, <1>5, BitsOfDouble
  <2>2. CASE i # 0
    <3>1. i - 1 \in 0..w-1 /\ i - 1 \in Nat /\ (i - 1) + 1 = i
      BY <2>2
    <3>2. Bit(2 * m + b, (i - 1) + 1) <=> Bit(m, i - 1)
      BY <3>1, <1>4, <1>5, BitsOfDouble
    <3>3. i - 1 \in T <=> i \in S
      BY <3>1
    <3> QED
      BY <3>1, <3>2, <3>3, <1>1
  <2> QED
    BY <2>1, <2>2
<1> QED
  BY <1>5, <1>6 DEF q

\* Every set of bits is that of a number: a least width without one would not be 0.
LEMMA NumbersOfBits == ASSUME NEW w \in Nat PROVE HaveNumbers(w)
<1> DEFINE T == {v \in Nat : ~HaveNumbers(v)}
<1>1. SUFFICES ASSUME T # {} PROVE FALSE
  OBVIOUS
<1>2. PICK v \in T : \A u \in T : ~(<<u, v>> \in OpToRel(<, Nat))
  BY <1>1, NatLessThanWellFounded, WFMin
<1>3. v # 0
  <2>1. HaveNumbers(0)
    BY PowerZero DEF HaveNumbers
  <2> QED
    BY <2>1
<1>4. v - 1 \in Nat /\ v - 1 < v /\ (v - 1) + 1 = v
  BY <1>3
<1>5. HaveNumbers(v - 1)
  BY <1>2, <1>4 DEF OpToRel
<1>6. HaveNumbers((v - 1) + 1)
  BY <1>4, <1>5, NumbersDouble
<1> QED
  BY <1>4, <1>6

-----------------------------------------------------------------------------
\* Words, and what a sum or a product is cut to (pipelined_alu.v works on 32 bits).
LEMMA Words ==
    /\ 0 \in Word /\ Word \subseteq Nat /\ Unknown \notin Word
    /\ \A n \in Int : Wrap(n) \in Word
    /\ \A n \in Word : n < 2^WordBits
    /\ \A n \in Nat : n < 2^WordBits => n \in Word
<1> DEFINE w == 2^WordBits
<1>1. w \in Nat /\ w > 0
  <2>1. WordBits \in Nat
    BY IsaAssumption
  <2>2. w \in Nat \ {0}
    BY <2>1, Power, Zenon
  <2> QED
    BY <2>2
<1>2. Word = 0..w-1
  BY DEF Word
<1>3. \A n \in Int : Wrap(n) = n % w
  BY DEF Wrap
<1> HIDE DEF w
<1>4. /\ 0 \in 0..w-1 /\ 0..w-1 \subseteq Nat /\ -1 \notin 0..w-1
      /\ \A n \in Int : n % w \in 0..w-1
      /\ \A n \in 0..w-1 : n < w
      /\ \A n \in Nat : n < w => n \in 0..w-1
  BY <1>1
<1> QED
  BY <1>2, <1>3, <1>4 DEF w, Unknown

\* Bitwise operations of words give words.
LEMMA FromBitsType == ASSUME NEW S \in SUBSET (0..WordBits-1) PROVE FromBits(S) \in Word
<1>1. HaveNumbers(WordBits)
  BY NumbersOfBits, IsaAssumption
<1>2. PICK n \in Word : \A i \in 0..WordBits-1 : Bit(n, i) <=> i \in S
  BY <1>1 DEF HaveNumbers, Word
<1>3. Bits(n) = S
  BY <1>2 DEF Bits, Bit
<1> QED
  BY <1>2, <1>3 DEF FromBits

\* Every operation of the ALU gives a word (pipelined_alu.v).
LEMMA AluOpType ==
    ASSUME NEW op \in Mode.ALU, NEW a \in Word, NEW b \in Word
    PROVE  AluOp(op, a, b) \in Word
<1>1. a \in Nat /\ b \in Nat /\ a < 2^WordBits
  BY Words
<1>2. Bits(a) \subseteq 0..WordBits-1 /\ Bits(b) \subseteq 0..WordBits-1
  BY DEF Bits
<1>3. /\ FromBits(Bits(a) \cup Bits(b)) \in Word
      /\ FromBits(Bits(a) \cap Bits(b)) \in Word
      /\ FromBits((Bits(a) \cup Bits(b)) \ (Bits(a) \cap Bits(b))) \in Word
  BY <1>2, FromBitsType
<1> DEFINE w == 2^WordBits
           c == 2^b
<1>4. c \in Nat /\ c > 0 /\ w \in Nat
  <2>1. WordBits \in Nat
    BY IsaAssumption
  <2>2. c \in Nat \ {0} /\ w \in Nat \ {0}
    BY <1>1, <2>1, Power, Zenon
  <2> QED
    BY <2>2
<1>5. a < w
  BY <1>1
<1> HIDE DEF c, w
<1>6. a * c \in Int /\ a + b \in Int /\ a - b \in Int
  BY <1>1, <1>4
<1>7. a \div c \in Nat /\ a \div c < w
  <2>1. a \div c \in Nat /\ a \div c <= a
    BY <1>1, <1>4
  <2> QED
    BY <1>1, <1>4, <1>5, <2>1
<1>8. w - 1 - a \in Nat /\ w - 1 - a < w
  BY <1>1, <1>4, <1>5
<1>9. /\ Wrap(a + b) \in Word /\ Wrap(a - b) \in Word /\ Wrap(a * c) \in Word
      /\ a \div c \in Word /\ w - 1 - a \in Word /\ 0 \in Word
  BY <1>6, <1>7, <1>8, Words DEF w
<1>10. op \in {"ADD", "SUB", "OR", "AND", "LSH", "RSH", "NEG", "XOR"}
  BY DEF Mode
<1> QED
  BY <1>3, <1>9, <1>10 DEF AluOp, w, c

-----------------------------------------------------------------------------
\* The fields of an instruction (bpf_defs.vh).
LEMMA Instructions ==
    ASSUME NEW i \in Instruction
    PROVE  /\ i.class \in {"LD", "LDX", "ST", "STX", "ALU", "JMP", "RET", "MISC"}
           /\ i.mode \in Mode[i.class]
           /\ i.src \in {"K", "X"} /\ i.k \in Word /\ i.jt \in Address /\ i.jf \in Address
           /\ i.class = "LD" => i.mode \in {"IMM", "ABS", "IND", "MEM", "LEN"}
           /\ i.class = "LDX" => i.mode \in {"IMM", "ABS", "IND", "MEM", "LEN", "MSH"}
           /\ i.class = "ALU" => i.mode \in Mode.ALU
           /\ i.class = "MISC" => i.mode \in {"TAX", "TXA"}
           /\ \A k \in Word : [i EXCEPT !.k = k] \in Instruction
           /\ \A k \in Word : /\ [i EXCEPT !.k = k].mode = i.mode /\ [i EXCEPT !.k = k].k = k
                              /\ [i EXCEPT !.k = k].jt = i.jt /\ [i EXCEPT !.k = k].jf = i.jf
           /\ [i EXCEPT !.k = i.k] = i
BY DEF Instruction, Mode

\* The decoder's lines: at most one register is written, and a jump or a return
\* writes none (decode_compute1_stage1.v).
LEMMA Decoder ==
    ASSUME NEW i \in Instruction
    PROVE  /\ we_read_A(i) \in BOOLEAN /\ we_read_X(i) \in BOOLEAN
           /\ A_en(i) \in BOOLEAN /\ X_en(i) \in BOOLEAN /\ regfile_wr_en(i) \in BOOLEAN
           /\ packet_mem_rd_en(i) \in BOOLEAN
           /\ we_read_A(i) => ~we_read_X(i)
           /\ A_en(i) => ~X_en(i) /\ ~regfile_wr_en(i)
           /\ X_en(i) => ~regfile_wr_en(i)
           /\ RetImm(i) \/ i.class = "JMP" => ~A_en(i) /\ ~X_en(i) /\ ~regfile_wr_en(i)
           /\ RetImm(i) => i.class # "JMP"
           /\ i.class = "JMP" => we_read_A(i)
BY Instructions DEF we_read_A, we_read_X, A_en, X_en, regfile_wr_en, packet_mem_rd_en, RetImm, Is, Loads

\* Executing an instruction in sequence changes only the register that it writes.
LEMMA Executes ==
    ASSUME NEW m, NEW i \in Instruction, NEW p
    PROVE  /\ Execute(m, i, p).pc = NextPc(m, i)
           /\ ~A_en(i) => Execute(m, i, p).A = m.A
           /\ ~X_en(i) => Execute(m, i, p).X = m.X
           /\ ~regfile_wr_en(i) => Execute(m, i, p).M = m.M
BY Instructions DEF Execute, A_en, X_en, regfile_wr_en, Is

\* Jump offsets are numbers, and addresses and registers stay within memory.
LEMMA OffsetType ==
    ASSUME NEW i \in Instruction, NEW a, NEW b
    PROVE  Offset(i, a, b) \in Nat
<1>1. i.k \in Nat /\ i.jt \in Nat /\ i.jf \in Nat
  BY Instructions, Words DEF Address
<1> QED
  BY <1>1 DEF Offset

LEMMA PcType ==
    ASSUME NEW n \in Nat
    PROVE  /\ n % CodeSize \in Address /\ 0 \in Address
           /\ \A a \in Address : a \in Nat /\ (a + n) % CodeSize \in Address /\ (a + 1) % CodeSize \in Address
BY IsaAssumption DEF Address

LEMMA RegisterType ==
    ASSUME NEW k \in Word
    PROVE  k % ScratchSize \in Register
BY IsaAssumption, Words DEF Register

\* What is loaded is a word.
LEMMA PacketTypes ==
    ASSUME NEW p \in Packet, NEW k \in Word, NEW x \in Word
    PROVE  /\ p.data[k] \in Word /\ p.len \in Word /\ MSH(k) \in Word
           /\ Wrap(x + k) \in Word
<1>1. 4 * (k % 16) \in Int /\ x + k \in Int
  BY Words
<1> QED
  BY <1>1, Words DEF Packet, MSH

LEMMA LoadedType ==
    ASSUME NEW m, m.X \in UnknownWord, m.M \in [Register -> UnknownWord],
           NEW i \in Instruction, Loads(i), NEW p \in Packet
    PROVE  Loaded(m, i, p) \in UnknownWord
<1>1. i.mode \in {"IMM", "ABS", "IND", "MEM", "LEN", "MSH"} /\ i.k \in Word
  BY Instructions DEF Loads
<1>2. m.M[i.k % ScratchSize] \in UnknownWord
  BY <1>1, RegisterType
<1>3. m.X # Unknown => p.data[Wrap(m.X + i.k)] \in Word
  BY <1>1, PacketTypes DEF UnknownWord
<1>4. p.data[i.k] \in Word /\ p.len \in Word /\ MSH(p.data[i.k]) \in Word
  BY <1>1, PacketTypes
<1> QED
  BY <1>1, <1>2, <1>3, <1>4 DEF Loaded, UnknownWord

\* The machine that executes in sequence keeps its type.
LEMMA MachineType ==
    ASSUME NEW m \in Machine, NEW i \in Instruction, NEW p \in Packet
    PROVE  Execute(m, i, p) \in Machine
<1>1. m.A \in UnknownWord /\ m.X \in UnknownWord /\ m.M \in [Register -> UnknownWord]
      /\ m.pc \in Address \cup {Unknown} /\ i.k \in Word
  BY Instructions DEF Machine
<1>2. NextPc(m, i) \in Address \cup {Unknown}
  <2> DEFINE o == IF i.class = "JMP" THEN Offset(i, m.A, Operand(m, i)) ELSE 0
  <2>1. o \in Nat
    BY OffsetType
  <2>2. ASSUME m.pc # Unknown PROVE (m.pc + 1 + o) % CodeSize \in Address
    <3> HIDE DEF o
    <3>1. m.pc + 1 + o \in Nat
      BY <1>1, <2>1, <2>2 DEF Address
    <3> QED
      BY <3>1, PcType
  <2> QED
    BY <2>2 DEF NextPc
<1>3. Loads(i) => Loaded(m, i, p) \in UnknownWord
  BY <1>1, LoadedType
<1>4. i.class = "ALU" /\ OperandsKnown(m, i) => AluOp(i.mode, m.A, Operand(m, i)) \in Word
  <2> SUFFICES ASSUME i.class = "ALU", OperandsKnown(m, i)
               PROVE  AluOp(i.mode, m.A, Operand(m, i)) \in Word
    OBVIOUS
  <2>1. i.mode \in Mode.ALU /\ m.A \in Word /\ Operand(m, i) \in Word
    BY <1>1, Instructions DEF OperandsKnown, UnknownWord, Operand
  <2> QED
    BY <2>1, AluOpType
<1>5. Execute(m, i, p).A \in UnknownWord
  BY <1>1, <1>3, <1>4 DEF Execute, UnknownWord, Loads
<1>6. Execute(m, i, p).X \in UnknownWord
  BY <1>1, <1>3, <1>4 DEF Execute, UnknownWord, Loads
<1>7. Execute(m, i, p).M \in [Register -> UnknownWord]
  BY <1>1, RegisterType DEF Execute
<1>8. Execute(m, i, p) = [pc |-> NextPc(m, i), A |-> Execute(m, i, p).A, X |-> Execute(m, i, p).X,
                          M |-> Execute(m, i, p).M]
  BY DEF Execute
<1> QED
  BY <1>2, <1>5, <1>6, <1>7, <1>8 DEF Machine

LEMMA FreshType == Fresh \in Machine
BY PcType, IsaAssumption DEF Fresh, Machine, UnknownWord, Address

-----------------------------------------------------------------------------
\* The types, taken apart.
LEMMA Typed ==
    ASSUME TypeOK
    PROVE  /\ pessimistic \in BOOLEAN /\ valid \in BOOLEAN /\ mem_ready \in BOOLEAN
           /\ code \in [Address -> Instruction] /\ PC \in Address /\ IR \in Instruction
           /\ stage2 \in Stage /\ stage2_5 \in Stage /\ stage3 \in Stage
           /\ stage2.op \in Instruction /\ stage2_5.op \in Instruction /\ stage3.op \in Instruction
           /\ stage2.valid \in BOOLEAN /\ stage2_5.valid \in BOOLEAN /\ stage3.valid \in BOOLEAN
           /\ stage2.A_en \in BOOLEAN /\ stage2_5.A_en \in BOOLEAN /\ stage3.A_en \in BOOLEAN
           /\ stage2.X_en \in BOOLEAN /\ stage2_5.X_en \in BOOLEAN /\ stage3.X_en \in BOOLEAN
           /\ imm2 \in Word /\ imm3 \in Word /\ packet_addr_r \in Word /\ do \in Word /\ data_r \in Word
           /\ A \in Word /\ X \in Word /\ scratch_odata_r \in Word /\ ops.A \in Word /\ ops.B \in Word
           /\ ALU_out \in UnknownWord /\ scratch \in [Register -> Word] /\ isa \in Machine
           /\ isa.A \in UnknownWord /\ isa.X \in UnknownWord /\ isa.M \in [Register -> UnknownWord]
           /\ isa.pc \in Address \cup {Unknown} /\ packet \in Packet
BY DEF TypeOK, CpuTypeOK, Stage, Machine

\* The controller's wires are bits.
LEMMA ControlTypes ==
    ASSUME TypeOK
    PROVE  /\ verdict \in BOOLEAN /\ issue \in BOOLEAN /\ jump \in BOOLEAN /\ good2go \in BOOLEAN
           /\ stage1_stalled \in BOOLEAN
BY Typed, Decoder DEF verdict, accept, reject, issue, jump, good2go, stage1_stalled, Accepts, Rejects,
   RetImm, Is

\* The instructions of a PESSIMISTIC build that write A or X, wherever they are in
\* the pipeline.
LEMMA PessimisticCode ==
    ASSUME TypeOK, Inside, Suits, pessimistic, NEW i \in {IR, stage2.op, stage2_5.op, stage3.op}
    PROVE  i.class # "ALU" /\ (Loads(i) => i.mode \notin {"IMM", "MEM"})
BY DEF Inside, Suits, LoadsFromPacket

\* What the multiplexers of A and X select from memory is a word (pipelined_datapath.v).
LEMMA Loaded3Type ==
    ASSUME TypeOK
    PROVE  Loaded3(packet) \in Word
<1>1. data_r \in Word /\ do \in Word /\ MSH(data_r) \in Word /\ MSH(do) \in Word
  BY Typed, PacketTypes, Words
<1>2. packet.len \in Word
  BY Typed, PacketTypes, Words
<1> QED
  BY <1>1, <1>2, Typed DEF Loaded3

\* A clock edge keeps the types.
LEMMA TypesAreKept ==
    ASSUME IInv, NEW rst \in BOOLEAN, Clock(rst)
    PROVE  TypeOK'
<1> USE DEF IInv
<1>1. CpuClock(rst, mem_ready, packet) /\ PacketFor(rst) /\ TypeOK
  BY DEF Clock
<1> DEFINE off == rst \/ ~mem_ready
<1>2. off \in BOOLEAN
  BY Typed
<1>3. pessimistic' = pessimistic /\ code' = code
  BY <1>1 DEF CpuClock
<1>4. PC' \in Address /\ IR' \in Instruction /\ valid' \in BOOLEAN
  <2>1. Fetch(off)
    BY <1>1 DEF CpuClock
  <2>2. IR' \in Instruction /\ valid' \in BOOLEAN
    BY <2>1, Typed, ControlTypes DEF Fetch
  <2>3. \A o \in Nat : (PC + o) % CodeSize \in Address
    BY Typed, PcType DEF Address
  <2>4. Offset([IR EXCEPT !.k = imm2], ops.A, ops.B) \in Nat
    BY Typed, Instructions, OffsetType
  <2>5. NextPC(off) \in Address
    BY <2>3, <2>4, Typed, PcType DEF NextPC
  <2> QED
    BY <2>1, <2>2, <2>5 DEF Fetch
<1>5. stage2' \in Stage /\ stage2_5' \in Stage /\ stage3' \in Stage
  <2>1. Advance
    BY <1>1 DEF CpuClock
  <2>2. \A s \in Stage : Gated(s) \in Stage
    BY DEF Gated, Stage
  <2>3. A_en(IR) \in BOOLEAN /\ X_en(IR) \in BOOLEAN /\ IR \in Instruction
    BY Typed, Decoder
  <2>4. stage2' \in Stage
    BY <2>1, <2>3, ControlTypes DEF Advance, Stage
  <2>5. stage2_5' \in Stage /\ stage3' \in Stage
    BY <2>1, <2>2, Typed DEF Advance
  <2> QED
    BY <2>4, <2>5
<1>6. imm2' \in Word /\ imm3' \in Word
  BY <1>1, Typed, Instructions, Words DEF CpuClock, Immediates
<1>7. ops' \in [A : Word, B : Word] /\ ALU_out' \in UnknownWord
  <2>1. Alu
    BY <1>1 DEF CpuClock
  <2>2. stage2.op.class = "ALU" => AluOp(stage2.op.mode, ops.A, ops.B) \in Word
    BY Typed, Instructions, AluOpType
  <2>3. IR.k \in Word
    BY Typed, Instructions
  <2> QED
    BY <2>1, <2>2, <2>3, Typed DEF Alu, UnknownWord
<1>8. packet_addr_r' \in Word /\ do' \in Word /\ data_r' \in Word
  <2>1. PacketAddress(off) /\ PacketRam(packet) /\ DelayedRead
    BY <1>1 DEF CpuClock
  <2>2. IR.k \in Word /\ Wrap(X + IR.k) \in Word /\ packet.data[packet_addr_r] \in Word /\ 0 \in Word
    BY Typed, Instructions, PacketTypes, Words
  <2> QED
    BY <2>1, <2>2, Typed DEF PacketAddress, PacketRam, DelayedRead
<1>9. scratch' \in [Register -> Word] /\ scratch_odata_r' \in Word
  <2>1. Scratch(off)
    BY <1>1 DEF CpuClock
  <2>2. imm2 % ScratchSize \in Register /\ 0 \in Word
    BY Typed, RegisterType, Words
  <2> QED
    BY <2>1, <2>2, Typed DEF Scratch
<1>10. A' \in Word /\ X' \in Word
  <2>1. WriteBack(packet)
    BY <1>1 DEF CpuClock
  <2>2. stage3.op.class = "ALU" => ALU_out \in Word
    BY PessimisticCode DEF Stages
  <2> QED
    BY <2>1, <2>2, Loaded3Type, Typed DEF WriteBack
<1>11. isa' \in Machine
  <2>1. History(off, packet)
    BY <1>1 DEF CpuClock
  <2>2. Execute(isa, IR, packet) \in Machine
    BY Typed, MachineType
  <2> QED
    BY <2>1, <2>2, FreshType, Typed DEF History
<1>12. mem_ready' \in BOOLEAN /\ packet' \in Packet /\ age' \in 0..MinJob
  <2>1. PacketFor(rst) /\ mem_ready \in BOOLEAN /\ packet \in Packet /\ age \in 0..2
    BY <1>1, Typed DEF TypeOK, MinJob
  <2>2. mem_ready' \in BOOLEAN
    BY <2>1 DEF PacketFor
  <2>3. packet' \in Packet
    <3> DEFINE given == rst \/ verdict \/ ~mem_ready
    <3>1. CASE given
      BY <2>1, <3>1, JobsAssumption DEF PacketFor
    <3>2. CASE ~given
      BY <2>1, <3>2 DEF PacketFor
    <3> QED
      BY <3>1, <3>2
  <2>4. age' \in 0..MinJob
    <3>1. age' = 0 \/ age' = age \/ (age < 2 /\ age' = age + 1)
      BY <2>1 DEF PacketFor, MinJob
    <3> QED
      BY <2>1, <3>1 DEF MinJob
  <2> QED
    BY <2>2, <2>3, <2>4
<1> HIDE DEF off
<1>13. CpuTypeOK'
  <2>1. pessimistic' \in BOOLEAN /\ code' \in [Address -> Instruction]
    BY <1>3, Typed
  <2>2. {pessimistic', valid'} \subseteq BOOLEAN /\ {stage2', stage2_5', stage3'} \subseteq Stage
    BY <2>1, <1>4, <1>5
  <2>3. {imm2', imm3', packet_addr_r', do', data_r', A', X', scratch_odata_r'} \subseteq Word
    BY <1>6, <1>8, <1>9, <1>10
  <2> QED
    BY <2>1, <2>2, <2>3, <1>4, <1>7, <1>9, <1>11 DEF CpuTypeOK
<1> QED
  BY <1>12, <1>13 DEF TypeOK

-----------------------------------------------------------------------------
\* What a clock edge does to the stages, whatever else happens.
LEMMA Shifts ==
    ASSUME TypeOK, NEW rst \in BOOLEAN, Clock(rst)
    PROVE  /\ pessimistic' = pessimistic /\ code' = code
           /\ stage2'.op = IR /\ stage2'.valid = issue
           /\ stage2'.A_en = A_en(IR) /\ stage2'.X_en = X_en(IR)
           /\ ~pessimistic => /\ stage2_5' = stage2_5
                              /\ stage3'.op = stage2.op /\ stage3'.valid = stage2.valid
                              /\ stage3'.A_en = (stage2.valid /\ stage2.A_en)
                              /\ stage3'.X_en = (stage2.valid /\ stage2.X_en)
           /\ pessimistic => /\ stage2_5'.op = stage2.op /\ stage2_5'.valid = stage2.valid
                             /\ stage2_5'.A_en = (stage2.valid /\ stage2.A_en)
                             /\ stage2_5'.X_en = (stage2.valid /\ stage2.X_en)
                             /\ stage3'.op = stage2_5.op /\ stage3'.valid = stage2_5.valid
                             /\ stage3'.A_en = (stage2_5.valid /\ stage2_5.A_en)
                             /\ stage3'.X_en = (stage2_5.valid /\ stage2_5.X_en)
<1>1. Advance /\ UNCHANGED <<pessimistic, code>>
  BY DEF Clock, CpuClock
<1>2. \A s \in Stage : /\ Gated(s).op = s.op /\ Gated(s).valid = s.valid
                       /\ Gated(s).A_en = (s.valid /\ s.A_en) /\ Gated(s).X_en = (s.valid /\ s.X_en)
  BY DEF Gated, Stage
<1>3. stage2 \in Stage /\ stage2_5 \in Stage
  BY Typed
<1> QED
  BY <1>1, <1>2, <1>3 DEF Advance

\* A stop, the lack of a packet and a verdict begin the program again.
LEMMA Restarts ==
    ASSUME IInv, NEW rst \in BOOLEAN, Clock(rst), rst \/ ~mem_ready \/ verdict
    PROVE  /\ isa' = Fresh /\ ~valid' /\ PC' = 0
           /\ mem_ready' => ~rst /\ ~jump'
<1>1. TypeOK /\ (valid => mem_ready)
  BY DEF IInv, Control
<1>2. isa' = Fresh /\ ~valid' /\ PC' = 0
  BY DEF Clock, CpuClock, Fetch, History, NextPC
<1>3. rst => ~mem_ready'
  BY DEF Clock, PacketFor
<1>4. ~mem_ready => ~issue
  BY <1>1 DEF issue
<1>5. verdict => IR.class # "JMP"
  BY DEF verdict, accept, reject, Accepts, Rejects, RetImm, Is
<1>6. stage2'.op = IR /\ stage2'.valid = issue
  BY <1>1, Shifts
<1> QED
  BY <1>2, <1>3, <1>4, <1>5, <1>6 DEF jump

\* Any other clock edge lets the program go on.
Goes(rst) == Clock(rst) /\ ~rst /\ mem_ready /\ ~verdict

\* The sequential machine and stage 0, when the program goes on.
LEMMA GoesOn ==
    ASSUME TypeOK, NEW rst \in BOOLEAN, Goes(rst)
    PROVE  /\ mem_ready' /\ packet' = packet
           /\ isa' = IF issue THEN Execute(isa, IR, packet) ELSE isa
           /\ IR' = IF good2go THEN code[PC] ELSE IR
           /\ valid' = (good2go \/ (valid /\ stage1_stalled))
           /\ PC' = IF jump THEN (PC + Offset([IR EXCEPT !.k = imm2], ops.A, ops.B)) % CodeSize
                    ELSE IF good2go THEN (PC + 1) % CodeSize ELSE PC
<1>1. mem_ready' = mem_ready /\ packet' = packet
  BY DEF Goes, Clock, PacketFor
<1>2. ~(rst \/ ~mem_ready) /\ ~verdict /\ Fetch(rst \/ ~mem_ready) /\ History(rst \/ ~mem_ready, packet)
  BY DEF Goes, Clock, CpuClock
<1> QED
  BY <1>1, <1>2, ControlTypes DEF Goes, Fetch, History, NextPC

\* The data path, when the program goes on.
LEMMA DataGoOn ==
    ASSUME TypeOK, NEW rst \in BOOLEAN, Goes(rst)
    PROVE  /\ imm2' = IR.k /\ imm3' = imm2
           /\ ops'.A = A /\ ops'.B = IF IR.src = "X" THEN X ELSE IR.k
           /\ stage2.op.class = "ALU" => ALU_out' = AluOp(stage2.op.mode, ops.A, ops.B)
           /\ packet_addr_r' = IF IR.mode = "IND" THEN Wrap(X + IR.k) ELSE IR.k
           /\ stage2.valid /\ packet_mem_rd_en(stage2.op) => do' = packet.data[packet_addr_r]
           /\ pessimistic => data_r' = do
           /\ scratch_odata_r' = scratch[imm2 % ScratchSize]
           /\ \A r \in Register : scratch'[r] = PendingM(r)
<1>1. /\ ~(rst \/ ~mem_ready) /\ Immediates(rst \/ ~mem_ready) /\ Alu
      /\ PacketAddress(rst \/ ~mem_ready) /\ PacketRam(packet) /\ DelayedRead
      /\ Scratch(rst \/ ~mem_ready)
  BY DEF Goes, Clock, CpuClock
<1>2. imm2' = IR.k /\ imm3' = imm2
  BY <1>1 DEF Immediates
<1>3. /\ ops'.A = A /\ ops'.B = IF IR.src = "X" THEN X ELSE IR.k
      /\ stage2.op.class = "ALU" => ALU_out' = AluOp(stage2.op.mode, ops.A, ops.B)
  BY <1>1 DEF Alu
<1>4. /\ packet_addr_r' = IF IR.mode = "IND" THEN Wrap(X + IR.k) ELSE IR.k
      /\ stage2.valid /\ packet_mem_rd_en(stage2.op) => do' = packet.data[packet_addr_r]
      /\ pessimistic => data_r' = do
  BY <1>1 DEF PacketAddress, PacketRam, DelayedRead
<1>5. scratch_odata_r' = scratch[imm2 % ScratchSize]
  BY <1>1 DEF Scratch
<1>6. ASSUME NEW r \in Register PROVE scratch'[r] = PendingM(r)
  <2>1. imm2 % ScratchSize \in Register /\ scratch \in [Register -> Word]
    BY Typed, RegisterType
  <2> QED
    BY <1>1, <2>1 DEF Scratch, PendingM, WritesScratch
<1> QED
  BY <1>2, <1>3, <1>4, <1>5, <1>6

-----------------------------------------------------------------------------
\* The pipeline holds instructions of the program only.
LEMMA InsideIsKept ==
    ASSUME IInv, NEW rst \in BOOLEAN, Clock(rst)
    PROVE  Inside' /\ Suits'
<1>1. TypeOK /\ Inside /\ Suits
  BY DEF IInv
<1>2. IR' \in {code[PC], IR} /\ PC \in Address
  BY <1>1, Typed DEF Clock, CpuClock, Fetch
<1>3. /\ code' = code /\ pessimistic' = pessimistic /\ stage2'.op = IR
      /\ stage2_5'.op \in {stage2.op, stage2_5.op} /\ stage3'.op \in {stage2.op, stage2_5.op}
  BY <1>1, Shifts, Typed
<1>4. Inside'
  BY <1>1, <1>2, <1>3 DEF Inside
<1> QED
  BY <1>1, <1>3, <1>4 DEF Suits, UsesXLate, LoadsFromPacket, Behind

\* The control lines travel with their instructions.
LEMMA StagesAreKept ==
    ASSUME IInv, NEW rst \in BOOLEAN, Clock(rst)
    PROVE  Stages'
<1>1. TypeOK /\ Stages /\ Control
  BY DEF IInv
<1>2. stage2'.A_en = A_en(stage2'.op) /\ stage2'.X_en = X_en(stage2'.op)
  BY <1>1, Shifts
<1>3. Decoded(stage2_5') /\ Decoded(stage3')
  BY <1>1, Shifts, Typed DEF Stages, Decoded
<1>4. mem_ready' /\ stage2'.valid => imm2' = stage2'.op.k
  <2>1. mem_ready' /\ stage2'.valid => ~rst /\ mem_ready /\ stage2'.op = IR
    BY <1>1, Shifts DEF issue, Control, Clock, PacketFor
  <2>2. ~rst /\ mem_ready => imm2' = IR.k
    BY DEF Clock, CpuClock, Immediates
  <2> QED
    BY <2>1, <2>2
<1>5. ~pessimistic' /\ stage3'.op.class = "ALU" => ALU_out' \in Word
  <2>1. ~pessimistic' /\ stage3'.op.class = "ALU" => stage2.op.class = "ALU"
    BY <1>1, Shifts
  <2>2. stage2.op.class = "ALU" => ALU_out' = AluOp(stage2.op.mode, ops.A, ops.B)
    BY DEF Clock, CpuClock, Alu
  <2>3. stage2.op.class = "ALU" => AluOp(stage2.op.mode, ops.A, ops.B) \in Word
    BY <1>1, Typed, Instructions, AluOpType
  <2> QED
    BY <2>1, <2>2, <2>3
<1> QED
  BY <1>2, <1>3, <1>4, <1>5 DEF Stages

\* The stall conditions keep the order of writes (decode_compute1_stage1.v).
LEMMA OrderIsKept ==
    ASSUME IInv, NEW rst \in BOOLEAN, Clock(rst)
    PROVE  Ordered'
<1>1. TypeOK /\ Stages /\ Ordered
  BY DEF IInv
<1>2. /\ issue /\ we_read_A(IR) => ~A_en_stall_sig
      /\ issue /\ we_read_X(IR) => ~X_en_stall_sig
  BY DEF issue, stage1_stalled
<1> QED
  BY <1>1, <1>2, Shifts, Typed, Decoder
     DEF Ordered, Stages, Decoded, Behind2A, Behind2X, A_en_stall_sig, X_en_stall_sig

-----------------------------------------------------------------------------
\* Addresses go round.
LEMMA Remainder ==
    ASSUME NEW x \in Int, NEW n \in Nat, n > 0, NEW q \in Int, NEW r \in 0..n-1, x = n * q + r
    PROVE  x % n = r
BY Z3

\* Addresses go round.
LEMMA Rounds ==
    ASSUME NEW x \in Int, NEW n \in Nat, n > 0
    PROVE  (x + n) % n = x % n
<1> DEFINE q == x \div n
           r == x % n
<1>1. q \in Int /\ r \in 0..n-1
  OBVIOUS
<1>2. x = n * q + r
  BY Z3
<1> HIDE DEF q, r
<1>3. x + n = n * (q + 1) + r /\ q + 1 \in Int /\ x + n \in Int
  BY <1>1, <1>2
<1>4. (x + n) % n = r
  BY <1>1, <1>3, Remainder
<1> QED
  BY <1>4 DEF r

\* The address before the next one is the same again, and offsets count from either.
LEMMA Neighbours ==
    ASSUME NEW a \in Address
    PROVE  /\ Before(a) \in Address /\ (Before(a) + 1) % CodeSize = a
           /\ Before((a + 1) % CodeSize) = a
           /\ \A o \in Nat : (Before(a) + 1 + o) % CodeSize = (a + o) % CodeSize
<1> DEFINE n == CodeSize
<1>1. n \in Nat /\ n > 0 /\ Address = 0..n-1
  BY IsaAssumption DEF Address
<1>2. Before(a) = IF a = 0 THEN n - 1 ELSE a - 1
  BY DEF Before
<1>3. (a + 1) % n = IF a + 1 = n THEN 0 ELSE a + 1
  <2>1. CASE a + 1 = n
    <3>1. n % n = 0
      BY <1>1, Z3
    <3> QED BY <2>1, <3>1
  <2>2. CASE a + 1 # n
    BY <1>1, <2>2
  <2> QED BY <2>1, <2>2
<1>4. \A o \in Nat : (o + n) % n = o % n
  BY <1>1, Rounds
<1>5. 0 % n = 0 /\ n % n = 0
  BY <1>1, Z3
<1>6. (Before(a) + 1) % n = a
  BY <1>1, <1>2, <1>5
<1>7. Before((a + 1) % n) = a
  <2>1. CASE a + 1 = n
    BY <2>1, <1>1, <1>3 DEF Before
  <2>2. CASE a + 1 # n
    BY <2>2, <1>1, <1>3 DEF Before
  <2> QED BY <2>1, <2>2
<1>8. ASSUME NEW o \in Nat PROVE (Before(a) + 1 + o) % n = (a + o) % n
  <2>1. CASE a = 0
    <3>1. Before(a) + 1 + o = o + n /\ a + o = o
      BY <2>1, <1>1, <1>2
    <3> QED BY <3>1, <1>4
  <2>2. CASE a # 0
    <3>1. Before(a) + 1 + o = a + o
      BY <2>2, <1>1, <1>2
    <3> QED BY <3>1
  <2> QED BY <2>1, <2>2
<1> QED
  BY <1>1, <1>2, <1>6, <1>7, <1>8

\* What is n places behind one address is one place more behind the next.
LEMMA BehindTheNext ==
    ASSUME NEW p \in [Address -> Instruction], NEW a \in Address, NEW n \in Nat,
           p[a].class # "JMP", ~RetImm(p[a])
    PROVE  /\ p[a] \in Behind(p, (a + 1) % CodeSize, 1)
           /\ Behind(p, a, n) \subseteq Behind(p, (a + 1) % CodeSize, n + 1)
<1> DEFINE b == (a + 1) % CodeSize
<1>1. ASSUME NEW d \in Nat PROVE (b - (d + 1)) % CodeSize = (a - d) % CodeSize
  <2> DEFINE m == CodeSize
  <2>1. m \in Nat /\ m > 0 /\ a \in 0..m-1 /\ b = (a + 1) % m
    BY IsaAssumption DEF Address
  <2>2. b = a + 1 \/ b = a + 1 - m
    BY <2>1, Neighbours DEF Before, Address
  <2> HIDE DEF m, b
  <2>3. CASE b = a + 1
    <3>1. b - (d + 1) = a - d
      BY <2>1, <2>3
    <3> QED BY <3>1
  <2>4. CASE b = a + 1 - m
    <3> DEFINE x == b - (d + 1)
    <3>1. x \in Int /\ x + m = a - d
      BY <2>1, <2>4
    <3> HIDE DEF x
    <3>2. (x + m) % m = x % m
      BY <3>1, <2>1, Rounds
    <3> QED BY <3>1, <3>2 DEF x, m
  <2> QED BY <2>2, <2>3, <2>4
<1>2. (a - 0) % CodeSize = a
  BY IsaAssumption DEF Address
<1>3. (b - 1) % CodeSize = a
  BY <1>1, <1>2
<1> HIDE DEF b
<1>4. p[a] \in Behind(p, b, 1)
  <2>1. 1 \in 1..1 /\ \A e \in 1..1 : e = 1
    OBVIOUS
  <2> QED
    BY <2>1, <1>3 DEF Behind
<1>5. ASSUME NEW i \in Behind(p, a, n) PROVE i \in Behind(p, b, n + 1)
  <2>1. PICK d \in 1..n : /\ i = p[(a - d) % CodeSize]
                          /\ \A e \in 1..d : /\ p[(a - e) % CodeSize].class # "JMP"
                                             /\ ~RetImm(p[(a - e) % CodeSize])
    BY <1>5 DEF Behind
  <2>2. d + 1 \in 1..n+1 /\ i = p[(b - (d + 1)) % CodeSize]
    BY <2>1, <1>1
  <2>3. ASSUME NEW e \in 1..d+1
        PROVE  p[(b - e) % CodeSize].class # "JMP" /\ ~RetImm(p[(b - e) % CodeSize])
    <3>1. CASE e = 1
      BY <3>1, <1>3
    <3>2. CASE e # 1
      <4>1. e - 1 \in 1..d /\ (e - 1) + 1 = e /\ e - 1 \in Nat
        BY <3>2, <2>1
      <4>2. (b - e) % CodeSize = (a - (e - 1)) % CodeSize
        BY <4>1, <1>1
      <4> QED BY <4>1, <4>2, <2>1
    <3> QED BY <3>1, <3>2
  <2> QED
    BY <2>2, <2>3 DEF Behind
<1> QED
  BY <1>4, <1>5 DEF b

\* More places before an address hold more instructions.
LEMMA BehindIsMonotone ==
    ASSUME NEW p, NEW a, NEW n \in Nat, NEW m \in Nat, m <= n
    PROVE  Behind(p, a, m) \subseteq Behind(p, a, n)
BY DEF Behind

-----------------------------------------------------------------------------
\* An instruction that issues works on the registers as the instructions before it
\* leave them.
LEMMA OperandsAreCurrent ==
    ASSUME IInv, issue
    PROVE  /\ we_read_A(IR) => Matches(isa.A, A) /\ ~stage3.A_en
           /\ we_read_X(IR) => ~stage3.X_en
           /\ UsesX(IR) => Matches(isa.X, X)
<1>1. /\ TypeOK /\ Stages /\ Control /\ XPlaces /\ Suits
      /\ Matches(isa.A, PendingA) /\ Matches(isa.X, PendingX)
  BY DEF IInv, Data
<1>2. valid /\ (we_read_A(IR) => ~A_en_stall_sig) /\ (we_read_X(IR) => ~X_en_stall_sig)
  BY DEF issue, stage1_stalled
<1>3. we_read_A(IR) => PendingA = A /\ ~stage3.A_en
  BY <1>2 DEF A_en_stall_sig, PendingA
<1>4. we_read_X(IR) => PendingX = X /\ ~stage3.X_en
  BY <1>2 DEF X_en_stall_sig, PendingX
<1>5. ASSUME UsesX(IR), ~we_read_X(IR) PROVE Matches(isa.X, X)
  <2>1. PC \in Address /\ Place \in Address /\ IR = code[Place] /\ pessimistic \in BOOLEAN
    BY <1>1, <1>2, Typed, Neighbours DEF Control, Place
  <2>2. \A n \in 1..Depth(pessimistic) : ~XWriteBehind(n)
    <3>1. ~XWriteBehind(Depth(pessimistic))
      BY <1>1, <1>5, <2>1 DEF Suits, UsesXLate, XWriteBehind
    <3>2. Depth(pessimistic) \in Nat
      BY DEF Depth
    <3> QED
      BY <3>1, <3>2, BehindIsMonotone DEF XWriteBehind
  <2>3. ~(stage2.valid /\ stage2.X_en) /\ ~(pessimistic /\ stage2_5.X_en)
    <3>1. 1 \in 1..Depth(pessimistic) /\ (pessimistic => 2 \in 1..Depth(pessimistic))
      BY DEF Depth
    <3> QED
      BY <3>1, <2>2, <1>1, <1>2 DEF XPlaces
  <2>4. stage3.X_en => isa.X = Unknown
    <3>1. Depth(pessimistic) \in 1..Depth(pessimistic)
      BY DEF Depth
    <3> QED
      BY <3>1, <2>2, <1>1, <1>2 DEF XPlaces
  <2> QED
    BY <1>1, <2>3, <2>4 DEF PendingX, Matches
<1> QED
  BY <1>1, <1>3, <1>4, <1>5

\* The ALU's inputs are those the jump would have in sequence.
LEMMA JumpsAgree ==
    ASSUME IInv, issue, IR.class = "JMP"
    PROVE  Matches(NextPc(isa, IR), (PC + Offset(IR, A, IF IR.src = "X" THEN X ELSE IR.k)) % CodeSize)
<1>1. TypeOK /\ Control /\ valid /\ PC \in Address /\ IR \in Instruction
  BY Typed DEF IInv, issue
<1>2. Matches(isa.pc, Place)
  BY <1>1 DEF Control
<1>3. Matches(isa.A, A) /\ (IR.src = "X" => Matches(isa.X, X))
  BY <1>1, OperandsAreCurrent, Decoder DEF UsesX
<1> DEFINE b == IF IR.src = "X" THEN X ELSE IR.k
           o == Offset(IR, A, b)
<1>4. SUFFICES ASSUME NextPc(isa, IR) # Unknown
               PROVE  NextPc(isa, IR) = (PC + o) % CodeSize
  BY DEF Matches
<1>5. isa.pc = Place /\ (IR.mode # "JA" => OperandsKnown(isa, IR))
  BY <1>2, <1>4 DEF NextPc, Matches
<1>6. Offset(IR, isa.A, Operand(isa, IR)) = o
  <2>1. CASE IR.mode = "JA"
    BY <2>1 DEF Offset
  <2>2. CASE IR.mode # "JA"
    <3>1. isa.A = A /\ Operand(isa, IR) = b
      BY <2>2, <1>3, <1>5 DEF OperandsKnown, Operand, Matches
    <3> QED
      BY <3>1
  <2> QED
    BY <2>1, <2>2
<1>7. NextPc(isa, IR) = (Place + 1 + o) % CodeSize
  BY <1>4, <1>5, <1>6 DEF NextPc
<1>8. o \in Nat
  BY <1>1, OffsetType
<1> HIDE DEF o
<1> QED
  BY <1>1, <1>7, <1>8, Neighbours DEF Place

\* Stage 0 and the sequential machine go on to the same instruction
\* (pipelined_bpfvm_ctrl.v).
LEMMA ControlIsKept ==
    ASSUME IInv, NEW rst \in BOOLEAN, Clock(rst)
    PROVE  Control'
<1>1. TypeOK /\ Control /\ Stages
  BY DEF IInv
<1>2. CASE rst \/ ~mem_ready \/ verdict
  <2>1. isa' = Fresh /\ ~valid' /\ PC' = 0 /\ (mem_ready' => ~jump')
    BY <1>2, Restarts
  <2>2. Matches(isa'.pc, PC')
    BY <2>1 DEF Fresh, Matches
  <2> QED
    BY <2>1, <2>2 DEF Control
<1>3. CASE ~(rst \/ ~mem_ready \/ verdict)
  <2>1. Goes(rst) /\ mem_ready /\ PC \in Address /\ IR \in Instruction /\ isa \in Machine
    BY <1>1, <1>3, Typed DEF Goes
  <2>2. /\ mem_ready' /\ code' = code /\ stage2'.op = IR /\ stage2'.valid = issue
        /\ isa' = IF issue THEN Execute(isa, IR, packet) ELSE isa
        /\ IR' = IF good2go THEN code[PC] ELSE IR
        /\ valid' = (good2go \/ (valid /\ stage1_stalled))
        /\ PC' = IF jump THEN (PC + Offset([IR EXCEPT !.k = imm2], ops.A, ops.B)) % CodeSize
                 ELSE IF good2go THEN (PC + 1) % CodeSize ELSE PC
    BY <1>1, <2>1, GoesOn, Shifts
  <2>3. issue => isa'.pc = NextPc(isa, IR)
    BY <2>1, <2>2, Executes
  <2>4. jump' <=> issue /\ IR.class = "JMP"
    BY <2>2 DEF jump
  <2>5. ASSUME good2go
        PROVE  valid' /\ ~jump' /\ IR' = code'[Place'] /\ Matches(isa'.pc, Place')
    <3>1. ~jump /\ ~stage1_stalled /\ ~jump'
      BY <2>4, <2>5 DEF good2go
    <3>2. PC' = (PC + 1) % CodeSize
      BY <2>2, <2>5, <3>1
    <3>3. Place' = PC
      BY <2>1, <3>2, Neighbours DEF Place
    <3>4. Matches(isa'.pc, PC)
      <4>1. CASE issue
        <5>1. valid /\ IR.class # "JMP" /\ Matches(isa.pc, Place)
          BY <4>1, <2>5, <1>1 DEF issue, good2go, Control
        <5>2. (Place + 1 + 0) % CodeSize = PC
          BY <2>1, Neighbours DEF Place, Address
        <5>3. Matches(NextPc(isa, IR), PC)
          BY <5>1, <5>2 DEF NextPc, Matches
        <5> QED
          BY <4>1, <2>3, <5>3
      <4>2. CASE ~issue
        <5>1. ~valid
          BY <4>2, <3>1 DEF issue
        <5> QED
          BY <4>2, <5>1, <3>1, <2>1, <2>2, <1>1 DEF Control
      <4> QED
        BY <4>1, <4>2
    <3> QED
      BY <2>2, <2>5, <3>1, <3>3, <3>4
  <2>6. ASSUME ~good2go, valid, stage1_stalled
        PROVE  valid' /\ ~jump' /\ IR' = code'[Place'] /\ Matches(isa'.pc, Place')
    <3>1. ~jump /\ ~issue
      BY <2>6, <1>1 DEF Control, issue
    <3>2. PC' = PC /\ IR' = IR /\ isa' = isa /\ valid' /\ ~jump'
      BY <2>2, <2>4, <2>6, <3>1
    <3>3. Place' = Place
      BY <3>2 DEF Place
    <3> QED
      BY <2>6, <3>2, <3>3, <2>2, <1>1 DEF Control
  <2>7. ASSUME issue, IR.class = "JMP"
        PROVE  /\ ~valid' /\ jump' /\ IR' = IR
               /\ Matches(isa'.pc, (PC' + Offset(IR', ops'.A, ops'.B)) % CodeSize)
    <3>1. ~good2go /\ ~stage1_stalled /\ ~jump
      BY <2>7, <1>1 DEF good2go, issue, Control
    <3>2. PC' = PC /\ IR' = IR /\ ~valid' /\ jump'
      BY <2>2, <2>4, <2>7, <3>1
    <3>3. ops'.A = A /\ ops'.B = IF IR.src = "X" THEN X ELSE IR.k
      BY <1>1, <2>1, DataGoOn
    <3> QED
      BY <2>3, <2>7, <3>2, <3>3, JumpsAgree
  <2>8. ASSUME jump
        PROVE  ~valid' /\ ~jump' /\ Matches(isa'.pc, PC')
    <3>1. ~valid /\ ~issue /\ ~good2go /\ IR = stage2.op /\ stage2.valid /\ imm2 = IR.k
      BY <2>8, <2>1, <1>1 DEF Control, issue, good2go, Stages, jump
    <3>2. [IR EXCEPT !.k = imm2] = IR
      BY <3>1, <2>1, Instructions
    <3>3. PC' = (PC + Offset(IR, ops.A, ops.B)) % CodeSize /\ isa' = isa /\ ~valid' /\ ~jump'
      BY <2>2, <2>4, <2>8, <3>1, <3>2
    <3> QED
      BY <2>8, <2>1, <3>3, <1>1 DEF Control
  <2>9. ASSUME ~good2go, ~(valid /\ stage1_stalled), ~(issue /\ IR.class = "JMP"), ~jump
        PROVE  ~valid' /\ ~jump' /\ Matches(isa'.pc, PC')
    <3>1. ~valid /\ ~issue
      BY <2>9 DEF good2go, issue
    <3>2. PC' = PC /\ isa' = isa /\ ~valid' /\ ~jump'
      BY <2>2, <2>4, <2>9, <3>1
    <3> QED
      BY <2>1, <2>9, <3>1, <3>2, <1>1 DEF Control
  <2>10. \/ valid' /\ ~jump' /\ IR' = code'[Place'] /\ Matches(isa'.pc, Place')
         \/ /\ ~valid' /\ jump' /\ IR' = IR
            /\ Matches(isa'.pc, (PC' + Offset(IR', ops'.A, ops'.B)) % CodeSize)
         \/ ~valid' /\ ~jump' /\ Matches(isa'.pc, PC')
    BY <2>5, <2>6, <2>7, <2>8, <2>9
  <2> QED
    BY <2>2, <2>10 DEF Control
<1> QED
  BY <1>2, <1>3

\* The writes to X move back in the pipeline and in the program alike.
LEMMA XPlacesAreKept ==
    ASSUME IInv, NEW rst \in BOOLEAN, Clock(rst)
    PROVE  XPlaces'
<1>1. TypeOK /\ Control /\ Stages /\ XPlaces
  BY DEF IInv
<1>2. CASE rst \/ ~mem_ready \/ verdict
  <2>1. ~valid' /\ isa' = Fresh /\ (mem_ready' => ~rst)
    BY <1>2, Restarts
  <2>2. isa'.X = Unknown
    BY <2>1 DEF Fresh
  <2>3. mem_ready' => ~(stage2'.valid /\ stage2'.X_en)
    <3>1. mem_ready' => ~mem_ready \/ verdict
      BY <1>2, <2>1
    <3>2. ~mem_ready => ~issue
      BY <1>1 DEF Control, issue
    <3>3. verdict => ~X_en(IR)
      BY <1>1, Typed, Decoder DEF verdict, accept, reject, Accepts, Rejects
    <3> QED
      BY <1>1, <3>1, <3>2, <3>3, Shifts
  <2> QED
    BY <2>1, <2>2, <2>3 DEF XPlaces
<1>3. CASE ~(rst \/ ~mem_ready \/ verdict)
  <2>1. /\ Goes(rst) /\ mem_ready /\ PC \in Address /\ IR \in Instruction
        /\ code \in [Address -> Instruction] /\ Place \in Address /\ pessimistic \in BOOLEAN
    BY <1>1, <1>3, Typed, Neighbours DEF Goes, Place
  <2>2. /\ code' = code /\ pessimistic' = pessimistic
        /\ isa' = IF issue THEN Execute(isa, IR, packet) ELSE isa
        /\ valid' = (good2go \/ (valid /\ stage1_stalled))
        /\ PC' = IF jump THEN (PC + Offset([IR EXCEPT !.k = imm2], ops.A, ops.B)) % CodeSize
                 ELSE IF good2go THEN (PC + 1) % CodeSize ELSE PC
    BY <1>1, <2>1, GoesOn, Shifts
  <2>3. /\ stage2'.op = IR /\ stage2'.valid = issue /\ stage2'.X_en = X_en(IR)
        /\ pessimistic => /\ stage2_5'.X_en = (stage2.valid /\ stage2.X_en)
                          /\ stage3'.X_en = (stage2_5.valid /\ stage2_5.X_en)
        /\ ~pessimistic => stage3'.X_en = (stage2.valid /\ stage2.X_en)
    BY <1>1, Shifts
  <2>4. valid => IR = code[Place] /\ ~RetImm(IR)
    <3>1. Accepts(IR) \/ Rejects(IR) <=> RetImm(IR)
      <4>1. IR.k \in Nat
        BY <2>1, Instructions, Words
      <4> QED
        BY <4>1 DEF Accepts, Rejects
    <3> QED
      BY <3>1, <1>1, <1>3 DEF Control, verdict, accept, reject
  <2>5. issue /\ X_en(IR) => valid /\ good2go
    BY <2>1, <1>1, Decoder DEF issue, good2go, Control
  <2>6. ASSUME NEW n \in Nat, valid, valid', XWriteBehind(n) PROVE XWriteBehind(n + 1)'
    <3>1. CASE good2go
      <4>1. PC' = (PC + 1) % CodeSize
        BY <3>1, <2>2 DEF good2go
      <4>2. Place' = PC /\ (Place + 1) % CodeSize = PC
        BY <4>1, <2>1, Neighbours DEF Place
      <4>3. ~stage1_stalled /\ IR.class # "JMP"
        BY <3>1, <2>6 DEF good2go, issue
      <4>4. Behind(code, Place, n) \subseteq Behind(code, PC, n + 1)
        BY <4>2, <4>3, <2>1, <2>4, <2>6, BehindTheNext
      <4> QED
        BY <4>2, <4>4, <2>2, <2>6 DEF XWriteBehind
    <3>2. CASE ~good2go
      <4>1. ~jump /\ PC' = PC
        BY <3>2, <2>2, <2>6, <1>1 DEF Control
      <4>2. Place' = Place /\ n <= n + 1 /\ n + 1 \in Nat
        BY <4>1 DEF Place
      <4>3. Behind(code, Place, n) \subseteq Behind(code, Place, n + 1)
        BY <4>2, BehindIsMonotone
      <4> QED
        BY <4>2, <4>3, <2>2, <2>6 DEF XWriteBehind
    <3> QED
      BY <3>1, <3>2
  <2>7. ASSUME ~valid' PROVE ~(stage2'.valid /\ stage2'.X_en)
    BY <2>2, <2>3, <2>5, <2>7
  <2>8. ASSUME ~valid', ~jump', pessimistic PROVE ~stage2_5'.X_en
    <3>1. jump => ~stage2.X_en
      BY <1>1, Typed, Decoder DEF Stages, jump
    <3>2. ~jump => ~valid
      BY <2>2, <2>3, <2>8 DEF good2go, issue, jump
    <3> QED
      BY <3>1, <3>2, <2>1, <2>3, <2>8, <1>1 DEF XPlaces
  <2>9. ASSUME valid', stage2'.valid, stage2'.X_en PROVE XWriteBehind(1)'
    <3>1. issue /\ X_en(IR) /\ valid /\ good2go
      BY <2>3, <2>5, <2>9
    <3>2. PC' = (PC + 1) % CodeSize
      BY <3>1, <2>2 DEF good2go
    <3>3. Place' = PC /\ (Place + 1) % CodeSize = PC
      BY <3>2, <2>1, Neighbours DEF Place
    <3>4. IR.class # "JMP" /\ IR = code[Place] /\ ~RetImm(IR)
      BY <3>1, <2>1, <2>4, Decoder
    <3>5. IR \in Behind(code, PC, 1)
      BY <3>3, <3>4, <2>1, BehindTheNext
    <3> QED
      BY <3>1, <3>3, <3>5, <2>2 DEF XWriteBehind
  <2>10. ASSUME valid', stage2.valid, stage2.X_en PROVE XWriteBehind(2)'
    <3>1. valid /\ XWriteBehind(1)
      BY <2>1, <2>10, <1>1 DEF XPlaces
    <3>2. XWriteBehind(1 + 1)'
      BY <3>1, <2>6, <2>10
    <3> QED
      BY <3>2
  <2>11. ASSUME valid', pessimistic, stage2_5.X_en PROVE isa'.X = Unknown \/ XWriteBehind(3)'
    <3>1. CASE valid
      <4>1. XWriteBehind(2)
        BY <3>1, <2>11, <1>1 DEF XPlaces
      <4>2. XWriteBehind(2 + 1)'
        BY <3>1, <4>1, <2>6, <2>11
      <4> QED
        BY <4>2
    <3>2. CASE ~valid
      <4>1. good2go /\ ~jump /\ ~issue
        BY <3>2, <2>2, <2>11 DEF good2go, issue
      <4>2. isa' = isa /\ isa.X = Unknown
        BY <3>2, <4>1, <2>1, <2>2, <2>11, <1>1 DEF XPlaces
      <4> QED
        BY <4>2
    <3> QED
      BY <3>1, <3>2
  <2>12. valid' /\ stage3'.X_en => isa'.X = Unknown \/ XWriteBehind(Depth(pessimistic))'
    BY <2>1, <2>2, <2>3, <2>10, <2>11 DEF Depth
  <2> QED
    BY <2>2, <2>3, <2>7, <2>8, <2>9, <2>10, <2>12 DEF XPlaces
<1> QED
  BY <1>2, <1>3

-----------------------------------------------------------------------------
\* What is pending stays the same when the pipeline moves on and nothing that writes the
\* register enters it.
LEMMA PendingAMovesOn ==
    ASSUME IInv, NEW rst \in BOOLEAN, Goes(rst), ~(issue /\ A_en(IR))
    PROVE  PendingA' = PendingA
<1>1. TypeOK /\ Stages /\ Ordered /\ Inside /\ Suits /\ pessimistic \in BOOLEAN
  BY Typed DEF IInv
<1>2. Clock(rst) /\ packet' = packet
  BY <1>1, GoesOn DEF Goes
<1>3. ~(stage2'.valid /\ stage2'.A_en) /\ pessimistic' = pessimistic
  BY <1>1, <1>2, Shifts
<1>4. A' = IF ~stage3.A_en THEN A ELSE ResultA(stage3, Loaded3(packet), ALU_out)
  BY <1>2 DEF Clock, CpuClock, WriteBack, ResultA
<1>5. ~stage3.X_en => X' = X
  BY <1>2 DEF Clock, CpuClock, WriteBack
<1>6. CASE pessimistic
  <2>1. /\ stage2_5'.op = stage2.op /\ stage2_5'.A_en = (stage2.valid /\ stage2.A_en)
        /\ stage3'.op = stage2_5.op /\ stage3'.A_en = (stage2_5.valid /\ stage2_5.A_en)
    BY <1>1, <1>2, <1>6, Shifts
  <2>2. CASE stage2.valid /\ stage2.A_en
    <3>1. PendingA = ResultA(stage2, Loaded2, AluOp(stage2.op.mode, ops.A, ops.B))
      BY <2>2 DEF PendingA
    <3>2. PendingA' = ResultA(stage2_5, Loaded2_5, ALU_out)'
      BY <1>3, <1>6, <2>1, <2>2 DEF PendingA
    <3>3. /\ A_en(stage2.op) /\ stage2.op \in Instruction /\ stage2.op.class # "ALU"
          /\ Loads(stage2.op) => stage2.op.mode \notin {"IMM", "MEM"}
      BY <1>1, <1>6, <2>2, Typed, PessimisticCode DEF Stages
    <3>4. CASE stage2.op.class = "LD"
      <4>1. stage2.op.mode \in {"ABS", "IND", "LEN"}
        BY <3>3, <3>4, Instructions DEF Loads
      <4>2. stage2.op.mode # "LEN" => do' = packet.data[packet_addr_r]
        BY <1>1, <2>2, <3>4, <4>1, DataGoOn DEF packet_mem_rd_en, Loads
      <4>3. Loaded2_5' = Loaded2
        BY <1>2, <2>1, <4>1, <4>2 DEF Loaded2_5, Loaded2
      <4> QED
        BY <3>1, <3>2, <3>4, <2>1, <4>3 DEF ResultA
    <3>5. CASE stage2.op.class # "LD"
      <4>1. we_read_X(stage2.op)
        BY <3>3, <3>5 DEF A_en, we_read_X
      <4>2. X' = X
        BY <1>1, <1>5, <2>2, <4>1 DEF Ordered, Behind2X
      <4> QED
        BY <3>1, <3>2, <3>3, <3>5, <2>1, <4>2 DEF ResultA
    <3> QED
      BY <3>4, <3>5
  <2>3. CASE ~(stage2.valid /\ stage2.A_en) /\ stage2_5.A_en
    <3>1. PendingA = ResultA(stage2_5, Loaded2_5, ALU_out)
      BY <1>6, <2>3 DEF PendingA
    <3>2. stage2_5.valid /\ A_en(stage2_5.op) /\ stage2_5.op \in Instruction
      BY <1>1, <2>3, Typed DEF Stages, Decoded
    <3>3. PendingA' = ResultA(stage3, Loaded3(packet), ALU_out)'
      BY <1>3, <1>6, <2>1, <2>3, <3>2 DEF PendingA
    <3>4. /\ stage2_5.op.class # "ALU"
          /\ Loads(stage2_5.op) => stage2_5.op.mode \notin {"IMM", "MEM"}
      BY <1>1, <1>6, PessimisticCode
    <3>5. CASE stage2_5.op.class = "LD"
      <4>1. stage2_5.op.mode \in {"ABS", "IND", "LEN"}
        BY <3>2, <3>4, <3>5, Instructions DEF Loads
      <4>2. data_r' = do
        BY <1>1, <1>6, DataGoOn
      <4>3. Loaded3(packet)' = Loaded2_5
        BY <1>2, <1>3, <1>6, <2>1, <4>1, <4>2 DEF Loaded2_5, Loaded3
      <4> QED
        BY <3>1, <3>3, <3>5, <2>1, <4>3 DEF ResultA
    <3>6. CASE stage2_5.op.class # "LD"
      <4>1. we_read_X(stage2_5.op)
        BY <3>2, <3>4, <3>6 DEF A_en, we_read_X
      <4>2. X' = X
        BY <1>1, <1>5, <1>6, <3>2, <4>1 DEF Ordered
      <4> QED
        BY <3>1, <3>3, <3>4, <3>6, <2>1, <4>2 DEF ResultA
    <3> QED
      BY <3>5, <3>6
  <2>4. CASE ~(stage2.valid /\ stage2.A_en) /\ ~stage2_5.A_en
    <3>1. PendingA = IF stage3.A_en THEN ResultA(stage3, Loaded3(packet), ALU_out) ELSE A
      BY <2>4 DEF PendingA
    <3>2. PendingA' = A'
      BY <1>3, <2>1, <2>4 DEF PendingA
    <3> QED
      BY <1>4, <3>1, <3>2
  <2> QED
    BY <2>2, <2>3, <2>4
<1>7. CASE ~pessimistic
  <2>1. stage3'.op = stage2.op /\ stage3'.A_en = (stage2.valid /\ stage2.A_en)
    BY <1>1, <1>2, <1>7, Shifts
  <2>2. CASE stage2.valid /\ stage2.A_en
    <3>1. PendingA = ResultA(stage2, Loaded2, AluOp(stage2.op.mode, ops.A, ops.B))
      BY <2>2 DEF PendingA
    <3>2. PendingA' = ResultA(stage3, Loaded3(packet), ALU_out)'
      BY <1>3, <1>7, <2>1, <2>2 DEF PendingA
    <3>3. A_en(stage2.op) /\ stage2.op \in Instruction
      BY <1>1, <2>2, Typed DEF Stages
    <3>4. CASE stage2.op.class = "LD"
      <4>1. stage2.op.mode \in {"IMM", "ABS", "IND", "MEM", "LEN"}
        BY <3>3, <3>4, Instructions
      <4>2. /\ stage2.op.mode \in {"ABS", "IND"} => do' = packet.data[packet_addr_r]
            /\ imm3' = imm2 /\ scratch_odata_r' = scratch[imm2 % ScratchSize]
        BY <1>1, <2>2, <3>4, <4>1, DataGoOn DEF packet_mem_rd_en, Loads
      <4>3. Loaded3(packet)' = Loaded2
        BY <1>2, <1>3, <1>7, <2>1, <4>1, <4>2 DEF Loaded3, Loaded2
      <4> QED
        BY <3>1, <3>2, <3>4, <2>1, <4>3 DEF ResultA
    <3>5. CASE stage2.op.class = "ALU"
      <4>1. ALU_out' = AluOp(stage2.op.mode, ops.A, ops.B)
        BY <1>1, <3>5, DataGoOn
      <4> QED
        BY <3>1, <3>2, <3>5, <2>1, <4>1 DEF ResultA
    <3>6. CASE stage2.op.class \notin {"LD", "ALU"}
      <4>1. we_read_X(stage2.op)
        BY <3>3, <3>6 DEF A_en, we_read_X
      <4>2. X' = X
        BY <1>1, <1>5, <2>2, <4>1 DEF Ordered, Behind2X
      <4> QED
        BY <3>1, <3>2, <3>6, <2>1, <4>2 DEF ResultA
    <3> QED
      BY <3>4, <3>5, <3>6
  <2>3. CASE ~(stage2.valid /\ stage2.A_en)
    <3>1. PendingA = IF stage3.A_en THEN ResultA(stage3, Loaded3(packet), ALU_out) ELSE A
      BY <1>7, <2>3 DEF PendingA
    <3>2. PendingA' = A'
      BY <1>3, <1>7, <2>1, <2>3 DEF PendingA
    <3> QED
      BY <1>4, <3>1, <3>2
  <2> QED
    BY <2>2, <2>3
<1> QED
  BY <1>1, <1>6, <1>7

\* The same for X.
LEMMA PendingXMovesOn ==
    ASSUME IInv, NEW rst \in BOOLEAN, Goes(rst), ~(issue /\ X_en(IR))
    PROVE  PendingX' = PendingX
<1>1. TypeOK /\ Stages /\ Ordered /\ Inside /\ Suits /\ pessimistic \in BOOLEAN
  BY Typed DEF IInv
<1>2. Clock(rst) /\ packet' = packet
  BY <1>1, GoesOn DEF Goes
<1>3. ~(stage2'.valid /\ stage2'.X_en) /\ pessimistic' = pessimistic
  BY <1>1, <1>2, Shifts
<1>4. X' = IF ~stage3.X_en THEN X ELSE ResultX(stage3, Loaded3(packet))
  BY <1>2 DEF Clock, CpuClock, WriteBack, ResultX
<1>5. ~stage3.A_en => A' = A
  BY <1>2 DEF Clock, CpuClock, WriteBack
<1>6. CASE pessimistic
  <2>1. /\ stage2_5'.op = stage2.op /\ stage2_5'.X_en = (stage2.valid /\ stage2.X_en)
        /\ stage3'.op = stage2_5.op /\ stage3'.X_en = (stage2_5.valid /\ stage2_5.X_en)
    BY <1>1, <1>2, <1>6, Shifts
  <2>2. CASE stage2.valid /\ stage2.X_en
    <3>1. PendingX = ResultX(stage2, Loaded2)
      BY <2>2 DEF PendingX
    <3>2. PendingX' = ResultX(stage2_5, Loaded2_5)'
      BY <1>3, <1>6, <2>1, <2>2 DEF PendingX
    <3>3. /\ X_en(stage2.op) /\ stage2.op \in Instruction
          /\ Loads(stage2.op) => stage2.op.mode \notin {"IMM", "MEM"}
      BY <1>1, <1>6, <2>2, Typed, PessimisticCode DEF Stages
    <3>4. CASE stage2.op.class = "LDX"
      <4>1. stage2.op.mode \in {"ABS", "IND", "LEN", "MSH"}
        BY <3>3, <3>4, Instructions DEF Loads
      <4>2. stage2.op.mode # "LEN" => do' = packet.data[packet_addr_r]
        BY <1>1, <2>2, <3>4, <4>1, DataGoOn DEF packet_mem_rd_en, Loads, Is
      <4>3. Loaded2_5' = Loaded2
        BY <1>2, <2>1, <4>1, <4>2 DEF Loaded2_5, Loaded2
      <4> QED
        BY <3>1, <3>2, <3>4, <2>1, <4>3 DEF ResultX
    <3>5. CASE stage2.op.class # "LDX"
      <4>1. we_read_A(stage2.op)
        BY <3>3, <3>5 DEF X_en, we_read_A
      <4>2. A' = A
        BY <1>1, <1>5, <2>2, <4>1 DEF Ordered, Behind2A
      <4> QED
        BY <3>1, <3>2, <3>5, <2>1, <4>2 DEF ResultX
    <3> QED
      BY <3>4, <3>5
  <2>3. CASE ~(stage2.valid /\ stage2.X_en) /\ stage2_5.X_en
    <3>1. PendingX = ResultX(stage2_5, Loaded2_5)
      BY <1>6, <2>3 DEF PendingX
    <3>2. stage2_5.valid /\ X_en(stage2_5.op) /\ stage2_5.op \in Instruction
      BY <1>1, <2>3, Typed DEF Stages, Decoded
    <3>3. PendingX' = ResultX(stage3, Loaded3(packet))'
      BY <1>3, <1>6, <2>1, <2>3, <3>2 DEF PendingX
    <3>4. Loads(stage2_5.op) => stage2_5.op.mode \notin {"IMM", "MEM"}
      BY <1>1, <1>6, PessimisticCode
    <3>5. CASE stage2_5.op.class = "LDX"
      <4>1. stage2_5.op.mode \in {"ABS", "IND", "LEN", "MSH"}
        BY <3>2, <3>4, <3>5, Instructions DEF Loads
      <4>2. data_r' = do
        BY <1>1, <1>6, DataGoOn
      <4>3. Loaded3(packet)' = Loaded2_5
        BY <1>2, <1>3, <1>6, <2>1, <4>1, <4>2 DEF Loaded2_5, Loaded3
      <4> QED
        BY <3>1, <3>3, <3>5, <2>1, <4>3 DEF ResultX
    <3>6. CASE stage2_5.op.class # "LDX"
      <4>1. we_read_A(stage2_5.op)
        BY <3>2, <3>6 DEF X_en, we_read_A
      <4>2. A' = A
        BY <1>1, <1>5, <1>6, <3>2, <4>1 DEF Ordered
      <4> QED
        BY <3>1, <3>3, <3>6, <2>1, <4>2 DEF ResultX
    <3> QED
      BY <3>5, <3>6
  <2>4. CASE ~(stage2.valid /\ stage2.X_en) /\ ~stage2_5.X_en
    <3>1. PendingX = IF stage3.X_en THEN ResultX(stage3, Loaded3(packet)) ELSE X
      BY <2>4 DEF PendingX
    <3>2. PendingX' = X'
      BY <1>3, <2>1, <2>4 DEF PendingX
    <3> QED
      BY <1>4, <3>1, <3>2
  <2> QED
    BY <2>2, <2>3, <2>4
<1>7. CASE ~pessimistic
  <2>1. stage3'.op = stage2.op /\ stage3'.X_en = (stage2.valid /\ stage2.X_en)
    BY <1>1, <1>2, <1>7, Shifts
  <2>2. CASE stage2.valid /\ stage2.X_en
    <3>1. PendingX = ResultX(stage2, Loaded2)
      BY <2>2 DEF PendingX
    <3>2. PendingX' = ResultX(stage3, Loaded3(packet))'
      BY <1>3, <1>7, <2>1, <2>2 DEF PendingX
    <3>3. X_en(stage2.op) /\ stage2.op \in Instruction
      BY <1>1, <2>2, Typed DEF Stages
    <3>4. CASE stage2.op.class = "LDX"
      <4>1. stage2.op.mode \in {"IMM", "ABS", "IND", "MEM", "LEN", "MSH"}
        BY <3>3, <3>4, Instructions
      <4>2. /\ stage2.op.mode \in {"ABS", "IND", "MSH"} => do' = packet.data[packet_addr_r]
            /\ imm3' = imm2 /\ scratch_odata_r' = scratch[imm2 % ScratchSize]
        BY <1>1, <2>2, <3>4, <4>1, DataGoOn DEF packet_mem_rd_en, Loads, Is
      <4>3. Loaded3(packet)' = Loaded2
        BY <1>2, <1>3, <1>7, <2>1, <4>1, <4>2 DEF Loaded3, Loaded2
      <4> QED
        BY <3>1, <3>2, <3>4, <2>1, <4>3 DEF ResultX
    <3>5. CASE stage2.op.class # "LDX"
      <4>1. we_read_A(stage2.op)
        BY <3>3, <3>5 DEF X_en, we_read_A
      <4>2. A' = A
        BY <1>1, <1>5, <2>2, <4>1 DEF Ordered, Behind2A
      <4> QED
        BY <3>1, <3>2, <3>5, <2>1, <4>2 DEF ResultX
    <3> QED
      BY <3>4, <3>5
  <2>3. CASE ~(stage2.valid /\ stage2.X_en)
    <3>1. PendingX = IF stage3.X_en THEN ResultX(stage3, Loaded3(packet)) ELSE X
      BY <1>7, <2>3 DEF PendingX
    <3>2. PendingX' = X'
      BY <1>3, <1>7, <2>1, <2>3 DEF PendingX
    <3> QED
      BY <1>4, <3>1, <3>2
  <2> QED
    BY <2>2, <2>3
<1> QED
  BY <1>1, <1>6, <1>7

\* A load that issues will load what it would in sequence.
LEMMA LoadIssues ==
    ASSUME IInv, NEW rst \in BOOLEAN, Goes(rst), issue, Loads(IR)
    PROVE  Matches(Loaded(isa, IR, packet), Loaded2')
<1>1. TypeOK /\ IR \in Instruction /\ \A r \in Register : Matches(isa.M[r], PendingM(r))
  BY Typed DEF IInv, Data
<1>2. /\ stage2'.op = IR /\ packet' = packet /\ imm2' = IR.k
      /\ packet_addr_r' = IF IR.mode = "IND" THEN Wrap(X + IR.k) ELSE IR.k
      /\ \A r \in Register : scratch'[r] = PendingM(r)
  BY <1>1, GoesOn, DataGoOn, Shifts DEF Goes
<1>3. IR.mode \in {"IMM", "ABS", "IND", "MEM", "LEN", "MSH"} /\ IR.k \in Word
  BY <1>1, Instructions DEF Loads
<1>4. Matches(isa.M[IR.k % ScratchSize], scratch'[imm2' % ScratchSize])
  BY <1>1, <1>2, <1>3, RegisterType
<1>5. IR.mode = "IND" => Matches(isa.X, X)
  BY OperandsAreCurrent DEF UsesX, we_read_X
<1>6. CASE IR.mode = "MEM"
  BY <1>2, <1>4, <1>6 DEF Loaded, Loaded2
<1>7. CASE IR.mode = "IND"
  BY <1>2, <1>5, <1>7 DEF Loaded, Loaded2, Matches
<1>8. CASE IR.mode \in {"IMM", "ABS", "LEN", "MSH"}
  BY <1>2, <1>8 DEF Loaded, Loaded2, Matches
<1> QED
  BY <1>3, <1>6, <1>7, <1>8

\* A clock edge keeps the agreement of the registers.
LEMMA DataIsKept ==
    ASSUME IInv, NEW rst \in BOOLEAN, Clock(rst)
    PROVE  Data'
<1>1. TypeOK /\ Data /\ IR \in Instruction /\ isa \in Machine
  BY Typed DEF IInv
<1>2. CASE rst \/ ~mem_ready \/ verdict
  <2>1. isa' = Fresh
    BY <1>2, Restarts
  <2> QED
    BY <2>1 DEF Data, Matches, Fresh
<1>3. CASE ~(rst \/ ~mem_ready \/ verdict)
  <2>1. Goes(rst)
    BY <1>3 DEF Goes
  <2>2. /\ isa' = IF issue THEN Execute(isa, IR, packet) ELSE isa
        /\ stage2'.op = IR /\ stage2'.valid = issue /\ packet' = packet
        /\ stage2'.A_en = A_en(IR) /\ stage2'.X_en = X_en(IR)
    BY <1>1, <2>1, GoesOn, Shifts DEF Goes
  <2>3. /\ ~stage3.A_en => A' = A
        /\ ~stage3.X_en => X' = X
    BY DEF Clock, CpuClock, WriteBack
  <2>4. Matches(isa'.A, PendingA')
    <3>1. CASE ~(issue /\ A_en(IR))
      <4>1. isa'.A = isa.A
        BY <3>1, <2>2, <1>1, Executes
      <4> QED
        BY <4>1, <3>1, <2>1, <1>1, PendingAMovesOn DEF Data
    <3>2. CASE issue /\ A_en(IR)
      <4>1. PendingA' = ResultA(stage2, Loaded2, AluOp(stage2.op.mode, ops.A, ops.B))'
        BY <3>2, <2>2 DEF PendingA
      <4>2. isa' = Execute(isa, IR, packet)
        BY <3>2, <2>2
      <4>3. CASE IR.class = "LD"
        <5>1. isa'.A = Loaded(isa, IR, packet)
          BY <4>2, <4>3 DEF Execute, Is
        <5>2. PendingA' = Loaded2'
          BY <4>1, <4>3, <2>2 DEF ResultA
        <5> QED
          BY <5>1, <5>2, <3>2, <4>3, <2>1, LoadIssues DEF Loads
      <4>4. CASE IR.class = "ALU"
        <5>1. isa'.A = IF OperandsKnown(isa, IR) THEN AluOp(IR.mode, isa.A, Operand(isa, IR)) ELSE Unknown
          BY <4>2, <4>4 DEF Execute, Is
        <5>2. PendingA' = AluOp(IR.mode, ops'.A, ops'.B)
          BY <4>1, <4>4, <2>2 DEF ResultA
        <5>3. ops'.A = A /\ ops'.B = IF IR.src = "X" THEN X ELSE IR.k
          BY <1>1, <2>1, DataGoOn
        <5>4. Matches(isa.A, A) /\ (IR.src = "X" => Matches(isa.X, X))
          BY <3>2, <4>4, OperandsAreCurrent DEF we_read_A, UsesX
        <5>5. OperandsKnown(isa, IR) => isa.A = ops'.A /\ Operand(isa, IR) = ops'.B
          BY <5>3, <5>4 DEF OperandsKnown, Operand, Matches
        <5> QED
          BY <5>1, <5>2, <5>5 DEF Matches
      <4>5. CASE IR.class \notin {"LD", "ALU"}
        <5>1. Is(IR, "MISC", "TXA") /\ we_read_X(IR)
          BY <3>2, <4>5 DEF A_en, we_read_X
        <5>2. isa'.A = isa.X
          BY <4>2, <4>5, <5>1 DEF Execute
        <5>3. PendingA' = X'
          BY <4>1, <4>5, <2>2 DEF ResultA
        <5> QED
          BY <5>1, <5>2, <5>3, <3>2, <2>3, OperandsAreCurrent DEF UsesX
      <4> QED
        BY <4>3, <4>4, <4>5
    <3> QED
      BY <3>1, <3>2
  <2>5. Matches(isa'.X, PendingX')
    <3>1. CASE ~(issue /\ X_en(IR))
      <4>1. isa'.X = isa.X
        BY <3>1, <2>2, <1>1, Executes
      <4> QED
        BY <4>1, <3>1, <2>1, <1>1, PendingXMovesOn DEF Data
    <3>2. CASE issue /\ X_en(IR)
      <4>1. PendingX' = ResultX(stage2, Loaded2)'
        BY <3>2, <2>2 DEF PendingX
      <4>2. isa' = Execute(isa, IR, packet)
        BY <3>2, <2>2
      <4>3. CASE IR.class = "LDX"
        <5>1. isa'.X = Loaded(isa, IR, packet)
          BY <4>2, <4>3 DEF Execute, Is
        <5>2. PendingX' = Loaded2'
          BY <4>1, <4>3, <2>2 DEF ResultX
        <5> QED
          BY <5>1, <5>2, <3>2, <4>3, <2>1, LoadIssues DEF Loads
      <4>4. CASE IR.class # "LDX"
        <5>1. Is(IR, "MISC", "TAX") /\ we_read_A(IR)
          BY <3>2, <4>4 DEF X_en, we_read_A
        <5>2. isa'.X = isa.A
          BY <4>2, <4>4, <5>1 DEF Execute
        <5>3. PendingX' = A'
          BY <4>1, <4>4, <2>2 DEF ResultX
        <5> QED
          BY <5>1, <5>2, <5>3, <3>2, <2>3, OperandsAreCurrent
      <4> QED
        BY <4>3, <4>4
    <3> QED
      BY <3>1, <3>2
  <2>6. ASSUME NEW r \in Register PROVE Matches(isa'.M[r], PendingM(r)')
    <3>1. scratch'[r] = PendingM(r) /\ imm2' = IR.k /\ Matches(isa.M[r], PendingM(r))
      BY <1>1, <2>1, DataGoOn DEF Data
    <3>2. CASE ~(issue /\ regfile_wr_en(IR))
      <4>1. isa'.M[r] = isa.M[r]
        BY <3>2, <2>2, <1>1, Executes
      <4>2. PendingM(r)' = scratch'[r]
        BY <3>2, <2>2 DEF PendingM, WritesScratch
      <4> QED
        BY <4>1, <4>2, <3>1
    <3>3. CASE issue /\ regfile_wr_en(IR)
      <4>1. isa'.M = [isa.M EXCEPT ![IR.k % ScratchSize] = IF IR.class = "ST" THEN isa.A ELSE isa.X]
        BY <3>3, <2>2 DEF Execute
      <4>2. isa.M \in [Register -> UnknownWord]
        BY <1>1, Typed
      <4>3. CASE r # IR.k % ScratchSize
        BY <4>1, <4>2, <4>3, <3>1 DEF PendingM
      <4>4. CASE r = IR.k % ScratchSize
        <5>1. isa'.M[r] = IF IR.class = "ST" THEN isa.A ELSE isa.X
          BY <4>1, <4>2, <4>4
        <5>2. PendingM(r)' = IF IR.class = "STX" THEN X' ELSE A'
          BY <4>4, <3>1, <3>3, <2>2 DEF PendingM, WritesScratch
        <5>3. CASE IR.class = "ST"
          BY <5>1, <5>2, <5>3, <3>3, <2>3, OperandsAreCurrent DEF we_read_A
        <5>4. CASE IR.class = "STX"
          BY <5>1, <5>2, <5>4, <3>3, <2>3, OperandsAreCurrent DEF we_read_X, UsesX
        <5> QED
          BY <5>3, <5>4, <3>3 DEF regfile_wr_en
      <4> QED
        BY <4>3, <4>4
    <3> QED
      BY <3>2, <3>3
  <2> QED
    BY <2>4, <2>5, <2>6 DEF Data
<1> QED
  BY <1>2, <1>3

-----------------------------------------------------------------------------
\* After a long reset the invariant holds, and every clock edge keeps it.
LEMMA InitEstablishes ==
    ASSUME Init, Suitable
    PROVE  IInv
<1>0. PICK p \in BOOLEAN : \E program \in Programs[p] : CpuInit(program, p)
  BY DEF Init
<1>1. PICK program \in Programs[p] : CpuInit(program, p)
  BY <1>0
<1>2. program \in [Address -> Instruction] /\ 0 \in Address
  BY JobsAssumption, PcType, IsaAssumption
<1>3. program[0] \in Instruction
  BY <1>2
<1>4. /\ pessimistic = p /\ code = program /\ PC = 0 /\ IR = program[0] /\ valid = FALSE
      /\ stage2 = [op |-> program[0], A_en |-> A_en(IR), X_en |-> X_en(IR), valid |-> FALSE]
      /\ stage2_5 = [op |-> program[0], A_en |-> FALSE, X_en |-> FALSE, valid |-> FALSE]
      /\ stage3 = stage2_5
      /\ imm2 = 0 /\ imm3 = 0 /\ ops = [A |-> 0, B |-> 0] /\ ALU_out = 0
      /\ packet_addr_r = 0 /\ do = 0 /\ data_r = 0
      /\ A = 0 /\ X = 0 /\ scratch = [r \in Register |-> 0] /\ scratch_odata_r = 0
      /\ isa = Fresh
  BY <1>1 DEF CpuInit, LoadedIR
<1>5. mem_ready \in BOOLEAN /\ packet \in Packet /\ age \in 0..MinJob
  BY JobsAssumption DEF Init, MinJob
<1>6. A_en(IR) \in BOOLEAN /\ X_en(IR) \in BOOLEAN
  BY <1>3, <1>4, Decoder
<1>7. TypeOK
  <2>1. stage2 \in Stage /\ stage2_5 \in Stage /\ stage3 \in Stage
    BY <1>3, <1>4, <1>6 DEF Stage
  <2>2. 0 \in Word /\ isa \in Machine
    BY <1>4, Words, FreshType
  <2> QED
    BY <1>1, <1>2, <1>3, <1>4, <1>5, <2>1, <2>2 DEF TypeOK, CpuTypeOK, UnknownWord
<1>8. Inside /\ Suits
  BY <1>1, <1>2, <1>4 DEF Inside, Suits, Suitable
<1>9. Stages
  BY <1>4, Words DEF Stages, Decoded
<1>10. Control /\ XPlaces /\ Ordered
  BY <1>4 DEF Control, XPlaces, Ordered, Matches, Fresh, jump
<1>11. Data
  BY <1>4 DEF Data, Matches, Fresh
<1> QED
  BY <1>7, <1>8, <1>9, <1>10, <1>11 DEF IInv

LEMMA NextKeeps ==
    ASSUME IInv, [Next]_vars
    PROVE  IInv'
<1>1. CASE Next
  <2>1. PICK rst \in BOOLEAN : Clock(rst)
    BY <1>1 DEF Next, Running, Stopped
  <2> QED
    BY <2>1, TypesAreKept, InsideIsKept, StagesAreKept, ControlIsKept, XPlacesAreKept, OrderIsKept, DataIsKept
       DEF IInv
<1>2. CASE UNCHANGED vars
  BY <1>2 DEF vars, cpuVars, IInv, TypeOK, CpuTypeOK, Inside, Suits, Stages, Control, XPlaces, XWriteBehind,
     Place, Ordered, Behind2A, Behind2X, Data, PendingA, PendingX, PendingM, Loaded2, Loaded2_5, Loaded3,
     ResultA, ResultX, WritesScratch, jump
<1> QED
  BY <1>1, <1>2

\* The pipeline agrees with the machine that executes one instruction after another
\* (pipelined_bpfvm_ctrl.v with pipelined_datapath.v), in both builds.
THEOREM CpuInvariant == Suitable => (Spec => []IInv)
<1> SUFFICES ASSUME Suitable PROVE Spec => []IInv
  OBVIOUS
<1>1. Init => IInv
  BY InitEstablishes
<1>2. IInv /\ [Next]_vars => IInv'
  BY NextKeeps
<1> QED
  BY <1>1, <1>2, PTL DEF Spec

\* The registers of the CPU keep their types: an ALU result is written only where it
\* is one.
THEOREM CpuTypes == Suitable => (Spec => []TypeOK)
<1>1. IInv => TypeOK
  BY DEF IInv
<1> QED
  BY <1>1, CpuInvariant, PTL

\* No instruction is skipped, repeated or executed on the wrong side of a jump, and a
\* new packet starts the program from its first instruction (fetch_stage0.v).
THEOREM ProgramOrder == Suitable => (Spec => []ExecutesInOrder)
<1>1. IInv => ExecutesInOrder
  BY DEF IInv, Control, ExecutesInOrder, issue, Matches
<1> QED
  BY <1>1, CpuInvariant, PTL

\* No instruction leaves stage 1 before the registers it works on hold what the
\* instructions before it write to them (decode_compute1_stage1.v).
THEOREM CurrentOperands == Suitable => (Spec => []OperandsCurrent)
<1>1. IInv => OperandsCurrent
  BY OperandsAreCurrent DEF OperandsCurrent, Matches
<1> QED
  BY <1>1, CpuInvariant, PTL

\* A register that no instruction on its way writes has the value of sequential
\* execution, forwarding through imm2, imm3 and the memories' output registers included
\* (compute2_stage2.v, writeback_stage3.v).
THEOREM SequentialResult == Suitable => (Spec => []CommittedState)
<1>1. IInv => CommittedState
  BY DEF IInv, Data, CommittedState, PendingA, PendingX, PendingM, WritesA, WritesX, Matches
<1> QED
  BY <1>1, CpuInvariant, PTL

-----------------------------------------------------------------------------
\* No program judges a packet with its first instruction.
NoneBeginsWithReturn == \A p \in BOOLEAN : \A program \in Programs[p] : ~RetImm(program[0])

\* The age of the job against what the front of the pipeline holds.
AgesAgree ==
    /\ age \in 0..MinJob /\ ~RetImm(code[0])
    /\ valid => mem_ready
    /\ mem_ready /\ age = 0 => PC = 0 /\ ~valid /\ ~jump
    /\ valid /\ age < MinJob => age = 1 /\ IR = code[0]

\* A clock edge keeps the ages right.
LEMMA AgesAgreeStep ==
    ASSUME AgesAgree, [Next]_vars
    PROVE  AgesAgree'
<1>1. CASE Next
  <2>1. PICK rst \in BOOLEAN : Clock(rst)
    BY <1>1 DEF Next, Running, Stopped
  <2>2. CASE rst \/ verdict \/ ~mem_ready
    <3>1. ~valid' /\ PC' = 0 /\ code' = code /\ age' = 0
      BY <2>1, <2>2 DEF Clock, CpuClock, Fetch, NextPC, PacketFor
    <3>2. mem_ready' => ~rst
      BY <2>1 DEF Clock, PacketFor
    <3>3. stage2'.op = IR /\ stage2'.valid = issue
      BY <2>1 DEF Clock, CpuClock, Advance
    <3>4. ~mem_ready => ~issue
      BY DEF AgesAgree, issue
    <3>5. verdict => IR.class # "JMP"
      BY DEF verdict, accept, reject, Accepts, Rejects, RetImm, Is
    <3>6. mem_ready' => ~jump'
      BY <2>2, <3>2, <3>3, <3>4, <3>5 DEF jump
    <3> QED
      BY <3>1, <3>6 DEF AgesAgree, MinJob
  <2>3. CASE ~(rst \/ verdict \/ ~mem_ready)
    <3>1. /\ mem_ready' /\ code' = code
          /\ IR' = IF good2go THEN code[PC] ELSE IR
          /\ valid' = (good2go \/ (valid /\ stage1_stalled))
      BY <2>1, <2>3 DEF Clock, CpuClock, Fetch, PacketFor
    <3>2. age' = IF age < 2 THEN age + 1 ELSE age
      BY <2>1, <2>3 DEF Clock, PacketFor, MinJob
    <3>3. age \in 0..2
      BY DEF AgesAgree, MinJob
    <3>4. age' \in 0..2 /\ age' # 0 /\ (age' < 2 => age' = 1 /\ age = 0)
      BY <3>2, <3>3
    <3>5. ASSUME valid', age' < 2 PROVE IR' = code'[0]
      <4>1. PC = 0 /\ ~valid
        BY <2>3, <3>4, <3>5 DEF AgesAgree
      <4> QED
        BY <3>1, <3>5, <4>1
    <3> QED
      BY <3>1, <3>4, <3>5 DEF AgesAgree, MinJob
  <2> QED
    BY <2>2, <2>3
<1>2. CASE UNCHANGED vars
  BY <1>2 DEF vars, cpuVars, AgesAgree, jump
<1> QED
  BY <1>1, <1>2

\* When no program returns at once, every verdict comes at least two cycles after the
\* packet became visible, as the dispatcher needs (cpuqueue.v): fetching the second
\* instruction takes that long.
THEOREM JobsAreKeptLongEnough == NoneBeginsWithReturn => (Spec => []KeepsJobLongEnough)
<1> SUFFICES ASSUME NoneBeginsWithReturn PROVE Spec => []KeepsJobLongEnough
  OBVIOUS
<1>1. Init => AgesAgree
  <2> SUFFICES ASSUME Init PROVE AgesAgree
    OBVIOUS
  <2>1. PICK p \in BOOLEAN : \E program \in Programs[p] : CpuInit(program, p)
    BY DEF Init
  <2>2. PICK program \in Programs[p] : CpuInit(program, p)
    BY <2>1
  <2>3. PC = 0 /\ valid = FALSE /\ code = program /\ ~stage2.valid
    BY <2>2 DEF CpuInit, LoadedIR
  <2>4. age = 0
    BY DEF Init
  <2> QED
    BY <2>3, <2>4 DEF AgesAgree, NoneBeginsWithReturn, MinJob, jump
<1>2. AgesAgree /\ [Next]_vars => AgesAgree'
  BY AgesAgreeStep
<1>3. AgesAgree => KeepsJobLongEnough
  BY DEF AgesAgree, KeepsJobLongEnough, verdict, accept, reject, Accepts, Rejects, MinJob
<1> QED
  BY <1>1, <1>2, <1>3, PTL DEF Spec

-----------------------------------------------------------------------------
(****************************************************************************)
(* The arbitration (parallel_packetfilts.v).                                *)
(*                                                                          *)
(* The chain of arbiters enables the first ready line, if any.  While a     *)
(* choice is kept (do_select is low) the saved lines enable one VM, and it  *)
(* still has the buffer it was chosen for: nothing but the agent's own done *)
(* pulse, or a reset, takes a buffer from it.                               *)
(****************************************************************************)

\* Exactly the line i is saved, and VM i has a buffer for the agent.
KeptFor(s, i) == /\ \A j \in Line : saved[s][j] <=> j = i
                 /\ Readies(s, i)

\* A choice that is kept is that of one VM; after a reset there may be no VM ready.
Kept(s) == ~do_select[s] => ~Ready(s) \/ \E i \in VM : KeptFor(s, i)

\* A packet that has begun has its VM kept for it.
Targeted(s) == target[s] # None => ~do_select[s] /\ KeptFor(s, target[s])

\* No buffer is lost or made.
Conserved == \A i \in VM : vm[i].snoop + vm[i].cpu + vm[i].forward = Buffers

FiltsInv == FiltsTypeOK /\ Conserved /\ \A s \in Side : Kept(s) /\ Targeted(s)

-----------------------------------------------------------------------------

\* The padding is a whole number of arbiters, and every VM has a line.
LEMMA Padding ==
    /\ PaddedSize \in Nat /\ PaddedSize \div 4 \in Nat
    /\ 4 * (PaddedSize \div 4) = PaddedSize
    /\ N <= PaddedSize
    /\ VM \subseteq Line /\ None \notin VM
BY ParallelAssumption DEF PaddedSize, Line, VM, None

\* An agent's ready line is high when some VM is ready for it.
LEMMA ReadyIsSomeVM ==
    ASSUME NEW s \in Side
    PROVE  Ready(s) <=> \E i \in VM : Readies(s, i)
BY Padding DEF Ready, Carry, Line, Readies

\* The arbiters enable the first ready line.
LEMMA EnablesTheFirst ==
    ASSUME NEW s \in Side, NEW i \in Line
    PROVE  ArbiterEnables(s, i) <=> Readies(s, i) /\ \A j \in 0..i-1 : ~Readies(s, j)
<1>1. /\ i \div 4 \in Nat /\ 4 * (i \div 4) <= i
      /\ 0..i-1 = (0..4 * (i \div 4) - 1) \cup (4 * (i \div 4)..i-1)
  BY Padding DEF Line
<1> QED
  BY <1>1 DEF ArbiterEnables, Carry

\* When some VM is ready, the arbiters enable exactly one line, that of a ready VM.
LEMMA ArbitersEnableOne ==
    ASSUME NEW s \in Side, Ready(s)
    PROVE  \E i \in VM : Readies(s, i) /\ \A j \in Line : ArbiterEnables(s, j) <=> j = i
<1> DEFINE T == {i \in VM : Readies(s, i)}
<1>1. T \subseteq Nat /\ T # {}
  BY ReadyIsSomeVM, ParallelAssumption DEF VM
<1>2. PICK i \in T : \A j \in T : ~(<<j, i>> \in OpToRel(<, Nat))
  BY <1>1, NatLessThanWellFounded, WFMin
<1>3. i \in VM /\ i \in Nat /\ Readies(s, i)
  BY <1>1, <1>2
<1>4. \A j \in T : ~(j < i)
  BY <1>1, <1>2 DEF OpToRel
<1>5. \A j \in Line : j < i => ~Readies(s, j)
  BY <1>3, <1>4 DEF Readies
<1>6. \A j \in Line : ArbiterEnables(s, j) <=> j = i
  <2> TAKE j \in Line
  <2>1. j \in Nat /\ i \in Line /\ \A k \in 0..j-1 : k \in Line
    BY <1>3, Padding DEF Line
  <2>2. CASE j = i
    BY <2>1, <2>2, <1>3, <1>5, EnablesTheFirst
  <2>3. CASE j < i
    BY <2>1, <2>3, <1>5, EnablesTheFirst
  <2>4. CASE j > i
    <3>1. i \in 0..j-1
      BY <2>1, <2>4, <1>3
    <3> QED
      BY <3>1, <2>4, <1>3, EnablesTheFirst
  <2> QED
    BY <2>1, <2>2, <2>3, <2>4, <1>3
<1> QED
  BY <1>3, <1>6

\* With a ready line high, exactly one line is enabled, that of a ready VM.
LEMMA EnabledIsOneReadyVM ==
    ASSUME NEW s \in Side, FiltsTypeOK, Kept(s), Ready(s)
    PROVE  \E i \in VM : Readies(s, i) /\ \A j \in Line : VMEnables(s, j) <=> j = i
<1>1. CASE do_select[s]
  BY <1>1, ArbitersEnableOne DEF VMEnables
<1>2. CASE ~do_select[s]
  BY <1>2 DEF VMEnables, Kept, KeptFor
<1> QED
  BY <1>1, <1>2

\* The invariant gives the two properties.
LEMMA InvariantSuffices == FiltsInv => OneReadyVM /\ PacketKeepsItsVM
<1> SUFFICES ASSUME FiltsInv PROVE OneReadyVM /\ PacketKeepsItsVM
  OBVIOUS
<1>1. OneReadyVM
  BY EnabledIsOneReadyVM DEF FiltsInv, OneReadyVM
<1>2. PacketKeepsItsVM
  BY DEF FiltsInv, PacketKeepsItsVM, Targeted, KeptFor, VMEnables
<1> QED
  BY <1>1, <1>2

-----------------------------------------------------------------------------

\* After configuration the invariant holds.
LEMMA FiltsInvInit == FiltsInit => FiltsInv
<1> SUFFICES ASSUME FiltsInit PROVE FiltsInv
  OBVIOUS
<1>1. FiltsTypeOK
  BY ParallelAssumption DEF FiltsInit, FiltsTypeOK, AllFree
<1>2. Conserved
  BY ParallelAssumption DEF FiltsInit, Conserved, AllFree
<1>3. \A s \in Side : Kept(s) /\ Targeted(s)
  BY DEF FiltsInit, Kept, Targeted
<1> QED
  BY <1>1, <1>2, <1>3 DEF FiltsInv

\* A side's VM: what its agent and its CPU may do to the buffers in one cycle keeps
\* their number, and only a done pulse takes one from the agent.
LEMMA BuffersStep ==
    ASSUME FiltsInv, NEW i \in VM,
           NEW acc \in SUBSET Judging, NEW rej \in SUBSET (Judging \ acc),
           NEW done \in [Side -> BOOLEAN], \A s \in Side : done[s] => Ready(s)
    PROVE  LET v == BuffersNext(i, done, acc, rej)
           IN /\ v \in [snoop : 0..Buffers, cpu : 0..Buffers, forward : 0..Buffers]
              /\ v.snoop + v.cpu + v.forward = Buffers
              /\ \A s \in Side : ~done[s] => v[s] >= vm[i][s]
<1> DEFINE Snp == Finished("snoop", done, i)
           Fwd == Finished("forward", done, i)
           Rej == i \in rej
           Acc == i \in acc
           v == BuffersNext(i, done, acc, rej)
<1>1. /\ vm[i] \in [snoop : 0..Buffers, cpu : 0..Buffers, forward : 0..Buffers]
      /\ vm[i].snoop + vm[i].cpu + vm[i].forward = Buffers
      /\ Buffers \in Nat
  BY ParallelAssumption DEF FiltsInv, FiltsTypeOK, Conserved
<1>2. \A s \in Side : Finished(s, done, i) => vm[i][s] > 0
  <2> SUFFICES ASSUME NEW s \in Side, Finished(s, done, i) PROVE vm[i][s] > 0
    OBVIOUS
  <2>1. PICK k \in VM : Readies(s, k) /\ \A j \in Line : VMEnables(s, j) <=> j = k
    BY EnabledIsOneReadyVM DEF FiltsInv, Finished
  <2>2. i = k
    BY <2>1, Padding DEF Finished
  <2> QED
    BY <2>1, <2>2 DEF Readies
<1>3. (Snp => vm[i].snoop > 0) /\ (Fwd => vm[i].forward > 0)
  BY <1>2 DEF Side
<1>4. (Acc \/ Rej => vm[i].cpu > 0) /\ ~(Acc /\ Rej)
  BY DEF Judging
<1>5. /\ One(Snp) \in {0, 1} /\ One(Fwd) \in {0, 1} /\ One(Acc) \in {0, 1} /\ One(Rej) \in {0, 1}
      /\ One(i \in acc \cup rej) = One(Acc) + One(Rej)
      /\ One(Snp) = 1 => vm[i].snoop > 0
      /\ One(Fwd) = 1 => vm[i].forward > 0
      /\ One(Acc) + One(Rej) = 1 => vm[i].cpu > 0
      /\ One(Acc) + One(Rej) <= 1
  BY <1>3, <1>4 DEF One
<1>6. v = [snoop   |-> vm[i].snoop - One(Snp) + One(Rej) + One(Fwd),
           cpu     |-> vm[i].cpu - (One(Acc) + One(Rej)) + One(Snp),
           forward |-> vm[i].forward - One(Fwd) + One(Acc)]
  BY <1>5 DEF BuffersNext
<1>7. (~done["snoop"] => One(Snp) = 0) /\ (~done["forward"] => One(Fwd) = 0)
  BY DEF One, Finished
<1> HIDE DEF Snp, Fwd, Rej, Acc, v
<1>8. /\ v.snoop = vm[i].snoop - One(Snp) + One(Rej) + One(Fwd)
      /\ v.cpu = vm[i].cpu - (One(Acc) + One(Rej)) + One(Snp)
      /\ v.forward = vm[i].forward - One(Fwd) + One(Acc)
  BY <1>6
<1>9. v.snoop \in 0..Buffers /\ v.cpu \in 0..Buffers /\ v.forward \in 0..Buffers
  BY <1>1, <1>5, <1>8
<1>10. v \in [snoop : 0..Buffers, cpu : 0..Buffers, forward : 0..Buffers]
  BY <1>6, <1>8, <1>9
<1>11. v.snoop + v.cpu + v.forward = Buffers
  BY <1>1, <1>5, <1>8
<1>12. (~done["snoop"] => v.snoop >= vm[i].snoop) /\ (~done["forward"] => v.forward >= vm[i].forward)
  BY <1>1, <1>5, <1>7, <1>8
<1>13. \A s \in Side : ~done[s] => v[s] >= vm[i][s]
  BY <1>12 DEF Side
<1> QED
  BY <1>10, <1>11, <1>13 DEF v

\* A clock edge keeps the invariant.
LEMMA FiltsClockStep ==
    ASSUME FiltsInv, NEW rst \in BOOLEAN,
           NEW acc \in SUBSET Judging, NEW rej \in SUBSET (Judging \ acc),
           NEW active \in [Side -> BOOLEAN], NEW done \in [Side -> BOOLEAN],
           \A s \in Side : (active[s] => Ready(s)) /\ (done[s] => active[s]),
           FiltsClock(rst, active, done, acc, rej)
    PROVE  FiltsInv'
<1>1. \A s \in Side : done[s] => Ready(s)
  OBVIOUS
<1>2. vm' \in [VM -> [snoop : 0..Buffers, cpu : 0..Buffers, forward : 0..Buffers]] /\ Conserved'
  <2>1. CASE rst
    BY <2>1, ParallelAssumption DEF FiltsClock, AllFree, Conserved
  <2>2. CASE ~rst
    <3>1. vm' = [i \in VM |-> BuffersNext(i, done, acc, rej)]
      BY <2>2 DEF FiltsClock
    <3> QED
      BY <3>1, <1>1, BuffersStep DEF Conserved
  <2> QED
    BY <2>1, <2>2
\* What was ready stays ready, unless its agent is done or the forwarder's jobs go.
<1>3. ASSUME NEW s \in Side, NEW i \in VM, Readies(s, i), ~done[s]
      PROVE  Readies(s, i)' \/ (rst /\ s = "forward" /\ ~Ready(s)')
  <2>1. CASE rst /\ s = "snoop"
    BY <2>1, <1>3, ParallelAssumption DEF FiltsClock, AllFree, Readies
  <2>2. CASE rst /\ s = "forward"
    <3>1. \A k \in VM : ~Readies(s, k)'
      BY <2>2 DEF FiltsClock, AllFree, Readies
    <3>2. ~Ready(s)'
      BY <3>1, Padding DEF Ready, Carry, Readies, Line
    <3> QED
      BY <2>2, <3>2
  <2>3. CASE ~rst
    <3>1. vm'[i] = BuffersNext(i, done, acc, rej)
      BY <2>3 DEF FiltsClock
    <3>2. vm'[i][s] >= vm[i][s] /\ vm[i][s] > 0 /\ vm[i][s] \in Nat /\ vm'[i][s] \in Nat
      BY <3>1, <1>1, <1>2, <1>3, BuffersStep DEF Readies, FiltsInv, FiltsTypeOK, Side
    <3> QED
      BY <3>2 DEF Readies
  <2> QED
    BY <2>1, <2>2, <2>3 DEF Side
<1>4. ASSUME NEW s \in Side
      PROVE  /\ do_select'[s] <=> done[s] \/ ~Ready(s)
             /\ \A i \in Line : saved'[s][i] <=> VMEnables(s, i)
  BY DEF FiltsClock
<1>5. ASSUME NEW s \in Side, Ready(s)
      PROVE  \E i \in VM : Readies(s, i) /\ \A j \in Line : VMEnables(s, j) <=> j = i
  BY <1>5, EnabledIsOneReadyVM DEF FiltsInv
<1>6. ASSUME NEW s \in Side
      PROVE  Kept(s)'
  <2> SUFFICES ASSUME ~do_select'[s] PROVE ~Ready(s)' \/ \E i \in VM : KeptFor(s, i)'
    BY DEF Kept
  <2>1. ~done[s] /\ Ready(s)
    BY <1>4
  <2>2. PICK i \in VM : Readies(s, i) /\ \A j \in Line : VMEnables(s, j) <=> j = i
    BY <2>1, <1>5
  <2>3. Readies(s, i)' \/ ~Ready(s)'
    BY <2>1, <2>2, <1>3
  <2> QED
    BY <2>2, <2>3, <1>4 DEF KeptFor
<1>7. ASSUME NEW s \in Side
      PROVE  Targeted(s)' /\ target'[s] \in VM \cup {None}
  <2>1. target[s] \in VM \cup {None} /\ Targeted(s)
    BY DEF FiltsInv, FiltsTypeOK
  <2>2. CASE done[s] \/ (rst /\ s = "forward")
    BY <2>2 DEF FiltsClock, Targeted
  <2>3. CASE ~(done[s] \/ (rst /\ s = "forward")) /\ active[s] /\ target[s] = None
    <3>1. PICK i \in VM : Readies(s, i) /\ \A j \in Line : VMEnables(s, j) <=> j = i
      BY <2>3, <1>5
    <3>2. target'[s] = CHOOSE j \in VM : VMEnables(s, j)
      BY <2>3 DEF FiltsClock
    <3>3. target'[s] = i
      BY <3>1, <3>2, Padding
    <3>4. Readies(s, i)'
      BY <2>3, <3>1, <1>3
    <3> QED
      BY <2>3, <3>1, <3>3, <3>4, <1>4 DEF Targeted, KeptFor
  <2>4. CASE ~(done[s] \/ (rst /\ s = "forward")) /\ ~(active[s] /\ target[s] = None)
    <3>1. target'[s] = target[s]
      BY <2>4 DEF FiltsClock
    <3>2. CASE target[s] = None
      BY <3>1, <3>2 DEF Targeted
    <3>3. CASE target[s] # None
      <4>1. PICK i \in VM : i = target[s] /\ ~do_select[s] /\ KeptFor(s, i)
        BY <2>1, <3>3 DEF Targeted
      <4>2. Ready(s)
        BY <4>1, ReadyIsSomeVM DEF KeptFor
      <4>3. Readies(s, i)'
        BY <2>4, <4>1, <1>3 DEF KeptFor
      <4> QED
        BY <2>4, <3>1, <4>1, <4>2, <4>3, <1>4 DEF Targeted, KeptFor, VMEnables
    <3> QED
      BY <3>2, <3>3
  <2> QED
    BY <2>2, <2>3, <2>4
<1>8. FiltsTypeOK'
  <2>1. do_select' \in [Side -> BOOLEAN]
    BY DEF FiltsClock
  <2>2. saved' \in [Side -> [Line -> BOOLEAN]]
    BY DEF FiltsClock, VMEnables, ArbiterEnables, Readies, FiltsInv, FiltsTypeOK
  <2>3. target' \in [Side -> VM \cup {None}]
    BY <1>7 DEF FiltsClock
  <2> QED
    BY <1>2, <2>1, <2>2, <2>3 DEF FiltsTypeOK
<1> QED
  BY <1>2, <1>6, <1>7, <1>8 DEF FiltsInv

\* Every step keeps the invariant.
LEMMA FiltsInvStep == FiltsInv /\ [FiltsNext]_filtsVars => FiltsInv'
<1> SUFFICES ASSUME FiltsInv, [FiltsNext]_filtsVars PROVE FiltsInv'
  OBVIOUS
<1>1. CASE Run
  BY <1>1, FiltsClockStep DEF Run
<1>2. CASE Stop
  <2>1. PICK active, done \in [Side -> BOOLEAN] :
           /\ \A s \in Side : (active[s] => Ready(s)) /\ (done[s] => active[s])
           /\ FiltsClock(TRUE, active, done, {}, {})
    BY <1>2 DEF Stop
  <2>2. {} \in SUBSET Judging /\ {} \in SUBSET (Judging \ {})
    OBVIOUS
  <2> QED
    BY <2>1, <2>2, FiltsClockStep
<1>3. CASE UNCHANGED filtsVars
  BY <1>3 DEF filtsVars, FiltsInv, FiltsTypeOK, Conserved, Kept, Targeted, KeptFor, Readies, Ready, Carry
<1> QED
  BY <1>1, <1>2, <1>3 DEF FiltsNext

\* FiltsTypeOK is an invariant: no VM gives a buffer it does not have.
THEOREM FiltsTypes == FiltsSpec => []FiltsTypeOK
<1>1. FiltsInv => FiltsTypeOK
  BY DEF FiltsInv
<1> QED
  BY <1>1, FiltsInvInit, FiltsInvStep, PTL DEF FiltsSpec

\* Whenever an agent's ready line is high, one ready VM is wired to it.
THEOREM OneVM == FiltsSpec => []OneReadyVM
<1>1. FiltsInv => OneReadyVM
  BY InvariantSuffices
<1> QED
  BY <1>1, FiltsInvInit, FiltsInvStep, PTL DEF FiltsSpec

\* A packet that has begun keeps its VM until it is done.
THEOREM NoSwitching == FiltsSpec => []PacketKeepsItsVM
<1>1. FiltsInv => PacketKeepsItsVM
  BY InvariantSuffices
<1> QED
  BY <1>1, FiltsInvInit, FiltsInvStep, PTL DEF FiltsSpec
=============================================================================
