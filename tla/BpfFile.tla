------------------------------- MODULE BpfFile -------------------------------
(****************************************************************************)
(* compilefilt.c: the bytes of the file prog.bpf, written on a host of      *)
(* either byte order from the instructions in its memory, and the two       *)
(* register values that sendfilt.cpp prints for the same instruction.       *)
(****************************************************************************)
EXTENDS Integers, Sequences

Byte == 0..255
Half == 0..65535
LastWord == 65536 * 65536 - 1
Word == 0..LastWord

\* struct bpf_insn.
Insn == [code : Half, jt : Byte, jf : Byte, k : Word]

\* Byte n of a number, 0 the least significant.
ByteOf(value, n) ==
    IF n = 0 THEN value % 256
    ELSE IF n = 1 THEN (value \div 256) % 256
    ELSE IF n = 2 THEN ((value \div 256) \div 256) % 256
    ELSE ((value \div 256) \div 256) \div 256

\* How a host keeps the unions un16 and un32, and the struct, in its memory.
Bytes16(little, v) == IF little THEN <<ByteOf(v, 0), ByteOf(v, 1)>> ELSE <<ByteOf(v, 1), ByteOf(v, 0)>>
Bytes32(little, v) == IF little THEN <<ByteOf(v, 0), ByteOf(v, 1), ByteOf(v, 2), ByteOf(v, 3)>>
                      ELSE <<ByteOf(v, 3), ByteOf(v, 2), ByteOf(v, 1), ByteOf(v, 0)>>
Stored(little, insn) ==
    LET c == Bytes16(little, insn.code)
        n == Bytes32(little, insn.k)
    IN <<c[1], c[2], insn.jt, insn.jf, n[1], n[2], n[3], n[4]>>

\* The endian test looks at the first byte of the number 1.
fix_endian(little) == Bytes32(little, 1)[1] = 1

\* The bytes that go to the file: the struct as it is, or with its numbers turned around.
fixed(little, insn) ==
    LET un16 == Bytes16(little, insn.code)
        un32 == Bytes32(little, insn.k)
    IN <<un16[2], un16[1], insn.jt, insn.jf, un32[4], un32[3], un32[2], un32[1]>>

FileBytes(little, insn) == IF fix_endian(little) THEN fixed(little, insn) ELSE Stored(little, insn)

\* sendfilt's two numbers: "%04x%02x%02x" and "%08x".
High(insn) == 256 * (256 * insn.code + insn.jt) + insn.jf
Low(insn) == insn.k

\* Four bytes read as a number, most significant first.
BigEndian(b, from) == 256 * (256 * (256 * b[from] + b[from + 1]) + b[from + 2]) + b[from + 3]
=============================================================================
