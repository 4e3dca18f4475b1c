------------------------------- MODULE ReadSize -------------------------------
(****************************************************************************)
(* read_size_adapter.v with the buffer that the CPU reads (packetram.v):    *)
(* how a byte, a half-word or a word at any address is taken from the two   *)
(* 32-bit words that the buffer puts out together.  A 64-bit beat has eight *)
(* bytes, of which the first is the most significant.                       *)
(****************************************************************************)
EXTENDS Integers

CONSTANTS Byte, Words             \* the contents of a byte; 2^PORT_ADDR_WIDTH

VARIABLES pessimistic,            \* PESSIMISTIC: a parameter of the build, never changes
          mem,                    \* the packet, byte by byte; the CPU only reads it
          bigword,                \* the output registers doa and dob, most significant first
          sz_r, offset_r,         \* latched like the address of the memory
          resized_mem_data_r,     \* in a PESSIMISTIC build only
          request, earlier        \* history: what was asked for in the last two cycles

vars == <<pessimistic, mem, bigword, sz_r, offset_r, resized_mem_data_r, request, earlier>>

BPF_W == 0
BPF_H == 1

ByteAddr == 0 .. 4 * Words - 1
Request == [rd_en : BOOLEAN, addr : ByteAddr, sz : 0..3]

\* addrb = addra + 1, in as many bits.
NextWord(a) == IF a = Words - 1 THEN 0 ELSE a + 1

\* Two words of the memory as eight bytes.
BigWordAt(a) == [i \in 0..7 |-> mem[IF i < 4 THEN 4 * a + i ELSE 4 * NextWord(a) + (i - 4)]]

selected == [i \in 0..3 |-> bigword[offset_r + i]]

\* The four bytes, most significant first; short reads are padded on the left.
resized_mem_data_internal ==
    [p \in 0..3 |->
       IF sz_r = BPF_W THEN selected[p]
       ELSE IF sz_r = BPF_H THEN (IF p < 2 THEN 0 ELSE selected[p - 2])
       ELSE (IF p < 3 THEN 0 ELSE selected[0])]

resized_mem_data == IF pessimistic THEN resized_mem_data_r ELSE resized_mem_data_internal

Init == /\ pessimistic \in BOOLEAN
        /\ mem \in [ByteAddr -> Byte] /\ bigword \in [0..7 -> Byte]
        /\ sz_r \in 0..3 /\ offset_r \in 0..3
        /\ resized_mem_data_r = [p \in 0..3 |-> 0]
        /\ request = [rd_en |-> FALSE, addr |-> 0, sz |-> 0]
        /\ earlier = [rd_en |-> FALSE, addr |-> 0, sz |-> 0]

\* One clock edge; r is what the CPU puts on cpu_rd_en, cpu_byte_rd_addr and transfer_sz.
Clock(r) ==
    /\ bigword' = IF r.rd_en THEN BigWordAt(r.addr \div 4) ELSE bigword
    /\ sz_r' = r.sz /\ offset_r' = r.addr % 4
    /\ resized_mem_data_r' = IF pessimistic THEN resized_mem_data_internal ELSE resized_mem_data_r
    /\ request' = r /\ earlier' = request
    /\ UNCHANGED <<pessimistic, mem>>

Next == \E r \in Request : Clock(r)

Spec == Init /\ [][Next]_vars

-----------------------------------------------------------------------------
\* What a load asks for: so many bytes from the address on, behind the last byte of
\* the buffer those at its start.
Bytes(sz) == IF sz = BPF_W THEN 4 ELSE IF sz = BPF_H THEN 2 ELSE 1
Wrapped(a) == IF a >= 4 * Words THEN a - 4 * Words ELSE a
Wanted(r) == [p \in 0..3 |-> IF p < 4 - Bytes(r.sz) THEN 0 ELSE mem[Wrapped(r.addr + p - (4 - Bytes(r.sz)))]]

\* One cycle after a read, two in a PESSIMISTIC build, and whatever is asked for
\* in between, the CPU sees exactly the bytes it asked for, in the order of the
\* packet, at any alignment (read_size_adapter.v:84-133).
ReadsTheBytes == LET r == IF pessimistic THEN earlier ELSE request
                 IN r.rd_en => resized_mem_data = Wanted(r)

\* The strengthening: both stages agree with the two requests.
Staged == /\ pessimistic \in BOOLEAN
          /\ request \in Request /\ earlier \in Request
          /\ request.rd_en => resized_mem_data_internal = Wanted(request)
          /\ pessimistic /\ earlier.rd_en => resized_mem_data_r = Wanted(earlier)
=============================================================================
