------------------------------ MODULE JobQueues ------------------------------
(****************************************************************************)
(* The three job queues of the ping-pang-pung controller: snqueue.v,        *)
(* cpuqueue.v and fwdqueue.v.  A queue has three 2-bit registers; the value *)
(* 0 is an empty slot and 1, 2, 3 name the buffers ping, pang and pung.     *)
(* Every operator returns the registers after a clock edge, computed from   *)
(* the registers and the input wires before it.                             *)
(****************************************************************************)
EXTENDS Naturals

Ping == 1
Pang == 2
Pung == 3
Buffer == {Ping, Pang, Pung}
Nothing == 0                       \* an empty slot, and "no job" on a select line
Token == Buffer \cup {Nothing}

Queue == [first : Token, second : Token, third : Token]

EmptyQueue == [first |-> Nothing, second |-> Nothing, third |-> Nothing]
FullQueue  == [first |-> Ping, second |-> Pang, third |-> Pung]

\* Mutant of Front: the third slot ahead of the second.
FrontThirdSlot(q) == IF q.first # Nothing THEN q.first
                     ELSE IF q.third # Nothing THEN q.third
                     ELSE q.second

\* The buffer at the head: the oldest slot that is not empty.
Front(q) == IF q.first # Nothing THEN q.first
            ELSE IF q.second # Nothing THEN q.second
            ELSE q.third

Held(q) == {q.first, q.second, q.third} \ {Nothing}

\* Mutant of Shift: the third slot moves up but is only filled through the second.
ShiftNarrow(q, deq, second_n, third_n) ==
    LET hole1 == deq \/ q.first = Nothing
        hole2 == hole1 \/ q.second = Nothing
    IN [first  |-> IF hole1 THEN q.second ELSE q.first,
        second |-> IF hole2 THEN second_n ELSE q.second,
        third  |-> IF hole2 THEN third_n ELSE q.third]

\* The clocked part all three share: a slot takes its new value when the queue
\* is dequeued or when this slot or an older one is a hole.
Shift(q, deq, second_n, third_n) ==
    LET hole1 == deq \/ q.first = Nothing
        hole2 == hole1 \/ q.second = Nothing
        hole3 == hole2 \/ q.third = Nothing
    IN [first  |-> IF hole1 THEN q.second ELSE q.first,
        second |-> IF hole2 THEN second_n ELSE q.second,
        third  |-> IF hole3 THEN third_n ELSE q.third]

\* Mutants of SnqueueNext: a buffer from the CPU hides one from the forwarder; the
\* two are queued in the other order; the two are merged into one token.
SnqueueNextOneToken(q, token_from_cpu, en_from_cpu, token_from_fwd, en_from_fwd, deq) ==
    Shift(q, deq, q.third, IF en_from_cpu THEN token_from_cpu
                           ELSE IF en_from_fwd THEN token_from_fwd ELSE Nothing)

SnqueueNextSwapped(q, token_from_cpu, en_from_cpu, token_from_fwd, en_from_fwd, deq) ==
    LET both == en_from_cpu /\ en_from_fwd
        incoming == IF en_from_cpu THEN token_from_cpu
                    ELSE IF en_from_fwd THEN token_from_fwd ELSE Nothing
    IN Shift(q, deq, IF both THEN token_from_fwd ELSE q.third,
                     IF both THEN token_from_cpu ELSE incoming)

SnqueueNextMerged(q, token_from_cpu, en_from_cpu, token_from_fwd, en_from_fwd, deq) ==
    Shift(q, deq, q.third, (IF en_from_cpu THEN token_from_cpu ELSE Nothing)
                             + (IF en_from_fwd THEN token_from_fwd ELSE Nothing))

\* Two buffers can come back to the snooper in one cycle: the one from the CPU
\* is then queued ahead of the one from the forwarder.
SnqueueNext(q, token_from_cpu, en_from_cpu, token_from_fwd, en_from_fwd, deq) ==
    LET both == en_from_cpu /\ en_from_fwd
        incoming == IF en_from_cpu THEN token_from_cpu
                    ELSE IF en_from_fwd THEN token_from_fwd ELSE Nothing
    IN Shift(q, deq, IF both THEN token_from_cpu ELSE q.third,
                     IF both THEN token_from_fwd ELSE incoming)

CpuqueueNext(q, token_from_sn, en_from_sn, deq) ==
    Shift(q, deq, q.third, IF en_from_sn THEN token_from_sn ELSE Nothing)

FwdqueueNext(q, token_from_cpu, en_from_cpu, deq) ==
    Shift(q, deq, q.third, IF en_from_cpu THEN token_from_cpu ELSE Nothing)
=============================================================================
