------------------------------- MODULE P3Ctrl -------------------------------
(****************************************************************************)
(* The ping-pang-pung controller p3ctrl.v: three job queues wired in a      *)
(* ring. The snooper's finished buffer goes to the CPU; the CPU sends it to *)
(* the forwarder (accept) or back to the snooper (reject); the forwarder    *)
(* gives it back to the snooper.  The fronts of the queues are the select   *)
(* lines that wire the agents to the buffers.                               *)
(****************************************************************************)
EXTENDS JobQueues, Sequences

VARIABLES snq, cpuq, fwdq

queues == <<snq, cpuq, fwdq>>

sn_sel  == Front(snq)
cpu_sel == Front(cpuq)
fwd_sel == Front(fwdq)

QueuesTypeOK == snq \in Queue /\ cpuq \in Queue /\ fwdq \in Queue

QueuesInit == snq = FullQueue /\ cpuq = EmptyQueue /\ fwdq = EmptyQueue

\* A clock edge with rst high.
QueuesReset == snq' = FullQueue /\ cpuq' = EmptyQueue /\ fwdq' = EmptyQueue

\* Mutant of QueuesClock: a rejected buffer is not given back to the snooper.
QueuesClockKeepRejected(A_done, B_acc, B_rej, C_done) ==
    /\ snq'  = SnqueueNext(snq, cpu_sel, FALSE, fwd_sel, C_done, A_done)
    /\ cpuq' = CpuqueueNext(cpuq, sn_sel, A_done, B_acc \/ B_rej)
    /\ fwdq' = FwdqueueNext(fwdq, cpu_sel, B_acc, C_done)

\* A clock edge with rst low; the arguments are the input wires.
QueuesClock(A_done, B_acc, B_rej, C_done) ==
    /\ snq'  = SnqueueNext(snq, cpu_sel, B_rej, fwd_sel, C_done, A_done)
    /\ cpuq' = CpuqueueNext(cpuq, sn_sel, A_done, B_acc \/ B_rej)
    /\ fwdq' = FwdqueueNext(fwdq, cpu_sel, B_acc, C_done)

(****************************************************************************)
(* Where a buffer is.  The nine slots of the three queues, and the claim    *)
(* that a buffer is in exactly one of them.                                 *)
(****************************************************************************)
Slot == <<snq.first, snq.second, snq.third, cpuq.first, cpuq.second, cpuq.third,
          fwdq.first, fwdq.second, fwdq.third>>

InOneSlot(b) == \E i \in 1..9 : /\ Slot[i] = b
                                /\ \A j \in 1..9 : Slot[j] = b => j = i

\* The jobs of a queue, oldest first: its slots without the empty ones.
OneJob(t) == IF t = Nothing THEN <<>> ELSE <<t>>
JobsOf(q) == OneJob(q.first) \o OneJob(q.second) \o OneJob(q.third)
=============================================================================
