----------------------------- MODULE Dispatcher -----------------------------
(****************************************************************************)
(* The controller p3ctrl.v together with the three agents that drive it, as *)
(* packetmem.v wires them.  The agents are known by what the controller     *)
(* sees of them: an agent whose ready line is low (no job) raises no done   *)
(* pulse, the CPU never accepts and rejects in one cycle, and an agent      *)
(* works on a job for at least MinJob cycles before the cycle in which it   *)
(* pulses done.                                                             *)
(*                                                                          *)
(* One step is one clock cycle.  A new job is first visible on the select   *)
(* line in the cycle where the agent's age is 0.                            *)
(****************************************************************************)
EXTENDS P3Ctrl

CONSTANT MinJob          \* cycles an agent needs before it can finish a job

ASSUME MinJobAssumption == MinJob \in Nat

VARIABLE age             \* age[a]: cycles the present job of agent a was visible

vars == <<snq, cpuq, fwdq, age>>

Agent == {"snooper", "cpu", "forwarder"}

queueOf(a) == CASE a = "snooper" -> snq [] a = "cpu" -> cpuq [] a = "forwarder" -> fwdq

\* The ready lines of packetmem.v.
Ready(a) == Front(queueOf(a)) # Nothing

MayFinish(a) == Ready(a) /\ age[a] >= MinJob

TypeOK == QueuesTypeOK /\ age \in [Agent -> 0..MinJob]

Init == QueuesInit /\ age = [a \in Agent |-> 0]

\* The ages stop counting at MinJob, which is all that MayFinish looks at.
Older(n) == IF n < MinJob THEN n + 1 ELSE n

Cycle(A_done, B_acc, B_rej, C_done) ==
    /\ A_done => MayFinish("snooper")
    /\ B_acc \/ B_rej => MayFinish("cpu")
    /\ ~(B_acc /\ B_rej)
    /\ C_done => MayFinish("forwarder")
    /\ QueuesClock(A_done, B_acc, B_rej, C_done)
    /\ age' = [a \in Agent |->
                 IF \/ ~Ready(a)
                    \/ a = "snooper" /\ A_done
                    \/ a = "cpu" /\ (B_acc \/ B_rej)
                    \/ a = "forwarder" /\ C_done
                 THEN 0 ELSE Older(age[a])]

\* The filter is stopped and started again: the queues are refilled and every
\* agent starts afresh.
Reset == QueuesReset /\ age' = [a \in Agent |-> 0]

SnooperDone   == \E B_acc, B_rej, C_done \in BOOLEAN : Cycle(TRUE, B_acc, B_rej, C_done)
CpuVerdict    == \E A_done, B_acc, C_done \in BOOLEAN : Cycle(A_done, B_acc, ~B_acc, C_done)
ForwarderDone == \E A_done, B_acc, B_rej \in BOOLEAN : Cycle(A_done, B_acc, B_rej, TRUE)

Next == \/ \E A_done, B_acc, B_rej, C_done \in BOOLEAN : Cycle(A_done, B_acc, B_rej, C_done)
        \/ Reset

Spec == Init /\ [][Next]_vars

\* The clock runs, and an agent that has a job finishes it: programs have only
\* forward jumps, packets end, and the sink is ready again and again.
Fairness == /\ WF_vars(Next)
            /\ WF_vars(SnooperDone)
            /\ WF_vars(CpuVerdict)
            /\ WF_vars(ForwarderDone)

FairSpec == Spec /\ Fairness

-----------------------------------------------------------------------------

\* "One agent always has exclusive control of a buffer" (painfulmuxes.v):
\* each of ping, pang and pung is in exactly one slot of one queue, so no token is
\* lost and no two agents, nor two jobs of one agent, have the same buffer.
ExclusiveBuffers == \A b \in Buffer : InOneSlot(b)

\* A job that reached the front of its queue stays there until its agent
\* pulses done or the controller is reset: a buffer is never switched away under
\* an agent that works on it.
Working(a) == Ready(a) /\ Ready(a)' /\ age'[a] # 0
FrontHeldUntilDone ==
    [][\A a \in Agent : Working(a) => Front(queueOf(a))' = Front(queueOf(a))]_vars

\* The three queues are what the header of p3ctrl.v asks of them: first-in first-out
\* lists of buffers in which every finished buffer goes to the end of the next
\* agent's list.  The registers refine them by skipping the empty slots.
PPP == INSTANCE PingPangPung WITH
           Start <- <<Ping, Pang, Pung>>,
           jobs  <- [snooper |-> JobsOf(snq), cpu |-> JobsOf(cpuq), forwarder |-> JobsOf(fwdq)]

ImplementsPingPangPung == PPP!Spec

\* No buffer is ever starved: whatever the CPU and the forwarder do with it, each
\* buffer is again and again available to the snooper.
BuffersRecycled == \A b \in Buffer : []<>(b \in Held(snq))
=============================================================================
