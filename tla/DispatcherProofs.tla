-------------------------- MODULE DispatcherProofs --------------------------
(****************************************************************************)
(* Proofs about the dispatcher, for every MinJob that is at least two       *)
(* cycles: its types, that a buffer is always in exactly one slot of one    *)
(* queue and is never switched away under an agent, and that the three      *)
(* queues of registers are the first-in first-out lists of PingPangPung.    *)
(*                                                                          *)
(* The invariant relates how far a front has come down its queue to the age *)
(* of the job; the lemmas of QueueProofs do the rest.                       *)
(****************************************************************************)
EXTENDS Dispatcher, QueueProofs

\* The front buffer of each agent has moved down as its job grew older.
Settled == /\ SettledQueue(snq, age["snooper"])
           /\ SettledQueue(cpuq, age["cpu"])
           /\ SettledQueue(fwdq, age["forwarder"])

\* A buffer in the snooper queue's third slot with a hole below it has just come
\* back from the CPU or the forwarder, which has had no time for another job.
JustReturned == snq.third # Nothing /\ (snq.first = Nothing \/ snq.second = Nothing)
                   => age["cpu"] = 0 \/ age["forwarder"] = 0

IInv == TypeOK /\ (\A b \in Buffer : Total(b) = 1) /\ Settled /\ JustReturned

-----------------------------------------------------------------------------

\* The queues and ages start with values of their types.
LEMMA TypeInit == Init => TypeOK
  BY MinJobAssumption DEF Init, QueuesInit, TypeOK, QueuesTypeOK, FullQueue, EmptyQueue,
   Queue, Token, Buffer, Nothing, Ping, Pang, Pung

\* Every step keeps the types.
LEMMA TypeStep == TypeOK /\ [Next]_vars => TypeOK'
<1> SUFFICES ASSUME TypeOK, [Next]_vars PROVE TypeOK'
  OBVIOUS
<1>1. ASSUME NEW A_done \in BOOLEAN, NEW B_acc \in BOOLEAN, NEW B_rej \in BOOLEAN,
             NEW C_done \in BOOLEAN, Cycle(A_done, B_acc, B_rej, C_done)
      PROVE  TypeOK'
  <2>1. QueuesTypeOK'
    BY <1>1 DEF Cycle, QueuesClock, SnqueueNext, CpuqueueNext, FwdqueueNext, Shift, TypeOK,
       QueuesTypeOK, Queue, sn_sel, cpu_sel, fwd_sel, Front, Token
  <2>2. age' \in [Agent -> 0..MinJob]
    BY <1>1, MinJobAssumption DEF Cycle, TypeOK, Older
  <2> QED BY <2>1, <2>2 DEF TypeOK
<1>2. CASE Reset
  BY <1>2, MinJobAssumption DEF Reset, QueuesReset, TypeOK, QueuesTypeOK, FullQueue,
     EmptyQueue, Queue, Token, Buffer, Nothing, Ping, Pang, Pung
<1>3. CASE UNCHANGED vars
  BY <1>3 DEF vars, TypeOK, QueuesTypeOK
<1> QED BY <1>1, <1>2, <1>3 DEF Next

\* Each slot holds one of ping, pang, pung or nothing, and the ages stay in range.
THEOREM TypeCorrect == Spec => []TypeOK
BY TypeInit, TypeStep, PTL DEF Spec

\* An agent that finishes has its buffer in the first slot, and two buffers that come back
\* at once do not meet one in the third slot that cannot move.
LEMMA Finishing ==
    ASSUME MinJob >= 2, IInv,
           NEW A_done \in BOOLEAN, NEW B_acc \in BOOLEAN,
           NEW B_rej \in BOOLEAN, NEW C_done \in BOOLEAN,
           Cycle(A_done, B_acc, B_rej, C_done)
    PROVE  /\ InPosition(A_done, B_acc, B_rej, C_done)
           /\ QueuesClock(A_done, B_acc, B_rej, C_done)
<1>1. /\ snq \in Queue /\ cpuq \in Queue /\ fwdq \in Queue
      /\ \A a \in Agent : age[a] \in Nat
      /\ "snooper" \in Agent /\ "cpu" \in Agent /\ "forwarder" \in Agent
  BY MinJobAssumption DEF IInv, TypeOK, QueuesTypeOK, Queue, Agent
<1>2. /\ A_done => snq.first # Nothing
      /\ B_acc \/ B_rej => cpuq.first # Nothing
      /\ C_done => fwdq.first # Nothing
  BY <1>1, MinJobAssumption DEF IInv, Settled, SettledQueue, Cycle, MayFinish, Ready, queueOf
<1>3. B_rej /\ C_done /\ snq.third # Nothing => snq.first # Nothing /\ snq.second # Nothing
  BY <1>1, MinJobAssumption DEF IInv, JustReturned, Cycle, MayFinish
<1> QED BY <1>2, <1>3 DEF InPosition, Cycle

\* The inductive step: one clock cycle of the dispatcher and its agents.
LEMMA CycleKeepsIInv ==
    ASSUME MinJob >= 2, IInv,
           NEW A_done \in BOOLEAN, NEW B_acc \in BOOLEAN,
           NEW B_rej \in BOOLEAN, NEW C_done \in BOOLEAN,
           Cycle(A_done, B_acc, B_rej, C_done)
    PROVE  IInv'
<1>1. TypeOK'
  BY TypeStep DEF IInv, Next
<1>2. /\ QueuesTypeOK /\ \A a \in Agent : age[a] \in Nat /\ age'[a] \in Nat
      /\ "snooper" \in Agent /\ "cpu" \in Agent /\ "forwarder" \in Agent
  BY <1>1, MinJobAssumption DEF IInv, TypeOK, Agent
<1>3. /\ InPosition(A_done, B_acc, B_rej, C_done)
      /\ QueuesClock(A_done, B_acc, B_rej, C_done)
  BY Finishing
<1>4. \A b \in Buffer : Total(b)' = 1
  BY <1>2, <1>3, ClockCounts DEF IInv
<1>5. /\ age'["snooper"] = 0 \/ (sn_sel # Nothing /\ ~A_done /\ age'["snooper"] <= age["snooper"] + 1)
      /\ age'["cpu"] = 0 \/ (cpu_sel # Nothing /\ ~B_acc /\ ~B_rej /\ age'["cpu"] <= age["cpu"] + 1)
      /\ age'["forwarder"] = 0 \/ (fwd_sel # Nothing /\ ~C_done
                                     /\ age'["forwarder"] <= age["forwarder"] + 1)
      /\ B_rej => age'["cpu"] = 0
      /\ C_done => age'["forwarder"] = 0
  BY <1>2, MinJobAssumption DEF Cycle, Ready, queueOf, Older, sn_sel, cpu_sel, fwd_sel
<1>6. Settled' /\ JustReturned'
  <2>1. SettledQueue(snq', age'["snooper"])
    BY <1>2, <1>3, <1>5, ClockSettles DEF IInv, Settled
  <2>2. SettledQueue(cpuq', age'["cpu"])
    BY <1>2, <1>3, <1>5, ClockSettles DEF IInv, Settled
  <2>3. SettledQueue(fwdq', age'["forwarder"])
    BY <1>2, <1>3, <1>5, ClockSettles DEF IInv, Settled
  <2>4. snq'.third # Nothing /\ (snq'.first = Nothing \/ snq'.second = Nothing)
           => B_rej \/ C_done
    BY <1>2, <1>3, ClockSettles
  <2> QED BY <2>1, <2>2, <2>3, <2>4, <1>5 DEF Settled, JustReturned
<1> QED BY <1>1, <1>4, <1>6 DEF IInv

\* The invariant holds at all times.
LEMMA Invariant ==
    ASSUME MinJob >= 2
    PROVE  Spec => []IInv
<1>1. QueuesInit => \A b \in Buffer : Total(b) = 1
  BY DEF QueuesInit, FullQueue, EmptyQueue, Total, InQueue, Count, Buffer, Nothing,
     Ping, Pang, Pung
<1>2. Init => IInv
  <2> SUFFICES ASSUME Init PROVE IInv
    OBVIOUS
  <2>1. Settled /\ JustReturned
    BY DEF Init, QueuesInit, FullQueue, EmptyQueue, Settled, SettledQueue, JustReturned,
       Agent, Nothing, Ping, Pang, Pung
  <2> QED BY <1>1, <2>1, TypeInit DEF Init, IInv
<1>3. IInv /\ [Next]_vars => IInv'
  <2> SUFFICES ASSUME IInv, [Next]_vars PROVE IInv'
    OBVIOUS
  <2>1. ASSUME NEW A_done \in BOOLEAN, NEW B_acc \in BOOLEAN, NEW B_rej \in BOOLEAN,
               NEW C_done \in BOOLEAN, Cycle(A_done, B_acc, B_rej, C_done)
        PROVE  IInv'
    BY <2>1, CycleKeepsIInv
  <2>2. CASE Reset
    <3>1. TypeOK'
      BY TypeStep DEF IInv
    <3>2. \A b \in Buffer : Total(b)' = 1
      BY <2>2 DEF Reset, QueuesReset, FullQueue, EmptyQueue, Total, InQueue, Count, Buffer,
         Nothing, Ping, Pang, Pung
    <3>3. Settled' /\ JustReturned'
      BY <2>2 DEF Reset, QueuesReset, FullQueue, EmptyQueue, Settled, SettledQueue,
         JustReturned, Agent, Nothing, Ping, Pang, Pung
    <3> QED BY <3>1, <3>2, <3>3 DEF IInv
  <2>3. CASE UNCHANGED vars
    BY <2>3 DEF vars, IInv, TypeOK, QueuesTypeOK, Total, InQueue, Count, Settled, SettledQueue,
       Front, JustReturned
  <2> QED BY <2>1, <2>2, <2>3 DEF Next
<1> QED BY <1>2, <1>3, PTL DEF Spec

-----------------------------------------------------------------------------

\* "One agent always has exclusive control of a buffer" (painfulmuxes.v), for every
\* agent timing of at least two cycles a job.
THEOREM ExclusiveControl ==
    ASSUME MinJob >= 2
    PROVE  Spec => []ExclusiveBuffers
<1>1. IInv => ExclusiveBuffers
  BY TotalIsOneSlot DEF IInv, TypeOK, ExclusiveBuffers
<1> QED BY <1>1, Invariant, PTL

\* No buffer is switched away under an agent that works on it, for every agent timing
\* of at least two cycles a job: not even when two buffers come back at once.
THEOREM FrontIsKept ==
    ASSUME MinJob >= 2
    PROVE  Spec => FrontHeldUntilDone
<1> DEFINE Kept == \A a \in Agent : Working(a) => Front(queueOf(a))' = Front(queueOf(a))
<1>1. IInv /\ [Next]_vars => [Kept]_vars
  <2> SUFFICES ASSUME IInv, Next, NEW a \in Agent, Working(a)
               PROVE  Front(queueOf(a))' = Front(queueOf(a))
    OBVIOUS
  <2>1. PICK A_done, B_acc, B_rej, C_done \in BOOLEAN : Cycle(A_done, B_acc, B_rej, C_done)
    BY DEF Next, Reset, Working
  <2>2. /\ sn_sel # Nothing /\ ~A_done => sn_sel' = sn_sel
        /\ cpu_sel # Nothing /\ ~B_acc /\ ~B_rej => cpu_sel' = cpu_sel
        /\ fwd_sel # Nothing /\ ~C_done => fwd_sel' = fwd_sel
    BY <2>1, Finishing, ClockKeepsFronts DEF IInv, TypeOK
  <2>3. /\ a = "snooper" => sn_sel # Nothing /\ ~A_done
        /\ a = "cpu" => cpu_sel # Nothing /\ ~B_acc /\ ~B_rej
        /\ a = "forwarder" => fwd_sel # Nothing /\ ~C_done
    BY <2>1 DEF Cycle, Working, Ready, queueOf, sn_sel, cpu_sel, fwd_sel
  <2> QED BY <2>2, <2>3 DEF Agent, queueOf, sn_sel, cpu_sel, fwd_sel
<1> QED BY <1>1, Invariant, PTL DEF Spec, FrontHeldUntilDone

-----------------------------------------------------------------------------

\* A clock edge is a round of PingPangPung.
LEMMA CycleIsARound ==
    ASSUME MinJob >= 2, IInv,
           NEW A_done \in BOOLEAN, NEW B_acc \in BOOLEAN,
           NEW B_rej \in BOOLEAN, NEW C_done \in BOOLEAN,
           Cycle(A_done, B_acc, B_rej, C_done)
    PROVE  PPP!Round(A_done, IF B_acc THEN "accept" ELSE IF B_rej THEN "reject" ELSE "none", C_done)
<1>1. /\ JobsOf(cpuq') = Remaining(cpuq, B_acc \/ B_rej) \o Given(snq, A_done)
      /\ JobsOf(fwdq') = Remaining(fwdq, C_done) \o Given(cpuq, B_acc)
      /\ JobsOf(snq') = (Remaining(snq, A_done) \o Given(cpuq, B_rej)) \o Given(fwdq, C_done)
      /\ A_done => JobsOf(snq) # <<>>
      /\ B_acc \/ B_rej => JobsOf(cpuq) # <<>>
      /\ C_done => JobsOf(fwdq) # <<>>
  BY Finishing, ClockJobs DEF IInv, TypeOK
<1>2. ~(B_acc /\ B_rej)
  BY DEF Cycle
<1>3. CASE B_acc
  BY <1>1, <1>2, <1>3 DEF PPP!Round, PPP!Rest, PPP!Taken, Given, Remaining
<1>4. CASE B_rej
  BY <1>1, <1>2, <1>4 DEF PPP!Round, PPP!Rest, PPP!Taken, Given, Remaining
<1>5. CASE ~B_acc /\ ~B_rej
  BY <1>1, <1>2, <1>5 DEF PPP!Round, PPP!Rest, PPP!Taken, Given, Remaining
<1> QED
  BY <1>3, <1>4, <1>5

\* The registers of the three queues implement first-in first-out lists of buffers, the
\* header of p3ctrl.v's description of them: no buffer overtakes another, and every
\* finished buffer goes to the end of the next agent's list.
THEOREM QueuesAreLists ==
    ASSUME MinJob >= 2
    PROVE  Spec => ImplementsPingPangPung
<1> DEFINE Jobs == [snooper |-> JobsOf(snq), cpu |-> JobsOf(cpuq), forwarder |-> JobsOf(fwdq)]
<1>1. Init => PPP!Init
  BY StartingJobs DEF Init, QueuesInit, PPP!Init
<1>2. IInv /\ [Next]_vars => PPP!Next \/ Jobs' = Jobs
  <2> SUFFICES ASSUME IInv, [Next]_vars PROVE PPP!Next \/ Jobs' = Jobs
    OBVIOUS
  <2>1. ASSUME NEW A_done \in BOOLEAN, NEW B_acc \in BOOLEAN, NEW B_rej \in BOOLEAN,
               NEW C_done \in BOOLEAN, Cycle(A_done, B_acc, B_rej, C_done)
        PROVE  PPP!Next
    <3> DEFINE verdict == IF B_acc THEN "accept" ELSE IF B_rej THEN "reject" ELSE "none"
    <3>1. PPP!Round(A_done, verdict, C_done)
      BY <2>1, CycleIsARound
    <3>2. verdict \in PPP!Verdict
      BY DEF PPP!Verdict
    <3> QED
      BY <3>1, <3>2 DEF PPP!Next
  <2>2. CASE Reset
    BY <2>2, StartingJobs DEF Reset, QueuesReset, PPP!Next, PPP!Restart
  <2>3. CASE UNCHANGED vars
    BY <2>3 DEF vars
  <2> QED
    BY <2>1, <2>2, <2>3 DEF Next
<1>3. IInv /\ [Next]_vars => [PPP!Next]_Jobs
  BY <1>2
<1> QED
  BY <1>1, <1>3, Invariant, PTL DEF Spec, ImplementsPingPangPung, PPP!Spec
=============================================================================
