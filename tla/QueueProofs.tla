---------------------------- MODULE QueueProofs ----------------------------
(****************************************************************************)
(* Lemmas about the three job queues of p3ctrl.v, which the proofs about    *)
(* the dispatcher and about the whole data path rest on.                    *)
(*                                                                          *)
(* They count: InQueue counts the slots of a queue that hold a buffer; a    *)
(* clock edge adds the buffer that is enqueued and subtracts the one that   *)
(* is dequeued, provided that there is room, and that the dequeued buffer   *)
(* has come down to the first slot.  The second condition is where two      *)
(* cycles are needed: a buffer enters a queue at the third slot and moves   *)
(* down one slot a cycle.  And they read a queue as a list: the list of     *)
(* jobs does not change when a job moves into a hole, loses its head when   *)
(* the first slot is dequeued, and grows at its end by what comes in.       *)
(****************************************************************************)
EXTENDS P3Ctrl, SequenceTheorems, TLAPS

Count(x, b) == IF x = b THEN 1 ELSE 0
InQueue(q, b) == Count(q.first, b) + Count(q.second, b) + Count(q.third, b)
Total(b) == InQueue(snq, b) + InQueue(cpuq, b) + InQueue(fwdq, b)

\* The front buffer has moved down as many slots as its job is cycles old.
SettledQueue(q, n) == /\ Front(q) # Nothing /\ n >= 1 => q.first # Nothing \/ q.second # Nothing
                      /\ Front(q) # Nothing /\ n >= 2 => q.first # Nothing

\* There is room in a queue for one more.
HasHole(q) == q.first = Nothing \/ q.second = Nothing \/ q.third = Nothing

\* The agents that finish have their buffer in the first slot, and two buffers that come
\* back at once do not meet one in the third slot that cannot move.
InPosition(A_done, B_acc, B_rej, C_done) ==
    /\ ~(B_acc /\ B_rej)
    /\ A_done => snq.first # Nothing
    /\ B_acc \/ B_rej => cpuq.first # Nothing
    /\ C_done => fwdq.first # Nothing
    /\ B_rej /\ C_done /\ snq.third # Nothing => snq.first # Nothing /\ snq.second # Nothing

\* The jobs of a queue that is dequeued, if its first slot is full.
Remaining(q, deq) == IF deq THEN Tail(JobsOf(q)) ELSE JobsOf(q)

\* What an agent hands on when it finishes its first job.
Given(q, finished) == IF finished THEN <<Head(JobsOf(q))>> ELSE <<>>

-----------------------------------------------------------------------------

\* The counting form of InOneSlot says the same.
LEMMA TotalIsOneSlot ==
    ASSUME QueuesTypeOK, NEW b \in Buffer
    PROVE  InOneSlot(b) <=> Total(b) = 1
<1> DEFINE S(i) == Slot[i]
<1>1. /\ S(1) = snq.first /\ S(2) = snq.second /\ S(3) = snq.third
      /\ S(4) = cpuq.first /\ S(5) = cpuq.second /\ S(6) = cpuq.third
      /\ S(7) = fwdq.first /\ S(8) = fwdq.second /\ S(9) = fwdq.third
  BY DEF Slot
<1>2. InOneSlot(b) <=> \E i \in 1..9 : S(i) = b /\ \A j \in 1..9 : S(j) = b => j = i
  BY DEF InOneSlot
<1>3. Total(b) = Count(S(1), b) + Count(S(2), b) + Count(S(3), b) + Count(S(4), b)
                 + Count(S(5), b) + Count(S(6), b) + Count(S(7), b) + Count(S(8), b)
                 + Count(S(9), b)
  BY <1>1 DEF Total, InQueue, Count
<1> HIDE DEF S
<1> QED
  BY <1>2, <1>3 DEF Count

\* A queue that takes at most one buffer in: what leaves is the first slot.
LEMMA PassQueueCounts ==
    ASSUME NEW q \in Queue, NEW t \in Buffer, NEW b \in Buffer,
           NEW en \in BOOLEAN, NEW deq \in BOOLEAN,
           deq => q.first # Nothing,
           en => deq \/ q.first = Nothing \/ q.second = Nothing \/ q.third = Nothing
    PROVE  LET r == Shift(q, deq, q.third, IF en THEN t ELSE Nothing)
           IN /\ r \in Queue
              /\ InQueue(r, b) = InQueue(q, b) - (IF deq THEN Count(q.first, b) ELSE 0)
                                 + (IF en THEN Count(t, b) ELSE 0)
BY DEF Shift, InQueue, Count, Queue, Token, Buffer, Nothing, Ping, Pang, Pung

\* The snooper queue may take two buffers in, if its third slot is empty.
LEMMA SnqueueCounts ==
    ASSUME NEW q \in Queue, NEW t1 \in Token, NEW t2 \in Token, NEW b \in Buffer,
           NEW en1 \in BOOLEAN, NEW en2 \in BOOLEAN, NEW deq \in BOOLEAN,
           deq => q.first # Nothing,
           en1 \/ en2 => deq \/ q.first = Nothing \/ q.second = Nothing \/ q.third = Nothing,
           en1 /\ en2 => /\ q.third = Nothing
                         /\ deq \/ q.first = Nothing \/ q.second = Nothing
    PROVE  LET r == SnqueueNext(q, t1, en1, t2, en2, deq)
           IN /\ r \in Queue
              /\ InQueue(r, b) = InQueue(q, b) - (IF deq THEN Count(q.first, b) ELSE 0)
                                 + (IF en1 THEN Count(t1, b) ELSE 0)
                                 + (IF en2 THEN Count(t2, b) ELSE 0)
BY DEF SnqueueNext, Shift, InQueue, Count, Queue, Token, Buffer, Nothing, Ping, Pang, Pung

\* There are only three buffers: a queue is not full while another agent has a
\* job, and two agents with a job leave room for one buffer in the third queue.
LEMMA Room ==
    ASSUME NEW p \in Queue, NEW q \in Queue, NEW r \in Queue,
           \A b \in Buffer : InQueue(p, b) + InQueue(q, b) + InQueue(r, b) = 1
    PROVE  /\ Front(p) # Nothing =>
                q.first = Nothing \/ q.second = Nothing \/ q.third = Nothing
           /\ Front(p) # Nothing /\ Front(q) # Nothing =>
                \/ r.first = Nothing /\ r.second = Nothing
                \/ r.second = Nothing /\ r.third = Nothing
                \/ r.first = Nothing /\ r.third = Nothing
<1>1. /\ InQueue(p, 1) + InQueue(q, 1) + InQueue(r, 1) = 1
      /\ InQueue(p, 2) + InQueue(q, 2) + InQueue(r, 2) = 1
      /\ InQueue(p, 3) + InQueue(q, 3) + InQueue(r, 3) = 1
  BY DEF Buffer, Ping, Pang, Pung
<1> QED
  BY <1>1 DEF InQueue, Count, Front, Queue, Token, Buffer, Nothing, Ping, Pang, Pung

\* What comes in at a clock edge fits, if the agents that finish have their buffer in the
\* first slot and a buffer in the snooper queue's third slot has come down.
LEMMA ClockFits ==
    ASSUME QueuesTypeOK, \A b \in Buffer : Total(b) = 1,
           NEW A_done \in BOOLEAN, NEW B_acc \in BOOLEAN,
           NEW B_rej \in BOOLEAN, NEW C_done \in BOOLEAN,
           InPosition(A_done, B_acc, B_rej, C_done)
    PROVE  /\ A_done => HasHole(cpuq)
           /\ B_acc => HasHole(fwdq)
           /\ B_rej \/ C_done => HasHole(snq)
           /\ B_rej /\ C_done => /\ snq.third = Nothing
                                 /\ A_done \/ snq.first = Nothing \/ snq.second = Nothing
<1> USE DEF InPosition
<1>1. /\ snq \in Queue /\ cpuq \in Queue /\ fwdq \in Queue
  BY DEF QueuesTypeOK
<1>2. \A b \in Buffer : /\ InQueue(snq, b) + InQueue(cpuq, b) + InQueue(fwdq, b) = 1
                        /\ InQueue(fwdq, b) + InQueue(snq, b) + InQueue(cpuq, b) = 1
                        /\ InQueue(cpuq, b) + InQueue(snq, b) + InQueue(fwdq, b) = 1
                        /\ InQueue(cpuq, b) + InQueue(fwdq, b) + InQueue(snq, b) = 1
  BY <1>1 DEF Total, InQueue, Count
<1>3. A_done => HasHole(cpuq)
  <2>1. Front(snq) # Nothing => HasHole(cpuq)
    BY <1>1, <1>2, Room DEF HasHole
  <2> QED BY <2>1, <1>1 DEF Front
<1>4. B_acc => HasHole(fwdq)
  <2>1. Front(cpuq) # Nothing => HasHole(fwdq)
    BY <1>1, <1>2, Room DEF HasHole
  <2> QED BY <2>1, <1>1 DEF Front
<1>5. B_rej \/ C_done => HasHole(snq)
  <2>1. Front(cpuq) # Nothing => HasHole(snq)
    BY <1>1, <1>2, Room DEF HasHole
  <2>2. Front(fwdq) # Nothing => HasHole(snq)
    BY <1>1, <1>2, Room DEF HasHole
  <2> QED BY <2>1, <2>2, <1>1 DEF Front
<1>6. B_rej /\ C_done => /\ snq.third = Nothing
                         /\ A_done \/ snq.first = Nothing \/ snq.second = Nothing
  <2>1. Front(cpuq) # Nothing /\ Front(fwdq) # Nothing =>
                \/ snq.first = Nothing /\ snq.second = Nothing
                \/ snq.second = Nothing /\ snq.third = Nothing
                \/ snq.first = Nothing /\ snq.third = Nothing
    BY <1>1, <1>2, Room DEF HasHole
  <2> QED BY <2>1, <1>1 DEF Front
<1> QED BY <1>3, <1>4, <1>5, <1>6

\* A clock edge keeps every buffer in exactly one slot, if the agents that finish
\* have their buffer in the first slot and the snooper queue has room for two.
LEMMA ClockCounts ==
    ASSUME QueuesTypeOK, \A b \in Buffer : Total(b) = 1,
           NEW A_done \in BOOLEAN, NEW B_acc \in BOOLEAN,
           NEW B_rej \in BOOLEAN, NEW C_done \in BOOLEAN,
           InPosition(A_done, B_acc, B_rej, C_done),
           QueuesClock(A_done, B_acc, B_rej, C_done)
    PROVE  QueuesTypeOK' /\ \A b \in Buffer : Total(b)' = 1
<1> USE DEF InPosition
<1>1. /\ snq \in Queue /\ cpuq \in Queue /\ fwdq \in Queue
      /\ sn_sel \in Token /\ cpu_sel \in Token /\ fwd_sel \in Token
  BY DEF QueuesTypeOK, Queue, sn_sel, cpu_sel, fwd_sel, Front
<1>2. /\ A_done => sn_sel = snq.first /\ sn_sel \in Buffer
      /\ B_acc \/ B_rej => cpu_sel = cpuq.first /\ cpu_sel \in Buffer
      /\ C_done => fwd_sel = fwdq.first /\ fwd_sel \in Buffer
  BY <1>1 DEF sn_sel, cpu_sel, fwd_sel, Front, Token
<1>3. /\ A_done => HasHole(cpuq)
      /\ B_acc => HasHole(fwdq)
      /\ B_rej \/ C_done => HasHole(snq)
      /\ B_rej /\ C_done => /\ snq.third = Nothing
                            /\ A_done \/ snq.first = Nothing \/ snq.second = Nothing
  BY ClockFits
<1>4. ASSUME NEW b \in Buffer PROVE QueuesTypeOK' /\ Total(b)' = 1
  <2>1. /\ snq' \in Queue
        /\ InQueue(snq', b) = InQueue(snq, b) - (IF A_done THEN Count(snq.first, b) ELSE 0)
                              + (IF B_rej THEN Count(cpu_sel, b) ELSE 0)
                              + (IF C_done THEN Count(fwd_sel, b) ELSE 0)
    BY <1>1, <1>3, SnqueueCounts DEF QueuesClock, HasHole
  <2>2. /\ cpuq' \in Queue
        /\ InQueue(cpuq', b) = InQueue(cpuq, b)
                               - (IF B_acc \/ B_rej THEN Count(cpuq.first, b) ELSE 0)
                               + (IF A_done THEN Count(sn_sel, b) ELSE 0)
    <3> DEFINE t == IF A_done THEN sn_sel ELSE Ping
    <3>1. /\ t \in Buffer
          /\ cpuq' = Shift(cpuq, B_acc \/ B_rej, cpuq.third, IF A_done THEN t ELSE Nothing)
      BY <1>2 DEF QueuesClock, CpuqueueNext, Buffer
    <3> HIDE DEF t
    <3>2. /\ cpuq' \in Queue
          /\ InQueue(cpuq', b) = InQueue(cpuq, b)
                               - (IF B_acc \/ B_rej THEN Count(cpuq.first, b) ELSE 0)
                               + (IF A_done THEN Count(t, b) ELSE 0)
      BY <1>1, <1>3, <3>1, PassQueueCounts DEF HasHole
    <3> QED BY <3>2 DEF t
  <2>3. /\ fwdq' \in Queue
        /\ InQueue(fwdq', b) = InQueue(fwdq, b) - (IF C_done THEN Count(fwdq.first, b) ELSE 0)
                               + (IF B_acc THEN Count(cpu_sel, b) ELSE 0)
    <3> DEFINE t == IF B_acc THEN cpu_sel ELSE Ping
    <3>1. /\ t \in Buffer
          /\ fwdq' = Shift(fwdq, C_done, fwdq.third, IF B_acc THEN t ELSE Nothing)
      BY <1>2 DEF QueuesClock, FwdqueueNext, Buffer
    <3> HIDE DEF t
    <3>2. /\ fwdq' \in Queue
          /\ InQueue(fwdq', b) = InQueue(fwdq, b) - (IF C_done THEN Count(fwdq.first, b) ELSE 0)
                               + (IF B_acc THEN Count(t, b) ELSE 0)
      BY <1>1, <1>3, <3>1, PassQueueCounts DEF HasHole
    <3> QED BY <3>2 DEF t
  <2>4. Total(b) = 1 /\ Total(b)' = InQueue(snq', b) + InQueue(cpuq', b) + InQueue(fwdq', b)
    BY DEF Total, InQueue
  <2> QED
    BY <2>1, <2>2, <2>3, <2>4, <1>1, <1>2 DEF QueuesTypeOK, Total, InQueue, Count
<1> QED
  BY <1>4 DEF Buffer

\* A buffer moves down one slot in every cycle in which nothing is dequeued.
LEMMA ShiftSettles ==
    ASSUME NEW q \in Queue, NEW second_n \in Token, NEW third_n \in Token,
           second_n = q.third \/ second_n # Nothing,
           NEW n \in Nat, NEW m \in Nat, m <= n + 1,
           Front(q) # Nothing, SettledQueue(q, n)
    PROVE  SettledQueue(Shift(q, FALSE, second_n, third_n), m)
BY DEF SettledQueue, Shift, Front, Queue, Token, Buffer, Nothing, Ping, Pang, Pung

\* A queue that is not dequeued keeps its front, if its third slot is passed on.
LEMMA ShiftKeepsFront ==
    ASSUME NEW q \in Queue, NEW second_n \in Token, NEW third_n \in Token,
           second_n = q.third \/ q.third = Nothing
                              \/ (q.first # Nothing /\ q.second # Nothing),
           Front(q) # Nothing
    PROVE  Front(Shift(q, FALSE, second_n, third_n)) = Front(q)
BY DEF Shift, Front, Queue, Token, Buffer, Nothing, Ping, Pang, Pung

\* A clock edge moves the front of every queue that is not dequeued further down, and leaves
\* a hole below the snooper queue's third slot only where a buffer has just come back.
LEMMA ClockSettles ==
    ASSUME QueuesTypeOK,
           NEW A_done \in BOOLEAN, NEW B_acc \in BOOLEAN,
           NEW B_rej \in BOOLEAN, NEW C_done \in BOOLEAN,
           InPosition(A_done, B_acc, B_rej, C_done),
           QueuesClock(A_done, B_acc, B_rej, C_done)
    PROVE  /\ \A l, l1 \in Nat : SettledQueue(snq, l) /\ (l1 = 0 \/ (sn_sel # Nothing /\ ~A_done /\ l1 <= l + 1))
                               => SettledQueue(snq', l1)
           /\ \A m, m1 \in Nat : SettledQueue(cpuq, m) /\ (m1 = 0 \/ (cpu_sel # Nothing /\ ~B_acc /\ ~B_rej /\ m1 <= m + 1))
                               => SettledQueue(cpuq', m1)
           /\ \A n, n1 \in Nat : SettledQueue(fwdq, n) /\ (n1 = 0 \/ (fwd_sel # Nothing /\ ~C_done /\ n1 <= n + 1))
                               => SettledQueue(fwdq', n1)
           /\ snq'.third # Nothing /\ (snq'.first = Nothing \/ snq'.second = Nothing)
                 => B_rej \/ C_done
<1>1. /\ snq \in Queue /\ cpuq \in Queue /\ fwdq \in Queue
      /\ sn_sel \in Token /\ cpu_sel \in Token /\ fwd_sel \in Token /\ Nothing \in Token
      /\ snq.third \in Token /\ cpuq.third \in Token /\ fwdq.third \in Token
  BY DEF QueuesTypeOK, Queue, sn_sel, cpu_sel, fwd_sel, Front, Token
<1>2. SettledQueue(snq', 0) /\ SettledQueue(cpuq', 0) /\ SettledQueue(fwdq', 0)
  BY DEF SettledQueue
<1>3. ASSUME NEW l \in Nat, NEW l1 \in Nat, SettledQueue(snq, l),
             sn_sel # Nothing, ~A_done, l1 <= l + 1
      PROVE  SettledQueue(snq', l1)
  <2> DEFINE both == B_rej /\ C_done
             s == IF both THEN cpu_sel ELSE snq.third
             t == IF both THEN fwd_sel
                  ELSE IF B_rej THEN cpu_sel ELSE IF C_done THEN fwd_sel ELSE Nothing
  <2>1. snq' = Shift(snq, FALSE, s, t)
    BY <1>3 DEF QueuesClock, SnqueueNext
  <2>2. s \in Token /\ t \in Token /\ (s = snq.third \/ s # Nothing)
    BY <1>1 DEF InPosition, cpu_sel, Front
  <2> HIDE DEF s, t
  <2> QED BY <1>1, <1>3, <2>1, <2>2, ShiftSettles DEF sn_sel
<1>4. ASSUME NEW m \in Nat, NEW m1 \in Nat, SettledQueue(cpuq, m),
             cpu_sel # Nothing, ~B_acc, ~B_rej, m1 <= m + 1
      PROVE  SettledQueue(cpuq', m1)
  <2> DEFINE t == IF A_done THEN sn_sel ELSE Nothing
  <2>1. cpuq' = Shift(cpuq, FALSE, cpuq.third, t) /\ t \in Token
    BY <1>1, <1>4 DEF QueuesClock, CpuqueueNext
  <2> HIDE DEF t
  <2> QED BY <1>1, <1>4, <2>1, ShiftSettles DEF cpu_sel
<1>5. ASSUME NEW n \in Nat, NEW n1 \in Nat, SettledQueue(fwdq, n),
             fwd_sel # Nothing, ~C_done, n1 <= n + 1
      PROVE  SettledQueue(fwdq', n1)
  <2> DEFINE t == IF B_acc THEN cpu_sel ELSE Nothing
  <2>1. fwdq' = Shift(fwdq, FALSE, fwdq.third, t) /\ t \in Token
    BY <1>1, <1>5 DEF QueuesClock, FwdqueueNext
  <2> HIDE DEF t
  <2> QED BY <1>1, <1>5, <2>1, ShiftSettles DEF fwd_sel
<1>6. snq'.third # Nothing /\ (snq'.first = Nothing \/ snq'.second = Nothing) => B_rej \/ C_done
  BY <1>1 DEF QueuesClock, SnqueueNext, Shift, Queue, Token, Buffer, Nothing, Ping, Pang, Pung
<1>7. \A l, l1 \in Nat : SettledQueue(snq, l) /\ (l1 = 0 \/ (sn_sel # Nothing /\ ~A_done /\ l1 <= l + 1))
                          => SettledQueue(snq', l1)
  BY <1>2, <1>3, Zenon
<1>8. \A m, m1 \in Nat : SettledQueue(cpuq, m) /\ (m1 = 0 \/ (cpu_sel # Nothing /\ ~B_acc /\ ~B_rej /\ m1 <= m + 1))
                          => SettledQueue(cpuq', m1)
  BY <1>2, <1>4, Zenon
<1>9. \A n, n1 \in Nat : SettledQueue(fwdq, n) /\ (n1 = 0 \/ (fwd_sel # Nothing /\ ~C_done /\ n1 <= n + 1))
                          => SettledQueue(fwdq', n1)
  BY <1>2, <1>5, Zenon
<1> QED BY <1>6, <1>7, <1>8, <1>9

\* No agent that does not finish has its buffer switched away.
LEMMA ClockKeepsFronts ==
    ASSUME QueuesTypeOK,
           NEW A_done \in BOOLEAN, NEW B_acc \in BOOLEAN,
           NEW B_rej \in BOOLEAN, NEW C_done \in BOOLEAN,
           InPosition(A_done, B_acc, B_rej, C_done),
           QueuesClock(A_done, B_acc, B_rej, C_done)
    PROVE  /\ sn_sel # Nothing /\ ~A_done => sn_sel' = sn_sel
           /\ cpu_sel # Nothing /\ ~B_acc /\ ~B_rej => cpu_sel' = cpu_sel
           /\ fwd_sel # Nothing /\ ~C_done => fwd_sel' = fwd_sel
<1>1. /\ snq \in Queue /\ cpuq \in Queue /\ fwdq \in Queue
      /\ sn_sel \in Token /\ cpu_sel \in Token /\ fwd_sel \in Token /\ Nothing \in Token
      /\ snq.third \in Token /\ cpuq.third \in Token /\ fwdq.third \in Token
  BY DEF QueuesTypeOK, Queue, sn_sel, cpu_sel, fwd_sel, Front, Token
<1>2. ASSUME sn_sel # Nothing, ~A_done PROVE sn_sel' = sn_sel
  <2> DEFINE both == B_rej /\ C_done
             s == IF both THEN cpu_sel ELSE snq.third
             t == IF both THEN fwd_sel
                  ELSE IF B_rej THEN cpu_sel ELSE IF C_done THEN fwd_sel ELSE Nothing
  <2>1. snq' = Shift(snq, FALSE, s, t)
    BY <1>2 DEF QueuesClock, SnqueueNext
  <2>2. /\ s \in Token /\ t \in Token
        /\ s = snq.third \/ snq.third = Nothing \/ (snq.first # Nothing /\ snq.second # Nothing)
    BY <1>1 DEF InPosition
  <2> HIDE DEF s, t
  <2> QED BY <1>1, <1>2, <2>1, <2>2, ShiftKeepsFront DEF sn_sel
<1>3. ASSUME cpu_sel # Nothing, ~B_acc, ~B_rej PROVE cpu_sel' = cpu_sel
  <2> DEFINE t == IF A_done THEN sn_sel ELSE Nothing
  <2>1. cpuq' = Shift(cpuq, FALSE, cpuq.third, t) /\ t \in Token
    BY <1>1, <1>3 DEF QueuesClock, CpuqueueNext
  <2> HIDE DEF t
  <2> QED BY <1>1, <1>3, <2>1, ShiftKeepsFront DEF cpu_sel
<1>4. ASSUME fwd_sel # Nothing, ~C_done PROVE fwd_sel' = fwd_sel
  <2> DEFINE t == IF B_acc THEN cpu_sel ELSE Nothing
  <2>1. fwdq' = Shift(fwdq, FALSE, fwdq.third, t) /\ t \in Token
    BY <1>1, <1>4 DEF QueuesClock, FwdqueueNext
  <2> HIDE DEF t
  <2> QED BY <1>1, <1>4, <2>1, ShiftKeepsFront DEF fwd_sel
<1> QED BY <1>2, <1>3, <1>4

-----------------------------------------------------------------------------

\* The laws of concatenation, for lists of buffers.
LEMMA Lists ==
    /\ \A x \in Token : OneJob(x) \in Seq(Buffer)
    /\ \A s, t \in Seq(Buffer) : s \o t \in Seq(Buffer)
    /\ \A s, t, u \in Seq(Buffer) : (s \o t) \o u = s \o (t \o u)
    /\ \A s \in Seq(Buffer) : s \o <<>> = s /\ <<>> \o s = s
    /\ \A b \in Buffer, s \in Seq(Buffer) :
          <<b>> \o s # <<>> /\ Head(<<b>> \o s) = b /\ Tail(<<b>> \o s) = s
<1>1. \A x \in Token : OneJob(x) \in Seq(Buffer)
  BY DEF OneJob, Token
<1>2. \A s, t \in Seq(Buffer) : s \o t \in Seq(Buffer)
  BY ConcatProperties
<1>3. \A s, t, u \in Seq(Buffer) : (s \o t) \o u = s \o (t \o u)
  BY ConcatAssociative
<1>4. \A s \in Seq(Buffer) : s \o <<>> = s /\ <<>> \o s = s
  BY ConcatEmptySeq
<1>5. ASSUME NEW b \in Buffer, NEW s \in Seq(Buffer)
      PROVE  <<b>> \o s # <<>> /\ Head(<<b>> \o s) = b /\ Tail(<<b>> \o s) = s
  BY <1>5
<1> QED
  BY <1>1, <1>2, <1>3, <1>4, <1>5

\* A queue is a list, its first slot the head.
LEMMA JobsAreAList ==
    ASSUME NEW q \in Queue
    PROVE  /\ JobsOf(q) \in Seq(Buffer)
           /\ OneJob(q.first) \in Seq(Buffer) /\ OneJob(q.second) \in Seq(Buffer)
           /\ OneJob(q.third) \in Seq(Buffer)
           /\ q.first # Nothing => /\ JobsOf(q) # <<>> /\ Head(JobsOf(q)) = q.first
                                   /\ Tail(JobsOf(q)) = OneJob(q.second) \o OneJob(q.third)
<1>1. q.first \in Token /\ q.second \in Token /\ q.third \in Token
  BY DEF Queue
<1>2. /\ OneJob(q.first) \in Seq(Buffer) /\ OneJob(q.second) \in Seq(Buffer)
      /\ OneJob(q.third) \in Seq(Buffer) /\ OneJob(q.second) \o OneJob(q.third) \in Seq(Buffer)
  BY <1>1, Lists
<1>3. JobsOf(q) = OneJob(q.first) \o (OneJob(q.second) \o OneJob(q.third))
  BY <1>2, Lists DEF JobsOf
<1>4. JobsOf(q) \in Seq(Buffer)
  BY <1>2, <1>3, Lists
<1>5. ASSUME q.first # Nothing
      PROVE  /\ JobsOf(q) # <<>> /\ Head(JobsOf(q)) = q.first
             /\ Tail(JobsOf(q)) = OneJob(q.second) \o OneJob(q.third)
  <2> DEFINE R == OneJob(q.second) \o OneJob(q.third)
  <2>1. q.first \in Buffer /\ OneJob(q.first) = <<q.first>>
    BY <1>1, <1>5 DEF Token, OneJob
  <2>2. JobsOf(q) = <<q.first>> \o R /\ R \in Seq(Buffer)
    BY <2>1, <1>2, <1>3
  <2> HIDE DEF R
  <2>3. <<q.first>> \o R # <<>> /\ Head(<<q.first>> \o R) = q.first
        /\ Tail(<<q.first>> \o R) = R
    BY <2>1, <2>2, Lists
  <2>4. JobsOf(q) # <<>> /\ Head(JobsOf(q)) = q.first /\ Tail(JobsOf(q)) = R
    BY <2>2, <2>3, Zenon
  <2> QED
    BY <2>4 DEF R
<1> QED
  BY <1>2, <1>4, <1>5

\* A queue that takes at most one job in.
LEMMA OneComesIn ==
    ASSUME NEW q \in Queue, NEW x \in Token, NEW deq \in BOOLEAN,
           deq => q.first # Nothing,
           x # Nothing => deq \/ q.first = Nothing \/ q.second = Nothing \/ q.third = Nothing
    PROVE  JobsOf(Shift(q, deq, q.third, x)) = Remaining(q, deq) \o OneJob(x)
<1> DEFINE F == OneJob(q.first)
           S == OneJob(q.second)
           T == OneJob(q.third)
           X == OneJob(x)
<1>1. F \in Seq(Buffer) /\ S \in Seq(Buffer) /\ T \in Seq(Buffer) /\ X \in Seq(Buffer)
  BY JobsAreAList, Lists
<1>2. OneJob(Nothing) = <<>>
  BY DEF OneJob
<1>3. CASE deq
  <2>1. Shift(q, deq, q.third, x) = [first |-> q.second, second |-> q.third, third |-> x]
    BY <1>3 DEF Shift
  <2>2. JobsOf(Shift(q, deq, q.third, x)) = (S \o T) \o X
    BY <2>1 DEF JobsOf
  <2>3. Remaining(q, deq) = S \o T
    BY <1>3, JobsAreAList DEF Remaining
  <2> QED
    BY <2>2, <2>3
<1>4. CASE ~deq /\ q.first = Nothing
  <2>1. Shift(q, deq, q.third, x) = [first |-> q.second, second |-> q.third, third |-> x]
    BY <1>4 DEF Shift
  <2>2. JobsOf(Shift(q, deq, q.third, x)) = (S \o T) \o X
    BY <2>1 DEF JobsOf
  <2>3. Remaining(q, deq) = (<<>> \o S) \o T
    BY <1>4, <1>2 DEF Remaining, JobsOf
  <2> QED
    BY <2>2, <2>3, <1>1, Lists
<1>5. CASE ~deq /\ q.first # Nothing /\ q.second = Nothing
  <2>1. Shift(q, deq, q.third, x) = [first |-> q.first, second |-> q.third, third |-> x]
    BY <1>5 DEF Shift
  <2>2. JobsOf(Shift(q, deq, q.third, x)) = (F \o T) \o X
    BY <2>1 DEF JobsOf
  <2>3. Remaining(q, deq) = (F \o <<>>) \o T
    BY <1>5, <1>2 DEF Remaining, JobsOf
  <2> QED
    BY <2>2, <2>3, <1>1, Lists
<1>6. CASE ~deq /\ q.first # Nothing /\ q.second # Nothing /\ q.third = Nothing
  <2>1. Shift(q, deq, q.third, x) = [first |-> q.first, second |-> q.second, third |-> x]
    BY <1>6 DEF Shift
  <2>2. JobsOf(Shift(q, deq, q.third, x)) = (F \o S) \o X
    BY <2>1 DEF JobsOf
  <2>3. Remaining(q, deq) = (F \o S) \o <<>>
    BY <1>6, <1>2 DEF Remaining, JobsOf
  <2> QED
    BY <2>2, <2>3, <1>1, Lists
<1>7. CASE ~deq /\ q.first # Nothing /\ q.second # Nothing /\ q.third # Nothing
  <2>1. Shift(q, deq, q.third, x) = [first |-> q.first, second |-> q.second, third |-> q.third]
        /\ x = Nothing
    BY <1>7 DEF Shift
  <2>2. JobsOf(Shift(q, deq, q.third, x)) = JobsOf(q)
    BY <2>1 DEF JobsOf
  <2>3. JobsOf(q) \o <<>> = JobsOf(q)
    BY JobsAreAList, Lists
  <2> QED
    BY <2>1, <2>2, <2>3, <1>2, <1>7 DEF Remaining
<1> QED
  BY <1>3, <1>4, <1>5, <1>6, <1>7

\* The snooper queue takes two jobs in, if its third slot is empty and another.
LEMMA TwoComeIn ==
    ASSUME NEW q \in Queue, NEW x \in Buffer, NEW y \in Buffer, NEW deq \in BOOLEAN,
           deq => q.first # Nothing,
           q.third = Nothing,
           deq \/ q.first = Nothing \/ q.second = Nothing
    PROVE  JobsOf(Shift(q, deq, x, y)) = (Remaining(q, deq) \o OneJob(x)) \o OneJob(y)
<1> DEFINE F == OneJob(q.first)
           S == OneJob(q.second)
<1>1. /\ F \in Seq(Buffer) /\ S \in Seq(Buffer)
      /\ OneJob(x) \in Seq(Buffer) /\ OneJob(y) \in Seq(Buffer)
  BY JobsAreAList, Lists DEF Token
<1>2. OneJob(Nothing) = <<>>
  BY DEF OneJob
<1>3. CASE deq
  <2>1. Shift(q, deq, x, y) = [first |-> q.second, second |-> x, third |-> y]
    BY <1>3 DEF Shift
  <2>2. JobsOf(Shift(q, deq, x, y)) = (S \o OneJob(x)) \o OneJob(y)
    BY <2>1 DEF JobsOf
  <2>3. Remaining(q, deq) = S \o <<>>
    BY <1>3, <1>2, JobsAreAList DEF Remaining
  <2> QED
    BY <2>2, <2>3, <1>1, Lists
<1>4. CASE ~deq /\ q.first = Nothing
  <2>1. Shift(q, deq, x, y) = [first |-> q.second, second |-> x, third |-> y]
    BY <1>4 DEF Shift
  <2>2. JobsOf(Shift(q, deq, x, y)) = (S \o OneJob(x)) \o OneJob(y)
    BY <2>1 DEF JobsOf
  <2>3. Remaining(q, deq) = (<<>> \o S) \o <<>>
    BY <1>4, <1>2 DEF Remaining, JobsOf
  <2> QED
    BY <2>2, <2>3, <1>1, Lists
<1>5. CASE ~deq /\ q.first # Nothing /\ q.second = Nothing
  <2>1. Shift(q, deq, x, y) = [first |-> q.first, second |-> x, third |-> y]
    BY <1>5 DEF Shift
  <2>2. JobsOf(Shift(q, deq, x, y)) = (F \o OneJob(x)) \o OneJob(y)
    BY <2>1 DEF JobsOf
  <2>3. Remaining(q, deq) = (F \o <<>>) \o <<>>
    BY <1>5, <1>2 DEF Remaining, JobsOf
  <2> QED
    BY <2>2, <2>3, <1>1, Lists
<1> QED
  BY <1>3, <1>4, <1>5

LEMMA GivenIsTheFront ==
    ASSUME NEW q \in Queue, NEW finished \in BOOLEAN, finished => q.first # Nothing
    PROVE  /\ Given(q, finished) = OneJob(IF finished THEN Front(q) ELSE Nothing)
           /\ Given(q, finished) \in Seq(Buffer)
           /\ Remaining(q, finished) \in Seq(Buffer)
           /\ finished => Front(q) \in Buffer /\ JobsOf(q) # <<>>
<1>1. CASE finished
  <2>1. Front(q) = q.first /\ q.first \in Buffer /\ q.first \in Token
    BY <1>1 DEF Front, Queue, Token
  <2>2. Head(JobsOf(q)) = q.first /\ JobsOf(q) # <<>>
        /\ Tail(JobsOf(q)) = OneJob(q.second) \o OneJob(q.third)
    BY <1>1, JobsAreAList
  <2>3. OneJob(q.first) = <<q.first>>
    BY <1>1 DEF OneJob
  <2>4. Given(q, finished) = OneJob(q.first)
    BY <1>1, <2>2, <2>3 DEF Given
  <2>5. Remaining(q, finished) \in Seq(Buffer)
    BY <1>1, <2>2, JobsAreAList, Lists DEF Remaining
  <2> QED
    BY <1>1, <2>1, <2>2, <2>4, <2>5, Lists
<1>2. CASE ~finished
  <2>1. Given(q, finished) = <<>> /\ OneJob(Nothing) = <<>> /\ <<>> \in Seq(Buffer)
    BY <1>2 DEF Given, OneJob
  <2> QED
    BY <1>2, <2>1, JobsAreAList DEF Remaining
<1> QED
  BY <1>1, <1>2

\* The lists after a clock edge: the jobs that are finished leave, and go to the end of the
\* next agent's list.
LEMMA ClockJobs ==
    ASSUME QueuesTypeOK, \A b \in Buffer : Total(b) = 1,
           NEW A_done \in BOOLEAN, NEW B_acc \in BOOLEAN,
           NEW B_rej \in BOOLEAN, NEW C_done \in BOOLEAN,
           InPosition(A_done, B_acc, B_rej, C_done),
           QueuesClock(A_done, B_acc, B_rej, C_done)
    PROVE  /\ JobsOf(cpuq') = Remaining(cpuq, B_acc \/ B_rej) \o Given(snq, A_done)
           /\ JobsOf(fwdq') = Remaining(fwdq, C_done) \o Given(cpuq, B_acc)
           /\ JobsOf(snq') = (Remaining(snq, A_done) \o Given(cpuq, B_rej)) \o Given(fwdq, C_done)
           /\ A_done => JobsOf(snq) # <<>>
           /\ B_acc \/ B_rej => JobsOf(cpuq) # <<>>
           /\ C_done => JobsOf(fwdq) # <<>>
<1>1. /\ snq \in Queue /\ cpuq \in Queue /\ fwdq \in Queue
  BY DEF QueuesTypeOK
<1>2. /\ A_done => snq.first # Nothing
      /\ B_acc \/ B_rej => cpuq.first # Nothing
      /\ C_done => fwdq.first # Nothing
      /\ ~(B_acc /\ B_rej)
  BY DEF InPosition
<1>3. /\ A_done => HasHole(cpuq)
      /\ B_acc => HasHole(fwdq)
      /\ B_rej \/ C_done => HasHole(snq)
      /\ B_rej /\ C_done => /\ snq.third = Nothing
                            /\ A_done \/ snq.first = Nothing \/ snq.second = Nothing
  BY ClockFits
<1>4. QueuesClock(A_done, B_acc, B_rej, C_done)
  OBVIOUS
<1>5. /\ sn_sel \in Token /\ cpu_sel \in Token /\ fwd_sel \in Token /\ Nothing \in Token
  BY <1>1 DEF Queue, sn_sel, cpu_sel, fwd_sel, Front, Token
<1> DEFINE sn == OneJob(IF A_done THEN sn_sel ELSE Nothing)
           rej == OneJob(IF B_rej THEN cpu_sel ELSE Nothing)
           acc == OneJob(IF B_acc THEN cpu_sel ELSE Nothing)
           fwd == OneJob(IF C_done THEN fwd_sel ELSE Nothing)
<1>6. /\ sn = Given(snq, A_done) /\ acc = Given(cpuq, B_acc) /\ rej = Given(cpuq, B_rej)
      /\ fwd = Given(fwdq, C_done)
  BY <1>1, <1>2, GivenIsTheFront DEF sn_sel, cpu_sel, fwd_sel
<1>7. /\ sn \in Seq(Buffer) /\ acc \in Seq(Buffer) /\ rej \in Seq(Buffer) /\ fwd \in Seq(Buffer)
      /\ Remaining(snq, A_done) \in Seq(Buffer)
  BY <1>1, <1>2, <1>5, Lists, GivenIsTheFront
<1>8. /\ ~B_rej => rej = <<>>
      /\ ~C_done => fwd = <<>>
  BY DEF OneJob
<1>9. JobsOf(cpuq') = Remaining(cpuq, B_acc \/ B_rej) \o sn
  <2> DEFINE x == IF A_done THEN sn_sel ELSE Nothing
  <2>1. /\ cpuq' = Shift(cpuq, B_acc \/ B_rej, cpuq.third, x)
        /\ x \in Token /\ (x # Nothing => HasHole(cpuq))
    BY <1>3, <1>4, <1>5 DEF QueuesClock, CpuqueueNext
  <2> HIDE DEF x
  <2>2. JobsOf(cpuq') = Remaining(cpuq, B_acc \/ B_rej) \o OneJob(x)
    BY <2>1, <1>1, <1>2, OneComesIn DEF HasHole
  <2> QED
    BY <2>2 DEF x
<1>10. JobsOf(fwdq') = Remaining(fwdq, C_done) \o acc
  <2> DEFINE x == IF B_acc THEN cpu_sel ELSE Nothing
  <2>1. /\ fwdq' = Shift(fwdq, C_done, fwdq.third, x)
        /\ x \in Token /\ (x # Nothing => HasHole(fwdq))
    BY <1>3, <1>4, <1>5 DEF QueuesClock, FwdqueueNext
  <2> HIDE DEF x
  <2>2. JobsOf(fwdq') = Remaining(fwdq, C_done) \o OneJob(x)
    BY <2>1, <1>1, <1>2, OneComesIn DEF HasHole
  <2> QED
    BY <2>2 DEF x
<1>11. JobsOf(snq') = (Remaining(snq, A_done) \o rej) \o fwd
  <2>1. CASE B_rej /\ C_done
    <3>1. snq' = Shift(snq, A_done, cpu_sel, fwd_sel)
      BY <2>1, <1>4 DEF QueuesClock, SnqueueNext
    <3>2. cpu_sel \in Buffer /\ fwd_sel \in Buffer
      BY <2>1, <1>1, <1>2, GivenIsTheFront DEF cpu_sel, fwd_sel
    <3>3. JobsOf(snq') = (Remaining(snq, A_done) \o OneJob(cpu_sel)) \o OneJob(fwd_sel)
      BY <3>1, <3>2, <2>1, <1>1, <1>2, <1>3, TwoComeIn
    <3> QED
      BY <3>3, <2>1
  <2>2. CASE ~(B_rej /\ C_done)
    <3> DEFINE x == IF B_rej THEN cpu_sel ELSE IF C_done THEN fwd_sel ELSE Nothing
    <3>1. /\ snq' = Shift(snq, A_done, snq.third, x)
          /\ x \in Token /\ (x # Nothing => HasHole(snq))
      BY <2>2, <1>3, <1>4, <1>5 DEF QueuesClock, SnqueueNext
    <3>2. CASE B_rej
      <4>1. OneJob(x) = rej /\ fwd = <<>>
        BY <3>2, <2>2, <1>8
      <4> HIDE DEF x, rej, fwd
      <4>2. JobsOf(snq') = Remaining(snq, A_done) \o OneJob(x)
        BY <3>1, <1>1, <1>2, OneComesIn DEF HasHole
      <4> QED
        BY <4>1, <4>2, <1>7, Lists
    <3>3. CASE ~B_rej
      <4>1. OneJob(x) = fwd /\ rej = <<>>
        BY <3>3, <2>2, <1>8
      <4> HIDE DEF x, rej, fwd
      <4>2. JobsOf(snq') = Remaining(snq, A_done) \o OneJob(x)
        BY <3>1, <1>1, <1>2, OneComesIn DEF HasHole
      <4> QED
        BY <4>1, <4>2, <1>7, Lists
    <3> QED
      BY <3>2, <3>3
  <2> QED
    BY <2>1, <2>2
<1> HIDE DEF sn, rej, acc, fwd
<1>12. /\ A_done => JobsOf(snq) # <<>>
       /\ B_acc \/ B_rej => JobsOf(cpuq) # <<>>
       /\ C_done => JobsOf(fwdq) # <<>>
  BY <1>1, <1>2, GivenIsTheFront
<1> QED
  BY <1>6, <1>9, <1>10, <1>11, <1>12

\* At the start and after a reset the snooper has ping, pang and pung to work on.
LEMMA StartingJobs ==
    /\ JobsOf(FullQueue) = <<Ping, Pang, Pung>>
    /\ JobsOf(EmptyQueue) = <<>>
<1>1. /\ OneJob(Ping) = <<Ping>> /\ OneJob(Pang) = <<Pang>> /\ OneJob(Pung) = <<Pung>>
      /\ OneJob(Nothing) = <<>>
  BY DEF OneJob, Ping, Pang, Pung, Nothing
<1>2. JobsOf(FullQueue) = (<<Ping>> \o <<Pang>>) \o <<Pung>>
  BY <1>1 DEF JobsOf, FullQueue
<1>3. JobsOf(EmptyQueue) = (<<>> \o <<>>) \o <<>>
  BY <1>1 DEF JobsOf, EmptyQueue
<1>4. (<<Ping>> \o <<Pang>>) \o <<Pung>> = <<Ping, Pang, Pung>>
  <2> DEFINE u == (<<Ping>> \o <<Pang>>) \o <<Pung>>
             v == <<Ping, Pang, Pung>>
  <2>1. <<Ping>> \in Seq(Buffer) /\ <<Pang>> \in Seq(Buffer) /\ <<Pung>> \in Seq(Buffer)
        /\ v \in Seq(Buffer)
    BY DEF Buffer
  <2>2. u \in Seq(Buffer) /\ Len(u) = 3 /\ u[1] = Ping /\ u[2] = Pang /\ u[3] = Pung
    BY <2>1
  <2>3. Len(v) = 3 /\ v[1] = Ping /\ v[2] = Pang /\ v[3] = Pung
    OBVIOUS
  <2> HIDE DEF u, v
  <2>4. \A i \in 1..3 : u[i] = v[i]
    BY <2>2, <2>3
  <2>5. u = v
    BY <2>1, <2>2, <2>3, <2>4, SeqEqual
  <2> QED
    BY <2>5 DEF u, v
<1>5. (<<>> \o <<>>) \o <<>> = <<>>
  OBVIOUS
<1> QED
  BY <1>2, <1>3, <1>4, <1>5

-----------------------------------------------------------------------------

\* No two agents have the same buffer, and each has its own in its queue.
LEMMA FrontsDiffer ==
    ASSUME QueuesTypeOK, \A b \in Buffer : Total(b) = 1
    PROVE  /\ sn_sel \in Token /\ cpu_sel \in Token /\ fwd_sel \in Token
           /\ sn_sel = cpu_sel => sn_sel = Nothing
           /\ sn_sel = fwd_sel => sn_sel = Nothing
           /\ cpu_sel = fwd_sel => cpu_sel = Nothing
<1>1. /\ sn_sel \in Token /\ cpu_sel \in Token /\ fwd_sel \in Token
      /\ sn_sel # Nothing => InQueue(snq, sn_sel) >= 1
      /\ cpu_sel # Nothing => InQueue(cpuq, cpu_sel) >= 1
      /\ fwd_sel # Nothing => InQueue(fwdq, fwd_sel) >= 1
  BY DEF QueuesTypeOK, Queue, Token, sn_sel, cpu_sel, fwd_sel, Front, InQueue, Count
<1>2. \A b \in Buffer : /\ InQueue(snq, b) \in Nat /\ InQueue(cpuq, b) \in Nat /\ InQueue(fwdq, b) \in Nat
                        /\ InQueue(snq, b) + InQueue(cpuq, b) + InQueue(fwdq, b) = 1
  BY DEF Total, InQueue, Count
<1> QED
  BY <1>1, <1>2 DEF Token

\* The list of a queue: its first element is the front, and no buffer is in it twice.
LEMMA JobsAreDistinct ==
    ASSUME NEW q \in Queue, \A b \in Buffer : InQueue(q, b) <= 1
    PROVE  /\ Len(JobsOf(q)) \in Nat
           /\ \A i \in 1..Len(JobsOf(q)) : /\ JobsOf(q)[i] \in Buffer
                                           /\ InQueue(q, JobsOf(q)[i]) = 1
           /\ \A i, j \in 1..Len(JobsOf(q)) : JobsOf(q)[i] = JobsOf(q)[j] => i = j
           /\ Front(q) = Nothing => JobsOf(q) = <<>>
           /\ Front(q) # Nothing => Len(JobsOf(q)) >= 1 /\ JobsOf(q)[1] = Front(q)
<1> DEFINE x == q.first
           y == q.second
           z == q.third
<1>1. x \in Token /\ y \in Token /\ z \in Token
  BY DEF Queue
<1>2. /\ x # Nothing => x # y /\ x # z
      /\ y # Nothing => y # z
      /\ x # Nothing => x \in Buffer /\ InQueue(q, x) = 1
      /\ y # Nothing => y \in Buffer /\ InQueue(q, y) = 1
      /\ z # Nothing => z \in Buffer /\ InQueue(q, z) = 1
  BY <1>1 DEF InQueue, Count, Token
<1>3. \E n \in 0..3 : /\ Len(JobsOf(q)) = n
                      /\ \A i \in 1..n : JobsOf(q)[i] \in {x, y, z} \ {Nothing}
                      /\ n >= 1 <=> Front(q) # Nothing
                      /\ n >= 1 => JobsOf(q)[1] = Front(q)
                      /\ \A i, j \in 1..n : JobsOf(q)[i] = JobsOf(q)[j] => i = j
  <2>1. CASE x = Nothing /\ y = Nothing /\ z = Nothing
    BY <1>2, <2>1 DEF JobsOf, OneJob, Front
  <2>2. CASE x # Nothing /\ y = Nothing /\ z = Nothing
    BY <1>2, <2>2 DEF JobsOf, OneJob, Front
  <2>3. CASE x = Nothing /\ y # Nothing /\ z = Nothing
    BY <1>2, <2>3 DEF JobsOf, OneJob, Front
  <2>4. CASE x # Nothing /\ y # Nothing /\ z = Nothing
    BY <1>2, <2>4 DEF JobsOf, OneJob, Front
  <2>5. CASE x = Nothing /\ y = Nothing /\ z # Nothing
    BY <1>2, <2>5 DEF JobsOf, OneJob, Front
  <2>6. CASE x # Nothing /\ y = Nothing /\ z # Nothing
    BY <1>2, <2>6 DEF JobsOf, OneJob, Front
  <2>7. CASE x = Nothing /\ y # Nothing /\ z # Nothing
    BY <1>2, <2>7 DEF JobsOf, OneJob, Front
  <2>8. CASE x # Nothing /\ y # Nothing /\ z # Nothing
    BY <1>2, <2>8 DEF JobsOf, OneJob, Front
  <2> QED
    BY <2>1, <2>2, <2>3, <2>4, <2>5, <2>6, <2>7, <2>8
<1>4. JobsOf(q) \in Seq(Buffer)
  BY JobsAreAList
<1>5. Len(JobsOf(q)) = 0 => JobsOf(q) = <<>>
  BY <1>4
<1> QED
  BY <1>2, <1>3, <1>5

\* A buffer in the snooper queue after a clock edge was there before, or comes back.
LEMMA BackToTheSnooper ==
    ASSUME QueuesTypeOK, \A b \in Buffer : Total(b) = 1,
           NEW A_done \in BOOLEAN, NEW B_acc \in BOOLEAN,
           NEW B_rej \in BOOLEAN, NEW C_done \in BOOLEAN,
           InPosition(A_done, B_acc, B_rej, C_done),
           QueuesClock(A_done, B_acc, B_rej, C_done),
           NEW b \in Buffer, InQueue(snq', b) = 1
    PROVE  \/ InQueue(snq, b) = 1 /\ ~(A_done /\ b = sn_sel)
           \/ B_rej /\ b = cpu_sel
           \/ C_done /\ b = fwd_sel
<1>1. /\ snq \in Queue /\ sn_sel \in Token /\ cpu_sel \in Token /\ fwd_sel \in Token
      /\ A_done => sn_sel = snq.first
  BY DEF QueuesTypeOK, Queue, Token, sn_sel, cpu_sel, fwd_sel, Front, InPosition
<1>2. InQueue(snq', b) = InQueue(snq, b) - (IF A_done THEN Count(snq.first, b) ELSE 0)
                         + (IF B_rej THEN Count(cpu_sel, b) ELSE 0)
                         + (IF C_done THEN Count(fwd_sel, b) ELSE 0)
  BY <1>1, ClockFits, SnqueueCounts DEF QueuesClock, HasHole, InPosition
<1>3. InQueue(snq, b) \in 0..1
  BY DEF Total, InQueue, Count
<1> QED
  BY <1>1, <1>2, <1>3 DEF Count
=============================================================================
