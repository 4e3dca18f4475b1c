---------------------------- MODULE ForwardedLink ----------------------------
(****************************************************************************)
(* The forwarder between a memory that gives it one job after another and a *)
(* sink that is ready when it likes.  A job is a packet of 1 to MaxBeats    *)
(* beats in a buffer; the memory takes it away after the done pulse, and    *)
(* may give the next job in the next cycle.                                 *)
(****************************************************************************)
EXTENDS Forwarder

CONSTANTS MinBeats, MaxBeats, JobIds     \* jobs are numbered modulo JobIds

ASSUME LinkAssumption == /\ MinBeats \in Nat \ {0}
                         /\ MaxBeats \in MinBeats..2^AddrWidth
                         /\ JobIds \in Nat \ {0}

VARIABLES TREADY,                 \* the sink's ready line
          ready, len, rd_data,    \* the memory's wires to the forwarder
          job,                    \* number of the present job
          taken,                  \* history: beats of the job taken by the sink
          age                     \* history: cycles the present job was visible

env == <<TREADY, ready, len, rd_data, job, taken, age>>
vars == <<pessimistic, TVALID, TLAST, forwarder_rd_addr, TDATA_r, TLAST_r, TREADY_r,
          ready_for_forwarder_r, len_to_forwarder_r, env>>

MinJob == 2                       \* what the dispatcher needs of its agents

Beats == [job : 0..JobIds-1, n : BeatAddr]
Lengths == {2 * (n - 1) : n \in MinBeats..MaxBeats}    \* of packet_ram's len

done == ForwarderDone(TREADY)
TDATA_out == TDATA(rd_data)

TypeOK == /\ pessimistic \in Builds /\ ForwarderTypeOK(Beats \cup {Zero})
          /\ TREADY \in BOOLEAN /\ ready \in BOOLEAN
          /\ len \in Lengths /\ rd_data \in Beats \cup {Zero}
          /\ job \in 0..JobIds-1 /\ taken \in 0..MaxBeats /\ age \in 0..MinJob

Init == /\ pessimistic \in Builds
        /\ ForwarderInit
        /\ TREADY \in BOOLEAN /\ ready \in BOOLEAN
        /\ len \in Lengths /\ rd_data = Zero
        /\ job = 0 /\ taken = 0 /\ age = 0

\* The memory: a synchronous read, and the next job when this one is done.
Memory ==
    IF done \/ ~ready
      THEN /\ ready' \in BOOLEAN /\ len' \in Lengths
           /\ job' = (IF done THEN (job + 1) % JobIds ELSE job)
           /\ rd_data' = Zero /\ age' = 0
      ELSE /\ UNCHANGED <<ready, len, job>>
           /\ rd_data' = IF RdEn(ready, len, TREADY)
                           THEN [job |-> job, n |-> forwarder_rd_addr] ELSE rd_data
           /\ age' = IF age < MinJob THEN age + 1 ELSE age

Next == /\ ForwarderClock(ready, len, rd_data, TREADY)
        /\ Memory
        /\ TREADY' \in BOOLEAN /\ UNCHANGED pessimistic
        /\ taken' = IF done THEN 0 ELSE IF TVALID /\ TREADY THEN taken + 1 ELSE taken

Spec == Init /\ [][Next]_vars

\* The clock runs.
FairSpec == Spec /\ WF_vars(Next)

-----------------------------------------------------------------------------

\* The bus carries the beats of the job's packet, each once and in order, TLAST
\* with the last of them and with no other; nothing is sent without a job.
SendsThePacket ==
    TVALID => /\ ready
              /\ TDATA_out = [job |-> job, n |-> taken]
              /\ TLAST <=> taken = len \div 2

\* AXI Stream: a beat that was offered and not taken is offered again, with the
\* same data and the same TLAST ("hold the outputs constant until the slave is
\* ready", axistream_forwarder.v).
HoldsTheBeat ==
    [][TVALID /\ ~TREADY => TVALID' /\ TDATA_out' = TDATA_out /\ TLAST' = TLAST]_vars

\* The forwarder gives the dispatcher the time it needs: a job (of two beats or more
\* without the delay of PESSIMISTIC) has been visible for MinJob cycles before the
\* cycle in which done is pulsed.
KeepsJobLongEnough == done => ready /\ (pessimistic \/ len # 0 => age >= MinJob)

\* If the sink is ready again and again, every job is finished.
JobFinishes == []<>TREADY => [](ready => <>done)
=============================================================================
