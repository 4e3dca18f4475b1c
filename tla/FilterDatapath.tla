--------------------------- MODULE FilterDatapath ---------------------------
(****************************************************************************)
(* The data path of one packet filter: a bus, the snooper that copies its   *)
(* packets, the packet memory, the CPU that judges them and the forwarder   *)
(* that sends the accepted ones to a sink (axistream_packetfilt.v and       *)
(* bpfvm.v with one VM).  One step is one clock cycle.                      *)
(*                                                                          *)
(* Of the CPU only its memory interface is kept: while it has a packet it   *)
(* reads anywhere in it, and after at least MinVerdict cycles accepts or    *)
(* rejects it.                                                              *)
(****************************************************************************)
EXTENDS AxiSource, Snooper, PacketMem, Forwarder

CONSTANTS MinVerdict,             \* cycles the CPU needs before its verdict
          CpuReads,               \* the port addresses it reads, for each build
          PacketBeats,            \* the lengths of packets, for each build
          StopWhen                \* when the host stops the filter: "never", only
                                  \* while it is "quiet", or at "any" time

ASSUME DatapathAssumption == /\ MinVerdict \in Nat
                             /\ CpuReads \in [BOOLEAN -> SUBSET PortAddr]
                             /\ PacketBeats \in [BOOLEAN -> SUBSET Nat]
                             /\ \A n \in PacketBeats[TRUE] : n >= 2
                             /\ \A n \in PacketBeats[FALSE] : n >= 3
                             /\ StopWhen \in {"never", "quiet", "any"}

VARIABLES cpu_age,                \* cycles the CPU's present job was visible
          copying,                \* history: beats of the packet being copied
          waiting,                \* history: copied packets the CPU has not judged
          accepted,               \* history: accepted packets not yet delivered
          taken                   \* history: beats of accepted[1] taken by the sink

history == <<copying, waiting, accepted, taken>>
vars == <<pessimistic, pkt, beats, beat, offered, need_to_wait, addr, mem_ready_r, snq, cpuq, fwdq, ram,
          TVALID, TLAST, forwarder_rd_addr, TDATA_r, TLAST_r, TREADY_r,
          ready_for_forwarder_r, len_to_forwarder_r, cpu_age, history>>

\* The agents' output wires as they reach the packet memory: the enable lines of
\* parallel_packetfilts.v mask them, which for one VM follow its ready lines.  (In the
\* cycle after a stop the saved forwarder enable is still high without a job; its done
\* pulse then meets the select line 0 and a full snooper queue, and changes nothing.)
SnooperWires(bus) ==
    [addr |-> addr, data |-> TDATA_in,
     wr_en |-> WrEn(bus, ready_for_snooper) /\ ready_for_snooper,
     done |-> SnooperDone(bus, ready_for_snooper) /\ ready_for_snooper]

fwdIn == OutputTo(fwd_sel)

ForwarderWires(TREADY) ==
    [addr |-> forwarder_rd_addr,
     rd_en |-> RdEn(ready_for_forwarder, fwdIn.len, TREADY) /\ ready_for_forwarder,
     done |-> ForwarderDone(TREADY) /\ ready_for_forwarder]

TDATA_out == TDATA(fwdIn.do)

\* The CPU is idle while it has no packet; otherwise it may read or give a verdict.
Idle == [addr |-> 0, rd_en |-> FALSE, acc |-> FALSE, rej |-> FALSE]
CpuMayDrive ==
    {Idle} \cup
    (IF ready_for_cpu THEN {[Idle EXCEPT !.addr = a, !.rd_en = TRUE] : a \in CpuReads[pessimistic]} ELSE {})
    \cup (IF ready_for_cpu /\ cpu_age >= MinVerdict
            THEN {[Idle EXCEPT !.acc = v, !.rej = ~v] : v \in BOOLEAN} ELSE {})

TypeOK == /\ SourceTypeOK /\ SnooperTypeOK /\ MemTypeOK
          /\ ForwarderTypeOK(HalfBeats \X HalfBeats \cup {Zero})
          /\ cpu_age \in 0..MinVerdict

\* Packets keep the snooper busy for the two cycles the dispatcher needs
\* (KeepsJobLongEnough of SnoopedBus).
LongEnough == beats \in PacketBeats[pessimistic]

Init == /\ pessimistic \in Builds
        /\ SourceInit /\ LongEnough /\ SnooperInit /\ MemInit /\ ForwarderInit
        /\ cpu_age = 0
        /\ copying = <<>> /\ waiting = <<>> /\ accepted = <<>> /\ taken = 0

Dequeue(s, finished) == IF finished /\ s # <<>> THEN Tail(s) ELSE s

Oldest(s) == IF s = <<>> THEN <<>> ELSE <<s[1]>>

History(rst, sn, cpu, fwd, TREADY) ==
    LET copied == IF sn.wr_en THEN Append(copying, TDATA_in) ELSE copying
    IN /\ copying' = IF sn.done THEN <<>> ELSE copied
       /\ waiting' = IF rst THEN <<>>
                     ELSE Dequeue(waiting, cpu.acc \/ cpu.rej)
                            \o (IF sn.done THEN <<copied>> ELSE <<>>)
       /\ accepted' = IF rst THEN <<>>
                      ELSE Dequeue(accepted, fwd.done)
                             \o (IF cpu.acc THEN Oldest(waiting) ELSE <<>>)
       /\ taken' = IF rst \/ fwd.done THEN 0
                   ELSE IF TVALID /\ TREADY THEN taken + 1 ELSE taken

\* One clock cycle; rst is !axi_aresetn || !control_start, TREADY the sink's line.
Clock(rst, bus, cpu, TREADY) ==
    LET sn  == SnooperWires(bus)
        fwd == ForwarderWires(TREADY)
    IN /\ UNCHANGED pessimistic
       /\ SourceClock(bus) /\ LongEnough'
       /\ SnooperClock(bus, ready_for_snooper)
       /\ MemClock(rst, sn, cpu, fwd)
       /\ ForwarderClock(ready_for_forwarder, fwdIn.len, fwdIn.do, TREADY)
       /\ cpu_age' = IF rst \/ ~ready_for_cpu \/ cpu.acc \/ cpu.rej THEN 0
                     ELSE IF cpu_age < MinVerdict THEN cpu_age + 1 ELSE cpu_age
       /\ History(rst, sn, cpu, fwd, TREADY)

Running == \E bus \in BusWires, cpu \in CpuMayDrive, TREADY \in BOOLEAN :
              MayCarry(bus) /\ Clock(FALSE, bus, cpu, TREADY)

\* No packet is in the filter, or half copied.
Quiet == addr = 0 /\ cpuq = EmptyQueue /\ fwdq = EmptyQueue

\* While rst is high the CPU is idle, but the snooper and the forwarder go on.
Stopped == /\ StopWhen # "never"
           /\ \E bus \in BusWires, TREADY \in BOOLEAN :
                 /\ MayCarry(bus)
                 /\ StopWhen = "quiet" => Quiet /\ ~Transfer(bus)
                 /\ Clock(TRUE, bus, Idle, TREADY)

Next == Running \/ Stopped

Spec == Init /\ [][Next]_vars

-----------------------------------------------------------------------------

\* "One agent always has exclusive control of a buffer" (painfulmuxes.v).
ExclusiveBuffers == \A b \in Buffer : InOneSlot(b)

\* "If agent A selects buffer P, then buffer P selects agent A" (muxselinvert.v),
\* and a buffer no agent selects is wired to none.
SelectsAgree ==
    \A b \in Buffer : /\ (sn_sel = b)  <=> bufSel[b] = 1
                      /\ (cpu_sel = b) <=> bufSel[b] = 2
                      /\ (fwd_sel = b) <=> bufSel[b] = 3

\* From the snooper's done pulse to the forwarder's, a buffer holds the packet that
\* was copied into it, with its length, and the queues hold the packets in the order
\* in which they were copied and accepted.
HoldsPacket(b, p) == /\ ram[b].len = 2 * (Len(p) - 1)
                     /\ \A i \in 1..Len(p) : ram[b].mem[i - 1] = p[i]
QueueHolds(q, ps) == /\ Len(JobsOf(q)) = Len(ps)
                     /\ \A i \in 1..Len(ps) : HoldsPacket(JobsOf(q)[i], ps[i])
StoredIntact == QueueHolds(cpuq, waiting) /\ QueueHolds(fwdq, accepted)

\* The sink gets the accepted packets in order, each beat once, TLAST with the last.
DeliversAccepted ==
    TVALID => /\ accepted # <<>>
              /\ taken < Len(accepted[1])
              /\ TDATA_out = <<Half(accepted[1][taken + 1], 0), Half(accepted[1][taken + 1], 1)>>
              /\ TLAST <=> taken + 1 = Len(accepted[1])
=============================================================================
