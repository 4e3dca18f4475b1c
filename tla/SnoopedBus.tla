----------------------------- MODULE SnoopedBus -----------------------------
(****************************************************************************)
(* The snooper on a bus, with the memory side reduced to its ready line:    *)
(* the controller takes the buffer away only after a done pulse, and gives  *)
(* the next one when it likes.                                              *)
(****************************************************************************)
EXTENDS AxiSource, Snooper

VARIABLES bus,                    \* the wires of the bus in this cycle
          mem_ready,              \* ready_for_snooper in this cycle
          age,                    \* history: cycles the present job was visible
          misled                  \* history: TLAST was high in this packet before its
                                  \*   last beat was transferred

vars == <<pessimistic, bus, pkt, beats, beat, offered, need_to_wait, addr, mem_ready_r,
          mem_ready, age, misled>>

wr_en == WrEn(bus, mem_ready)
done  == SnooperDone(bus, mem_ready)

MinJob == 2                       \* what the dispatcher needs of its agents

TypeOK == /\ pessimistic \in Builds /\ SourceTypeOK /\ SnooperTypeOK
          /\ bus \in BusWires /\ mem_ready \in BOOLEAN /\ age \in 0..MinJob /\ misled \in BOOLEAN

Init == /\ pessimistic \in Builds
        /\ SourceInit /\ SnooperInit
        /\ bus \in BusWires /\ MayCarry(bus)
        /\ mem_ready \in BOOLEAN /\ age = 0 /\ misled = FALSE

Next == /\ SourceClock(bus)
        /\ bus' \in BusWires /\ MayCarry(bus)'
        /\ SnooperClock(bus, mem_ready)
        /\ mem_ready' \in BOOLEAN /\ UNCHANGED pessimistic
        /\ mem_ready /\ ~done => mem_ready'
        /\ age' = IF ~mem_ready \/ done THEN 0 ELSE IF age < MinJob THEN age + 1 ELSE age
        /\ misled' = (~(Transfer(bus) /\ LastBeat) /\ (misled \/ (bus.tlast /\ ~Transfer(bus))))

Spec == Init /\ [][Next]_vars

\* The clock runs.
FairSpec == Spec /\ WF_vars(Next)

-----------------------------------------------------------------------------

\* Only whole packets are copied, each beat at the address of its place in the
\* packet: a copy never starts in the middle of a packet ("wait for a packet to
\* start", axistream_snooper.v).
CopiesFromTheStart == wr_en => addr = beat % 2^AddrWidth

\* The same where TLAST comes only with a transfer, in this packet: the flag
\* need_to_wait does skip the rest of a packet that could not be copied.
CopiesUnlessMisled == wr_en /\ ~misled => addr = beat % 2^AddrWidth

\* A copy that was begun misses no beat of its packet, so that done is raised for
\* the packet's last beat with all the others in memory.
MissesNoBeat == Transfer(bus) /\ addr # 0 => wr_en

\* A packet that starts while the snooper sees a ready buffer is copied: the
\* flag that skips the rest of one packet does not spoil the next.
TakesEveryStart == Transfer(bus) /\ beat = 0 /\ MemReadyInternal(mem_ready) => wr_en

\* The snooper writes and raises done only in cycles in which the controller
\* does have a buffer for it: the delayed ready line never outlives the job.
WritesOnlyWhenReady == wr_en => mem_ready

\* A copy of two beats or more (three without the delay of PESSIMISTIC) gives the
\* dispatcher the time it needs: its buffer has been visible for MinJob cycles
\* before the cycle in which done is pulsed.
KeepsJobLongEnough == done /\ addr >= (IF pessimistic THEN 1 ELSE 2) => age >= MinJob

\* As long as beats keep coming, a copy that was begun is finished.
CopyFinishes == []<>Transfer(bus) => [](addr # 0 => <>done)
=============================================================================
