--------------------------- MODULE ForwarderProofs ---------------------------
(****************************************************************************)
(* Proofs about axistream_forwarder.v between the packet memory and a sink, *)
(* for any lengths of packets, any size of buffer and both builds: every    *)
(* safety property of ForwardedLink.                                        *)
(*                                                                          *)
(* While a beat is offered, the read address is one ahead of the beats the  *)
(* sink has taken, and starts again with the last beat; while none is, both *)
(* are 0.                                                                   *)
(****************************************************************************)
EXTENDS ForwardedLink, TLAPS

\* The number of the packet's last beat.
Last == len \div 2

\* The delayed ready line and length are those of the present job.
Delayed == ready_for_forwarder_r => /\ pessimistic /\ ready
                                    /\ len_to_forwarder_r = len /\ age >= 1

\* A beat that is offered is the next one of the job, read from the job's buffer.
Offers ==
    TVALID => /\ ready /\ (pessimistic => ready_for_forwarder_r)
              /\ taken <= Last /\ (TLAST <=> taken = Last)
              /\ rd_data = [job |-> job, n |-> taken]

\* The read address is ahead of the sink by the beat that is offered.
Ahead == forwarder_rd_addr = IF TVALID /\ ~TLAST THEN taken + 1 ELSE 0

NothingOffered == ~TVALID => ~TLAST /\ taken = 0

\* The last beat, once offered and not taken, is kept in the forwarder.
Hanging == still_hangin_on => TLAST /\ TDATA_r = rd_data

\* How long the job of an offered beat has been visible.
Aged == TVALID => /\ age >= IF pessimistic THEN 2 ELSE 1
                  /\ taken # 0 => age >= 2

IInv == TypeOK /\ Delayed /\ Offers /\ Ahead /\ NothingOffered /\ Hanging /\ Aged

-----------------------------------------------------------------------------

\* The lengths the memory gives, and the addresses they lead to.
LEMMA LengthsAreEven ==
    ASSUME NEW l \in Lengths
    PROVE  /\ l \in PortAddr /\ l \in Nat /\ l = 2 * (l \div 2)
           /\ l \div 2 \in BeatAddr /\ l \div 2 \in 0..MaxBeats-1
<1> DEFINE D == 2^AddrWidth
<1>1. D \in Nat \ {0} /\ BeatAddr = 0..D-1 /\ PortAddr = 0..2*D-1 /\ MaxBeats \in 1..D
  BY DepthAssumption, LinkAssumption DEF BeatAddr, PortAddr
<1> HIDE DEF D
<1>2. PICK n \in MinBeats..MaxBeats : l = 2 * (n - 1)
  BY DEF Lengths
<1>3. n - 1 \in 0..MaxBeats-1 /\ l \div 2 = n - 1
  BY <1>1, <1>2, LinkAssumption
<1> QED
  BY <1>1, <1>2, <1>3

\* A read address before the packet's last beat is followed by the next one.
LEMMA NextAddress ==
    ASSUME NEW a \in Nat, NEW b \in BeatAddr, a < b
    PROVE  (a + 1) % 2^AddrWidth = a + 1 /\ a + 1 \in BeatAddr
<1> DEFINE D == 2^AddrWidth
<1>1. D \in Nat \ {0} /\ BeatAddr = 0..D-1
  BY DepthAssumption DEF BeatAddr
<1> HIDE DEF D
<1>2. (a + 1) % D = a + 1 /\ a + 1 \in 0..D-1
  BY <1>1
<1> QED
  BY <1>1, <1>2 DEF D

\* The wires and registers are bits, and the packet has a last beat.
LEMMA Types ==
    ASSUME TypeOK
    PROVE  /\ pessimistic \in BOOLEAN /\ TVALID \in BOOLEAN /\ TLAST \in BOOLEAN
           /\ TREADY \in BOOLEAN /\ ready \in BOOLEAN /\ ready_for_forwarder_r \in BOOLEAN
           /\ TLAST_r \in BOOLEAN /\ TREADY_r \in BOOLEAN
           /\ Last \in BeatAddr /\ Last \in 0..MaxBeats-1 /\ len = 2 * Last /\ Last \in Nat
           /\ taken \in Nat /\ age \in 0..2 /\ 0 \in BeatAddr
BY ParamsAssumption, LinkAssumption, DepthAssumption, LengthsAreEven
DEF TypeOK, ForwarderTypeOK, Last, MinJob, BeatAddr

\* A read happens when no beat is offered, or when one that is not the last is taken.
LEMMA Reads ==
    ASSUME IInv
    PROVE  RdEn(ready, len, TREADY) <=> /\ IF pessimistic THEN ready_for_forwarder_r ELSE ready
                                        /\ TREADY \/ ~TVALID
                                        /\ ~TLAST
<1>1. ~TLAST => ~still_hangin_on
  BY DEF IInv, Hanging
<1>2. ASSUME ~TLAST, IF pessimistic THEN ready_for_forwarder_r ELSE ready
      PROVE  MaxAddr(len) = Last /\ forwarder_rd_addr <= Last
  <2>1. MaxAddr(len) = Last
    BY <1>2 DEF IInv, Delayed, MaxAddr, Last
  <2>2. forwarder_rd_addr <= Last
    BY <1>2, Types DEF IInv, Offers, Ahead
  <2> QED
    BY <2>1, <2>2
<1> QED
  BY <1>1, <1>2 DEF RdEn, ReadyInternal

-----------------------------------------------------------------------------

\* The output registers of the next cycle are bits again.
LEMMA NextBits ==
    ASSUME TypeOK, Next
    PROVE  /\ TVALID' \in BOOLEAN /\ TLAST' \in BOOLEAN /\ TLAST_r' \in BOOLEAN
           /\ TREADY_r' \in BOOLEAN /\ TREADY' \in BOOLEAN
           /\ ready_for_forwarder_r' \in BOOLEAN
<1>1. TVALID' \in BOOLEAN
  BY DEF Next, ForwarderClock
<1>2. TLAST' \in BOOLEAN
  BY DEF Next, ForwarderClock
<1>3. ready_for_forwarder_r' \in BOOLEAN
  BY DEF Next, ForwarderClock
<1>4. TLAST_r' = TLAST /\ TREADY_r' = TREADY /\ TREADY' \in BOOLEAN
  BY DEF Next, ForwarderClock
<1> QED
  BY <1>1, <1>2, <1>3, <1>4, Types

\* A cycle in which a beat is read: the sink has taken all beats before it, and it is
\* offered in the next cycle.
LEMMA ReadStep ==
    ASSUME IInv, Next, RdEn(ready, len, TREADY)
    PROVE  IInv'
<1>1. /\ ~TLAST /\ ~done /\ ready /\ (TREADY \/ ~TVALID) /\ ~still_hangin_on
      /\ ReadyInternal(ready) /\ MaxAddr(len) = Last
      /\ pessimistic => ready_for_forwarder_r
  <2>1. ~TLAST /\ ready /\ (TREADY \/ ~TVALID) /\ (pessimistic => ready_for_forwarder_r)
    BY Reads DEF IInv, Delayed
  <2>2. ~still_hangin_on /\ ReadyInternal(ready)
    BY DEF RdEn, ReadyInternal
  <2>3. MaxAddr(len) = Last
    BY <2>1 DEF IInv, Delayed, MaxAddr, Last
  <2> QED
    BY <2>1, <2>2, <2>3 DEF done, ForwarderDone
<1>2. /\ forwarder_rd_addr \in 0..Last /\ forwarder_rd_addr \in BeatAddr
      /\ forwarder_rd_addr = IF TVALID THEN taken + 1 ELSE taken
      /\ Last \in BeatAddr /\ Last \in Nat /\ age \in 0..2
  BY <1>1, Types DEF IInv, Offers, Ahead, NothingOffered, TypeOK, ForwarderTypeOK
<1>3. /\ TVALID' /\ (TLAST' <=> forwarder_rd_addr >= Last) /\ ~TLAST_r'
      /\ forwarder_rd_addr' = IF forwarder_rd_addr >= Last THEN 0
                              ELSE (forwarder_rd_addr + 1) % 2^AddrWidth
  BY <1>1 DEF Next, ForwarderClock
<1>4. /\ ready' = ready /\ len' = len /\ job' = job /\ pessimistic' = pessimistic
      /\ rd_data' = [job |-> job, n |-> forwarder_rd_addr]
      /\ age' = IF age < 2 THEN age + 1 ELSE age
      /\ taken' = IF TVALID THEN taken + 1 ELSE taken
  BY <1>1 DEF Next, Memory, MinJob
<1>5. /\ ready_for_forwarder_r' <=> pessimistic
      /\ len_to_forwarder_r' = IF pessimistic THEN len ELSE len_to_forwarder_r
  BY <1>1 DEF Next, ForwarderClock, done
<1>6. taken' = forwarder_rd_addr /\ Last' = Last
  BY <1>2, <1>4 DEF Last
<1>7. forwarder_rd_addr' \in BeatAddr
  /\ forwarder_rd_addr' = IF TVALID' /\ ~TLAST' THEN taken' + 1 ELSE 0
  <2>1. CASE forwarder_rd_addr >= Last
    BY <2>1, <1>3, Types DEF IInv
  <2>2. CASE forwarder_rd_addr < Last
    BY <2>2, <1>2, <1>3, <1>6, NextAddress
  <2> QED
    BY <2>1, <2>2, <1>2
<1>8. TypeOK'
  <2>1. TDATA(rd_data) \in Beats \cup {Zero} /\ len \in PortAddr /\ TREADY' \in BOOLEAN
    BY LengthsAreEven DEF IInv, TypeOK, ForwarderTypeOK, TDATA, Next
  <2>2. ForwarderTypeOK(Beats \cup {Zero})'
    <3>1. TDATA_r' = TDATA(rd_data) /\ TREADY_r' = TREADY
      BY DEF Next, ForwarderClock
    <3>2. len_to_forwarder_r' \in PortAddr
      BY <1>5, <2>1 DEF IInv, TypeOK, ForwarderTypeOK
    <3> QED
      BY <3>1, <3>2, <2>1, <1>7, NextBits DEF IInv, ForwarderTypeOK
  <2>3. rd_data' \in Beats
    BY <1>2, <1>4 DEF IInv, TypeOK, Beats
  <2>4. taken' \in 0..MaxBeats /\ age' \in 0..2
    BY <1>2, <1>4, <1>6, Types, LinkAssumption DEF IInv
  <2> QED
    BY <2>1, <2>2, <2>3, <2>4, <1>4 DEF IInv, TypeOK, MinJob
<1>9. Delayed'
  BY <1>1, <1>2, <1>4, <1>5, Types DEF IInv, Delayed
<1>10. Offers'
  <2>1. taken' <= Last' /\ (TLAST' <=> taken' = Last')
    BY <1>2, <1>3, <1>6
  <2>2. ready' /\ (pessimistic' => ready_for_forwarder_r')
        /\ rd_data' = [job |-> job', n |-> taken']
    BY <1>1, <1>4, <1>5, <1>6
  <2> QED
    BY <2>1, <2>2 DEF Offers
<1>11. Ahead' /\ NothingOffered' /\ Hanging'
  BY <1>3, <1>7 DEF Ahead, NothingOffered, Hanging, still_hangin_on
<1>12. Aged'
  <2>1. (pessimistic => age >= 1) /\ (TVALID => age >= 1)
    BY <1>1, <1>2, Types DEF IInv, Delayed, Aged
  <2>2. age' >= IF pessimistic' THEN 2 ELSE 1
    BY <2>1, <1>2, <1>4
  <2>3. taken' # 0 => age' >= 2
    <3>1. CASE TVALID
      BY <3>1, <2>1, <1>2, <1>4
    <3>2. CASE ~TVALID
      BY <3>2, <1>4 DEF IInv, NothingOffered
    <3> QED
      BY <3>1, <3>2
  <2> QED
    BY <2>2, <2>3 DEF Aged
<1> QED
  BY <1>8, <1>9, <1>10, <1>11, <1>12 DEF IInv

\* What every cycle without a read leaves alone, and the types after it.
LEMMA IdleTypes ==
    ASSUME IInv, Next, ~RdEn(ready, len, TREADY)
    PROVE  TypeOK' /\ forwarder_rd_addr' = forwarder_rd_addr /\ pessimistic' = pessimistic
<1>1. /\ forwarder_rd_addr' = forwarder_rd_addr /\ TDATA_r' = TDATA(rd_data)
      /\ len_to_forwarder_r' = IF pessimistic THEN len ELSE len_to_forwarder_r
      /\ pessimistic' = pessimistic
  BY DEF Next, ForwarderClock
<1>2. TDATA_r' \in Beats \cup {Zero} /\ len \in PortAddr
  BY <1>1, LengthsAreEven DEF IInv, TypeOK, ForwarderTypeOK, TDATA
<1>3. ForwarderTypeOK(Beats \cup {Zero})'
  BY <1>1, <1>2, NextBits DEF IInv, TypeOK, ForwarderTypeOK
<1>4. taken' \in 0..MaxBeats
  <2>1. CASE TVALID /\ TREADY /\ ~done
    BY <2>1, Types, LinkAssumption DEF IInv, Offers, Next, done, ForwarderDone
  <2>2. CASE ~(TVALID /\ TREADY /\ ~done)
    BY <2>2, LinkAssumption DEF IInv, TypeOK, Next, done, ForwarderDone
  <2> QED
    BY <2>1, <2>2
<1>5. /\ ready' \in BOOLEAN /\ len' \in Lengths /\ rd_data' \in Beats \cup {Zero}
      /\ job' \in 0..JobIds-1 /\ age' \in 0..2
  <2>1. (job + 1) % JobIds \in 0..JobIds-1 /\ age \in 0..2
    BY LinkAssumption, Types DEF IInv, TypeOK
  <2>2. CASE done \/ ~ready
    <3>1. /\ ready' \in BOOLEAN /\ len' \in Lengths /\ rd_data' = Zero /\ age' = 0
          /\ job' = IF done THEN (job + 1) % JobIds ELSE job
      BY <2>2 DEF Next, Memory
    <3> QED
      BY <3>1, <2>1 DEF IInv, TypeOK
  <2>3. CASE ~(done \/ ~ready)
    <3>1. /\ ready' = ready /\ len' = len /\ rd_data' = rd_data /\ job' = job
          /\ age' = IF age < 2 THEN age + 1 ELSE age
      BY <2>3 DEF Next, Memory, MinJob
    <3> QED
      BY <3>1, <2>1 DEF IInv, TypeOK
  <2> QED
    BY <2>2, <2>3
<1> QED
  BY <1>1, <1>3, <1>4, <1>5, NextBits DEF IInv, TypeOK, MinJob

\* The sink takes the last beat: the next cycle offers nothing.
LEMMA DoneStep ==
    ASSUME IInv, Next, done
    PROVE  IInv'
<1>1. TVALID /\ TLAST /\ TREADY /\ ~RdEn(ready, len, TREADY) /\ forwarder_rd_addr = 0
  BY DEF done, ForwarderDone, RdEn, IInv, Ahead
<1>2. TypeOK' /\ forwarder_rd_addr' = 0
  BY <1>1, IdleTypes
<1>3. /\ ~TVALID' /\ ~TLAST' /\ ~still_hangin_on' /\ ~ready_for_forwarder_r'
      /\ taken' = 0
  <2>1. TREADY_r' = TREADY /\ (ready_for_forwarder_r' = (pessimistic /\ ready /\ ~done))
    BY DEF Next, ForwarderClock, done
  <2>2. ~TVALID'
    BY <1>1 DEF Next, ForwarderClock
  <2>3. ~TLAST'
    BY <1>1 DEF Next, ForwarderClock
  <2>4. taken' = 0
    BY DEF Next
  <2> QED
    BY <1>1, <2>1, <2>2, <2>3, <2>4 DEF still_hangin_on
<1> QED
  BY <1>2, <1>3 DEF IInv, Delayed, Offers, Ahead, NothingOffered, Hanging, Aged

\* The sink stalls: the beat is offered again, from its buffer or, the last one, from
\* the forwarder's own register.
LEMMA StallStep ==
    ASSUME IInv, Next, TVALID, ~TREADY
    PROVE  /\ IInv' /\ TVALID' /\ TLAST' = TLAST
           /\ TDATA_out' = TDATA_out
<1>1. ~RdEn(ready, len, TREADY) /\ ~done /\ ready
  BY DEF RdEn, done, ForwarderDone, IInv, Offers
<1>2. TypeOK' /\ forwarder_rd_addr' = forwarder_rd_addr /\ pessimistic' = pessimistic
  BY <1>1, IdleTypes
<1>3. /\ ready' = ready /\ len' = len /\ job' = job /\ rd_data' = rd_data
      /\ age' = IF age < 2 THEN age + 1 ELSE age
      /\ taken' = taken
  BY <1>1 DEF Next, Memory, MinJob
<1>4. TVALID'
  BY <1>1 DEF Next, ForwarderClock
<1>5. TLAST' <=> TLAST
  BY <1>1 DEF Next, ForwarderClock
<1>6. ready_for_forwarder_r' <=> pessimistic
  BY <1>1 DEF Next, ForwarderClock, done
<1>7. /\ TLAST_r' = TLAST /\ TREADY_r' = TREADY /\ TDATA_r' = TDATA(rd_data)
      /\ len_to_forwarder_r' = IF pessimistic THEN len ELSE len_to_forwarder_r
  BY DEF Next, ForwarderClock
<1>8. TDATA(rd_data) = rd_data
  BY DEF TDATA, IInv, Hanging
<1>9. Delayed'
  BY <1>1, <1>3, <1>6, <1>7, <1>2, Types DEF IInv, Delayed
<1>10. Offers'
  <2>1. ready' /\ (pessimistic' => ready_for_forwarder_r') /\ taken' <= Last'
        /\ rd_data' = [job |-> job', n |-> taken']
    BY <1>1, <1>2, <1>3, <1>6 DEF IInv, Offers, Last
  <2>2. TLAST' <=> taken' = Last'
    BY <1>3, <1>5 DEF IInv, Offers, Last
  <2> QED
    BY <2>1, <2>2 DEF Offers
<1>11. Ahead'
  BY <1>2, <1>3, <1>4, <1>5 DEF IInv, Ahead
<1>12. NothingOffered'
  BY <1>4 DEF NothingOffered
<1>13. Hanging'
  BY <1>3, <1>5, <1>7, <1>8 DEF Hanging, still_hangin_on
<1>14. Aged'
  BY <1>2, <1>3, Types DEF IInv, Aged
<1>15. TLAST' = TLAST
  BY <1>5, NextBits, Types DEF IInv
<1>16. TDATA_out' = TDATA_out
  BY <1>3, <1>7, <1>8 DEF TDATA_out, TDATA
<1> QED
  BY <1>2, <1>4, <1>9, <1>10, <1>11, <1>12, <1>13, <1>14, <1>15, <1>16 DEF IInv

\* Nothing is offered and nothing is read: there is no job, or it is not yet seen.
LEMMA WaitStep ==
    ASSUME IInv, Next, ~TVALID, ~RdEn(ready, len, TREADY)
    PROVE  IInv'
<1>1. ~TLAST /\ taken = 0 /\ forwarder_rd_addr = 0 /\ ~done
  BY DEF IInv, NothingOffered, Ahead, done, ForwarderDone
<1>2. TypeOK' /\ forwarder_rd_addr' = 0 /\ pessimistic' = pessimistic
  BY <1>1, IdleTypes
<1>3. ~TVALID'
  BY DEF Next, ForwarderClock
<1>4. ~TLAST'
  BY <1>1 DEF Next, ForwarderClock
<1>5. ~still_hangin_on' /\ taken' = 0
  BY <1>1 DEF Next, ForwarderClock, still_hangin_on
<1>6. Delayed'
  <2> SUFFICES ASSUME ready_for_forwarder_r'
               PROVE  pessimistic' /\ ready' /\ len_to_forwarder_r' = len' /\ age' >= 1
    BY DEF Delayed
  <2>1. pessimistic /\ ready
    BY DEF Next, ForwarderClock
  <2>2. /\ ready' = ready /\ len' = len /\ len_to_forwarder_r' = len
        /\ age' = IF age < 2 THEN age + 1 ELSE age
    BY <2>1, <1>1 DEF Next, ForwarderClock, Memory, MinJob
  <2> QED
    BY <1>2, <2>1, <2>2, Types DEF IInv
<1> QED
  BY <1>2, <1>3, <1>4, <1>5, <1>6 DEF IInv, Offers, Ahead, NothingOffered, Hanging, Aged

\* The invariant holds at all times.
LEMMA Invariant == Spec => []IInv
<1>1. Init => IInv
  <2> SUFFICES ASSUME Init PROVE IInv
    OBVIOUS
  <2>1. forwarder_rd_addr = 0 /\ taken = 0 /\ 0 \in BeatAddr /\ 0 \in PortAddr
    BY DepthAssumption DEF Init, ForwarderInit, BeatAddr, PortAddr
  <2>2. ~TVALID /\ ~TLAST /\ ~TLAST_r /\ ~ready_for_forwarder_r
    BY DEF Init, ForwarderInit
  <2>3. TypeOK
    <3>1. taken \in 0..MaxBeats /\ age \in 0..MinJob /\ job \in 0..JobIds-1
      BY LinkAssumption, DepthAssumption DEF Init, MinJob
    <3>2. /\ TVALID \in BOOLEAN /\ TLAST \in BOOLEAN /\ TLAST_r \in BOOLEAN
          /\ TREADY_r \in BOOLEAN /\ ready_for_forwarder_r \in BOOLEAN
      BY DEF Init, ForwarderInit
    <3>3. len_to_forwarder_r \in PortAddr
      BY <2>1 DEF Init, ForwarderInit
    <3>4. ForwarderTypeOK(Beats \cup {Zero})
      BY <2>1, <3>2, <3>3 DEF Init, ForwarderInit, ForwarderTypeOK
    <3> QED
      BY <3>1, <3>4 DEF Init, TypeOK
  <2> QED
    BY <2>1, <2>2, <2>3
    DEF IInv, Delayed, Offers, Ahead, NothingOffered, Hanging, Aged, still_hangin_on
<1>2. IInv /\ Next => IInv'
  <2> SUFFICES ASSUME IInv, Next PROVE IInv'
    OBVIOUS
  <2>1. CASE RdEn(ready, len, TREADY)
    BY <2>1, ReadStep
  <2>2. CASE done
    BY <2>2, DoneStep
  <2>3. CASE TVALID /\ ~TREADY
    BY <2>3, StallStep
  <2>4. CASE ~TVALID /\ ~RdEn(ready, len, TREADY)
    BY <2>4, WaitStep
  <2>5. TVALID /\ TREADY /\ ~TLAST => RdEn(ready, len, TREADY)
    BY Reads DEF IInv, Offers
  <2> QED
    BY <2>1, <2>2, <2>3, <2>4, <2>5 DEF done, ForwarderDone
<1>3. IInv /\ UNCHANGED vars => IInv'
  BY DEF vars, env, IInv, TypeOK, ForwarderTypeOK, Delayed, Offers, Ahead, NothingOffered, Hanging,
         Aged, still_hangin_on, Last
<1> QED
  BY <1>1, <1>2, <1>3, PTL DEF Spec

-----------------------------------------------------------------------------

\* The registers of the forwarder and the wires of the memory keep their types.
THEOREM ForwarderTypes == Spec => []TypeOK
<1>1. IInv => TypeOK
  BY DEF IInv
<1> QED
  BY <1>1, Invariant, PTL

\* The sink receives the beats of the job's packet, each once, in order, and TLAST with
\* the last one only, whenever it chooses to be ready.
THEOREM SendsEveryBeatOnce == Spec => []SendsThePacket
<1>1. IInv => SendsThePacket
  <2> SUFFICES ASSUME IInv, TVALID
               PROVE  /\ ready /\ TDATA_out = [job |-> job, n |-> taken]
                      /\ (TLAST <=> taken = len \div 2)
    BY DEF SendsThePacket
  <2>1. TDATA_out = rd_data
    BY DEF TDATA_out, TDATA, IInv, Hanging
  <2> QED
    BY <2>1 DEF IInv, Offers, Last
<1> QED
  BY <1>1, Invariant, PTL

\* A beat that was offered and not taken is offered again, unchanged.
THEOREM BeatIsHeld == Spec => HoldsTheBeat
<1>1. IInv /\ [Next]_vars => [TVALID /\ ~TREADY => TVALID' /\ TDATA_out' = TDATA_out /\ TLAST' = TLAST]_vars
  BY StallStep
<1> QED
  BY <1>1, Invariant, PTL DEF Spec, HoldsTheBeat

\* What the dispatcher's exclusion rests on holds of the forwarder: a job has been visible
\* for two cycles when done is raised, one beat without the delay excepted.
THEOREM JobsAreLongEnough == Spec => []KeepsJobLongEnough
<1>1. IInv => KeepsJobLongEnough
  <2> SUFFICES ASSUME IInv, done PROVE ready /\ (pessimistic \/ len # 0 => age >= 2)
    BY DEF KeepsJobLongEnough, MinJob
  <2>1. TVALID /\ TLAST
    BY DEF done, ForwarderDone
  <2>2. ready /\ taken = Last /\ len = 2 * Last /\ age \in 0..2
    BY <2>1, Types DEF IInv, Offers
  <2> QED
    BY <2>1, <2>2, Types DEF IInv, Aged
<1> QED
  BY <1>1, Invariant, PTL
=============================================================================
