------------------------------ MODULE Forwarder ------------------------------
(****************************************************************************)
(* axistream_forwarder.v: reads the packet of the buffer the controller has *)
(* wired to it and sends it on an AXI Stream bus.  The input wires are      *)
(* parameters: ready (ready_for_forwarder), len (len_to_forwarder), TREADY  *)
(* and rd_data (forwarder_rd_data, the buffer's output register).           *)
(****************************************************************************)
EXTENDS FilterParams

VARIABLES TVALID, TLAST,              \* output registers of the bus
          forwarder_rd_addr,          \* the address of the next read
          TDATA_r, TLAST_r, TREADY_r, \* what the bus carried in the last cycle
          ready_for_forwarder_r,      \* the delayed ready line and length
          len_to_forwarder_r          \*   (PESSIMISTIC only)

forwarderVars == <<TVALID, TLAST, forwarder_rd_addr, TDATA_r, TLAST_r, TREADY_r,
                   ready_for_forwarder_r, len_to_forwarder_r>>

ForwarderTypeOK(Data) ==
    /\ TVALID \in BOOLEAN /\ TLAST \in BOOLEAN
    /\ forwarder_rd_addr \in BeatAddr
    /\ TDATA_r \in Data /\ TLAST_r \in BOOLEAN /\ TREADY_r \in BOOLEAN
    /\ ready_for_forwarder_r \in BOOLEAN
    /\ len_to_forwarder_r \in PortAddr

\* len_to_forwarder_r has no initial value in the source: any length.
ForwarderInit ==
    /\ TVALID = FALSE /\ TLAST = FALSE
    /\ forwarder_rd_addr = 0
    /\ TDATA_r = Zero /\ TLAST_r = FALSE /\ TREADY_r = FALSE
    /\ ready_for_forwarder_r = FALSE
    /\ len_to_forwarder_r \in (IF pessimistic THEN PortAddr ELSE {0})

\* The last beat was offered in the cycle before and not taken.
still_hangin_on == TLAST_r /\ ~TREADY_r

\* Mutant of ReadyInternal: the ready line is not delayed.
ReadyAtOnce(ready) == ready /\ ~still_hangin_on

ReadyInternal(ready) ==
    (IF pessimistic THEN ready_for_forwarder_r ELSE ready) /\ ~still_hangin_on

\* Mutant of MaxAddr: the low bit is kept.
MaxAddrInHalves(len) == IF pessimistic THEN len_to_forwarder_r ELSE len

\* The length counts half beats; the address of the last beat drops its low bit.
MaxAddr(len) == (IF pessimistic THEN len_to_forwarder_r ELSE len) \div 2

TDATA(rd_data) == IF still_hangin_on THEN TDATA_r ELSE rd_data

\* Mutants of RdEn: reading goes on while the sink stalls; in the cycle of the last
\* beat; the last beat is never read.
RdEnWhileStalled(ready, len, TREADY) ==
    /\ ReadyInternal(ready)
    /\ forwarder_rd_addr <= MaxAddr(len)
    /\ ~TLAST

RdEnPastLast(ready, len, TREADY) ==
    /\ ReadyInternal(ready)
    /\ forwarder_rd_addr <= MaxAddr(len)
    /\ TREADY \/ ~TVALID

RdEnBeforeLast(ready, len, TREADY) ==
    /\ ReadyInternal(ready)
    /\ forwarder_rd_addr < MaxAddr(len)
    /\ TREADY \/ ~TVALID
    /\ ~TLAST

RdEn(ready, len, TREADY) ==
    /\ ReadyInternal(ready)
    /\ forwarder_rd_addr <= MaxAddr(len)
    /\ TREADY \/ ~TVALID
    /\ ~TLAST

ForwarderDone(TREADY) == TLAST /\ TVALID /\ TREADY

\* One clock edge.  The forwarder has no reset.
ForwarderClock(ready, len, rd_data, TREADY) ==
    LET rd_en == RdEn(ready, len, TREADY)
        atEnd == forwarder_rd_addr >= MaxAddr(len)
    IN /\ forwarder_rd_addr' = IF ~(ReadyInternal(ready) /\ rd_en) THEN forwarder_rd_addr
                               ELSE IF atEnd THEN 0
                               ELSE (forwarder_rd_addr + 1) % 2^AddrWidth
       /\ TVALID' = (rd_en \/ (~TREADY /\ TVALID))
       /\ TLAST' = ((atEnd /\ rd_en) \/ (TLAST /\ ~TREADY))
       /\ TDATA_r' = TDATA(rd_data)
       /\ TLAST_r' = TLAST
       /\ TREADY_r' = TREADY
       /\ ready_for_forwarder_r' = (pessimistic /\ ready /\ ~ForwarderDone(TREADY))
       /\ len_to_forwarder_r' = IF pessimistic THEN len ELSE len_to_forwarder_r
=============================================================================
