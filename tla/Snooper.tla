------------------------------- MODULE Snooper -------------------------------
(****************************************************************************)
(* axistream_snooper.v: copies the packets seen on an AXI Stream bus into   *)
(* the buffer the controller has wired to it.  The wires of the module that *)
(* are inputs (bus, mem_ready) are parameters here; its outputs wr_en, done *)
(* and wr_addr are functions of its registers and those inputs.             *)
(****************************************************************************)
EXTENDS FilterParams

VARIABLES need_to_wait,           \* the rest of the present packet is not copied
          addr,                   \* the address of the next write
          mem_ready_r             \* mem_ready of the last cycle (PESSIMISTIC only)

snooperVars == <<need_to_wait, addr, mem_ready_r>>

SnooperTypeOK == /\ need_to_wait \in BOOLEAN
                 /\ addr \in BeatAddr
                 /\ mem_ready_r \in BOOLEAN

SnooperInit == need_to_wait = FALSE /\ addr = 0 /\ mem_ready_r = FALSE

\* Mutant of MemReadyInternal: the ready line is not delayed.
MemReadyAtOnce(mem_ready) == mem_ready

MemReadyInternal(mem_ready) == IF pessimistic THEN mem_ready_r ELSE mem_ready

WrEn(bus, mem_ready) ==
    MemReadyInternal(mem_ready) /\ bus.tvalid /\ bus.tready /\ ~need_to_wait

SnooperDone(bus, mem_ready) == bus.tlast /\ WrEn(bus, mem_ready)

\* Mutants of NextNeedToWait: the flag is forgotten in the next cycle; it is never
\* cleared.
NeedToWaitOnce(bus, mem_ready) ==
    ~bus.tlast /\ bus.tvalid /\ bus.tready /\ ~MemReadyInternal(mem_ready)

NeedToWaitForever(bus, mem_ready) ==
    \/ ~bus.tlast /\ bus.tvalid /\ bus.tready /\ ~MemReadyInternal(mem_ready)
    \/ need_to_wait

NextNeedToWait(bus, mem_ready) ==
    /\ ~bus.tlast
    /\ \/ bus.tvalid /\ bus.tready /\ ~MemReadyInternal(mem_ready)
       \/ need_to_wait

\* Mutants of NextWrAddr: one bit too wide; not reset at the end of a packet.
WrAddrTooWide(bus, mem_ready) ==
    IF SnooperDone(bus, mem_ready) THEN 0
    ELSE IF WrEn(bus, mem_ready) THEN (addr + 1) % 2^(AddrWidth + 1)
    ELSE addr

WrAddrKept(bus, mem_ready) ==
    IF WrEn(bus, mem_ready) THEN (addr + 1) % 2^AddrWidth ELSE addr

NextWrAddr(bus, mem_ready) ==
    IF SnooperDone(bus, mem_ready) THEN 0
    ELSE IF WrEn(bus, mem_ready) THEN (addr + 1) % 2^AddrWidth
    ELSE addr

\* Mutants of SnooperClock: the delayed ready line outlives the job; it falls with
\* every write.
SnooperClockLateReady(bus, mem_ready) ==
    /\ need_to_wait' = NextNeedToWait(bus, mem_ready)
    /\ addr' = NextWrAddr(bus, mem_ready)
    /\ mem_ready_r' = (pessimistic /\ mem_ready)

SnooperClockFallingReady(bus, mem_ready) ==
    /\ need_to_wait' = NextNeedToWait(bus, mem_ready)
    /\ addr' = NextWrAddr(bus, mem_ready)
    /\ mem_ready_r' = (pessimistic /\ mem_ready /\ ~WrEn(bus, mem_ready))

\* One clock edge.  The snooper has no reset.
SnooperClock(bus, mem_ready) ==
    /\ need_to_wait' = NextNeedToWait(bus, mem_ready)
    /\ addr' = NextWrAddr(bus, mem_ready)
    /\ mem_ready_r' = (pessimistic /\ mem_ready /\ ~SnooperDone(bus, mem_ready))
=============================================================================
