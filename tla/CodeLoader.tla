------------------------------ MODULE CodeLoader ------------------------------
(****************************************************************************)
(* How a program gets into the code memory: packet_filter_regs.sv turns AXI *)
(* Lite writes into the registers control.start, inst_low and inst_high     *)
(* with one-cycle strobes, axistream_packetfilt.v delays them by two cycles *)
(* in PESSIMISTIC mode, and regstrb2mem.v writes an instruction to the code *)
(* memory when it has seen both halves.  The filters run while regs.start.  *)
(****************************************************************************)
EXTENDS LoadParams

CONSTANTS Builds,                 \* the values of PESSIMISTIC
          CodeSize                \* 2^CODE_ADDR_WIDTH: instructions the code memory holds

ASSUME LoaderAssumption == /\ Builds \subseteq BOOLEAN
                           /\ CodeSize \in Nat \ {0}

VARIABLES pessimistic,            \* PESSIMISTIC: a parameter of the build, never changes
          write_state, awaddr, wdata,          \* the write FSM and what it has accepted
          regs, regs_r, regs_r2,               \* the register outputs, and delayed twice
          wr_addr, inst_low_valid, inst_high_valid,
          code                                 \* the code memory

fsmVars == <<write_state, awaddr, wdata, regs>>
strb2memVars == <<wr_addr, inst_low_valid, inst_high_valid, code>>
loaderVars == <<pessimistic, fsmVars, regs_r, regs_r2, strb2memVars>>

CodeAddr == 0 .. CodeSize - 1
Instruction == [high : Word, low : Word]
Outputs == [start : BOOLEAN, low : Word, high : Word, lowStrobe : BOOLEAN, highStrobe : BOOLEAN]
WriteStates == {"WRITE_IDLE", "WRITE_ADDR_FIRST", "WRITE_DATA_FIRST", "WRITE_UPDATE_REGISTER", "WRITE_DONE"}

CONTROL_OFFSET == 4
INST_LOW_OFFSET == 8
INST_HIGH_OFFSET == 12

ResetOutputs == [start |-> FALSE, low |-> 0, high |-> 0, lowStrobe |-> FALSE, highStrobe |-> FALSE]

LoaderTypeOK == /\ pessimistic \in Builds
                /\ write_state \in WriteStates /\ awaddr \in Nat /\ wdata \in Word
                /\ regs \in Outputs /\ regs_r \in Outputs /\ regs_r2 \in Outputs
                /\ wr_addr \in CodeAddr
                /\ inst_low_valid \in BOOLEAN /\ inst_high_valid \in BOOLEAN
                /\ code \in [CodeAddr -> Instruction]

LoaderInit == /\ pessimistic \in Builds
              /\ write_state = "WRITE_IDLE" /\ awaddr = 0 /\ wdata = 0
              /\ regs = ResetOutputs /\ regs_r = ResetOutputs /\ regs_r2 = ResetOutputs
              /\ wr_addr = 0
              /\ inst_low_valid = FALSE /\ inst_high_valid = FALSE
              /\ code = [a \in CodeAddr |-> [high |-> 0, low |-> 0]]

-----------------------------------------------------------------------------
(* packet_filter_regs.sv *)

\* A transaction of the write channels: both at once, or one after the other.
\* It is taken when this step leaves the states that wait for it.
TakesAddr(awvalid) == awvalid /\ write_state \in {"WRITE_IDLE", "WRITE_DATA_FIRST"}
TakesData(wvalid)  == wvalid /\ write_state \in {"WRITE_IDLE", "WRITE_ADDR_FIRST"}

Complete(awvalid, wvalid) ==
    \/ TakesAddr(awvalid) /\ (TakesData(wvalid) \/ write_state = "WRITE_DATA_FIRST")
    \/ TakesData(wvalid) /\ write_state = "WRITE_ADDR_FIRST"

\* Mutants of NextWriteState: the next transaction is accepted without waiting for the
\* response of this one; the response is taken to be low-active.
NextWriteStateNoResponse(awvalid, wvalid, bready) ==
    IF Complete(awvalid, wvalid) THEN "WRITE_UPDATE_REGISTER"
    ELSE IF TakesAddr(awvalid) THEN "WRITE_ADDR_FIRST"
    ELSE IF TakesData(wvalid) THEN "WRITE_DATA_FIRST"
    ELSE IF write_state = "WRITE_UPDATE_REGISTER" THEN "WRITE_IDLE"
    ELSE IF write_state = "WRITE_DONE" /\ bready THEN "WRITE_IDLE"
    ELSE write_state

NextWriteStateStuck(awvalid, wvalid, bready) ==
    IF Complete(awvalid, wvalid) THEN "WRITE_UPDATE_REGISTER"
    ELSE IF TakesAddr(awvalid) THEN "WRITE_ADDR_FIRST"
    ELSE IF TakesData(wvalid) THEN "WRITE_DATA_FIRST"
    ELSE IF write_state = "WRITE_UPDATE_REGISTER" THEN "WRITE_DONE"
    ELSE IF write_state = "WRITE_DONE" /\ ~bready THEN "WRITE_IDLE"
    ELSE write_state

NextWriteState(awvalid, wvalid, bready) ==
    IF Complete(awvalid, wvalid) THEN "WRITE_UPDATE_REGISTER"
    ELSE IF TakesAddr(awvalid) THEN "WRITE_ADDR_FIRST"
    ELSE IF TakesData(wvalid) THEN "WRITE_DATA_FIRST"
    ELSE IF write_state = "WRITE_UPDATE_REGISTER" THEN "WRITE_DONE"
    ELSE IF write_state = "WRITE_DONE" /\ bready THEN "WRITE_IDLE"
    ELSE write_state

\* The registers after the accepted write; other offsets answer with a decode error.
\* All byte lanes are written: the processor stores whole words.
UpdatedRegs ==
    [start      |-> IF awaddr = CONTROL_OFFSET THEN wdata % 2 = 1 ELSE regs.start,
     low        |-> IF awaddr = INST_LOW_OFFSET THEN wdata ELSE regs.low,
     high       |-> IF awaddr = INST_HIGH_OFFSET THEN wdata ELSE regs.high,
     lowStrobe  |-> awaddr = INST_LOW_OFFSET,
     highStrobe |-> awaddr = INST_HIGH_OFFSET]

WriteFsm(wr, awvalid, wvalid, bready) ==
    /\ write_state' = NextWriteState(awvalid, wvalid, bready)
    /\ awaddr' = IF TakesAddr(awvalid) THEN wr.addr ELSE awaddr
    /\ wdata' = IF TakesData(wvalid) THEN wr.data ELSE wdata
    /\ regs' = IF write_state = "WRITE_UPDATE_REGISTER" THEN UpdatedRegs
               ELSE [start |-> regs.start, low |-> regs.low, high |-> regs.high,
                     lowStrobe |-> FALSE, highStrobe |-> FALSE]

WriteReset == /\ write_state' = "WRITE_IDLE" /\ awaddr' = 0 /\ wdata' = 0
              /\ regs' = ResetOutputs

-----------------------------------------------------------------------------
(* axistream_packetfilt.v: the delay registers of PESSIMISTIC mode *)

DelayClock == regs_r' = regs /\ regs_r2' = regs_r

Internal == IF pessimistic THEN regs_r2 ELSE regs

-----------------------------------------------------------------------------
(* regstrb2mem.v and coderam.v *)

CodeWrEn == /\ ~Internal.start
            /\ \/ inst_low_valid /\ Internal.highStrobe
               \/ inst_high_valid /\ Internal.lowStrobe

\* Mutant of Regstrb2mem: starting the filter does not rewind the write address.
Regstrb2memNoRewind ==
    /\ wr_addr' = IF CodeWrEn THEN (wr_addr + 1) % CodeSize ELSE wr_addr
    /\ inst_high_valid' = (~CodeWrEn /\ (Internal.highStrobe \/ inst_high_valid))
    /\ inst_low_valid' = (~CodeWrEn /\ (Internal.lowStrobe \/ inst_low_valid))

Regstrb2mem ==
    /\ wr_addr' = IF Internal.start THEN 0
                  ELSE IF CodeWrEn THEN (wr_addr + 1) % CodeSize ELSE wr_addr
    /\ inst_high_valid' = (~CodeWrEn /\ (Internal.highStrobe \/ inst_high_valid))
    /\ inst_low_valid' = (~CodeWrEn /\ (Internal.lowStrobe \/ inst_low_valid))

CodeRam == code' = IF CodeWrEn
                     THEN [code EXCEPT ![wr_addr] = [high |-> Internal.high, low |-> Internal.low]]
                     ELSE code

-----------------------------------------------------------------------------
\* One clock edge; wr is the write the bus offers on its two channels.
LoaderClock(wr, awvalid, wvalid, bready) ==
    /\ WriteFsm(wr, awvalid, wvalid, bready)
    /\ DelayClock /\ Regstrb2mem /\ CodeRam /\ UNCHANGED pessimistic

\* One clock edge with axi_aresetn low: only the register file has a reset.
LoaderReset == WriteReset /\ DelayClock /\ Regstrb2mem /\ CodeRam /\ UNCHANGED pessimistic

\* The loader on a bus that offers any writes at any pace.
LoaderNext == \/ \E addr \in Nat, data \in Word, awvalid, wvalid, bready \in BOOLEAN :
                     LoaderClock([addr |-> addr, data |-> data], awvalid, wvalid, bready)
              \/ LoaderReset

LoaderSpec == LoaderInit /\ [][LoaderNext]_loaderVars

\* The code memory never changes while the filters run, although the strobes reach
\* regstrb2mem two cycles after control.start reaches the filters
\* (axistream_packetfilt.v:125-176, :231).
CodeStable == [][regs.start => UNCHANGED code]_loaderVars
=============================================================================
