----------------------------- MODULE BoardClocks -----------------------------
(****************************************************************************)
(* si5324.c and sfp.c: the clock generator and the PHY of the SFP cage are  *)
(* programmed over I2C, behind a multiplexer of the board.  Each function   *)
(* is a list of transfers; they differ in what a failed one does.           *)
(****************************************************************************)
EXTENDS I2cDriver, Integers, Sequences, FiniteSets, Functions

VARIABLES step,                   \* 0: set up the hardware; n: the nth transfer of the list
          RdBuffer, phy_read_val, \* the bits of 0x0C00 are set in what was read
          mux, phyUp,             \* the multiplexer's channel; the PHY has its link
          received,               \* how much of its list the device has got
          result                  \* result[f]: what the function returned; as history, whether
                                  \* an error was counted or hidden, and whether the
                                  \* device has its list

devices == <<mux, phyUp, received>>
clockVars == <<i2cVars, step, RdBuffer, phy_read_val, devices, result>>

XST_SUCCESS == "XST_SUCCESS"
XST_FAILURE == "XST_FAILURE"

\* The registers' numbers and values.
InitTable == <<
    <<"0", "54">>, <<"1", "e4">>, <<"2", "12">>, <<"3", "15">>, <<"4", "92">>, <<"5", "ed">>, <<"6", "2d">>,
    <<"7", "2a">>, <<"8", "00">>, <<"9", "c0">>, <<"10", "08">>, <<"11", "40">>, <<"19", "29">>, <<"20", "3e">>,
    <<"21", "ff">>, <<"22", "df">>, <<"23", "1f">>, <<"24", "3f">>, <<"25", "60">>, <<"31", "00">>, <<"32", "00">>,
    <<"33", "05">>, <<"34", "00">>, <<"35", "00">>, <<"36", "05">>, <<"40", "c2">>, <<"41", "22">>, <<"42", "df">>,
    <<"43", "00">>, <<"44", "77">>, <<"45", "0b">>, <<"46", "00">>, <<"47", "77">>, <<"48", "0b">>, <<"55", "00">>,
    <<"131", "1f">>, <<"132", "02">>, <<"137", "01">>, <<"138", "0f">>, <<"139", "ff">>, <<"142", "00">>, <<"143", "00">>,
    <<"136", "40">> >>

\* `fail' says what a failed transfer does: the function returns, the failure is ignored,
\* or the next transfer (a read of the register that was to be selected) is skipped too.

\* Selecting a channel of the multiplexer; the Si5324's mux byte is stored in an array
\* of no elements, so any value may be sent.
SelectMux(channel) == [dir |-> "send", slave |-> "mux", data |-> <<channel>>, fail |-> "return"]
MuxInit == SelectMux("undefined")
ZC706MuxInit == SelectMux("sfp")

SiWrite(entry) == [dir |-> "send", slave |-> "si5324", data |-> entry, fail |-> "return"]
SelectPhyReg0 == [dir |-> "send", slave |-> "phy", data |-> <<"00">>, fail |-> "return"]
I2cPhyWrite(reg, value) == [dir |-> "send", slave |-> "phy", data |-> <<reg, value>>, fail |-> "ignore"]
I2cPhyRead(reg) == << [dir |-> "send", slave |-> "phy", data |-> <<reg>>, fail |-> "skip"],
                      [dir |-> "recv", slave |-> "phy", data |-> <<reg>>, fail |-> "ignore"] >>

SiWrites == [n \in DOMAIN InitTable |-> SiWrite(InitTable[n])]
SiScript == <<MuxInit>> \o SiWrites

\* 9084 is SGMII (1000BASE-X writes 9088); 9140 and 9340 are soft resets.
PhySetup == << <<"1B", "9084">>, <<"00", "9140">>, <<"09", "0E00">>, <<"00", "9140">>,
               <<"04", "0141">>, <<"00", "9140">>, <<"00", "9140">>, <<"10", "F079">>,
               <<"00", "9140">>, <<"16", "0001">>, <<"00", "9140">>, <<"00", "9340">>, <<"16", "0000">> >>
PhyPage == << <<"16", "0000">> >>
PhySpeed == << <<"16", "0001">>, <<"14", "0c61">>, <<"00", "9340">>, <<"16", "0000">> >>

PhyWrites(writes) == [n \in DOMAIN writes |-> I2cPhyWrite(writes[n][1], writes[n][2])]

SfpBeforePoll == <<ZC706MuxInit, SelectPhyReg0>> \o PhyWrites(PhySetup)
SfpScript == SfpBeforePoll \o I2cPhyRead("11") \o PhyWrites(PhyPage)
             \o I2cPhyRead("11") \o PhyWrites(PhySpeed)
PollAt == Len(SfpBeforePoll) + 1           \* the loop reads until the link is up

Script == [ProgramSi5324 |-> SiScript, ProgramSfpPhy |-> SfpScript]
AllTransfers == Range(SiScript) \cup Range(SfpScript)

NoResult == [status |-> "none"]

\* The register writes a function is to make, in order; Spoilt: the device got others.
WriteList == [ProgramSi5324 |-> SiWrites,
              ProgramSfpPhy |-> PhyWrites(PhySetup) \o PhyWrites(PhyPage) \o PhyWrites(PhySpeed)]
Spoilt == -1

Results == {NoResult} \cup [status : {XST_SUCCESS, XST_FAILURE}, errors : BOOLEAN, hidden : BOOLEAN,
                         programmed : BOOLEAN]

ClocksInit == /\ I2cInit
              /\ step = 0 /\ RdBuffer = FALSE /\ phy_read_val = FALSE
              /\ mux = "none" /\ phyUp = FALSE
              /\ received = 0
              /\ result = [ProgramSi5324 |-> NoResult, ProgramSfpPhy |-> NoResult]

ClocksTypeOK == /\ I2cTypeOK(AllTransfers)
                /\ step \in 0..(Len(SiScript) + Len(SfpScript))
                /\ RdBuffer \in BOOLEAN /\ phy_read_val \in BOOLEAN
                /\ mux \in {"none", "si5324", "sfp", "other"} /\ phyUp \in BOOLEAN
                /\ received \in 0..(Len(SiScript) + Len(SfpScript)) \cup {Spoilt}
                /\ result \in [DOMAIN Script -> Results]

-----------------------------------------------------------------------------
Return(f, status) ==
    /\ step' = 0
    /\ result' = [result EXCEPT ![f] = [status |-> status, errors |-> errors, hidden |-> hidden,
                                        programmed |-> received = Len(WriteList[f])]]

\* The function goes on with its nth transfer.  The loop that waits for the link reads
\* again until it has seen it.
Continue(f, n, seen) ==
    IF f = "ProgramSfpPhy" /\ n = PollAt + 2 /\ ~seen THEN step' = PollAt /\ UNCHANGED result
    ELSE IF n > Len(Script[f]) THEN Return(f, XST_SUCCESS)
    ELSE step' = n /\ UNCHANGED result

SetUp(f, configured, works) ==
    /\ step = 0 /\ result[f] = NoResult
    /\ I2cSetupHardware(configured, works, f)
    /\ IF configured /\ works THEN step' = 1 /\ UNCHANGED result ELSE Return(f, XST_FAILURE)
    /\ received' = 0 /\ phy_read_val' = FALSE /\ RdBuffer' = FALSE
    /\ UNCHANGED <<mux, phyUp>>

StartTransfer(f) ==
    /\ step > 0
    /\ LET t == Script[f][step]
       IN  IF t.dir = "send" THEN StartSend(t) ELSE StartReceive(t)
    /\ UNCHANGED <<step, RdBuffer, phy_read_val, devices, result>>

AwaitIdle == SeeComplete /\ UNCHANGED <<step, RdBuffer, phy_read_val, devices, result>>

TransferSucceeds(f) ==
    /\ ReturnSuccess
    /\ phy_read_val' = IF Script[f][step].dir = "recv" THEN RdBuffer ELSE phy_read_val
    /\ Continue(f, step + 1, phy_read_val')
    /\ UNCHANGED <<RdBuffer, devices>>

TransferFails(f) ==
    /\ ReturnFailure
    /\ CASE Script[f][step].fail = "return" -> Return(f, XST_FAILURE)
         [] Script[f][step].fail = "ignore" -> Continue(f, step + 1, phy_read_val)
         [] Script[f][step].fail = "skip" -> Continue(f, step + 2, phy_read_val)
    /\ UNCHANGED <<RdBuffer, phy_read_val, devices>>

-----------------------------------------------------------------------------
\* The devices.
Reachable(t) == t.slave = "mux" \/ mux = (IF t.slave = "phy" THEN "sfp" ELSE "si5324")

Arrive(list, t) ==
    IF received # Spoilt /\ received < Len(list) /\ list[received + 1] = t
      THEN received + 1 ELSE Spoilt

\* What a completed transfer does; one with an error does nothing.
Deliver(f, t) ==
    IF t.slave = "mux"
      THEN /\ mux' \in IF t = MuxInit THEN {"si5324", "other"} ELSE {"sfp"}
           /\ UNCHANGED <<received, RdBuffer>>
    ELSE IF t.dir = "recv" THEN RdBuffer' = phyUp /\ UNCHANGED <<mux, received>>
    ELSE IF Len(t.data) = 2
      THEN received' = Arrive(WriteList[f], t) /\ UNCHANGED <<mux, RdBuffer>>
    ELSE UNCHANGED <<mux, received, RdBuffer>>

\* An interrupt of the transfer that runs, while the function whose instance the
\* handler was given is running.
TransferInterrupt(f) ==
    /\ bus.phase = "busy"
    /\ \E event \in Events(bus.transfer, Reachable(bus.transfer)) :
          /\ I2cInterrupt(event)
          /\ IF Error \in event THEN UNCHANGED <<mux, received, RdBuffer>> ELSE Deliver(f, bus.transfer)
    /\ UNCHANGED <<step, phy_read_val, phyUp, result>>

BusBecomesIdle == BusStops /\ UNCHANGED <<step, RdBuffer, phy_read_val, devices, result>>

PhyComesUp == /\ ~phyUp /\ phyUp' = TRUE
              /\ UNCHANGED <<i2cVars, step, RdBuffer, phy_read_val, mux, received, result>>

\* The functions' local variables are gone, their results are not kept, and the I2C
\* interrupt is off.
ClocksAreLeft == /\ I2cIsLeft
                 /\ RdBuffer' = FALSE /\ phy_read_val' = FALSE /\ received' = 0
                 /\ result' = [f \in DOMAIN Script |-> NoResult]
                 /\ UNCHANGED <<step, mux, phyUp>>

ClockStep(f) == \/ \E configured, works \in BOOLEAN : SetUp(f, configured, works)
                \/ StartTransfer(f) \/ AwaitIdle \/ TransferSucceeds(f) \/ TransferFails(f)
=============================================================================
