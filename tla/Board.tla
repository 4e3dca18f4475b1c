-------------------------------- MODULE Board --------------------------------
(****************************************************************************)
(* main.c: the board comes up - clocks, PHY, timer, network interface,      *)
(* address - and serves: a loop that calls lwIP's timers when the timer     *)
(* interrupt has set their flags and hands over received frames.            *)
(* Interrupts come between any two steps.  lwIP and the network are         *)
(* external.                                                                *)
(****************************************************************************)
EXTENDS BoardClocks, BoardTimers

CONSTANT Builds                   \* the builds of main.c: the platform and what is compiled in

ASSUME BuildsAssumption ==
    Builds \subseteq [platform : {"microblaze", "zynq", "zynqmp"}, sfp : BOOLEAN, zcu102 : BOOLEAN,
                     dhcp : BOOLEAN, rxreset : BOOLEAN]

VARIABLES build, pc,
          expander,               \* the ZCU102's I/O expander
          ip_addr,                \* NoAddress, "default" or "leased"
          waited,                 \* history: DHCP ticks since dhcp_start, up to DhcpTimeout
          application             \* what became of start_application

bootVars == <<build, pc, expander, ip_addr, waited, application>>
vars == <<bootVars, clockVars, timerVars>>

NoAddress == "none"
Programming == DOMAIN Script
Booting == {"IicPhyReset", "init_platform", "xemac_add", "enable", "netif_set_up"}
GettingAddress == {"dhcp_start", "dhcp_wait", "dhcp_input", "dhcp_check", "dhcp_default"}
Serving == {"fast", "fast_clear", "slow", "slow_clear", "input"}

TypeOK == /\ ClocksTypeOK /\ TimersTypeOK
          /\ build \in Builds
          /\ pc \in Programming \cup Booting \cup GettingAddress \cup Serving
                    \cup {"dhcp_set_timeout", "start_application", "returned", "undefined"}
          /\ expander \in {"reset", "outputs", "released"}
          /\ ip_addr \in {NoAddress, "default", "leased"}
          /\ waited \in 0..DhcpTimeout
          /\ application \in {"none", "listening", "failed"}

Init == /\ ClocksInit /\ TimersInit
        /\ build \in Builds
        /\ pc = IF build.sfp THEN "ProgramSi5324" ELSE "IicPhyReset"
        /\ expander = "reset" /\ ip_addr = NoAddress /\ waited = 0 /\ application = "none"

-----------------------------------------------------------------------------
\* Neither function's result is looked at.
AfterProgramming(f) == IF f = "ProgramSi5324" THEN "ProgramSfpPhy" ELSE "IicPhyReset"

Program(f) ==
    /\ pc = f /\ ClockStep(f)
    /\ pc' = IF result'[f] = NoResult THEN f ELSE AfterProgramming(f)
    /\ UNCHANGED <<build, expander, ip_addr, waited, application, timerVars>>

\* On a ZCU102: the expander's pins are made outputs, then the resets are released; any
\* failure of the polled driver ends main.
IicPhyReset ==
    /\ pc = "IicPhyReset"
    /\ IF build.zcu102
         THEN \/ pc' = "returned" /\ UNCHANGED expander
              \/ expander = "reset" /\ expander' = "outputs" /\ UNCHANGED pc
              \/ expander = "outputs" /\ expander' = "released" /\ pc' = "init_platform"
         ELSE pc' = "init_platform" /\ UNCHANGED expander
    /\ UNCHANGED <<build, ip_addr, waited, application, clockVars, timerVars>>

InitPlatform ==
    /\ pc = "init_platform" /\ pc' = "xemac_add"
    /\ \E works \in BOOLEAN : init_platform(build, works)
    /\ ClocksAreLeft
    /\ UNCHANGED <<build, expander, ip_addr, waited, application>>

\* The address is fixed without DHCP.
XemacAdd ==
    /\ pc = "xemac_add"
    /\ \/ pc' = "enable" /\ ip_addr' = IF build.dhcp THEN NoAddress ELSE "default"
       \/ pc' = "returned" /\ UNCHANGED ip_addr
    /\ UNCHANGED <<build, expander, waited, application, clockVars, timerVars>>

EnableInterrupts ==
    /\ pc = "enable" /\ pc' = "netif_set_up"
    /\ platform_enable_interrupts(build)
    /\ UNCHANGED <<build, expander, ip_addr, waited, application, clockVars>>

Goto(from, to) == /\ pc = from /\ pc' = to
                  /\ UNCHANGED <<build, expander, application, clockVars>>

NetifSetUp == /\ Goto("netif_set_up", IF build.dhcp THEN "dhcp_start" ELSE "start_application")
              /\ UNCHANGED <<ip_addr, waited, timerVars>>

-----------------------------------------------------------------------------
\* lwIP's DHCP client may bind an address when it is given frames.
Bind == ip_addr' \in {ip_addr} \cup (IF build.dhcp THEN {"leased"} ELSE {})

DhcpStart == /\ Goto("dhcp_start", "dhcp_set_timeout") /\ waited' = 0
             /\ UNCHANGED <<ip_addr, timerVars>>

\* Mutant of DhcpSetTimeout: the counter keeps what is left of it.
DhcpKeepTimeout == /\ Goto("dhcp_set_timeout", "dhcp_wait")
                   /\ UNCHANGED <<ip_addr, waited, timerVars>>

DhcpSetTimeout == /\ Goto("dhcp_set_timeout", "dhcp_wait")
                  /\ dhcp_timoutcntr' = DhcpTimeout
                  /\ UNCHANGED <<ip_addr, waited, hardware, TcpFastTmrFlag, TcpSlowTmrFlag, counters>>

DhcpWait == /\ Goto("dhcp_wait", IF ip_addr = NoAddress /\ dhcp_timoutcntr > 0
                                   THEN "dhcp_input" ELSE "dhcp_check")
            /\ UNCHANGED <<ip_addr, waited, timerVars>>

DhcpInput == /\ Goto("dhcp_input", "dhcp_wait") /\ Bind
             /\ UNCHANGED <<waited, timerVars>>

\* The address is tested again, then the default one is stored: an interrupt may bind a
\* leased address in between.
DhcpCheck == /\ Goto("dhcp_check", IF dhcp_timoutcntr <= 0 /\ ip_addr = NoAddress
                                     THEN "dhcp_default" ELSE "start_application")
             /\ UNCHANGED <<ip_addr, waited, timerVars>>

DhcpDefault == /\ Goto("dhcp_default", "start_application") /\ ip_addr' = "default"
               /\ UNCHANGED <<waited, timerVars>>

\* A failure of lwIP is returned, and main does not look at it.
StartApplication ==
    /\ pc = "start_application" /\ pc' = "fast"
    /\ application' \in {"listening", "failed"}
    /\ UNCHANGED <<build, expander, ip_addr, waited, clockVars, timerVars>>

-----------------------------------------------------------------------------
\* The loop; a flag is cleared after the call it asked for.
FastTmr == /\ Goto("fast", IF TcpFastTmrFlag THEN "fast_clear" ELSE "slow")
           /\ UNCHANGED <<ip_addr, waited, timerVars>>

FastClear == /\ Goto("fast_clear", "slow") /\ TcpFastTmrFlag' = FALSE
             /\ UNCHANGED <<ip_addr, waited, hardware, TcpSlowTmrFlag, counters, dhcp_timoutcntr>>

SlowTmr == /\ Goto("slow", IF TcpSlowTmrFlag THEN "slow_clear" ELSE "input")
           /\ UNCHANGED <<ip_addr, waited, timerVars>>

SlowClear == /\ Goto("slow_clear", "input") /\ TcpSlowTmrFlag' = FALSE
             /\ UNCHANGED <<ip_addr, waited, hardware, TcpFastTmrFlag, counters, dhcp_timoutcntr>>

Input == /\ Goto("input", "fast") /\ Bind
         /\ UNCHANGED <<waited, timerVars>>

-----------------------------------------------------------------------------
\* Interrupts.  dhcp_fine_tmr may bind the address that was offered.
Timer ==
    /\ pc \notin {"returned", "undefined"}
    /\ TimerInterrupt(build)
    /\ waited' = IF build.dhcp /\ SlowTick /\ waited < DhcpTimeout THEN waited + 1 ELSE waited
    /\ IF build.dhcp /\ SlowTick /\ pc \in GettingAddress \cup Serving \cup {"dhcp_set_timeout", "start_application"}
         THEN Bind ELSE UNCHANGED ip_addr
    /\ UNCHANGED <<build, pc, expander, application, clockVars>>

TimerHardware == TimerFires /\ UNCHANGED <<bootVars, clockVars>>

\* The handler has the instance of the function that is running ...
I2c == /\ pc \in Programming /\ owner = pc
       /\ TransferInterrupt(pc)
       /\ UNCHANGED <<bootVars, timerVars>>

\* ... or of one that has returned: it writes wherever that was on the stack.
I2cTooLate == /\ pc \in Programming \cup {"IicPhyReset", "init_platform"}
              /\ bus.phase = "busy" /\ owner \notin {pc, NoFunction}
              /\ pc' = "undefined"
              /\ UNCHANGED <<build, expander, ip_addr, waited, application, clockVars, timerVars>>

Bus == BusBecomesIdle /\ UNCHANGED <<bootVars, timerVars>>
Link == pc \in Programming /\ PhyComesUp /\ UNCHANGED <<bootVars, timerVars>>

Main == \/ \E f \in Programming : Program(f)
        \/ IicPhyReset \/ InitPlatform \/ XemacAdd \/ EnableInterrupts \/ NetifSetUp
        \/ DhcpStart \/ DhcpSetTimeout \/ DhcpWait \/ DhcpInput \/ DhcpCheck \/ DhcpDefault
        \/ StartApplication \/ FastTmr \/ FastClear \/ SlowTmr \/ SlowClear \/ Input

Next == Main \/ Timer \/ TimerHardware \/ I2c \/ I2cTooLate \/ Bus \/ Link

\* The processor runs, the timer counts, and a transfer on the bus ends.
Fairness == WF_vars(Main) /\ WF_vars(Timer) /\ WF_vars(TimerHardware) /\ WF_vars(I2c) /\ WF_vars(Bus)

Spec == Init /\ [][Next]_vars /\ Fairness

-----------------------------------------------------------------------------
Succeeded(f) == result[f].status = XST_SUCCESS

\* ProgramSi5324 reports success only when the clock generator has taken every entry of
\* InitTable, in order and once, however the interrupts fall and whatever errors are
\* signalled; ProgramSfpPhy, which ignores failed writes, only when no error was counted.
\* Errors the handler hides behind a completion are outside this promise (si5324.c:162-183,
\* sfp.c:111-188, i2c_access.c:226-268, :401-418).
ClocksProgrammed ==
    \A f \in Programming :
        Succeeded(f) /\ ~result[f].hidden /\ (f = "ProgramSfpPhy" => ~result[f].errors)
            => result[f].programmed

\* A transfer whose interrupt would write to the stack of a function that has returned is
\* left only by a function that has reported a failure, or by ProgramSfpPhy, which goes on
\* after errors, when it has counted one: whatever was signalled on the way, a function
\* that has nothing to report leaves the bus idle (i2c_access.c:258, :265, :300, :308).
ReportsFailure(f) == \/ result[f].status = XST_FAILURE
                     \/ f = "ProgramSfpPhy" /\ Succeeded(f) /\ result[f].errors
NoTransferOutlivesItsFunction ==
    bus # IdleBus => \/ owner = pc /\ step > 0
                     \/ owner \in Programming /\ ReportsFailure(owner)

\* Who serves has an address and a PHY out of reset; the default address is taken only
\* after DHCP was given its full time (main.c:202-216, iic_phyreset.c:55-113).
AddressWhenServing ==
    pc \in Serving => /\ ip_addr # NoAddress
                      /\ build.dhcp /\ ip_addr = "default" => waited = DhcpTimeout
                      /\ build.zcu102 => expander = "released"

\* Main has stopped, polls a PHY it can no longer reach, or has no timer.
Trouble == \/ pc \in {"returned", "undefined"}
           \/ pc = "ProgramSfpPhy" /\ (errors \/ hidden)
           \/ interrupts /\ timer = "off"

\* Unless there is trouble or the PHY's link stays down, the board comes up and lwIP's
\* timers and the checks of the link go on being called, whatever moment the interrupts
\* choose: a flag raised between a call and its reset is lost, but not for good
\* (main.c:229-241, platform_zynq.c:90-144).
KeepsServing ==
    ([]~Trouble /\ []<>~(pc = "ProgramSfpPhy" /\ ~phyUp))
      => /\ []<><<FastTmr /\ TcpFastTmrFlag>>_vars
         /\ []<><<SlowTmr /\ TcpSlowTmrFlag>>_vars
         /\ []<><<Timer /\ LinkDetect>>_vars
         /\ []<>(~build.rxreset \/ ResetRxCntr = RESET_RX_CNTR_LIMIT - 1)
=============================================================================
