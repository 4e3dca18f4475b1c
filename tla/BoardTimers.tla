---------------------------- MODULE BoardTimers ----------------------------
(****************************************************************************)
(* platform_zynq.c, platform_zynqmp.c, platform.c with platform_mb.c: the   *)
(* timer interrupt that tells the main loop when to call lwIP's timers,     *)
(* counts the time DHCP is given and looks after the Ethernet link.  A      *)
(* build has one of the three; build.dhcp: LWIP_DHCP; build.rxreset: not    *)
(* USE_SOFTETH_ON_ZYNQ.                                                     *)
(****************************************************************************)
EXTENDS Naturals

CONSTANTS DhcpTimeout,            \* 24
          CoarseTicks,            \* 120
          RESET_RX_CNTR_LIMIT,    \* 400
          ETH_LINK_DETECT_INTERVAL
ASSUME TimerAssumption == {DhcpTimeout, CoarseTicks, RESET_RX_CNTR_LIMIT, ETH_LINK_DETECT_INTERVAL}
                          \subseteq Nat \ {0}

VARIABLES timer,                  \* the hardware: "off", "loaded", "running" or "fired"
          handler,                \* timer_callback is registered
          interrupts,             \* the processor takes interrupts
          TcpFastTmrFlag, TcpSlowTmrFlag,
          DetectEthLinkStatus, odd, dhcp_timer, ResetRxCntr,
          dhcp_timoutcntr         \* main only tests it for <= 0: it stays at 0 from there

counters == <<DetectEthLinkStatus, odd, dhcp_timer, ResetRxCntr>>
hardware == <<timer, handler, interrupts>>
timerVars == <<hardware, TcpFastTmrFlag, TcpSlowTmrFlag, counters, dhcp_timoutcntr>>

TimersTypeOK ==
    /\ timer \in {"off", "loaded", "running", "fired"}
    /\ handler \in BOOLEAN /\ interrupts \in BOOLEAN
    /\ TcpFastTmrFlag \in BOOLEAN /\ TcpSlowTmrFlag \in BOOLEAN /\ odd \in BOOLEAN
    /\ DetectEthLinkStatus \in 0..ETH_LINK_DETECT_INTERVAL - 1
    /\ dhcp_timer \in 0..CoarseTicks - 1
    /\ ResetRxCntr \in 0..RESET_RX_CNTR_LIMIT - 1
    /\ dhcp_timoutcntr \in 0..DhcpTimeout

TimersInit == /\ timer = "off" /\ handler = FALSE /\ interrupts = FALSE
              /\ TcpFastTmrFlag = FALSE /\ TcpSlowTmrFlag = FALSE
              /\ DetectEthLinkStatus = 0 /\ odd = TRUE /\ dhcp_timer = 0 /\ ResetRxCntr = 0
              /\ dhcp_timoutcntr = DhcpTimeout

-----------------------------------------------------------------------------
\* odd is flipped first: the first interrupt is not a slow one.
SlowTick == ~odd
CoarseCall(build) == build.dhcp /\ SlowTick /\ dhcp_timer + 1 >= CoarseTicks
LinkDetect == DetectEthLinkStatus + 1 = ETH_LINK_DETECT_INTERVAL
RxReset(build) == build.rxreset /\ ResetRxCntr + 1 >= RESET_RX_CNTR_LIMIT

\* Mutants of timer_callback: the link is looked at one interrupt late; `odd' does not
\* survive the interrupt.
timer_callback_off_by_one(build) ==
    /\ DetectEthLinkStatus' = IF DetectEthLinkStatus = ETH_LINK_DETECT_INTERVAL THEN 0
                              ELSE DetectEthLinkStatus + 1
    /\ TcpFastTmrFlag' = TRUE /\ odd' = ~odd
    /\ TcpSlowTmrFlag' = (TcpSlowTmrFlag \/ SlowTick)
    /\ UNCHANGED <<dhcp_timer, dhcp_timoutcntr>>

timer_callback_not_static(build) ==
    /\ DetectEthLinkStatus' = IF LinkDetect THEN 0 ELSE DetectEthLinkStatus + 1
    /\ TcpFastTmrFlag' = TRUE
    /\ UNCHANGED <<odd, TcpSlowTmrFlag, dhcp_timer, dhcp_timoutcntr>>

\* What the callbacks of the three platforms share.
timer_callback(build) ==
    /\ DetectEthLinkStatus' = IF LinkDetect THEN 0 ELSE DetectEthLinkStatus + 1
    /\ TcpFastTmrFlag' = TRUE
    /\ odd' = ~odd
    /\ TcpSlowTmrFlag' = (TcpSlowTmrFlag \/ SlowTick)
    /\ IF build.dhcp /\ SlowTick
         THEN /\ dhcp_timer' = IF CoarseCall(build) THEN 0 ELSE dhcp_timer + 1
              /\ dhcp_timoutcntr' = IF dhcp_timoutcntr = 0 THEN 0 ELSE dhcp_timoutcntr - 1
         ELSE UNCHANGED <<dhcp_timer, dhcp_timoutcntr>>

\* The callback, then the timer is told that its interrupt was served.
MicroBlazeHandler(build) == /\ timer_callback(build) /\ UNCHANGED ResetRxCntr
                            /\ timer' = "running"

ZynqCallback(build) == /\ timer_callback(build)
                       /\ ResetRxCntr' = IF RxReset(build) THEN 0
                                         ELSE IF build.rxreset THEN ResetRxCntr + 1 ELSE ResetRxCntr
                       /\ timer' = "running"

platform_clear_interrupt == timer' = "running"
ZynqMPCallback(build) == /\ timer_callback(build) /\ UNCHANGED ResetRxCntr
                         /\ platform_clear_interrupt

TimerInterrupt(build) ==
    /\ timer = "fired" /\ handler /\ interrupts
    /\ CASE build.platform = "microblaze" -> MicroBlazeHandler(build)
         [] build.platform = "zynq" -> ZynqCallback(build)
         [] build.platform = "zynqmp" -> ZynqMPCallback(build)
    /\ UNCHANGED <<handler, interrupts>>

TimerFires == /\ timer = "running" /\ timer' = "fired"
              /\ UNCHANGED <<handler, interrupts, TcpFastTmrFlag, TcpSlowTmrFlag, counters, dhcp_timoutcntr>>

-----------------------------------------------------------------------------
\* platform_setup_timer, platform_setup_interrupts and platform_enable_interrupts of
\* the three platforms.  Only the MicroBlaze starts its timer before it takes interrupts.
MicroBlazeSetupTimer == timer' = "running" /\ handler' = TRUE
MicroBlazeSetupInterrupts == MicroBlazeSetupTimer
MicroBlazeEnableInterrupts == interrupts' = TRUE /\ UNCHANGED timer

ZynqSetupTimer(works) == timer' = IF works THEN "loaded" ELSE "off"
ZynqSetupInterrupts == handler' = TRUE
ZynqEnableInterrupts == interrupts' = TRUE /\ timer' = IF timer = "loaded" THEN "running" ELSE timer

ZynqMPSetupTimer(works) == timer' = IF works THEN "loaded" ELSE "off"
ZynqMPSetupInterrupts == handler' = TRUE
ZynqMPEnableInterrupts == interrupts' = TRUE /\ timer' = IF timer = "loaded" THEN "running" ELSE timer

\* A timer that cannot be set up is reported, and the program goes on without it.
init_platform(build, works) ==
    /\ CASE build.platform = "microblaze" -> MicroBlazeSetupInterrupts
         [] build.platform = "zynq" -> ZynqSetupTimer(works) /\ ZynqSetupInterrupts
         [] build.platform = "zynqmp" -> ZynqMPSetupTimer(works) /\ ZynqMPSetupInterrupts
    /\ UNCHANGED <<interrupts, TcpFastTmrFlag, TcpSlowTmrFlag, counters, dhcp_timoutcntr>>

platform_enable_interrupts(build) ==
    /\ CASE build.platform = "microblaze" -> MicroBlazeEnableInterrupts
         [] build.platform = "zynq" -> ZynqEnableInterrupts
         [] build.platform = "zynqmp" -> ZynqMPEnableInterrupts
    /\ UNCHANGED <<handler, TcpFastTmrFlag, TcpSlowTmrFlag, counters, dhcp_timoutcntr>>
=============================================================================
