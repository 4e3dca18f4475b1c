------------------------------ MODULE I2cDriver ------------------------------
(****************************************************************************)
(* i2c_access.c: transfers on the I2C bus that an interrupt handler         *)
(* finishes while the caller polls flags.  The flags and the driver live in *)
(* an XIIC_LIB on the stack of the function that programs a device.  The    *)
(* controller and the vendor's driver are external: a transfer ends with an *)
(* event, then the bus becomes idle; a transfer started on a busy bus may   *)
(* or may not happen.                                                       *)
(****************************************************************************)
EXTENDS Naturals

VARIABLES TransmitComplete, ReceiveComplete,
          errors,                 \* TotalErrorCount is not zero
          hidden,                 \* history: an error was signalled with a completion
          owner,                  \* the function whose XIIC_LIB the handler was given
          call,                   \* how far the present driver call is
          bus                     \* the controller: idle, or a transfer

i2cVars == <<TransmitComplete, ReceiveComplete, errors, hidden, owner, call, bus>>
flags == <<TransmitComplete, ReceiveComplete, errors, hidden>>

NoFunction == "none"
IdleBus == [phase |-> "idle"]
Busy(transfer) == [phase |-> "busy", transfer |-> transfer]
Stopping == [phase |-> "stopping"]          \* ended, but the bus is not idle yet

I2cTypeOK(transfers) ==
             /\ TransmitComplete \in BOOLEAN /\ ReceiveComplete \in BOOLEAN /\ errors \in BOOLEAN /\ hidden \in BOOLEAN
             /\ owner \in {NoFunction, "ProgramSi5324", "ProgramSfpPhy"}
             /\ call \in {"none", "wait_send", "wait_recv", "wait_idle"}
             /\ bus \in {IdleBus, Stopping} \cup {Busy(t) : t \in transfers}

I2cInit == /\ TransmitComplete = FALSE /\ ReceiveComplete = FALSE /\ errors = FALSE /\ hidden = FALSE
           /\ owner = NoFunction /\ call = "none" /\ bus = IdleBus

-----------------------------------------------------------------------------
\* The interrupt controller finds its configuration, or not.
SetupInterruptSystem(works, function) == owner' = IF works THEN function ELSE owner

\* The controller is reset, the handler registered and the flags cleared, unless one
\* of the steps fails.
I2cSetupHardware(configured, works, function) ==
    /\ IF configured THEN bus' = IdleBus /\ SetupInterruptSystem(works, function)
       ELSE UNCHANGED <<bus, owner>>
    /\ IF configured /\ works
         THEN TransmitComplete' = FALSE /\ ReceiveComplete' = FALSE /\ errors' = FALSE /\ hidden' = FALSE
         ELSE UNCHANGED flags
    /\ UNCHANGED call

MasterTransfer(transfer) == bus' \in IF bus = IdleBus THEN {Busy(transfer)} ELSE {bus, Busy(transfer)}

\* Mutant of StartSend: the flag of the last transfer is not cleared.
StartSendStale(transfer) ==
    /\ call = "none" /\ call' = "wait_send"
    /\ MasterTransfer(transfer)
    /\ UNCHANGED <<flags, owner>>

\* I2cWriteData up to its first loop.
StartSend(transfer) ==
    /\ call = "none" /\ call' = "wait_send"
    /\ TransmitComplete' = FALSE
    /\ MasterTransfer(transfer)
    /\ UNCHANGED <<ReceiveComplete, errors, hidden, owner>>

\* I2cReadData up to its first loop.
StartReceive(transfer) ==
    /\ call = "none" /\ call' = "wait_recv"
    /\ ReceiveComplete' = FALSE
    /\ MasterTransfer(transfer)
    /\ UNCHANGED <<TransmitComplete, errors, hidden, owner>>

Complete == \/ call = "wait_send" /\ TransmitComplete
            \/ call = "wait_recv" /\ ReceiveComplete

\* The first loop ends with the flag ...
SeeComplete == /\ Complete /\ call' = "wait_idle"
               /\ UNCHANGED <<flags, owner, bus>>

\* ... or returns a failure; the error count is looked at only while the flag is down.
ReturnFailure == /\ call \in {"wait_send", "wait_recv"} /\ ~Complete /\ errors
                 /\ call' = "none"
                 /\ UNCHANGED <<flags, owner, bus>>

\* Mutant of ReturnSuccess: the call returns before the bus is idle.
ReturnSuccessBusy == /\ call = "wait_idle" /\ call' = "none"
                     /\ UNCHANGED <<flags, owner, bus>>

\* The second loop ends when the bus is idle.
ReturnSuccess == /\ call = "wait_idle" /\ bus = IdleBus
                 /\ call' = "none"
                 /\ UNCHANGED <<flags, owner, bus>>

Error == "ERROR"                  \* no acknowledgement, arbitration lost, ...

\* The handler: a completion hides an error that is signalled with it.
StatusHandler(event) ==
    /\ ReceiveComplete' = (ReceiveComplete \/ "COMPLETE_RECV" \in event)
    /\ TransmitComplete' = (TransmitComplete \/ ("COMPLETE_SEND" \in event /\ "COMPLETE_RECV" \notin event))
    /\ errors' = (errors \/ event \cap {"COMPLETE_RECV", "COMPLETE_SEND", "SLAVE_RDY"} = {})
    /\ hidden' = (hidden \/ (Error \in event /\ event # {Error}))

Done(transfer) == IF transfer.dir = "send" THEN "COMPLETE_SEND" ELSE "COMPLETE_RECV"
\* What an interrupt of a running transfer may signal: the events are bits of a mask.  A
\* device that cannot be reached does not acknowledge.
Events(transfer, reachable) == {{Error}, {Done(transfer), Error}}
                               \cup (IF reachable THEN {{Done(transfer)}} ELSE {})

\* The transfer has ended, or goes on after an error.
I2cInterrupt(event) ==
    /\ StatusHandler(event)
    /\ bus' \in IF Done(bus.transfer) \in event THEN {Stopping} ELSE {bus, Stopping}
    /\ UNCHANGED <<owner, call>>

\* The interrupt controller is set up anew, without the I2C interrupt.
I2cIsLeft == /\ TransmitComplete' = FALSE /\ ReceiveComplete' = FALSE /\ errors' = FALSE /\ hidden' = FALSE
             /\ owner' = NoFunction /\ call' = "none" /\ bus' = IdleBus

BusStops == /\ bus = Stopping /\ bus' = IdleBus
            /\ UNCHANGED <<flags, owner, call>>
=============================================================================
