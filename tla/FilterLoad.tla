------------------------------ MODULE FilterLoad ------------------------------
(****************************************************************************)
(* sendfilt, TCP, the echo server, the bus and the code loader together:    *)
(* what program the filters run after runs of sendfilt that may overlap, be *)
(* killed, lose data or meet a reboot of the board.                         *)
(****************************************************************************)
EXTENDS CodeLoader, EchoServer, SendFilt, FiniteSets

CONSTANTS Splits,                 \* bytes of a run after which a long segment may be split
          BusCycles,              \* AWVALID, WVALID and BREADY while a write is on its way
          MaxPosted,              \* bound: register writes on their way when the server runs
          MaxTroubles             \* bound: how often something goes wrong

AllReady == [awvalid |-> TRUE, wvalid |-> TRUE, bready |-> TRUE]

ASSUME FilterLoadAssumption == /\ Splits \subseteq Nat /\ MaxPosted \in Nat /\ MaxTroubles \in Nat
                               /\ BusCycles \subseteq [awvalid : BOOLEAN, wvalid : BOOLEAN, bready : BOOLEAN]
                               /\ AllReady \in BusCycles

\* The code memory holds every program.  Nothing in sendfilt or the loader checks that:
\* a longer one wraps onto its own start (regstrb2mem.v:82-85).
ASSUME ProgramsFit == \A s \in Sessions : Len(Program[s]) <= CodeSize

VARIABLES received,               \* received[s]: how many bytes TCP has passed on or lost
          posted,                 \* register writes of the processor the bus has not completed
          last,                   \* history: the run that connected last, or NoSession
          clean,                  \* history: that run began on a clean board, undisturbed
          troubles                \* history: overlaps, cut runs, losses and restarts

vars == <<loaderVars, serverVars, clientVars, received, posted, last, clean, troubles>>

NoSession == "no session"

TypeOK == /\ LoaderTypeOK /\ ServerTypeOK /\ SendTypeOK
          /\ received \in [Sessions -> Nat]
          /\ \A n \in DOMAIN posted : posted[n] \in [addr : Word, data : Word]
          /\ last \in Sessions \cup {NoSession} /\ clean \in BOOLEAN /\ troubles \in 0..MaxTroubles

Init == /\ LoaderInit /\ ServerInit /\ SendInit
        /\ received = [s \in Sessions |-> 0]
        /\ posted = <<>>
        /\ last = NoSession /\ clean = FALSE /\ troubles = 0

-----------------------------------------------------------------------------
\* All bytes of each run, and where its buffers end.
RunBytes == [s \in Sessions |-> Loop(\o, <<>>, Buffers(s))[Len(Buffers(s))]]
BufferEnds == [s \in Sessions |-> [k \in 0..Len(Buffers(s)) |-> Len(Loop(\o, <<>>, Buffers(s))[k])]]

SentBytes(s) == BufferEnds[s][sent[s]]
Delivered(s) == received[s] = SentBytes(s)

\* The bytes after which a segment may end: each send makes one, which TCP merges with
\* its neighbours and splits where it is full.
SegmentEnds(s) == {BufferEnds[s][k] : k \in 0..sent[s]} \cup {n \in Splits : n < SentBytes(s)}

\* A run is active until TCP has passed on all it sent.
Active(s) == client[s] = "sending" \/ ~Delivered(s)

\* Every register write has reached the code memory.
Settled == /\ posted = <<>> /\ write_state = "WRITE_IDLE"
           /\ \A r \in {regs, regs_r, regs_r2} : ~r.lowStrobe /\ ~r.highStrobe /\ r.start = regs.start

\* A board on which a run of sendfilt can begin: nothing of an earlier run is left in
\* the parser, in the flags of regstrb2mem or in the write address.
CleanBoard == /\ Settled
              /\ wr_off = 0 /\ wr_data = 0 /\ state = "WR_OFF"
              /\ ~inst_low_valid /\ wr_addr = 0

Disturb(bad) == /\ troubles' = troubles + (IF bad THEN 1 ELSE 0)
                /\ troubles' <= MaxTroubles
                /\ clean' = (clean /\ ~bad)

Begin(s) ==
    /\ Connect(s) /\ AcceptCallback(s)
    /\ last' = s
    /\ LET overlap == \E t \in Sessions : Active(t)
       IN /\ troubles' = troubles + (IF overlap THEN 1 ELSE 0) /\ troubles' <= MaxTroubles
          /\ clean' = (~overlap /\ (troubles = 0 \/ CleanBoard))
    /\ UNCHANGED <<loaderVars, wr_off, wr_data, state, received, posted>>

SendBuffer(s) ==
    /\ Send(s)
    /\ UNCHANGED <<loaderVars, serverVars, received, posted, last, clean, troubles>>

\* The program ends, early or with everything sent.
Leave(s) ==
    /\ Quit(s)
    /\ Disturb(~AllSent(s))
    /\ UNCHANGED <<loaderVars, serverVars, received, posted, last>>

\* Closing a socket whose echoes were never read resets the connection: bytes not yet
\* delivered are lost (sendfilt.cpp:67 never receives).
Reset(s) ==
    /\ client[s] = "done" /\ ~Delivered(s)
    /\ received' = [received EXCEPT ![s] = SentBytes(s)]
    /\ Disturb(TRUE)
    /\ UNCHANGED <<loaderVars, serverVars, clientVars, posted, last>>

\* lwIP passes on a pbuf of the bytes up to tot_len, a chain of more than one part if
\* a segment was overtaken, and the callback reads its first part, up to len.
Receive(s) ==
    \E len, tot_len \in SegmentEnds(s) :
        /\ received[s] < len /\ len <= tot_len /\ Len(posted) <= MaxPosted
        /\ \E parsed \in {Parse(SubSeq(RunBytes[s], received[s] + 1, len))} :
               /\ RecvCallback(s, parsed)
               /\ posted' = posted \o parsed.writes
        /\ received' = [received EXCEPT ![s] = tot_len]
        /\ Disturb(len < tot_len)
        /\ UNCHANGED <<loaderVars, clientVars, last>>

Close(s) ==
    /\ client[s] = "done" /\ Delivered(s)
    /\ RecvClosed(s)
    /\ UNCHANGED <<loaderVars, clientVars, received, posted, last, clean, troubles>>

\* A clock edge; the bus offers the oldest posted write and drops it when it is taken.
Clock(bus) ==
    /\ IF posted = <<>>
         THEN LoaderClock([addr |-> 0, data |-> 0], FALSE, FALSE, bus.bready) /\ UNCHANGED posted
         ELSE /\ LoaderClock(Head(posted), bus.awvalid, bus.wvalid, bus.bready)
              /\ posted' = IF Complete(bus.awvalid, bus.wvalid) THEN Tail(posted) ELSE posted
    /\ UNCHANGED <<serverVars, clientVars, received, last, clean, troubles>>

\* The processor restarts, with or without a reset of the fabric: the server's statics
\* and the connections are gone, the registers of regstrb2mem.v are not.
Reboot ==
    /\ Disturb(TRUE)
    /\ \/ LoaderReset /\ posted' = <<>>
       \/ UNCHANGED <<loaderVars, posted>>
    /\ wr_off' = 0 /\ wr_data' = 0 /\ state' = "WR_OFF"
    /\ recv' = [s \in Sessions |-> IF recv[s] = "none" THEN "none" ELSE "closed"]
    /\ client' = [s \in Sessions |-> IF client[s] = "idle" THEN "idle" ELSE "done"]
    /\ received' = [s \in Sessions |-> SentBytes(s)]
    /\ UNCHANGED <<sent, last>>

Next == \/ \E s \in Sessions : Begin(s) \/ SendBuffer(s) \/ Leave(s) \/ Reset(s) \/ Receive(s) \/ Close(s)
        \/ \E bus \in BusCycles : Clock(bus)
        \/ Reboot

\* The clock runs and the bus gets every write through; lwIP delivers what was sent;
\* a run of sendfilt keeps sending.
Fairness == /\ WF_vars(Clock(AllReady))
            /\ \A s \in Sessions : WF_vars(SendBuffer(s)) /\ WF_vars(Receive(s))

Spec == Init /\ [][Next]_vars /\ Fairness

-----------------------------------------------------------------------------
Number(digits) == Loop(ShiftIn, 0, digits)[Len(digits)]

Loaded(s) == \A n \in DOMAIN Program[s] :
                code[n - 1] = [high |-> Number(Program[s][n].high), low |-> Number(Program[s][n].low)]

\* A run that began on a clean board and was not disturbed ends with its program in
\* the code memory from address 0 on and the filters started: no instruction is lost,
\* doubled, mixed from two, or put behind what an earlier run left
\* (sendfilt.cpp:69-87, echo.c:75-118, regstrb2mem.v:69-94).  As long as no run was
\* disturbed, every board is clean.
LoadedProgram ==
    clean /\ AllSent(last) /\ Delivered(last) /\ Settled => regs.start /\ Loaded(last)

\* Every run that is not disturbed gets its program to run (sendfilt.cpp:86).
Restarts == clean ~> (~clean \/ (Settled /\ regs.start /\ Loaded(last)))
=============================================================================
