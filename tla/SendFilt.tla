------------------------------- MODULE SendFilt -------------------------------
(****************************************************************************)
(* sendfilt.cpp: a run of the program compiles a filter, connects, and      *)
(* sends one line to stop the filter, one buffer of two lines for each      *)
(* instruction and one line to start the filter; then its socket is closed. *)
(****************************************************************************)
EXTENDS LoadParams, Sequences

CONSTANT Program                  \* Program[s]: the instructions pcap_compile returned

\* An instruction is a record of two sequences of hex digits: code, jt and jf, and k.
Digits == [high : Seq(HexDigit), low : Seq(HexDigit)]

ASSUME ProgramAssumption == \A s \in Sessions : Program[s] \in Seq(Digits)

VARIABLES client,                 \* client[s]: what the run is doing
          sent                    \* sent[s]: how many buffers it has sent

clientVars == <<client, sent>>

Line(offset, digits) == <<offset, Comma>> \o digits \o <<Newline, Skipped>>

\* The control lines are sent with the zero that ends a string literal.
ControlLine(digit) == Line(4, <<digit>>) \o <<Skipped>>

InstructionLines(i) == Line(12, i.high) \o Line(8, i.low)

Buffers(s) == <<ControlLine(0)>> \o [n \in DOMAIN Program[s] |-> InstructionLines(Program[s][n])]
                \o <<ControlLine(1)>>

SendTypeOK == /\ client \in [Sessions -> {"idle", "sending", "done"}]
              /\ sent \in [Sessions -> Nat]
              /\ \A s \in Sessions : sent[s] \in 0..Len(Buffers(s))

SendInit == /\ client = [s \in Sessions |-> "idle"]
            /\ sent = [s \in Sessions |-> 0]

\* The compilation succeeded; the socket is connected.
Connect(s) == /\ client[s] = "idle"
              /\ client' = [client EXCEPT ![s] = "sending"]
              /\ UNCHANGED sent

AllSent(s) == sent[s] = Len(Buffers(s))

Send(s) == /\ client[s] = "sending" /\ ~AllSent(s)
           /\ sent' = [sent EXCEPT ![s] = @ + 1]
           /\ UNCHANGED client

\* The end of main: everything is sent, or a send threw an exception, or the
\* program was killed.
Quit(s) == /\ client[s] = "sending"
           /\ client' = [client EXCEPT ![s] = "done"]
           /\ UNCHANGED sent
=============================================================================
