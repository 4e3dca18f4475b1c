------------------------------ MODULE EchoServer ------------------------------
(****************************************************************************)
(* echo.c: the server on the processor that parses "offset,data\n" lines    *)
(* and writes the registers of the filter.  The parser's state is static,   *)
(* so it is shared by all connections and outlives them.  What is echoed    *)
(* back is left out: its result is ignored.                                 *)
(****************************************************************************)
EXTENDS LoadParams, Sequences

VARIABLES wr_off, wr_data, state, \* the static variables of recv_callback
          recv                    \* recv[s]: the receive callback of the connection

serverVars == <<wr_off, wr_data, state, recv>>

Parser == [wr_off : Word, wr_data : Word, state : {"WR_OFF", "WR_DATA"}]

ServerTypeOK == /\ [wr_off |-> wr_off, wr_data |-> wr_data, state |-> state] \in Parser
                /\ recv \in [Sessions -> {"none", "recv_callback", "closed"}]

ServerInit == /\ wr_off = 0 /\ wr_data = 0 /\ state = "WR_OFF"
              /\ recv = [s \in Sessions |-> "none"]

\* The word of the filter's registers that base[wr_off / 4] is.
Target(off) == 4 * (off \div 4)

\* One round of the loop over the bytes of a pbuf: the new parser state and, at the
\* end of a line, the register write.  Everything else is skipped.
ParseByte(p, byte) ==
    CASE p.state = "WR_OFF" /\ byte = Comma -> [p EXCEPT !.state = "WR_DATA"]
      [] p.state = "WR_OFF" /\ byte \in HexDigit -> [p EXCEPT !.wr_off = ShiftIn(@, byte)]
      [] p.state = "WR_DATA" /\ byte = Newline ->
           [state |-> "WR_OFF", wr_off |-> 0, wr_data |-> 0,
            writes |-> Append(p.writes, [addr |-> Target(p.wr_off), data |-> p.wr_data])]
      [] p.state = "WR_DATA" /\ byte \in HexDigit -> [p EXCEPT !.wr_data = ShiftIn(@, byte)]
      [] OTHER -> p

\* The whole loop.  Binding the state to q makes TLC compute it once for each byte.
Parse(bytes) ==
    Loop(LAMBDA p, byte : CHOOSE next \in {ParseByte(q, byte) : q \in {p}} : TRUE,
         [state |-> state, wr_off |-> wr_off, wr_data |-> wr_data, writes |-> <<>>], bytes)[Len(bytes)]

\* A new connection gets the callback.
AcceptCallback(s) == /\ recv[s] = "none"
                     /\ recv' = [recv EXCEPT ![s] = "recv_callback"]

\* recv_callback with a pbuf whose first part is parsed to this state.  A pbuf that is a
\* chain has more, which is acknowledged (tot_len) and never looked at (len).
RecvCallback(s, parsed) == /\ recv[s] = "recv_callback"
                           /\ wr_off' = parsed.wr_off
                           /\ wr_data' = parsed.wr_data
                           /\ state' = parsed.state
                           /\ UNCHANGED recv

\* recv_callback with p = NULL: the peer has closed.
RecvClosed(s) == /\ recv[s] = "recv_callback"
                 /\ recv' = [recv EXCEPT ![s] = "closed"]
                 /\ UNCHANGED <<wr_off, wr_data, state>>
=============================================================================
