------------------------------ MODULE AxiSource ------------------------------
(****************************************************************************)
(* The traffic on the AXI Stream bus that the snooper listens to (the bus   *)
(* is outside the filter: a source and a sink exchange packets on it and    *)
(* the filter only watches).  In each clock cycle the wires TVALID, TREADY  *)
(* and TLAST have a value; a beat is transferred in a cycle where TVALID    *)
(* and TREADY are both high.  The source keeps TVALID and its beat until it *)
(* is transferred, as AXI Stream demands, and says nothing of TLAST while   *)
(* TVALID is low.                                                           *)
(****************************************************************************)
EXTENDS Naturals

CONSTANTS MinBeats, MaxBeats,     \* the lengths of packets, in beats
          PktIds,                 \* packets are numbered modulo PktIds
          BusWires                \* the values of the wires that occur

Wires == [tvalid : BOOLEAN, tready : BOOLEAN, tlast : BOOLEAN]

ASSUME SourceAssumption == /\ MinBeats \in Nat \ {0}
                           /\ MaxBeats \in Nat /\ MinBeats <= MaxBeats
                           /\ PktIds \in Nat \ {0}
                           /\ BusWires \subseteq Wires

VARIABLES pkt, beats, beat,       \* the packet being sent, its length, its next beat
          offered                 \* that beat was offered in the last cycle and not taken

sourceVars == <<pkt, beats, beat, offered>>

SourceTypeOK == /\ pkt \in 0..PktIds-1
                /\ beats \in MinBeats..MaxBeats
                /\ beat \in 0..MaxBeats-1
                /\ offered \in BOOLEAN

LastBeat == beat = beats - 1
TDATA_in == [pkt |-> pkt, n |-> beat]

Transfer(bus) == bus.tvalid /\ bus.tready

\* The values the wires may have in this cycle.
MayCarry(bus) == /\ bus \in BusWires
                 /\ offered => bus.tvalid
                 /\ bus.tvalid => bus.tlast = LastBeat

SourceInit == /\ pkt = 0 /\ beat = 0 /\ offered = FALSE
              /\ beats \in MinBeats..MaxBeats

SourceClock(bus) ==
    /\ offered' = (bus.tvalid /\ ~bus.tready)
    /\ IF Transfer(bus) /\ LastBeat
         THEN beat' = 0 /\ pkt' = (pkt + 1) % PktIds /\ beats' \in MinBeats..MaxBeats
         ELSE beat' = (IF Transfer(bus) THEN beat + 1 ELSE beat) /\ UNCHANGED <<pkt, beats>>
=============================================================================
