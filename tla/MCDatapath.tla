----------------------------- MODULE MCDatapath -----------------------------
(****************************************************************************)
(* FilterDatapath for TLC: the beats of the packets the source sends.       *)
(****************************************************************************)
EXTENDS FilterDatapath

\* The shortest packets of each build; with PESSIMISTIC also longer ones, so that lengths
\* grow and shrink, and without it reads by the CPU, which disturb the output registers.
Lengths == [b \in BOOLEAN |-> IF b THEN 2..3 ELSE {3}]
Reads   == [b \in BOOLEAN |-> IF b THEN {} ELSE {1}]

BeatData == [pkt : 0..PktIds-1, n : 0..MaxBeats-1]

\* The snooper tells cycles without a transfer apart by TLAST only.
BeatOrIdle == {w \in Wires : w.tvalid = w.tready /\ (w.tlast => w.tvalid)}
=============================================================================
