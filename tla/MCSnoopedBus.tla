---------------------------- MODULE MCSnoopedBus ----------------------------
(****************************************************************************)
(* SnoopedBus for TLC: the wires of the bus do everything AXI Stream        *)
(* allows.                                                                  *)
(****************************************************************************)
EXTENDS SnoopedBus

AnyWires == Wires
=============================================================================
