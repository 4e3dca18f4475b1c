----------------------------- MODULE FilterParams -----------------------------
(****************************************************************************)
(* The parameters the modules of the packet filter share.                   *)
(****************************************************************************)
EXTENDS Naturals

CONSTANTS Builds,                 \* the values of PESSIMISTIC: extra registers for timing
          AddrWidth,              \* SNOOP_FWD_ADDR_WIDTH: a buffer has 2^AddrWidth beats
          Zero                    \* a data word of zeros

ASSUME ParamsAssumption == Builds \subseteq BOOLEAN /\ AddrWidth \in Nat \ {0}

\* Arithmetic that TLC evaluates and the provers do not know: they have no powers.
ASSUME DepthAssumption == /\ 2^AddrWidth \in Nat \ {0}
                          /\ 2^(AddrWidth + 1) = 2 * 2^AddrWidth

VARIABLE pessimistic              \* PESSIMISTIC: a parameter of the build, never changes

BeatAddr == 0 .. 2^AddrWidth - 1          \* addresses of the snooper and the forwarder
PortAddr == 0 .. 2^(AddrWidth + 1) - 1    \* addresses of a buffer's ports: half a beat each
=============================================================================
