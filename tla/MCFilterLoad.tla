----------------------------- MODULE MCFilterLoad -----------------------------
EXTENDS FilterLoad, TLC

\* A word is one hex digit; the first run loads one instruction, the second two.
Programs == ("first" :> <<[high |-> <<1>>, low |-> <<2>>]>>)
            @@ ("second" :> <<[high |-> <<3>>, low |-> <<4>>], [high |-> <<5>>, low |-> <<6>>]>>)
\* The bus offers address and data together, or one of them first.
Cycles == {[awvalid |-> aw, wvalid |-> w, bready |-> TRUE] : aw, w \in BOOLEAN}
          \ {[awvalid |-> FALSE, wvalid |-> FALSE, bready |-> TRUE]}
=============================================================================
