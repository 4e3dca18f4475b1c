---------------------------- MODULE ParallelFilts ----------------------------
(****************************************************************************)
(* parallel_packetfilts.v: N packet filters (VMs) behind one snooper and    *)
(* one forwarder.  On each side a chain of priority arbiters picks a VM     *)
(* that is ready; the choice is kept in registers until the packet is done. *)
(*                                                                          *)
(* Of a VM only the number of its buffers that wait for the snooper, the    *)
(* CPU and the forwarder is kept (PingPangPung says how they move).  The    *)
(* snooper and the forwarder are known by the wires they drive: they start  *)
(* and finish packets only in cycles in which their ready line is high.     *)
(****************************************************************************)
EXTENDS Naturals

CONSTANTS N,                      \* the number of VMs
          Buffers                 \* buffers per VM (three in packetmem.v)

ASSUME ParallelAssumption == N \in Nat \ {0} /\ Buffers \in Nat \ {0}

VARIABLES vm,                     \* vm[i]: where the buffers of VM i are
          do_select,              \* do_snoop_select, do_forwarder_select
          saved,                  \* VM_snoop_enables_saved, VM_forwarder_enables_saved
          target                  \* history: the VM whose packet is being copied or sent

filtsVars == <<vm, do_select, saved, target>>

Side == {"snoop", "forward"}
VM == 0..N-1

\* The arbiters take four lines at a time: the lines are padded to a multiple of 4.
PaddedSize == 4 * ((N + 3) \div 4)
Line == 0..PaddedSize-1

None == PaddedSize                \* no VM

FiltsTypeOK ==
    /\ vm \in [VM -> [snoop : 0..Buffers, cpu : 0..Buffers, forward : 0..Buffers]]
    /\ do_select \in [Side -> BOOLEAN]
    /\ saved \in [Side -> [Line -> BOOLEAN]]
    /\ target \in [Side -> VM \cup {None}]

AllFree == [i \in VM |-> [snoop |-> Buffers, cpu |-> 0, forward |-> 0]]

FiltsInit == /\ vm = AllFree
             /\ do_select = [s \in Side |-> TRUE]
             /\ saved = [s \in Side |-> [i \in Line |-> FALSE]]
             /\ target = [s \in Side |-> None]

\* snooper_readies and forwarder_readies: the padding is never ready.
Readies(s, i) == i \in VM /\ vm[i][s] > 0

\* The carry into the k-th arbiter: some line below its four is ready.
Carry(s, k) == \E i \in 0..4*k-1 : Readies(s, i)

\* Mutant of ArbiterEnables: the carry is not looked at.
ArbiterAlone(s, i) == Readies(s, i) /\ \A j \in 4*(i \div 4)..i-1 : ~Readies(s, j)

\* arbiter_4: the first ready line of its four, unless the carry is set.
ArbiterEnables(s, i) ==
    /\ ~Carry(s, i \div 4)
    /\ Readies(s, i)
    /\ \A j \in 4*(i \div 4)..i-1 : ~Readies(s, j)

\* ready_for_snooper and ready_for_forwarder: the carry out of the last arbiter.
Ready(s) == Carry(s, PaddedSize \div 4)

\* Mutants of VMEnables: nothing is saved; what was saved stays enabled.
VMEnablesUnsaved(s, i) == ArbiterEnables(s, i)
VMEnablesSticky(s, i) == saved[s][i] \/ (do_select[s] /\ ArbiterEnables(s, i))

\* VM_snoop_enables and VM_forwarder_enables.
VMEnables(s, i) == IF do_select[s] THEN ArbiterEnables(s, i) ELSE saved[s][i]

\* A done pulse goes to the VM that is enabled.
Finished(s, done, i) == done[s] /\ VMEnables(s, i)

One(b) == IF b THEN 1 ELSE 0

\* The buffers of VM i after a clock edge: packetmem.v hands on what was finished.
BuffersNext(i, done, acc, rej) ==
    [snoop   |-> vm[i].snoop - One(Finished("snoop", done, i))
                   + One(i \in rej) + One(Finished("forward", done, i)),
     cpu     |-> vm[i].cpu - One(i \in acc \cup rej) + One(Finished("snoop", done, i)),
     forward |-> vm[i].forward - One(Finished("forward", done, i)) + One(i \in acc)]

\* One clock edge.  active[s]: the agent of side s writes or reads in this cycle;
\* done[s]: it raises done; acc and rej: the VMs whose CPU accepts or rejects.  With
\* rst high every VM gets its buffers back, and what is being sent is abandoned; the
\* arbitration registers have no reset.
FiltsClock(rst, active, done, acc, rej) ==
    /\ vm' = IF rst THEN AllFree ELSE [i \in VM |-> BuffersNext(i, done, acc, rej)]
    /\ do_select' = [s \in Side |-> done[s] \/ ~Ready(s)]
    /\ saved' = [s \in Side |-> [i \in Line |-> VMEnables(s, i)]]
    /\ target' = [s \in Side |->
                    IF done[s] \/ (rst /\ s = "forward") THEN None
                    ELSE IF active[s] /\ target[s] = None
                      THEN CHOOSE i \in VM : VMEnables(s, i)
                      ELSE target[s]]

\* The VMs whose CPU has a packet to judge.
Judging == {i \in VM : vm[i].cpu > 0}

Run ==
    \E active, done \in [Side -> BOOLEAN] :
    \E acc \in SUBSET Judging : \E rej \in SUBSET (Judging \ acc) :
       /\ \A s \in Side : (active[s] => Ready(s)) /\ (done[s] => active[s])
       /\ FiltsClock(FALSE, active, done, acc, rej)

\* The filter is stopped: the CPUs are idle, the snooper and the forwarder go on.
Stop ==
    \E active, done \in [Side -> BOOLEAN] :
       /\ \A s \in Side : (active[s] => Ready(s)) /\ (done[s] => active[s])
       /\ FiltsClock(TRUE, active, done, {}, {})

FiltsNext == Run \/ Stop

FiltsSpec == FiltsInit /\ [][FiltsNext]_filtsVars

-----------------------------------------------------------------------------

\* When a ready line is high, exactly one VM is wired to that agent, and it is one
\* that has a buffer for it: no write, read or done pulse goes to two VMs (the
\* one-hot multiplexers rely on it) or to a VM that waits for nothing.
OneReadyVM ==
    \A s \in Side : Ready(s) =>
        \E i \in VM : /\ Readies(s, i)
                      /\ \A j \in Line : VMEnables(s, j) <=> j = i

\* A packet whose copying or sending has begun stays with its VM until it is done,
\* although VMs of higher priority become ready in the meantime.
PacketKeepsItsVM ==
    \A s \in Side : target[s] # None =>
        \A j \in Line : VMEnables(s, j) <=> j = target[s]
=============================================================================
