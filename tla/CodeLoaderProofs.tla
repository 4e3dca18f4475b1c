--------------------------- MODULE CodeLoaderProofs ---------------------------
(****************************************************************************)
(* Proofs about the code loader for every word size, memory size and build, *)
(* alone on any bus and composed with sendfilt, TCP and the server: the     *)
(* variables keep their types, the code memory is stable while the filters  *)
(* run, and an undisturbed run gets its program into the code memory.       *)
(*                                                                          *)
(* The last takes most of the module.  The loops over bytes, digits and     *)
(* buffers are recursive functions; what they compute is proved once for    *)
(* any of them (Iterate), by induction over a set of numbers.  A pbuf is    *)
(* then a sequence of register writes, a run is the writes of its program,  *)
(* and a clock edge is half of a write, which the loader at rest (AtRest)   *)
(* has taken as a whole or not at all.  The invariant says what the loader  *)
(* at rest would hold if all that is still to come had come: the writes on  *)
(* the bus, then those of the bytes that TCP has not passed on.             *)
(****************************************************************************)
EXTENDS FilterLoad, SequenceTheorems, WellFoundedInduction, TLAPS

File == INSTANCE BpfFile

-----------------------------------------------------------------------------
(* Types *)

LEMMA UpdatedRegsType ==
    ASSUME LoaderTypeOK PROVE UpdatedRegs \in Outputs
<1>1. regs \in Outputs /\ wdata \in Word
  BY DEF LoaderTypeOK
<1> DEFINE start == IF awaddr = CONTROL_OFFSET THEN wdata % 2 = 1 ELSE regs.start
           low == IF awaddr = INST_LOW_OFFSET THEN wdata ELSE regs.low
           high == IF awaddr = INST_HIGH_OFFSET THEN wdata ELSE regs.high
           lowStrobe == awaddr = INST_LOW_OFFSET
           highStrobe == awaddr = INST_HIGH_OFFSET
<1>2. start \in BOOLEAN /\ lowStrobe \in BOOLEAN /\ highStrobe \in BOOLEAN
  <2>1. regs.start \in BOOLEAN
    BY <1>1 DEF Outputs
  <2>2. (wdata % 2 = 1) \in BOOLEAN
    OBVIOUS
  <2> QED BY <2>1, <2>2
<1>3. low \in Word /\ high \in Word
  BY <1>1 DEF Outputs
<1>4. UpdatedRegs = [start |-> start, low |-> low, high |-> high,
                     lowStrobe |-> lowStrobe, highStrobe |-> highStrobe]
  BY DEF UpdatedRegs
<1> HIDE DEF start, low, high, lowStrobe, highStrobe
<1> QED BY <1>2, <1>3, <1>4 DEF Outputs

\* regstrb2mem and the code memory keep their types whatever the registers do.
LEMMA Regstrb2memType ==
    ASSUME LoaderTypeOK, Regstrb2mem, CodeRam
    PROVE  /\ wr_addr' \in CodeAddr
           /\ inst_low_valid' \in BOOLEAN /\ inst_high_valid' \in BOOLEAN
           /\ code' \in [CodeAddr -> Instruction]
<1>1. Internal \in Outputs
  BY DEF LoaderTypeOK, Internal
<1>2. wr_addr' \in CodeAddr
  BY LoaderAssumption DEF LoaderTypeOK, Regstrb2mem, CodeAddr
<1>3. inst_low_valid' \in BOOLEAN /\ inst_high_valid' \in BOOLEAN
  BY DEF Regstrb2mem
<1>4. [high |-> Internal.high, low |-> Internal.low] \in Instruction
  BY <1>1 DEF Outputs, Instruction
<1>5. code' \in [CodeAddr -> Instruction]
  BY <1>4 DEF LoaderTypeOK, CodeRam
<1> QED BY <1>2, <1>3, <1>5

\* The write FSM stays within its states.
LEMMA WriteStateType ==
    ASSUME LoaderTypeOK, NEW aw \in BOOLEAN, NEW w \in BOOLEAN, NEW b \in BOOLEAN
    PROVE  NextWriteState(aw, w, b) \in WriteStates
BY DEF LoaderTypeOK, NextWriteState, WriteStates

LEMMA LoaderStepType == LoaderTypeOK /\ [LoaderNext]_loaderVars => LoaderTypeOK'
<1> SUFFICES ASSUME LoaderTypeOK, [LoaderNext]_loaderVars PROVE LoaderTypeOK'
  OBVIOUS
<1>1. ASSUME NEW addr \in Nat, NEW data \in Word,
             NEW aw \in BOOLEAN, NEW w \in BOOLEAN, NEW b \in BOOLEAN,
             LoaderClock([addr |-> addr, data |-> data], aw, w, b)
      PROVE  LoaderTypeOK'
  <2>1. write_state' \in WriteStates /\ awaddr' \in Nat /\ wdata' \in Word
    BY <1>1, WriteStateType DEF LoaderClock, WriteFsm, LoaderTypeOK
  <2>2. regs' \in Outputs
    BY <1>1, UpdatedRegsType DEF LoaderClock, WriteFsm, LoaderTypeOK, Outputs
  <2>3. regs_r' \in Outputs /\ regs_r2' \in Outputs
    BY <1>1 DEF LoaderClock, DelayClock, LoaderTypeOK
  <2>4. pessimistic' \in Builds
    BY <1>1 DEF LoaderClock, LoaderTypeOK
  <2> QED BY <1>1, <2>1, <2>2, <2>3, <2>4, Regstrb2memType DEF LoaderClock, LoaderTypeOK
<1>2. CASE LoaderReset
  <2>1. write_state' \in WriteStates /\ awaddr' \in Nat /\ wdata' \in Word
    BY <1>2, LoadParamsAssumption DEF LoaderReset, WriteReset, WriteStates, Word
  <2>2. regs' \in Outputs
    BY <1>2, LoadParamsAssumption DEF LoaderReset, WriteReset, ResetOutputs, Outputs, Word
  <2>3. regs_r' \in Outputs /\ regs_r2' \in Outputs
    BY <1>2 DEF LoaderReset, DelayClock, LoaderTypeOK
  <2>4. pessimistic' \in Builds
    BY <1>2 DEF LoaderReset, LoaderTypeOK
  <2> QED BY <1>2, <2>1, <2>2, <2>3, <2>4, Regstrb2memType DEF LoaderReset, LoaderTypeOK
<1>3. CASE UNCHANGED loaderVars
  BY <1>3 DEF LoaderTypeOK, loaderVars, fsmVars, strb2memVars
<1> QED BY <1>1, <1>2, <1>3 DEF LoaderNext

LEMMA LoaderTypesInit == LoaderInit => LoaderTypeOK
<1> SUFFICES ASSUME LoaderInit PROVE LoaderTypeOK
  OBVIOUS
<1>1. 0 \in Word /\ 0 \in CodeAddr
  BY LoaderAssumption, LoadParamsAssumption DEF Word, CodeAddr
<1>2. ResetOutputs \in Outputs
  BY <1>1 DEF ResetOutputs, Outputs
<1>3. code \in [CodeAddr -> Instruction]
  <2>1. [high |-> 0, low |-> 0] \in Instruction
    BY <1>1 DEF Instruction
  <2> QED BY <2>1 DEF LoaderInit
<1>4. write_state \in WriteStates /\ awaddr \in Nat
  BY DEF LoaderInit, WriteStates
<1> QED BY <1>1, <1>2, <1>3, <1>4 DEF LoaderInit, LoaderTypeOK

\* On a bus that writes any words to any addresses at any pace, and with resets at any
\* time, the loader's registers keep their types and no code address is out of range.
THEOREM LoaderTypes == LoaderSpec => []LoaderTypeOK
<1> QED BY LoaderTypesInit, LoaderStepType, PTL DEF LoaderSpec

-----------------------------------------------------------------------------
(* Stability of the code memory *)

\* What the proof needs to know of a set of register outputs.
Wellformed(r) == /\ r = [start |-> r.start, low |-> r.low, high |-> r.high,
                         lowStrobe |-> r.lowStrobe, highStrobe |-> r.highStrobe]
                 /\ r.start \in BOOLEAN

Strobe(r) == r.lowStrobe \/ r.highStrobe

\* A strobe on its way through the delay registers: as long as it has not arrived, no
\* later write can have started the filters.
StableInv == /\ Wellformed(regs) /\ Wellformed(regs_r) /\ Wellformed(regs_r2)
             /\ Strobe(regs) => write_state = "WRITE_DONE"
             /\ Strobe(regs_r) => /\ write_state \in {"WRITE_DONE", "WRITE_IDLE"}
                                  /\ regs.start => regs_r.start
             /\ Strobe(regs_r2) => (regs.start => regs_r2.start)

LEMMA StableInit == LoaderInit => StableInv
BY DEF LoaderInit, StableInv, ResetOutputs, Wellformed, Strobe

\* One edge of the write FSM on any bus: a strobe falls after one cycle, control.start
\* changes only out of WRITE_UPDATE_REGISTER.
LEMMA FsmStep ==
    ASSUME StableInv, NEW wr, NEW aw, NEW w, NEW b, WriteFsm(wr, aw, w, b)
    PROVE  /\ Wellformed(regs')
           /\ Strobe(regs') => write_state' = "WRITE_DONE"
           /\ write_state = "WRITE_DONE" => write_state' \in {"WRITE_DONE", "WRITE_IDLE"}
           /\ write_state # "WRITE_UPDATE_REGISTER" => regs'.start = regs.start
<1>1. CASE write_state = "WRITE_UPDATE_REGISTER"
  <2>1. regs' = UpdatedRegs
    BY <1>1 DEF WriteFsm
  <2>2. Wellformed(regs')
    BY <2>1 DEF UpdatedRegs, Wellformed, StableInv
  <2>3. write_state' = "WRITE_DONE"
    BY <1>1 DEF WriteFsm, NextWriteState, Complete, TakesAddr, TakesData
  <2> QED BY <1>1, <2>2, <2>3
<1>2. CASE write_state # "WRITE_UPDATE_REGISTER"
  <2>1. regs' = [start |-> regs.start, low |-> regs.low, high |-> regs.high,
                lowStrobe |-> FALSE, highStrobe |-> FALSE]
    BY <1>2 DEF WriteFsm
  <2>2. Wellformed(regs') /\ ~Strobe(regs') /\ regs'.start = regs.start
    BY <2>1 DEF Wellformed, StableInv, Strobe
  <2>3. write_state = "WRITE_DONE" => write_state' \in {"WRITE_DONE", "WRITE_IDLE"}
    BY DEF WriteFsm, NextWriteState, Complete, TakesAddr, TakesData
  <2> QED BY <2>2, <2>3
<1> QED BY <1>1, <1>2

LEMMA ClockStable ==
    ASSUME StableInv, NEW wr, NEW aw, NEW w, NEW b, LoaderClock(wr, aw, w, b)
    PROVE  StableInv'
<1>1. WriteFsm(wr, aw, w, b) /\ regs_r' = regs /\ regs_r2' = regs_r
  BY DEF LoaderClock, DelayClock
<1>2. Strobe(regs) => write_state' \in {"WRITE_DONE", "WRITE_IDLE"} /\ regs'.start = regs.start
  BY <1>1, FsmStep DEF StableInv
<1>3. Strobe(regs_r) => regs'.start = regs.start
  BY <1>1, FsmStep DEF StableInv
<1> QED BY <1>1, <1>2, <1>3, FsmStep DEF StableInv, Wellformed, Strobe

LEMMA ResetStable == ASSUME StableInv, LoaderReset PROVE StableInv'
<1>1. regs' = ResetOutputs /\ write_state' = "WRITE_IDLE" /\ regs_r' = regs /\ regs_r2' = regs_r
  BY DEF LoaderReset, WriteReset, DelayClock
<1>2. Wellformed(regs') /\ ~Strobe(regs') /\ ~regs'.start
  BY <1>1 DEF ResetOutputs, Wellformed, Strobe
<1> QED BY <1>1, <1>2 DEF StableInv, Wellformed, Strobe

LEMMA UnchangedStable == StableInv /\ UNCHANGED loaderVars => StableInv'
BY DEF StableInv, loaderVars, fsmVars, strb2memVars, Wellformed, Strobe

\* While the filters run no instruction is complete at the memory.
LEMMA NoWriteWhileRunning == StableInv /\ regs.start => ~CodeWrEn
BY DEF StableInv, Wellformed, Strobe, CodeWrEn, Internal

\* The code memory does not change while the filters run, on any bus, in both builds.
THEOREM CodeIsStable == LoaderSpec => CodeStable
<1>1. StableInv /\ [LoaderNext]_loaderVars => StableInv'
  BY ClockStable, ResetStable, UnchangedStable DEF LoaderNext
<1>2. StableInv /\ [LoaderNext]_loaderVars => [regs.start => UNCHANGED code]_loaderVars
  BY NoWriteWhileRunning DEF LoaderNext, LoaderClock, LoaderReset, CodeRam
<1> QED BY <1>1, <1>2, StableInit, PTL DEF LoaderSpec, CodeStable

\* Nor does it in the system of sendfilt, server, bus and loader, whatever the runs of
\* sendfilt do to each other.
THEOREM RunningCodeIsStable == Spec => CodeStable
<1>1. ASSUME StableInv, [Next]_vars
      PROVE  StableInv' /\ [regs.start => UNCHANGED code]_loaderVars
  <2>1. CASE UNCHANGED loaderVars
    BY <1>1, <2>1, UnchangedStable
  <2>2. ASSUME NEW wr, NEW aw, NEW w, NEW b, LoaderClock(wr, aw, w, b)
        PROVE  StableInv' /\ [regs.start => UNCHANGED code]_loaderVars
    BY <1>1, <2>2, ClockStable, NoWriteWhileRunning DEF LoaderClock, CodeRam
  <2>3. CASE LoaderReset
    BY <1>1, <2>3, ResetStable, NoWriteWhileRunning DEF LoaderReset, CodeRam
  <2>4. ASSUME NEW bus \in BusCycles, Clock(bus)
        PROVE  StableInv' /\ [regs.start => UNCHANGED code]_loaderVars
    BY <2>2, <2>4 DEF Clock
  <2>5. ASSUME NEW s \in Sessions,
               Begin(s) \/ SendBuffer(s) \/ Leave(s) \/ Reset(s) \/ Receive(s) \/ Close(s)
        PROVE  UNCHANGED loaderVars
    BY <2>5 DEF Begin, SendBuffer, Leave, Reset, Receive, Close
  <2>6. Reboot => LoaderReset \/ UNCHANGED loaderVars
    BY DEF Reboot
  <2>7. CASE UNCHANGED vars
    BY <2>1, <2>7 DEF vars
  <2> QED BY <1>1, <2>1, <2>3, <2>4, <2>5, <2>6, <2>7 DEF Next
<1>2. Init => StableInv
  BY StableInit DEF Init
<1> QED BY <1>1, <1>2, PTL DEF Spec, CodeStable

-----------------------------------------------------------------------------
(* Loops: recursive functions over a sequence *)

\* Induction up to n, for a set: the least number that is missing would not be 0.
LEMMA UpTo ==
    ASSUME NEW n \in Nat, NEW Z, 0 \in Z, \A k \in 1..n : k - 1 \in Z => k \in Z
    PROVE  0..n \subseteq Z
<1> DEFINE T == (0..n) \ Z
<1>1. SUFFICES ASSUME T # {} PROVE FALSE
  OBVIOUS
<1>2. T \subseteq Nat
  OBVIOUS
<1>3. PICK k \in T : \A j \in T : ~(<<j, k>> \in OpToRel(<, Nat))
  BY <1>1, <1>2, NatLessThanWellFounded, WFMin
<1>4. k \in 1..n /\ k - 1 \in Nat /\ k - 1 < k /\ k \in Nat /\ k \notin Z
  <2>1. k \in 0..n /\ k \notin Z
    OBVIOUS
  <2>2. k # 0
    BY <2>1
  <2> QED
    BY <2>1, <2>2
<1>5. k - 1 \notin T
  BY <1>3, <1>4 DEF OpToRel
<1> QED
  BY <1>4, <1>5

\* The step function of a loop over elements of B keeps the type S.
Keeps(g, S, B) == g \in [S \X B -> S]

\* f has the values of a loop over q with the step function g.
Follows(f, g, a, q) == f = [n \in 0..Len(q) |-> IF n = 0 THEN a ELSE g[<<f[n - 1], q[n]>>]]

\* A loop with a step function: its values, and the last of them.
Values(g, a, q) == CHOOSE f : Follows(f, g, a, q)
Iterate(g, a, q) == Values(g, a, q)[Len(q)]

\* The values of a loop exist, and are of the type its step keeps.
LEMMA ValuesExist ==
    ASSUME NEW S, NEW B, NEW g, Keeps(g, S, B), NEW a \in S, NEW q \in Seq(B)
    PROVE  \E f \in [0..Len(q) -> S] : Follows(f, g, a, q)
<1> DEFINE UpToStep(n, f) == f[0] = a /\ \A k \in 1..n : f[k] = g[<<f[k - 1], q[k]>>]
           Z == {n \in 0..Len(q) : \E f \in [0..n -> S] : UpToStep(n, f)}
<1>1. Len(q) \in Nat /\ \A k \in 1..Len(q) : q[k] \in B
  OBVIOUS
<1>2. 0 \in Z
  <2> DEFINE f == [n \in 0..0 |-> a]
  <2>1. f \in [0..0 -> S] /\ f[0] = a /\ 1..0 = {}
    OBVIOUS
  <2> HIDE DEF f
  <2>2. UpToStep(0, f)
    BY <2>1
  <2>3. 0 \in 0..Len(q)
    BY <1>1
  <2> HIDE DEF UpToStep
  <2> QED
    BY <2>1, <2>2, <2>3
<1>3. ASSUME NEW k \in 1..Len(q), k - 1 \in Z
      PROVE  k \in Z
  <2>1. PICK f \in [0..k-1 -> S] : UpToStep(k - 1, f)
    BY <1>3
  <2> DEFINE h == [n \in 0..k |-> IF n = k THEN g[<<f[k - 1], q[k]>>] ELSE f[n]]
  <2>2. f[k - 1] \in S /\ g[<<f[k - 1], q[k]>>] \in S /\ k \in Nat /\ k # 0
    BY <1>1, <2>1 DEF Keeps
  <2>3. h \in [0..k -> S]
    <3>1. ASSUME NEW n \in 0..k PROVE h[n] \in S
      BY <2>1, <2>2, <3>1
    <3> QED
      BY <3>1
  <2>4. h[0] = a
    BY <2>1, <2>2
  <2>5. ASSUME NEW n \in 1..k PROVE h[n] = g[<<h[n - 1], q[n]>>]
    <3>1. n - 1 \in 0..k /\ n - 1 # k /\ n \in 0..k
      BY <2>5
    <3>2. h[n - 1] = f[n - 1]
      BY <3>1
    <3>3. CASE n = k
      BY <3>1, <3>2, <3>3
    <3>4. CASE n # k
      <4>1. n \in 1..k-1
        BY <3>4
      <4>2. f[n] = g[<<f[n - 1], q[n]>>]
        BY <2>1, <4>1
      <4> QED
        BY <3>1, <3>2, <3>4, <4>2
    <3> QED
      BY <3>3, <3>4
  <2> HIDE DEF h
  <2>6. UpToStep(k, h)
    BY <2>4, <2>5
  <2> QED
    BY <1>3, <2>3, <2>6
<1>4. Len(q) \in Z
  <2> HIDE DEF Z
  <2>1. 0..Len(q) \subseteq Z
    BY <1>1, <1>2, <1>3, UpTo
  <2>2. Len(q) \in 0..Len(q)
    BY <1>1
  <2> QED
    BY <2>1, <2>2
<1>5. PICK f \in [0..Len(q) -> S] : UpToStep(Len(q), f)
  BY <1>4
<1>6. f = [n \in 0..Len(q) |-> IF n = 0 THEN a ELSE g[<<f[n - 1], q[n]>>]]
  <2>1. ASSUME NEW n \in 0..Len(q) PROVE f[n] = IF n = 0 THEN a ELSE g[<<f[n - 1], q[n]>>]
    BY <1>1, <1>5
  <2> QED
    BY <2>1
<1> QED
  BY <1>5, <1>6 DEF Follows

\* The values of a loop: their type, the first of them, and each of the others from the
\* one before it.
LEMMA ValuesFacts ==
    ASSUME NEW S, NEW B, NEW g, Keeps(g, S, B), NEW a \in S, NEW q \in Seq(B)
    PROVE  /\ Values(g, a, q) \in [0..Len(q) -> S]
           /\ Values(g, a, q)[0] = a
           /\ \A n \in 1..Len(q) : Values(g, a, q)[n] = g[<<Values(g, a, q)[n - 1], q[n]>>]
<1> DEFINE v == Values(g, a, q)
<1>1. Follows(v, g, a, q)
  BY ValuesExist DEF Values
<1>2. PICK f \in [0..Len(q) -> S] : Follows(f, g, a, q)
  BY ValuesExist
<1>3. Len(q) \in Nat
  OBVIOUS
<1> HIDE DEF v
<1>4. /\ v[0] = a
      /\ \A n \in 1..Len(q) : v[n] = g[<<v[n - 1], q[n]>>]
  BY <1>1, <1>3 DEF Follows
<1>5. v = [n \in 0..Len(q) |-> v[n]]
  BY <1>1 DEF Follows
<1> DEFINE Z == {n \in 0..Len(q) : v[n] \in S}
<1>6. 0..Len(q) \subseteq Z
  <2>1. 0 \in Z
    BY <1>3, <1>4
  <2>2. ASSUME NEW n \in 1..Len(q), n - 1 \in Z PROVE n \in Z
    <3>1. v[n - 1] \in S /\ q[n] \in B
      BY <2>2
    <3>2. v[n] = g[<<v[n - 1], q[n]>>]
      BY <1>4
    <3> QED
      BY <3>1, <3>2 DEF Keeps
  <2> HIDE DEF Z
  <2> QED
    BY <1>3, <2>1, <2>2, UpTo
<1> QED
  BY <1>4, <1>5, <1>6 DEF v

\* Whatever follows the steps of the loop ends where it does.
LEMMA IterateUnique ==
    ASSUME NEW S, NEW B, NEW g, Keeps(g, S, B), NEW a \in S, NEW q \in Seq(B),
           NEW h, h[0] = a, \A n \in 1..Len(q) : h[n - 1] \in S => h[n] = g[<<h[n - 1], q[n]>>]
    PROVE  \A n \in 0..Len(q) : h[n] = Values(g, a, q)[n]
<1> DEFINE v == Values(g, a, q)
           Z == {n \in 0..Len(q) : h[n] = v[n]}
<1>1. /\ Len(q) \in Nat
      /\ v \in [0..Len(q) -> S] /\ v[0] = a
      /\ \A n \in 1..Len(q) : v[n] = g[<<v[n - 1], q[n]>>]
  BY ValuesFacts
<1> HIDE DEF v
<1>2. 0 \in Z
  BY <1>1
<1>3. ASSUME NEW n \in 1..Len(q), n - 1 \in Z PROVE n \in Z
  <2>1. n - 1 \in 0..Len(q) /\ h[n - 1] = v[n - 1] /\ v[n - 1] \in S
    BY <1>1, <1>3
  <2> QED
    BY <1>1, <1>3, <2>1
<1>4. 0..Len(q) \subseteq Z
  <2> HIDE DEF Z
  <2> QED
    BY <1>1, <1>2, <1>3, UpTo
<1> QED
  BY <1>4 DEF v

\* What a loop ends with has the type its step keeps.
LEMMA IterateType ==
    ASSUME NEW S, NEW B, NEW g, Keeps(g, S, B), NEW a \in S, NEW q \in Seq(B)
    PROVE  Iterate(g, a, q) \in S
<1>1. Len(q) \in 0..Len(q)
  OBVIOUS
<1> QED
  BY <1>1, ValuesFacts DEF Iterate

\* A loop over nothing, and over one element.
LEMMA IterateShort ==
    ASSUME NEW S, NEW B, NEW g, Keeps(g, S, B), NEW a \in S
    PROVE  /\ Iterate(g, a, <<>>) = a
           /\ \A b \in B : Iterate(g, a, <<b>>) = g[<<a, b>>]
<1>1. Iterate(g, a, <<>>) = a
  <2>1. ASSUME NEW q \in Seq(B), Len(q) = 0 PROVE Iterate(g, a, q) = a
    <3>1. Values(g, a, q)[0] = a
      BY ValuesFacts
    <3> QED
      BY <2>1, <3>1 DEF Iterate
  <2>2. <<>> \in Seq(B) /\ Len(<<>>) = 0
    OBVIOUS
  <2> QED
    BY <2>1, <2>2
<1>2. ASSUME NEW b \in B PROVE Iterate(g, a, <<b>>) = g[<<a, b>>]
  <2> DEFINE q == <<b>>
  <2>1. q \in Seq(B) /\ Len(q) = 1 /\ q[1] = b
    OBVIOUS
  <2> HIDE DEF q
  <2>2. Values(g, a, q)[0] = a /\ Values(g, a, q)[1] = g[<<Values(g, a, q)[1 - 1], q[1]>>]
    BY <2>1, ValuesFacts
  <2> QED
    BY <2>1, <2>2 DEF Iterate, q
<1> QED
  BY <1>1, <1>2

\* A loop over two sequences is the loop over the first, then over the second.
LEMMA IterateConcat ==
    ASSUME NEW S, NEW B, NEW g, Keeps(g, S, B), NEW a \in S, NEW q \in Seq(B), NEW r \in Seq(B)
    PROVE  Iterate(g, a, q \o r) = Iterate(g, Iterate(g, a, q), r)
<1> DEFINE t == q \o r
           v == Values(g, a, q)
           m == Len(q)
           w == Values(g, v[m], r)
           h == [n \in 0..Len(t) |-> IF n <= m THEN v[n] ELSE w[n - m]]
<1>1. /\ t \in Seq(B) /\ Len(t) = m + Len(r) /\ m \in Nat /\ Len(r) \in Nat
      /\ \A n \in 1..m : t[n] = q[n]
      /\ \A n \in 1..Len(r) : t[m + n] = r[n]
  BY ConcatProperties
<1>2. /\ v \in [0..m -> S] /\ v[0] = a
      /\ \A n \in 1..m : v[n] = g[<<v[n - 1], q[n]>>]
  BY ValuesFacts
<1>3. v[m] \in S
  BY <1>1, <1>2
<1>4. /\ w \in [0..Len(r) -> S] /\ w[0] = v[m]
      /\ \A n \in 1..Len(r) : w[n] = g[<<w[n - 1], r[n]>>]
  BY <1>3, ValuesFacts
<1>5. Iterate(g, a, q) = v[m] /\ Iterate(g, v[m], r) = w[Len(r)]
  BY DEF Iterate
<1> HIDE DEF t, v, w, m
<1>6. h[0] = a
  BY <1>1, <1>2
<1>7. ASSUME NEW n \in 1..Len(t) PROVE h[n] = g[<<h[n - 1], t[n]>>]
  <2>0. n \in 0..Len(t) /\ n - 1 \in 0..Len(t) /\ n \in Nat
    BY <1>1, <1>7
  <2>1. CASE n <= m
    <3>1. n \in 1..m /\ n - 1 <= m
      BY <1>1, <2>0, <2>1
    <3>2. h[n] = v[n] /\ h[n - 1] = v[n - 1] /\ t[n] = q[n]
      BY <1>1, <2>0, <2>1, <3>1
    <3> QED
      BY <1>2, <3>1, <3>2
  <2>2. CASE n > m
    <3> DEFINE k == n - m
    <3>1. k \in 1..Len(r) /\ n = m + k
      BY <1>1, <1>7, <2>2
    <3>2. h[n] = w[k] /\ t[n] = r[k]
      BY <1>1, <2>0, <2>2, <3>1
    <3>3. h[n - 1] = w[k - 1]
      <4>1. CASE k = 1
        BY <1>1, <1>4, <2>0, <3>1, <4>1
      <4>2. CASE k # 1
        BY <1>1, <2>0, <3>1, <4>2
      <4> QED
        BY <4>1, <4>2
    <3> QED
      BY <1>4, <3>1, <3>2, <3>3
  <2> QED
    BY <1>1, <2>0, <2>1, <2>2
<1>8. h[Len(t)] = w[Len(r)]
  <2>1. CASE Len(r) = 0
    BY <1>1, <1>4, <2>1
  <2>2. CASE Len(r) # 0
    BY <1>1, <2>2
  <2> QED
    BY <2>1, <2>2
<1>9. Iterate(g, a, t) = h[Len(t)]
  <2> HIDE DEF h
  <2>1. Len(t) \in 0..Len(t)
    BY <1>1
  <2>2. \A n \in 0..Len(t) : h[n] = Values(g, a, t)[n]
    BY <1>1, <1>6, <1>7, IterateUnique
  <2> QED
    BY <2>1, <2>2 DEF Iterate
<1> QED
  BY <1>5, <1>8, <1>9 DEF t

-----------------------------------------------------------------------------
(* The loops of the model *)

\* The bytes of the lines, and a register write as the server posts it.
Bytes == 0..18
Write == [addr : Word, data : Word]
\* A string, never seen as a sequence by the provers unless they ask.
Text == Seq(Bytes)

\* The state of the parser within a pbuf: its static variables and the writes so far.
ParserState == [state : {"WR_OFF", "WR_DATA"}, wr_off : Word, wr_data : Word, writes : Seq(Write)]

\* The step functions of the loops: over the bytes of a pbuf, the digits of a number and
\* the buffers of a run.
ParseStep == [x \in ParserState \X Bytes |-> ParseByte(x[1], x[2])]
ShiftStep == [x \in Word \X HexDigit |-> ShiftIn(x[1], x[2])]
JoinStep == [x \in Text \X Text |-> x[1] \o x[2]]

\* A shifted digit stays within the register (echo.c:86, :105).
LEMMA ShiftInType == ASSUME NEW v \in Word, NEW d \in HexDigit PROVE ShiftIn(v, d) \in Word
<1>1. v \in Nat /\ d \in Nat /\ 16 * v + d \in Nat /\ WordSize \in Nat /\ WordSize > 0
  BY LoadParamsAssumption DEF Word, HexDigit
<1> DEFINE n == 16 * v + d
<1>2. n \in Nat
  BY <1>1
<1> HIDE DEF n
<1>3. (n % WordSize) \in 0..WordSize - 1
  BY <1>1, <1>2
<1> QED
  BY <1>3 DEF n, ShiftIn, Word

\* The word that is written has an address of a register's size (echo.c:97).
LEMMA TargetType == ASSUME NEW off \in Word PROVE Target(off) \in Word
<1>1. off \in Nat /\ off < WordSize /\ WordSize \in Nat
  BY LoadParamsAssumption DEF Word
<1>2. off \div 4 \in Nat /\ 4 * (off \div 4) <= off
  BY <1>1
<1> QED
  BY <1>1, <1>2 DEF Target, Word

\* The parts of a parser state.
LEMMA ParserFields ==
    ASSUME NEW p \in ParserState
    PROVE  /\ p.state \in {"WR_OFF", "WR_DATA"} /\ p.wr_off \in Word /\ p.wr_data \in Word
           /\ p.writes \in Seq(Write)
           /\ p = [state |-> p.state, wr_off |-> p.wr_off, wr_data |-> p.wr_data, writes |-> p.writes]
BY DEF ParserState

\* No byte takes the parser out of its states (echo.c:79-117).
LEMMA ParseByteType ==
    ASSUME NEW p \in ParserState, NEW b \in Bytes
    PROVE  ParseByte(p, b) \in ParserState
<1>1. CASE p.state = "WR_OFF" /\ b = Comma
  <2>1. b \notin HexDigit
    BY <1>1 DEF Comma, HexDigit
  <2>2. ParseByte(p, b) = [p EXCEPT !.state = "WR_DATA"]
    BY <1>1, <2>1 DEF ParseByte
  <2> QED
    BY <2>2 DEF ParserState
<1>2. CASE p.state = "WR_OFF" /\ b \in HexDigit
  <2>1. b # Comma /\ ShiftIn(p.wr_off, b) \in Word
    BY <1>2, ShiftInType, ParserFields DEF Comma, HexDigit
  <2> QED
    BY <1>2, <2>1 DEF ParseByte, ParserState
<1>3. CASE p.state = "WR_DATA" /\ b = Newline
  <2>1. 0 \in Word
    BY LoadParamsAssumption DEF Word
  <2>2. [addr |-> Target(p.wr_off), data |-> p.wr_data] \in Write
    BY TargetType, ParserFields DEF Write
  <2>3. Append(p.writes, [addr |-> Target(p.wr_off), data |-> p.wr_data]) \in Seq(Write)
    BY <2>2, ParserFields, AppendProperties
  <2>4. ParseByte(p, b) = [state |-> "WR_OFF", wr_off |-> 0, wr_data |-> 0,
                           writes |-> Append(p.writes, [addr |-> Target(p.wr_off), data |-> p.wr_data])]
    <3>1. b \notin HexDigit
      BY <1>3 DEF Newline, HexDigit
    <3> QED
      BY <1>3, <3>1 DEF ParseByte
  <2> QED
    BY <2>1, <2>3, <2>4 DEF ParserState
<1>4. CASE p.state = "WR_DATA" /\ b \in HexDigit
  <2>1. b # Newline /\ ShiftIn(p.wr_data, b) \in Word
    BY <1>4, ShiftInType, ParserFields DEF Newline, HexDigit
  <2> QED
    BY <1>4, <2>1 DEF ParseByte, ParserState
<1>5. CASE /\ ~(p.state = "WR_OFF" /\ b = Comma) /\ ~(p.state = "WR_OFF" /\ b \in HexDigit)
           /\ ~(p.state = "WR_DATA" /\ b = Newline) /\ ~(p.state = "WR_DATA" /\ b \in HexDigit)
  BY <1>5 DEF ParseByte
<1> QED
  BY <1>1, <1>2, <1>3, <1>4, <1>5

\* The three loops keep their types.
LEMMA StepsKeepTypes ==
    /\ Keeps(ParseStep, ParserState, Bytes)
    /\ Keeps(ShiftStep, Word, HexDigit)
    /\ Keeps(JoinStep, Text, Text)
<1>1. Keeps(ParseStep, ParserState, Bytes)
  BY ParseByteType DEF Keeps, ParseStep
<1>2. Keeps(ShiftStep, Word, HexDigit)
  BY ShiftInType DEF Keeps, ShiftStep
<1>3. Keeps(JoinStep, Text, Text)
  BY ConcatProperties DEF Keeps, JoinStep, Text
<1> QED
  BY <1>1, <1>2, <1>3

\* The loops of the model are those of the step functions.
LEMMA NumberIterates ==
    ASSUME NEW q \in Seq(HexDigit)
    PROVE  Number(q) = Iterate(ShiftStep, 0, q)
<1> DEFINE P(f) == f = [n \in 0..Len(q) |-> IF n = 0 THEN 0 ELSE ShiftIn(f[n - 1], q[n])]
           v == Values(ShiftStep, 0, q)
           l == CHOOSE f : P(f)
<1>0. /\ 0 \in Word /\ Keeps(ShiftStep, Word, HexDigit)
      /\ Len(q) \in Nat /\ \A n \in 1..Len(q) : q[n] \in HexDigit
  BY LoadParamsAssumption, StepsKeepTypes DEF Word
<1>1. /\ v \in [0..Len(q) -> Word] /\ v[0] = 0
      /\ \A n \in 1..Len(q) : v[n] = ShiftStep[<<v[n - 1], q[n]>>]
  BY <1>0, ValuesFacts
<1> HIDE DEF v
<1>2. P(v)
  <2>1. ASSUME NEW n \in 0..Len(q) PROVE v[n] = IF n = 0 THEN 0 ELSE ShiftIn(v[n - 1], q[n])
    <3>1. CASE n = 0
      BY <1>1, <3>1
    <3>2. CASE n # 0
      <4>1. n \in 1..Len(q) /\ n - 1 \in 0..Len(q)
        BY <1>0, <3>2
      <4> QED
        BY <1>0, <1>1, <3>2, <4>1 DEF ShiftStep
    <3> QED
      BY <3>1, <3>2
  <2> QED
    BY <1>1, <2>1
<1>3. P(l)
  <2> HIDE DEF P
  <2> QED
    BY <1>2
<1>4. Number(q) = l[Len(q)]
  BY DEF Number, Loop
<1> HIDE DEF l
<1>5. l[0] = 0 /\ \A n \in 1..Len(q) : l[n - 1] \in Word => l[n] = ShiftStep[<<l[n - 1], q[n]>>]
  <2>1. l[0] = 0
    BY <1>0, <1>3
  <2>2. ASSUME NEW n \in 1..Len(q), l[n - 1] \in Word PROVE l[n] = ShiftStep[<<l[n - 1], q[n]>>]
    <3>1. l[n] = ShiftIn(l[n - 1], q[n])
      BY <1>0, <1>3
    <3> QED
      BY <1>0, <2>2, <3>1 DEF ShiftStep
  <2> QED
    BY <2>1, <2>2
<1>6. \A n \in 0..Len(q) : l[n] = Values(ShiftStep, 0, q)[n]
  <2> HIDE DEF P
  <2> QED
    BY <1>0, <1>5, IterateUnique
<1>7. Len(q) \in 0..Len(q)
  BY <1>0
<1> QED
  BY <1>4, <1>6, <1>7 DEF Iterate

\* The choice in Parse, which only makes TLC compute the state once, is the state.
LEMMA Once ==
    ASSUME NEW p, NEW b
    PROVE  (CHOOSE next \in {ParseByte(r, b) : r \in {p}} : TRUE) = ParseByte(p, b)
<1>1. {ParseByte(r, b) : r \in {p}} = {ParseByte(p, b)}
  OBVIOUS
<1>2. ASSUME NEW e PROVE (CHOOSE next \in {e} : TRUE) = e
  OBVIOUS
<1> QED
  BY <1>1, <1>2

\* What the parser's variables hold, with no write yet.
Parser0 == [state |-> state, wr_off |-> wr_off, wr_data |-> wr_data, writes |-> <<>>]

\* The parser between two pbufs.
LEMMA Parser0Type == ServerTypeOK => Parser0 \in ParserState
BY DEF ServerTypeOK, Parser, Parser0, ParserState

\* Parse is the loop of ParseStep over the bytes of the pbuf.
LEMMA ParseIterates ==
    ASSUME ServerTypeOK, NEW q \in Seq(Bytes)
    PROVE  Parse(q) = Iterate(ParseStep, Parser0, q)
<1> DEFINE Round(p, b) == CHOOSE next \in {ParseByte(r, b) : r \in {p}} : TRUE
           P(f) == f = [n \in 0..Len(q) |-> IF n = 0 THEN Parser0 ELSE Round(f[n - 1], q[n])]
           v == Values(ParseStep, Parser0, q)
           l == CHOOSE f : P(f)
<1>0. /\ Parser0 \in ParserState /\ Keeps(ParseStep, ParserState, Bytes)
      /\ Len(q) \in Nat /\ \A n \in 1..Len(q) : q[n] \in Bytes
  BY Parser0Type, StepsKeepTypes
<1>1. /\ v \in [0..Len(q) -> ParserState] /\ v[0] = Parser0
      /\ \A n \in 1..Len(q) : v[n] = ParseStep[<<v[n - 1], q[n]>>]
  BY <1>0, ValuesFacts
<1>2. \A p, b : Round(p, b) = ParseByte(p, b)
  BY Once
<1>3. Parse(q) = l[Len(q)]
  BY DEF Parse, Loop, Parser0
<1> HIDE DEF v, Round
<1>4. P(v)
  <2>1. ASSUME NEW n \in 0..Len(q) PROVE v[n] = IF n = 0 THEN Parser0 ELSE Round(v[n - 1], q[n])
    <3>1. CASE n = 0
      BY <1>1, <3>1
    <3>2. CASE n # 0
      <4>1. n \in 1..Len(q) /\ n - 1 \in 0..Len(q)
        BY <1>0, <3>2
      <4> QED
        BY <1>0, <1>1, <1>2, <3>2, <4>1 DEF ParseStep
    <3> QED
      BY <3>1, <3>2
  <2> QED
    BY <1>1, <2>1
<1>5. P(l)
  <2> HIDE DEF P
  <2> QED
    BY <1>4
<1> HIDE DEF l
<1>6. l[0] = Parser0 /\ \A n \in 1..Len(q) : l[n - 1] \in ParserState => l[n] = ParseStep[<<l[n - 1], q[n]>>]
  <2>1. l[0] = Parser0
    BY <1>0, <1>5
  <2>2. ASSUME NEW n \in 1..Len(q), l[n - 1] \in ParserState PROVE l[n] = ParseStep[<<l[n - 1], q[n]>>]
    <3>1. l[n] = ParseByte(l[n - 1], q[n])
      BY <1>0, <1>2, <1>5
    <3> QED
      BY <1>0, <2>2, <3>1 DEF ParseStep
  <2> QED
    BY <2>1, <2>2
<1>7. \A n \in 0..Len(q) : l[n] = Values(ParseStep, Parser0, q)[n]
  <2> HIDE DEF P
  <2> QED
    BY <1>0, <1>6, IterateUnique
<1>8. Len(q) \in 0..Len(q)
  BY <1>0
<1> QED
  BY <1>3, <1>7, <1>8 DEF Iterate

\* The sums of a run's buffers are the loop of JoinStep over them.
LEMMA JoinIterates ==
    ASSUME NEW q \in Seq(Text), NEW k \in 0..Len(q)
    PROVE  Loop(\o, <<>>, q)[k] = Values(JoinStep, <<>>, q)[k]
<1> DEFINE P(f) == f = [n \in 0..Len(q) |-> IF n = 0 THEN <<>> ELSE f[n - 1] \o q[n]]
           v == Values(JoinStep, <<>>, q)
           l == CHOOSE f : P(f)
<1>0. /\ <<>> \in Text /\ Keeps(JoinStep, Text, Text)
      /\ Len(q) \in Nat /\ \A n \in 1..Len(q) : q[n] \in Text
  BY StepsKeepTypes, EmptySeq DEF Text
<1>1. /\ v \in [0..Len(q) -> Text] /\ v[0] = <<>>
      /\ \A n \in 1..Len(q) : v[n] = JoinStep[<<v[n - 1], q[n]>>]
  BY <1>0, ValuesFacts
<1>2. Loop(\o, <<>>, q) = l
  BY DEF Loop
<1> HIDE DEF v
<1>3. P(v)
  <2>1. ASSUME NEW n \in 0..Len(q) PROVE v[n] = IF n = 0 THEN <<>> ELSE v[n - 1] \o q[n]
    <3>1. CASE n = 0
      BY <1>1, <3>1
    <3>2. CASE n # 0
      <4>1. n \in 1..Len(q) /\ n - 1 \in 0..Len(q)
        BY <1>0, <3>2
      <4>2. v[n - 1] \in Text /\ q[n] \in Text /\ v[n] = JoinStep[<<v[n - 1], q[n]>>]
        BY <1>0, <1>1, <4>1
      <4>3. v[n] = v[n - 1] \o q[n]
        BY <4>2 DEF JoinStep
      <4> QED
        BY <3>2, <4>3
    <3> QED
      BY <3>1, <3>2
  <2> QED
    BY <1>1, <2>1
<1>4. P(l)
  <2> HIDE DEF P
  <2> QED
    BY <1>3
<1> HIDE DEF l
<1>5. l[0] = <<>> /\ \A n \in 1..Len(q) : l[n - 1] \in Text => l[n] = JoinStep[<<l[n - 1], q[n]>>]
  <2>1. l[0] = <<>>
    BY <1>0, <1>4
  <2>2. ASSUME NEW n \in 1..Len(q), l[n - 1] \in Text PROVE l[n] = JoinStep[<<l[n - 1], q[n]>>]
    <3>1. l[n] = l[n - 1] \o q[n]
      BY <1>0, <1>4
    <3>2. q[n] \in Text
      BY <1>0
    <3> QED
      BY <2>2, <3>1, <3>2 DEF JoinStep
  <2> QED
    BY <2>1, <2>2
<1>6. \A n \in 0..Len(q) : l[n] = Values(JoinStep, <<>>, q)[n]
  <2> HIDE DEF P
  <2> QED
    BY <1>0, <1>5, IterateUnique
<1> QED
  BY <1>2, <1>6

-----------------------------------------------------------------------------
\* The buffers of a run are sequences of bytes: two control lines around one buffer for
\* each instruction.
InstructionBuffers(s) == [n \in DOMAIN Program[s] |-> InstructionLines(Program[s][n])]

\* A line, the control lines and the two lines of an instruction are bytes.
LEMMA LineType ==
    ASSUME NEW offset \in HexDigit, NEW digits \in Seq(HexDigit)
    PROVE  Line(offset, digits) \in Seq(Bytes)
<1>1. HexDigit \subseteq Bytes /\ Comma \in Bytes /\ Newline \in Bytes /\ Skipped \in Bytes
  BY DEF HexDigit, Bytes, Comma, Newline, Skipped
<1>2. digits \in Seq(Bytes) /\ <<offset, Comma>> \in Seq(Bytes) /\ <<Newline, Skipped>> \in Seq(Bytes)
  <2>1. digits \in Seq(Bytes)
    BY <1>1, SeqMonotonic
  <2> QED
    BY <1>1, <2>1
<1>3. <<offset, Comma>> \o digits \in Seq(Bytes)
  BY <1>2, ConcatProperties
<1> QED
  BY <1>2, <1>3, ConcatProperties DEF Line

LEMMA ControlLineType == ASSUME NEW d \in HexDigit PROVE ControlLine(d) \in Seq(Bytes)
<1>1. 4 \in HexDigit /\ <<d>> \in Seq(HexDigit) /\ <<Skipped>> \in Seq(Bytes)
  BY DEF HexDigit, Bytes, Skipped
<1>2. Line(4, <<d>>) \in Seq(Bytes)
  BY <1>1, LineType
<1> QED
  BY <1>1, <1>2, ConcatProperties DEF ControlLine

LEMMA InstructionLinesType == ASSUME NEW i \in Digits PROVE InstructionLines(i) \in Seq(Bytes)
<1>1. 12 \in HexDigit /\ 8 \in HexDigit /\ i.high \in Seq(HexDigit) /\ i.low \in Seq(HexDigit)
  BY DEF HexDigit, Digits
<1> QED
  BY <1>1, LineType, ConcatProperties DEF InstructionLines

\* A sequence between two elements.
LEMMA Bracket ==
    ASSUME NEW S, NEW x \in S, NEW q \in Seq(S), NEW y \in S
    PROVE  /\ <<x>> \o q \o <<y>> \in Seq(S)
           /\ Len(<<x>> \o q \o <<y>>) = Len(q) + 2
           /\ (<<x>> \o q \o <<y>>)[1] = x
           /\ \A n \in 1..Len(q) : (<<x>> \o q \o <<y>>)[n + 1] = q[n]
           /\ (<<x>> \o q \o <<y>>)[Len(q) + 2] = y
<1>1. <<x>> \o q \o <<y>> \in Seq(S)
  OBVIOUS
<1>2. Len(<<x>> \o q \o <<y>>) = Len(q) + 2
  OBVIOUS
<1>3. (<<x>> \o q \o <<y>>)[1] = x
  OBVIOUS
<1>4. \A n \in 1..Len(q) : (<<x>> \o q \o <<y>>)[n + 1] = q[n]
  OBVIOUS
<1>5. (<<x>> \o q \o <<y>>)[Len(q) + 2] = y
  OBVIOUS
<1> QED
  BY <1>1, <1>2, <1>3, <1>4, <1>5

\* The buffers that sendfilt sends (sendfilt.cpp:69-87).
LEMMA BuffersFacts ==
    ASSUME NEW s \in Sessions
    PROVE  /\ Buffers(s) \in Seq(Text)
           /\ Len(Program[s]) \in Nat /\ DOMAIN Program[s] = 1..Len(Program[s])
           /\ \A n \in DOMAIN Program[s] : Program[s][n] \in Digits
           /\ Len(Buffers(s)) = Len(Program[s]) + 2
           /\ Buffers(s)[1] = ControlLine(0)
           /\ \A n \in DOMAIN Program[s] : Buffers(s)[n + 1] = InstructionLines(Program[s][n])
           /\ Buffers(s)[Len(Program[s]) + 2] = ControlLine(1)
<1> DEFINE p == Program[s]
           q == InstructionBuffers(s)
<1>1. p \in Seq(Digits)
  BY ProgramAssumption
<1>2. Len(p) \in Nat /\ DOMAIN p = 1..Len(p) /\ \A n \in 1..Len(p) : p[n] \in Digits
  BY <1>1
<1> HIDE DEF p
<1>3. ControlLine(0) \in Text /\ ControlLine(1) \in Text
  BY ControlLineType DEF HexDigit, Text
<1>4. q \in Seq(Text) /\ Len(q) = Len(p) /\ \A n \in 1..Len(p) : q[n] = InstructionLines(p[n])
  <2>1. \A n \in 1..Len(p) : InstructionLines(p[n]) \in Text
    BY <1>2, InstructionLinesType DEF Text
  <2>2. q = [n \in 1..Len(p) |-> InstructionLines(p[n])]
    BY <1>2 DEF InstructionBuffers, p
  <2> HIDE DEF q
  <2> QED
    BY <1>2, <2>1, <2>2
<1>5. Buffers(s) = <<ControlLine(0)>> \o q \o <<ControlLine(1)>>
  BY DEF Buffers, InstructionBuffers, p
<1> HIDE DEF q
<1>6. /\ Buffers(s) \in Seq(Text)
      /\ Len(Buffers(s)) = Len(q) + 2
      /\ Buffers(s)[1] = ControlLine(0)
      /\ \A n \in 1..Len(q) : Buffers(s)[n + 1] = q[n]
      /\ Buffers(s)[Len(q) + 2] = ControlLine(1)
  <2> DEFINE x == ControlLine(0)
             y == ControlLine(1)
             b == <<x>> \o q \o <<y>>
  <2>1. x \in Text /\ y \in Text /\ q \in Seq(Text)
    BY <1>3, <1>4
  <2> HIDE DEF x, y
  <2>2. /\ b \in Seq(Text) /\ Len(b) = Len(q) + 2 /\ b[1] = x
        /\ \A n \in 1..Len(q) : b[n + 1] = q[n]
        /\ b[Len(q) + 2] = y
    BY <2>1, Bracket
  <2>3. Buffers(s) = b
    BY <1>5 DEF x, y
  <2> HIDE DEF b
  <2> QED
    BY <2>2, <2>3 DEF x, y
<1>7. \A n \in DOMAIN p : Buffers(s)[n + 1] = InstructionLines(p[n])
  BY <1>2, <1>4, <1>6
<1> QED
  BY <1>2, <1>4, <1>6, <1>7 DEF p

\* The bytes of the first k buffers of a run.
Upto(s, k) == Values(JoinStep, <<>>, Buffers(s))[k]

\* A run's bytes are its buffers, one after the other.
LEMMA RunFacts ==
    ASSUME NEW s \in Sessions
    PROVE  /\ Len(Buffers(s)) \in Nat
           /\ Upto(s, 0) = <<>>
           /\ \A k \in 0..Len(Buffers(s)) : Upto(s, k) \in Text /\ BufferEnds[s][k] = Len(Upto(s, k))
           /\ \A k \in 1..Len(Buffers(s)) : Upto(s, k) = Upto(s, k - 1) \o Buffers(s)[k]
           /\ RunBytes[s] = Upto(s, Len(Buffers(s)))
<1> DEFINE q == Buffers(s)
           v == Values(JoinStep, <<>>, q)
<1>1. q \in Seq(Text) /\ Len(q) \in Nat
  <2>1. q \in Seq(Text)
    BY BuffersFacts
  <2> HIDE DEF q
  <2> QED
    BY <2>1
<1>2. <<>> \in Text
  BY DEF Text
<1> HIDE DEF q
<1>3. /\ v \in [0..Len(q) -> Text] /\ v[0] = <<>>
      /\ \A n \in 1..Len(q) : v[n] = JoinStep[<<v[n - 1], q[n]>>]
  BY <1>1, <1>2, StepsKeepTypes, ValuesFacts
<1>4. \A k \in 0..Len(q) : Upto(s, k) = v[k]
  BY DEF Upto, q
<1>5. \A k \in 0..Len(q) : Loop(\o, <<>>, q)[k] = v[k]
  BY <1>1, JoinIterates
<1> HIDE DEF v
<1>6. \A k \in 0..Len(q) : BufferEnds[s][k] = Len(v[k])
  BY <1>5 DEF BufferEnds, q
<1>7. RunBytes[s] = v[Len(q)]
  <2>1. Len(q) \in 0..Len(q)
    BY <1>1
  <2>2. RunBytes[s] = Loop(\o, <<>>, q)[Len(q)]
    BY DEF RunBytes, q
  <2> QED
    BY <1>5, <2>1, <2>2
<1>8. ASSUME NEW k \in 1..Len(q) PROVE v[k] = v[k - 1] \o q[k]
  <2>1. k - 1 \in 0..Len(q) /\ v[k - 1] \in Text
    BY <1>1, <1>3
  <2>2. q[k] \in Text
    BY <1>1
  <2> QED
    BY <1>3, <2>1, <2>2 DEF JoinStep
<1>9. \A k \in 1..Len(q) : k \in 0..Len(q) /\ k - 1 \in 0..Len(q)
  BY <1>1
<1>10. 0 \in 0..Len(q) /\ Len(q) \in 0..Len(q)
  BY <1>1
<1> QED
  BY <1>1, <1>3, <1>4, <1>6, <1>7, <1>8, <1>9, <1>10 DEF q

\* The ends of the buffers are ordered; the last is the end of the run.
LEMMA EndsFacts ==
    ASSUME NEW s \in Sessions
    PROVE  /\ RunBytes[s] \in Text
           /\ BufferEnds[s][0] = 0 /\ BufferEnds[s][Len(Buffers(s))] = Len(RunBytes[s])
           /\ \A k \in 0..Len(Buffers(s)) : /\ BufferEnds[s][k] \in Nat
                                            /\ \A j \in 0..k : BufferEnds[s][j] <= BufferEnds[s][k]
<1> DEFINE m == Len(Buffers(s))
           e(k) == BufferEnds[s][k]
           Z == {k \in 0..m : \A j \in 0..k : e(j) <= e(k)}
<1>1. m \in Nat /\ 0 \in 0..m /\ m \in 0..m
  BY RunFacts
<1>2. \A k \in 0..m : e(k) \in Nat
  <2> TAKE k \in 0..m
  <2>1. Upto(s, k) \in Text /\ e(k) = Len(Upto(s, k))
    BY RunFacts
  <2> QED
    BY <2>1, LenProperties DEF Text
<1>3. RunBytes[s] \in Text /\ e(m) = Len(RunBytes[s])
  BY <1>1, RunFacts
<1>4. e(0) = 0
  BY <1>1, RunFacts
<1>5. \A k \in 1..m : e(k - 1) <= e(k)
  <2> TAKE k \in 1..m
  <2>0. k - 1 \in 0..m /\ k \in 0..m
    BY <1>1
  <2>a. Upto(s, k - 1) \in Text
    BY <2>0, RunFacts
  <2>b. Buffers(s)[k] \in Text
    BY BuffersFacts, ElementOfSeq
  <2>1. Upto(s, k - 1) \in Seq(Bytes) /\ Buffers(s)[k] \in Seq(Bytes)
    BY <2>a, <2>b DEF Text
  <2>2. Upto(s, k) = Upto(s, k - 1) \o Buffers(s)[k]
    BY RunFacts
  <2>3. Len(Upto(s, k)) = Len(Upto(s, k - 1)) + Len(Buffers(s)[k])
    BY <2>1, <2>2, ConcatProperties
  <2>4. e(k) = Len(Upto(s, k)) /\ e(k - 1) = Len(Upto(s, k - 1))
    BY <2>0, RunFacts
  <2>5. Len(Upto(s, k - 1)) \in Nat /\ Len(Buffers(s)[k]) \in Nat
    BY <2>1, LenProperties
  <2> DEFINE a == Len(Upto(s, k - 1))
             b == Len(Buffers(s)[k])
  <2>6. e(k) = a + b /\ e(k - 1) = a /\ a \in Nat /\ b \in Nat
    BY <2>3, <2>4, <2>5
  <2> HIDE DEF a, b, e
  <2> QED
    BY <2>6
<1> HIDE DEF e, m
<1>6. 0 \in Z
  BY <1>1, <1>2
<1>7. ASSUME NEW k \in 1..m, k - 1 \in Z PROVE k \in Z
  <2>1. k \in 0..m /\ k - 1 \in 0..m /\ \A j \in 0..k : j = k \/ j \in 0..k - 1
    BY <1>1
  <2>2. \A j \in 0..k - 1 : e(j) <= e(k - 1) /\ e(j) \in Nat
    BY <1>1, <1>2, <1>7
  <2>3. e(k - 1) <= e(k) /\ e(k - 1) \in Nat /\ e(k) \in Nat
    BY <1>2, <1>5, <2>1
  <2> QED
    BY <2>1, <2>2, <2>3
<1>8. 0..m \subseteq Z
  <2> HIDE DEF Z
  <2> QED
    BY <1>1, <1>6, <1>7, UpTo
<1> QED
  BY <1>2, <1>3, <1>4, <1>8 DEF e, m

\* No segment ends beyond the bytes that are sent.
LEMMA SegmentFacts ==
    ASSUME NEW s \in Sessions, sent[s] \in 0..Len(Buffers(s))
    PROVE  /\ SentBytes(s) \in Nat /\ SentBytes(s) <= Len(RunBytes[s])
           /\ \A n \in SegmentEnds(s) : n \in Nat /\ n <= SentBytes(s)
<1>1. Len(Buffers(s)) \in Nat
  BY RunFacts
<1>2. SentBytes(s) \in Nat /\ SentBytes(s) <= Len(RunBytes[s])
  BY <1>1, EndsFacts DEF SentBytes
<1>3. ASSUME NEW k \in 0..sent[s] PROVE BufferEnds[s][k] \in Nat /\ BufferEnds[s][k] <= SentBytes(s)
  BY <1>1, EndsFacts DEF SentBytes
<1>4. \A n \in Splits : n < SentBytes(s) => n \in Nat /\ n <= SentBytes(s)
  BY <1>2, FilterLoadAssumption
<1> QED
  BY <1>2, <1>3, <1>4 DEF SegmentEnds

-----------------------------------------------------------------------------
(* Types of the composition *)

\* The inductive invariant for the types: the bus carries a sequence of writes.
TypeInv == TypeOK /\ posted \in Seq(Write)

\* A received pbuf leaves the parser in one of its states and posts writes of registers.
LEMMA ReceivedTypes ==
    ASSUME TypeInv, NEW s \in Sessions, Receive(s)
    PROVE  ServerTypeOK' /\ posted' \in Seq(Write) /\ received' \in [Sessions -> Nat]
<1>1. PICK len, tot_len \in SegmentEnds(s) :
          /\ received[s] < len /\ len <= tot_len
          /\ \E parsed \in {Parse(SubSeq(RunBytes[s], received[s] + 1, len))} :
                 /\ RecvCallback(s, parsed)
                 /\ posted' = posted \o parsed.writes
          /\ received' = [received EXCEPT ![s] = tot_len]
  BY DEF Receive
<1> DEFINE q == SubSeq(RunBytes[s], received[s] + 1, len)
           parsed == Parse(q)
<1>2. RecvCallback(s, parsed) /\ posted' = posted \o parsed.writes
  BY <1>1
<1>3. sent[s] \in 0..Len(Buffers(s)) /\ received[s] \in Nat
      /\ received \in [Sessions -> Nat] /\ posted \in Seq(Write)
  BY DEF TypeInv, TypeOK, SendTypeOK
<1>4. len \in Nat /\ tot_len \in Nat /\ len <= Len(RunBytes[s])
  BY <1>3, SegmentFacts
<1>5. q \in Seq(Bytes)
  <2>1. RunBytes[s] \in Seq(Bytes)
    BY EndsFacts DEF Text
  <2>2. \A i \in received[s] + 1 .. len : RunBytes[s][i] \in Bytes
    BY <1>3, <1>4, <2>1
  <2>3. received[s] + 1 \in Int /\ len \in Int
    BY <1>3, <1>4
  <2> QED
    BY <2>2, <2>3, SubSeqProperties
<1> HIDE DEF q
<1>6. parsed \in ParserState
  <2>1. parsed = Iterate(ParseStep, Parser0, q)
    BY <1>5, ParseIterates DEF TypeInv, TypeOK
  <2>2. Parser0 \in ParserState
    BY Parser0Type DEF TypeInv, TypeOK
  <2> QED
    BY <1>5, <2>1, <2>2, StepsKeepTypes, IterateType
<1> HIDE DEF parsed
<1>7. ServerTypeOK'
  BY <1>2, <1>6 DEF RecvCallback, ServerTypeOK, Parser, ParserState, TypeInv, TypeOK
<1>8. posted' \in Seq(Write)
  BY <1>2, <1>3, <1>6, ParserFields, ConcatProperties
<1> QED
  BY <1>1, <1>3, <1>4, <1>7, <1>8

\* A clock edge of the composition is one of the loader on any bus.
LEMMA ClockIsLoaderStep ==
    ASSUME TypeInv, NEW bus \in BusCycles, Clock(bus)
    PROVE  LoaderNext /\ posted' \in Seq(Write)
<1>1. bus.awvalid \in BOOLEAN /\ bus.wvalid \in BOOLEAN /\ bus.bready \in BOOLEAN
  BY FilterLoadAssumption
<1>2. CASE posted = <<>>
  <2>1. LoaderClock([addr |-> 0, data |-> 0], FALSE, FALSE, bus.bready) /\ posted' = posted
    BY <1>2 DEF Clock
  <2>2. 0 \in Nat /\ 0 \in Word
    BY LoadParamsAssumption DEF Word
  <2> QED
    BY <1>1, <2>1, <2>2 DEF LoaderNext, TypeInv
<1>3. CASE posted # <<>>
  <2>1. /\ LoaderClock(Head(posted), bus.awvalid, bus.wvalid, bus.bready)
        /\ posted' = posted \/ posted' = Tail(posted)
    BY <1>3 DEF Clock
  <2>2. Head(posted) \in Write /\ Tail(posted) \in Seq(Write)
    BY <1>3, HeadTailProperties DEF TypeInv
  <2>3. PICK a \in Nat, d \in Word : Head(posted) = [addr |-> a, data |-> d]
    BY <2>2, LoadParamsAssumption DEF Write, Word
  <2> QED
    BY <1>1, <2>1, <2>2, <2>3 DEF LoaderNext, TypeInv
<1> QED
  BY <1>2, <1>3

\* What TypeOK says of the posted writes.
LEMMA WritesHaveFields ==
    ASSUME NEW q \in Seq(Write)
    PROVE  \A n \in DOMAIN q : q[n] \in [addr : Word, data : Word]
BY LenProperties DEF Write

\* The types at the start.
LEMMA TypesInit == Init => TypeInv
<1> SUFFICES ASSUME Init PROVE TypeInv
  OBVIOUS
<1>1. LoaderTypeOK
  BY LoaderTypesInit DEF Init
<1>2. ServerTypeOK
  <2>1. 0 \in Word
    BY LoadParamsAssumption DEF Word
  <2> QED
    BY <2>1 DEF Init, ServerInit, ServerTypeOK, Parser
<1>3. SendTypeOK
  <2>1. \A s \in Sessions : 0 \in 0..Len(Buffers(s))
    BY RunFacts
  <2> QED
    BY <2>1 DEF Init, SendInit, SendTypeOK
<1>4. posted \in Seq(Write) /\ DOMAIN posted = {}
  BY EmptySeq DEF Init
<1>5. received \in [Sessions -> Nat] /\ last \in Sessions \cup {NoSession} /\ clean \in BOOLEAN
  BY DEF Init
<1>6. troubles \in 0..MaxTroubles
  BY FilterLoadAssumption DEF Init
<1> QED
  BY <1>1, <1>2, <1>3, <1>4, <1>5, <1>6 DEF TypeInv, TypeOK

\* The history variables: a disturbance keeps their types.
LEMMA DisturbType ==
    ASSUME TypeOK, NEW bad \in BOOLEAN, Disturb(bad)
    PROVE  troubles' \in 0..MaxTroubles /\ clean' \in BOOLEAN
BY FilterLoadAssumption DEF TypeOK, Disturb

\* Every action keeps the types.
LEMMA TypesStep == TypeInv /\ [Next]_vars => TypeInv'
<1> SUFFICES ASSUME TypeInv, [Next]_vars PROVE TypeInv'
  OBVIOUS
<1>0. /\ LoaderTypeOK /\ ServerTypeOK /\ SendTypeOK /\ TypeOK /\ posted \in Seq(Write)
      /\ received \in [Sessions -> Nat]
      /\ last \in Sessions \cup {NoSession} /\ clean \in BOOLEAN /\ troubles \in 0..MaxTroubles
  BY DEF TypeInv, TypeOK
<1>a. (/\ LoaderTypeOK' /\ ServerTypeOK' /\ SendTypeOK'
       /\ received' \in [Sessions -> Nat] /\ posted' \in Seq(Write)
       /\ last' \in Sessions \cup {NoSession} /\ clean' \in BOOLEAN /\ troubles' \in 0..MaxTroubles) => TypeInv'
  BY WritesHaveFields DEF TypeInv, TypeOK
<1>b. /\ UNCHANGED loaderVars => LoaderTypeOK'
      /\ UNCHANGED serverVars => ServerTypeOK'
      /\ UNCHANGED clientVars => SendTypeOK'
  <2>1. UNCHANGED loaderVars => LoaderTypeOK'
    BY <1>0, LoaderStepType
  <2>2. UNCHANGED serverVars => ServerTypeOK'
    BY <1>0 DEF serverVars, ServerTypeOK
  <2>3. UNCHANGED clientVars => SendTypeOK'
    BY <1>0 DEF clientVars, SendTypeOK
  <2> QED
    BY <2>1, <2>2, <2>3
<1>1. ASSUME NEW s \in Sessions, Begin(s) PROVE TypeInv'
  <2>1. UNCHANGED loaderVars /\ received' = received /\ posted' = posted /\ last' = s
    BY <1>1 DEF Begin
  <2>2. ServerTypeOK'
    BY <1>0, <1>1 DEF Begin, AcceptCallback, ServerTypeOK
  <2>3. SendTypeOK'
    BY <1>0, <1>1 DEF Begin, Connect, SendTypeOK
  <2>4. clean' \in BOOLEAN /\ troubles' \in 0..MaxTroubles
    BY <1>0, <1>1, FilterLoadAssumption DEF Begin
  <2> QED
    BY <1>0, <1>a, <1>b, <2>1, <2>2, <2>3, <2>4
<1>2. ASSUME NEW s \in Sessions, SendBuffer(s) PROVE TypeInv'
  <2>1. SendTypeOK'
    <3>1. sent[s] # Len(Buffers(s)) /\ sent' = [sent EXCEPT ![s] = @ + 1] /\ client' = client
      BY <1>2 DEF SendBuffer, Send, AllSent
    <3>2. sent[s] + 1 \in 0..Len(Buffers(s)) /\ sent[s] + 1 \in Nat
      BY <1>0, <3>1, RunFacts DEF SendTypeOK
    <3>3. ASSUME NEW t \in Sessions PROVE sent'[t] \in Nat /\ sent'[t] \in 0..Len(Buffers(t))
      BY <1>0, <3>1, <3>2 DEF SendTypeOK
    <3>4. sent' \in [Sessions -> Nat]
      BY <1>0, <3>1, <3>2 DEF SendTypeOK
    <3> QED
      BY <1>0, <3>1, <3>3, <3>4 DEF SendTypeOK
  <2> QED
    BY <1>0, <1>2, <1>a, <1>b, <2>1 DEF SendBuffer
<1>3. ASSUME NEW s \in Sessions, Leave(s) PROVE TypeInv'
  <2>1. SendTypeOK'
    BY <1>0, <1>3 DEF Leave, Quit, SendTypeOK
  <2>2. clean' \in BOOLEAN /\ troubles' \in 0..MaxTroubles
    BY <1>0, <1>3, DisturbType DEF Leave, AllSent
  <2> QED
    BY <1>0, <1>3, <1>a, <1>b, <2>1, <2>2 DEF Leave
<1>4. ASSUME NEW s \in Sessions, Reset(s) PROVE TypeInv'
  <2>1. received' \in [Sessions -> Nat]
    <3>1. SentBytes(s) \in Nat
      BY <1>0, SegmentFacts DEF SendTypeOK
    <3> QED
      BY <1>0, <1>4, <3>1 DEF Reset
  <2>2. clean' \in BOOLEAN /\ troubles' \in 0..MaxTroubles
    BY <1>0, <1>4, DisturbType DEF Reset
  <2> QED
    BY <1>0, <1>4, <1>a, <1>b, <2>1, <2>2 DEF Reset
<1>5. ASSUME NEW s \in Sessions, Receive(s) PROVE TypeInv'
  <2>1. ServerTypeOK' /\ posted' \in Seq(Write) /\ received' \in [Sessions -> Nat]
    BY <1>5, ReceivedTypes
  <2>2. clean' \in BOOLEAN /\ troubles' \in 0..MaxTroubles
    <3>1. PICK len, tot_len \in SegmentEnds(s) : Disturb(len < tot_len)
      BY <1>5 DEF Receive
    <3>2. (len < tot_len) \in BOOLEAN
      OBVIOUS
    <3> QED
      BY <1>0, <3>1, <3>2, DisturbType
  <2> QED
    BY <1>0, <1>5, <1>a, <1>b, <2>1, <2>2 DEF Receive
<1>6. ASSUME NEW s \in Sessions, Close(s) PROVE TypeInv'
  <2>1. ServerTypeOK'
    BY <1>0, <1>6 DEF Close, RecvClosed, ServerTypeOK
  <2> QED
    BY <1>0, <1>6, <1>a, <1>b, <2>1 DEF Close
<1>7. ASSUME NEW bus \in BusCycles, Clock(bus) PROVE TypeInv'
  <2>1. LoaderNext /\ posted' \in Seq(Write)
    BY <1>7, ClockIsLoaderStep
  <2>2. LoaderTypeOK'
    BY <1>0, <2>1, LoaderStepType
  <2> QED
    BY <1>0, <1>7, <1>a, <1>b, <2>1, <2>2 DEF Clock
<1>8. CASE Reboot
  <2>1. LoaderTypeOK' /\ posted' \in Seq(Write)
    <3>1. CASE LoaderReset /\ posted' = <<>>
      BY <1>0, <3>1, LoaderStepType, EmptySeq DEF LoaderNext
    <3>2. CASE UNCHANGED <<loaderVars, posted>>
      BY <1>0, <1>b, <3>2
    <3> QED
      BY <1>8, <3>1, <3>2 DEF Reboot
  <2>2. ServerTypeOK'
    <3>1. 0 \in Word
      BY LoadParamsAssumption DEF Word
    <3>2. \A t \in Sessions : (IF recv[t] = "none" THEN "none" ELSE "closed")
                                  \in {"none", "recv_callback", "closed"}
      OBVIOUS
    <3>3. recv' \in [Sessions -> {"none", "recv_callback", "closed"}]
      BY <1>8, <3>2 DEF Reboot
    <3> QED
      BY <1>8, <3>1, <3>3 DEF Reboot, ServerTypeOK, Parser
  <2>3. SendTypeOK'
    <3>1. \A t \in Sessions : (IF client[t] = "idle" THEN "idle" ELSE "done") \in {"idle", "sending", "done"}
      OBVIOUS
    <3>2. client' \in [Sessions -> {"idle", "sending", "done"}]
      BY <1>8, <3>1 DEF Reboot
    <3> QED
      BY <1>0, <1>8, <3>2 DEF Reboot, SendTypeOK
  <2>4. received' \in [Sessions -> Nat]
    <3>1. \A s \in Sessions : SentBytes(s) \in Nat
      BY <1>0, SegmentFacts DEF SendTypeOK
    <3> QED
      BY <1>8, <3>1 DEF Reboot
  <2>5. clean' \in BOOLEAN /\ troubles' \in 0..MaxTroubles /\ last' = last
    BY <1>0, <1>8, DisturbType DEF Reboot
  <2> QED
    BY <1>0, <1>a, <2>1, <2>2, <2>3, <2>4, <2>5
<1>9. CASE UNCHANGED vars
  BY <1>0, <1>9, <1>a, <1>b DEF vars
<1> QED
  BY <1>1, <1>2, <1>3, <1>4, <1>5, <1>6, <1>7, <1>8, <1>9 DEF Next

\* For every word size of 16 or more, code memory, program that fits in it, number of
\* runs, split of the segments and pace of the bus, every variable of sendfilt, server,
\* bus and loader keeps its type: no run sends more buffers than it has, no code address
\* is out of range (FilterLoad).
THEOREM LoadTypes == Spec => []TypeOK
<1>1. TypeInv => TypeOK
  BY DEF TypeInv
<1> QED
  BY <1>1, TypesInit, TypesStep, PTL DEF Spec

-----------------------------------------------------------------------------
(* The parser *)

\* The parser between two lines, and after a comma; a parser state with writes put in
\* front of its own.
Fresh(w) == [state |-> "WR_OFF", wr_off |-> 0, wr_data |-> 0, writes |-> w]
InData(off, data, w) == [state |-> "WR_DATA", wr_off |-> off, wr_data |-> data, writes |-> w]
Ahead(w, p) == [state |-> p.state, wr_off |-> p.wr_off, wr_data |-> p.wr_data, writes |-> w \o p.writes]

\* These are states of the parser.
LEMMA StatesOfParser ==
    ASSUME NEW w \in Seq(Write)
    PROVE  /\ Fresh(w) \in ParserState
           /\ \A off, data \in Word : InData(off, data, w) \in ParserState
           /\ \A p \in ParserState : Ahead(w, p) \in ParserState
<1>1. 0 \in Word
  BY LoadParamsAssumption DEF Word
<1>2. \A p \in ParserState : Ahead(w, p) \in ParserState
  <2> TAKE p \in ParserState
  <2>1. w \o p.writes \in Seq(Write)
    BY ParserFields, ConcatProperties
  <2> QED
    BY <2>1, ParserFields DEF Ahead, ParserState
<1> QED
  BY <1>1, <1>2 DEF Fresh, InData, ParserState

\* The parser does not look at the writes it has made: a byte does the same behind
\* others.
LEMMA ByteAhead ==
    ASSUME NEW w \in Seq(Write), NEW p \in ParserState, NEW b \in Bytes
    PROVE  ParseByte(Ahead(w, p), b) = Ahead(w, ParseByte(p, b))
<1> DEFINE a == Ahead(w, p)
<1>0. a = [state |-> p.state, wr_off |-> p.wr_off, wr_data |-> p.wr_data, writes |-> w \o p.writes]
  BY DEF Ahead
<1>f. p = [state |-> p.state, wr_off |-> p.wr_off, wr_data |-> p.wr_data, writes |-> p.writes]
      /\ p.writes \in Seq(Write)
  BY ParserFields
<1>1. CASE p.state = "WR_OFF" /\ b = Comma
  <2>1. b \notin HexDigit
    BY <1>1 DEF Comma, HexDigit
  <2>2. ParseByte(p, b) = [p EXCEPT !.state = "WR_DATA"]
    BY <1>1, <2>1 DEF ParseByte
  <2>3. ParseByte(a, b) = [a EXCEPT !.state = "WR_DATA"]
    BY <1>0, <1>1, <2>1 DEF ParseByte
  <2> QED
    BY <1>0, <1>f, <2>2, <2>3 DEF Ahead
<1>2. CASE p.state = "WR_OFF" /\ b \in HexDigit
  <2>1. b # Comma
    BY <1>2 DEF Comma, HexDigit
  <2>2. ParseByte(p, b) = [p EXCEPT !.wr_off = ShiftIn(p.wr_off, b)]
    BY <1>2, <2>1 DEF ParseByte
  <2>3. ParseByte(a, b) = [a EXCEPT !.wr_off = ShiftIn(p.wr_off, b)]
    BY <1>0, <1>2, <2>1 DEF ParseByte
  <2> QED
    BY <1>0, <1>f, <2>2, <2>3 DEF Ahead
<1>3. CASE p.state = "WR_DATA" /\ b = Newline
  <2> DEFINE op == [addr |-> Target(p.wr_off), data |-> p.wr_data]
  <2>1. b \notin HexDigit
    BY <1>3 DEF Newline, HexDigit
  <2>2. ParseByte(p, b) = [state |-> "WR_OFF", wr_off |-> 0, wr_data |-> 0, writes |-> Append(p.writes, op)]
    BY <1>3, <2>1 DEF ParseByte
  <2>3. ParseByte(a, b) = [state |-> "WR_OFF", wr_off |-> 0, wr_data |-> 0, writes |-> Append(w \o p.writes, op)]
    BY <1>0, <1>3, <2>1 DEF ParseByte
  <2>4. op \in Write
    BY TargetType, ParserFields DEF Write
  <2> HIDE DEF op
  <2>5. Append(w \o p.writes, op) = w \o Append(p.writes, op)
    BY <1>f, <2>4
  <2> QED
    BY <2>2, <2>3, <2>5 DEF Ahead
<1>4. CASE p.state = "WR_DATA" /\ b \in HexDigit
  <2>1. b # Newline
    BY <1>4 DEF Newline, HexDigit
  <2>2. ParseByte(p, b) = [p EXCEPT !.wr_data = ShiftIn(p.wr_data, b)]
    BY <1>4, <2>1 DEF ParseByte
  <2>3. ParseByte(a, b) = [a EXCEPT !.wr_data = ShiftIn(p.wr_data, b)]
    BY <1>0, <1>4, <2>1 DEF ParseByte
  <2> QED
    BY <1>0, <1>f, <2>2, <2>3 DEF Ahead
<1>5. CASE /\ ~(p.state = "WR_OFF" /\ b = Comma) /\ ~(p.state = "WR_OFF" /\ b \in HexDigit)
           /\ ~(p.state = "WR_DATA" /\ b = Newline) /\ ~(p.state = "WR_DATA" /\ b \in HexDigit)
  <2>1. ParseByte(p, b) = p
    BY <1>5 DEF ParseByte
  <2>2. ParseByte(a, b) = a
    BY <1>0, <1>5 DEF ParseByte
  <2> QED
    BY <2>1, <2>2
<1> QED
  BY <1>1, <1>2, <1>3, <1>4, <1>5

\* Writes that were there before stay in front.
LEMMA ParseAhead ==
    ASSUME NEW w \in Seq(Write), NEW p \in ParserState, NEW q \in Seq(Bytes)
    PROVE  Iterate(ParseStep, Ahead(w, p), q) = Ahead(w, Iterate(ParseStep, p, q))
<1> DEFINE v == Values(ParseStep, p, q)
           h == [n \in 0..Len(q) |-> Ahead(w, v[n])]
<1>0. Len(q) \in Nat /\ (\A n \in 1..Len(q) : q[n] \in Bytes) /\ Keeps(ParseStep, ParserState, Bytes)
  BY StepsKeepTypes
<1>1. /\ v \in [0..Len(q) -> ParserState] /\ v[0] = p
      /\ \A n \in 1..Len(q) : v[n] = ParseStep[<<v[n - 1], q[n]>>]
  BY <1>0, ValuesFacts
<1>2. Iterate(ParseStep, p, q) = v[Len(q)] /\ Len(q) \in 0..Len(q) /\ 0 \in 0..Len(q)
  BY <1>0 DEF Iterate
<1> HIDE DEF v
<1>3. h[0] = Ahead(w, p)
  BY <1>1, <1>2
<1>4. ASSUME NEW n \in 1..Len(q) PROVE h[n] = ParseStep[<<h[n - 1], q[n]>>]
  <2>1. n \in 0..Len(q) /\ n - 1 \in 0..Len(q) /\ q[n] \in Bytes
    BY <1>0
  <2>2. v[n - 1] \in ParserState
    BY <1>1, <2>1
  <2>3. v[n] = ParseByte(v[n - 1], q[n])
    BY <1>1, <2>1, <2>2 DEF ParseStep
  <2>4. h[n] = Ahead(w, v[n]) /\ h[n - 1] = Ahead(w, v[n - 1])
    BY <2>1
  <2>5. Ahead(w, v[n - 1]) \in ParserState
    BY <2>2, StatesOfParser
  <2>6. ParseStep[<<Ahead(w, v[n - 1]), q[n]>>] = ParseByte(Ahead(w, v[n - 1]), q[n])
    BY <2>1, <2>5 DEF ParseStep
  <2>7. ParseByte(Ahead(w, v[n - 1]), q[n]) = Ahead(w, ParseByte(v[n - 1], q[n]))
    BY <2>1, <2>2, ByteAhead
  <2> QED
    BY <2>3, <2>4, <2>6, <2>7
<1>5. h[Len(q)] = Ahead(w, v[Len(q)])
  BY <1>2
<1> HIDE DEF h
<1>6. Ahead(w, p) \in ParserState
  BY StatesOfParser
<1>7. \A n \in 0..Len(q) : h[n] = Values(ParseStep, Ahead(w, p), q)[n]
  BY <1>0, <1>3, <1>4, <1>6, IterateUnique
<1> QED
  BY <1>2, <1>5, <1>7 DEF Iterate

\* The digits after the comma.
LEMMA ParseDigits ==
    ASSUME NEW off \in Word, NEW w \in Seq(Write), NEW q \in Seq(HexDigit)
    PROVE  Iterate(ParseStep, InData(off, 0, w), q) = InData(off, Number(q), w)
<1> DEFINE v == Values(ShiftStep, 0, q)
           h == [n \in 0..Len(q) |-> InData(off, v[n], w)]
<1>0. /\ Len(q) \in Nat /\ (\A n \in 1..Len(q) : q[n] \in HexDigit) /\ 0 \in Word
      /\ Keeps(ParseStep, ParserState, Bytes) /\ Keeps(ShiftStep, Word, HexDigit)
  BY StepsKeepTypes, LoadParamsAssumption DEF Word
<1>1. /\ v \in [0..Len(q) -> Word] /\ v[0] = 0
      /\ \A n \in 1..Len(q) : v[n] = ShiftStep[<<v[n - 1], q[n]>>]
  BY <1>0, ValuesFacts
<1>2. Number(q) = v[Len(q)] /\ Len(q) \in 0..Len(q) /\ 0 \in 0..Len(q)
  BY <1>0, NumberIterates DEF Iterate
<1> HIDE DEF v
<1>3. h[0] = InData(off, 0, w)
  BY <1>1, <1>2
<1>4. ASSUME NEW n \in 1..Len(q) PROVE h[n] = ParseStep[<<h[n - 1], q[n]>>]
  <2>1. n \in 0..Len(q) /\ n - 1 \in 0..Len(q) /\ q[n] \in HexDigit /\ q[n] \in Bytes /\ q[n] # Newline
    BY <1>0 DEF HexDigit, Bytes, Newline
  <2>2. v[n - 1] \in Word
    BY <1>1, <2>1
  <2>3. v[n] = ShiftIn(v[n - 1], q[n])
    BY <1>1, <2>1, <2>2 DEF ShiftStep
  <2>4. h[n] = InData(off, v[n], w) /\ h[n - 1] = InData(off, v[n - 1], w)
    BY <2>1
  <2>5. InData(off, v[n - 1], w) \in ParserState
    BY <2>2, StatesOfParser
  <2>6. ParseStep[<<InData(off, v[n - 1], w), q[n]>>] = ParseByte(InData(off, v[n - 1], w), q[n])
    BY <2>1, <2>5 DEF ParseStep
  <2>7. ParseByte(InData(off, v[n - 1], w), q[n]) = InData(off, ShiftIn(v[n - 1], q[n]), w)
    BY <2>1 DEF ParseByte, InData
  <2> QED
    BY <2>3, <2>4, <2>6, <2>7
<1>5. h[Len(q)] = InData(off, v[Len(q)], w)
  BY <1>2
<1> HIDE DEF h
<1>6. InData(off, 0, w) \in ParserState /\ q \in Seq(Bytes)
  <2>1. HexDigit \subseteq Bytes
    BY DEF HexDigit, Bytes
  <2> QED
    BY <1>0, <2>1, StatesOfParser, SeqMonotonic
<1>7. \A n \in 0..Len(q) : h[n] = Values(ParseStep, InData(off, 0, w), q)[n]
  BY <1>0, <1>3, <1>4, <1>6, IterateUnique
<1> QED
  BY <1>2, <1>5, <1>7 DEF Iterate

\* The loop over one byte, and over two pieces.
LEMMA OneByte ==
    ASSUME NEW p \in ParserState, NEW b \in Bytes
    PROVE  Iterate(ParseStep, p, <<b>>) = ParseByte(p, b)
<1>1. Iterate(ParseStep, p, <<b>>) = ParseStep[<<p, b>>]
  BY StepsKeepTypes, IterateShort
<1> QED
  BY <1>1 DEF ParseStep

LEMMA ParseConcat ==
    ASSUME NEW p \in ParserState, NEW q \in Seq(Bytes), NEW r \in Seq(Bytes)
    PROVE  Iterate(ParseStep, p, q \o r) = Iterate(ParseStep, Iterate(ParseStep, p, q), r)
BY StepsKeepTypes, IterateConcat

\* Two bytes.
LEMMA TwoParsed ==
    ASSUME NEW p \in ParserState, NEW b \in Bytes, NEW c \in Bytes
    PROVE  Iterate(ParseStep, p, <<b, c>>) = ParseByte(ParseByte(p, b), c)
<1>1. <<b, c>> = <<b>> \o <<c>> /\ <<b>> \in Seq(Bytes) /\ <<c>> \in Seq(Bytes)
  <2>1. <<b>> \in Seq(Bytes) /\ <<c>> \in Seq(Bytes)
    OBVIOUS
  <2>2. <<b, c>> = <<b>> \o <<c>>
    <3> DEFINE s == <<b, c>>
               t == <<b>> \o <<c>>
    <3>1. s \in Seq(Bytes) /\ t \in Seq(Bytes) /\ Len(s) = 2 /\ Len(t) = 2
      BY <2>1
    <3>2. s[1] = b /\ s[2] = c /\ t[1] = b /\ t[2] = c
      OBVIOUS
    <3>3. \A i \in 1..2 : i = 1 \/ i = 2
      OBVIOUS
    <3> HIDE DEF s, t
    <3>4. s = t
      BY <3>1, <3>2, <3>3, SeqEqual
    <3> QED
      BY <3>4 DEF s, t
  <2> QED
    BY <2>1, <2>2
<1>2. Iterate(ParseStep, p, <<b>> \o <<c>>) = Iterate(ParseStep, Iterate(ParseStep, p, <<b>>), <<c>>)
  BY <1>1, ParseConcat
<1> QED
  BY <1>1, <1>2, OneByte, ParseByteType

\* A line is one register write.
LEMMA ParseLine ==
    ASSUME NEW w \in Seq(Write), NEW offset \in HexDigit, NEW q \in Seq(HexDigit)
    PROVE  /\ Iterate(ParseStep, Fresh(w), Line(offset, q)) =
                  Fresh(Append(w, [addr |-> Target(offset), data |-> Number(q)]))
           /\ [addr |-> Target(offset), data |-> Number(q)] \in Write
<1> DEFINE op == [addr |-> Target(offset), data |-> Number(q)]
           head == <<offset, Comma>>
           tail == <<Newline, Skipped>>
<1>1. /\ offset \in Bytes /\ Comma \in Bytes /\ Newline \in Bytes /\ Skipped \in Bytes
      /\ Comma \notin HexDigit /\ Newline \notin HexDigit /\ Skipped \notin HexDigit
      /\ offset # Comma /\ Skipped # Comma /\ Skipped # Newline
  BY DEF HexDigit, Bytes, Comma, Newline, Skipped
<1>2. q \in Seq(Bytes) /\ head \in Seq(Bytes) /\ tail \in Seq(Bytes)
  <2>1. HexDigit \subseteq Bytes
    BY DEF HexDigit, Bytes
  <2>2. q \in Seq(Bytes)
    BY <2>1, SeqMonotonic
  <2> QED
    BY <1>1, <2>2
<1>3. ShiftIn(0, offset) = offset /\ offset \in Word
  BY LoadParamsAssumption DEF ShiftIn, HexDigit, Word
<1>4. Number(q) \in Word
  <2>1. 0 \in Word
    BY LoadParamsAssumption DEF Word
  <2> QED
    BY <2>1, NumberIterates, IterateType, StepsKeepTypes
<1>5. op \in Write /\ Append(w, op) \in Seq(Write)
  <2>1. op \in Write
    BY <1>3, <1>4, TargetType DEF Write
  <2> QED
    BY <2>1, AppendProperties
<1>6. Iterate(ParseStep, Fresh(w), head) = InData(offset, 0, w)
  <2>1. ParseByte(Fresh(w), offset) = [Fresh(w) EXCEPT !.wr_off = offset]
    BY <1>1, <1>3 DEF ParseByte, Fresh
  <2>2. ParseByte([Fresh(w) EXCEPT !.wr_off = offset], Comma) = InData(offset, 0, w)
    BY <1>1 DEF ParseByte, Fresh, InData
  <2> QED
    BY <1>1, <2>1, <2>2, TwoParsed, StatesOfParser
<1>7. Iterate(ParseStep, InData(offset, 0, w), q) = InData(offset, Number(q), w)
  BY <1>3, ParseDigits
<1>8. Iterate(ParseStep, InData(offset, Number(q), w), tail) = Fresh(Append(w, op))
  <2>1. ParseByte(InData(offset, Number(q), w), Newline) = Fresh(Append(w, op))
    BY <1>1 DEF ParseByte, Fresh, InData
  <2>2. ParseByte(Fresh(Append(w, op)), Skipped) = Fresh(Append(w, op))
    BY <1>1 DEF ParseByte, Fresh
  <2>3. InData(offset, Number(q), w) \in ParserState
    BY <1>3, <1>4, StatesOfParser
  <2> QED
    BY <1>1, <2>1, <2>2, <2>3, TwoParsed
<1>9. Line(offset, q) = (head \o q) \o tail
  <2> HIDE DEF head, tail
  <2> QED
    BY <1>2, ConcatAssociative DEF Line, head, tail
<1> HIDE DEF head, tail, op
<1>10. Iterate(ParseStep, Fresh(w), head \o q) = InData(offset, Number(q), w)
  BY <1>2, <1>6, <1>7, ParseConcat, StatesOfParser
<1>11. head \o q \in Seq(Bytes)
  BY <1>2, ConcatProperties
<1>12. Iterate(ParseStep, Fresh(w), (head \o q) \o tail) = Fresh(Append(w, op))
  <2> DEFINE r == head \o q
  <2>1. r \in Seq(Bytes) /\ Iterate(ParseStep, Fresh(w), r) = InData(offset, Number(q), w)
    BY <1>10, <1>11
  <2> HIDE DEF r
  <2>2. Iterate(ParseStep, Fresh(w), r \o tail) = Iterate(ParseStep, Iterate(ParseStep, Fresh(w), r), tail)
    BY <1>2, <2>1, ParseConcat, StatesOfParser
  <2>3. Iterate(ParseStep, Fresh(w), r \o tail) = Fresh(Append(w, op))
    BY <1>8, <2>1, <2>2
  <2> QED
    BY <2>3 DEF r
<1> QED
  BY <1>5, <1>9, <1>12 DEF op

-----------------------------------------------------------------------------
(* The loader at rest *)

\* The states of regstrb2mem and the code memory, and with them the register outputs.
Memories == [wr_addr : CodeAddr, low_valid : BOOLEAN, high_valid : BOOLEAN, code : [CodeAddr -> Instruction]]
Machine == [mem : Memories, out : Outputs]

\* regstrb2mem and the code memory as one record.
Memory == [wr_addr |-> wr_addr, low_valid |-> inst_low_valid, high_valid |-> inst_high_valid, code |-> code]

\* The outputs of the register file when no register has just been written.
Quiet(out) == [start |-> out.start, low |-> out.low, high |-> out.high,
               lowStrobe |-> FALSE, highStrobe |-> FALSE]

\* The memory after a clock edge with these outputs.
Completes(m, out) == ~out.start /\ ((m.low_valid /\ out.highStrobe) \/ (m.high_valid /\ out.lowStrobe))

\* regstrb2mem and the code memory after a clock edge with these outputs
\* (regstrb2mem.v:69-94).
Strobed(m, out) ==
    [wr_addr    |-> IF out.start THEN 0
                    ELSE IF Completes(m, out) THEN (m.wr_addr + 1) % CodeSize ELSE m.wr_addr,
     low_valid  |-> ~Completes(m, out) /\ (out.lowStrobe \/ m.low_valid),
     high_valid |-> ~Completes(m, out) /\ (out.highStrobe \/ m.high_valid),
     code       |-> IF Completes(m, out)
                    THEN [m.code EXCEPT ![m.wr_addr] = [high |-> out.high, low |-> out.low]]
                    ELSE m.code]

\* The outputs after a write.
Updated(out, op) ==
    [start      |-> IF op.addr = CONTROL_OFFSET THEN op.data % 2 = 1 ELSE out.start,
     low        |-> IF op.addr = INST_LOW_OFFSET THEN op.data ELSE out.low,
     high       |-> IF op.addr = INST_HIGH_OFFSET THEN op.data ELSE out.high,
     lowStrobe  |-> op.addr = INST_LOW_OFFSET,
     highStrobe |-> op.addr = INST_HIGH_OFFSET]

\* A write to the loader at rest, when it is at rest again.
Apply(e, op) == [mem |-> Strobed(e.mem, Updated(e.out, op)), out |-> Quiet(Updated(e.out, op))]

\* The step function of the loop over the posted writes.
ApplyStep == [x \in Machine \X Write |-> Apply(x[1], x[2])]

\* The loader when the outputs on their way have arrived, and when the write it has
\* accepted has too.
Arrived == [mem |-> IF pessimistic THEN Strobed(Strobed(Strobed(Memory, regs_r2), regs_r), regs)
                                   ELSE Strobed(Memory, regs),
            out |-> Quiet(regs)]
Accepted == [addr |-> awaddr, data |-> wdata]
AtRest == IF write_state = "WRITE_UPDATE_REGISTER" THEN Apply(Arrived, Accepted) ELSE Arrived

\* The types of all these.
LEMMA UpdatedType == ASSUME NEW out \in Outputs, NEW op, op.data \in Word PROVE Updated(out, op) \in Outputs
<1> DEFINE start == IF op.addr = CONTROL_OFFSET THEN op.data % 2 = 1 ELSE out.start
           low == IF op.addr = INST_LOW_OFFSET THEN op.data ELSE out.low
           high == IF op.addr = INST_HIGH_OFFSET THEN op.data ELSE out.high
           lowStrobe == op.addr = INST_LOW_OFFSET
           highStrobe == op.addr = INST_HIGH_OFFSET
<1>1. start \in BOOLEAN /\ lowStrobe \in BOOLEAN /\ highStrobe \in BOOLEAN
  <2>1. out.start \in BOOLEAN
    BY DEF Outputs
  <2>2. (op.data % 2 = 1) \in BOOLEAN
    OBVIOUS
  <2> QED BY <2>1, <2>2
<1>2. low \in Word /\ high \in Word
  BY DEF Outputs
<1>3. Updated(out, op) = [start |-> start, low |-> low, high |-> high,
                          lowStrobe |-> lowStrobe, highStrobe |-> highStrobe]
  BY DEF Updated
<1> HIDE DEF start, low, high, lowStrobe, highStrobe
<1> QED BY <1>1, <1>2, <1>3 DEF Outputs

LEMMA OutputFields ==
    ASSUME NEW out \in Outputs
    PROVE  /\ out.start \in BOOLEAN /\ out.lowStrobe \in BOOLEAN /\ out.highStrobe \in BOOLEAN
           /\ out.low \in Word /\ out.high \in Word
BY DEF Outputs

LEMMA QuietType == ASSUME NEW out \in Outputs PROVE Quiet(out) \in Outputs
BY DEF Outputs, Quiet

LEMMA StrobedType == ASSUME NEW m \in Memories, NEW out \in Outputs PROVE Strobed(m, out) \in Memories
<1> DEFINE c == Completes(m, out)
           a == IF out.start THEN 0 ELSE IF c THEN (m.wr_addr + 1) % CodeSize ELSE m.wr_addr
           low == ~c /\ (out.lowStrobe \/ m.low_valid)
           high == ~c /\ (out.highStrobe \/ m.high_valid)
           k == IF c THEN [m.code EXCEPT ![m.wr_addr] = [high |-> out.high, low |-> out.low]] ELSE m.code
<1>1. m.wr_addr \in CodeAddr /\ m.code \in [CodeAddr -> Instruction]
  BY DEF Memories
<1>2. a \in CodeAddr
  <2>1. CodeSize \in Nat /\ CodeSize > 0 /\ m.wr_addr \in Nat /\ 0 \in CodeAddr
    BY <1>1, LoaderAssumption DEF CodeAddr
  <2>2. (m.wr_addr + 1) % CodeSize \in CodeAddr
    BY <2>1 DEF CodeAddr
  <2> QED
    BY <1>1, <2>1, <2>2
<1>3. low \in BOOLEAN /\ high \in BOOLEAN
  OBVIOUS
<1>4. k \in [CodeAddr -> Instruction]
  <2>1. [high |-> out.high, low |-> out.low] \in Instruction
    BY OutputFields DEF Instruction
  <2> QED
    BY <1>1, <2>1
<1>5. Strobed(m, out) = [wr_addr |-> a, low_valid |-> low, high_valid |-> high, code |-> k]
  BY DEF Strobed
<1> HIDE DEF c, a, low, high, k
<1> QED
  BY <1>2, <1>3, <1>4, <1>5 DEF Memories

LEMMA ApplyType == ASSUME NEW e \in Machine, NEW op, op.data \in Word PROVE Apply(e, op) \in Machine
<1>1. e.mem \in Memories /\ e.out \in Outputs /\ op.data \in Word
  BY DEF Machine
<1>2. Updated(e.out, op) \in Outputs
  BY <1>1, UpdatedType
<1> QED
  BY <1>1, <1>2, StrobedType, QuietType DEF Apply, Machine

LEMMA ApplyKeepsType == Keeps(ApplyStep, Machine, Write)
BY ApplyType DEF Keeps, ApplyStep, Write

LEMMA MemoryType == LoaderTypeOK => Memory \in Memories
BY DEF LoaderTypeOK, Memory, Memories

LEMMA ArrivedType == LoaderTypeOK => Arrived \in Machine
<1> SUFFICES ASSUME LoaderTypeOK PROVE Arrived \in Machine
  OBVIOUS
<1>1. Memory \in Memories /\ regs \in Outputs /\ regs_r \in Outputs /\ regs_r2 \in Outputs
  BY MemoryType DEF LoaderTypeOK
<1>2. Strobed(Memory, regs) \in Memories
  BY <1>1, StrobedType
<1>3. Strobed(Strobed(Strobed(Memory, regs_r2), regs_r), regs) \in Memories
  BY <1>1, StrobedType
<1> QED
  BY <1>1, <1>2, <1>3, QuietType DEF Arrived, Machine

LEMMA AtRestType == LoaderTypeOK => AtRest \in Machine
<1> SUFFICES ASSUME LoaderTypeOK PROVE AtRest \in Machine
  OBVIOUS
<1>1. Accepted.data \in Word
  BY DEF LoaderTypeOK, Accepted
<1> QED
  BY <1>1, ArrivedType, ApplyType DEF AtRest

-----------------------------------------------------------------------------
\* Outputs that are quiet again change nothing that their arrival has not.
LEMMA QuietAfter ==
    ASSUME NEW m \in Memories, NEW out \in Outputs
    PROVE  Strobed(Strobed(m, out), Quiet(out)) = Strobed(m, out)
<1> DEFINE n == Strobed(m, out)
           o == Quiet(out)
<1>1. o.start = out.start /\ o.lowStrobe = FALSE /\ o.highStrobe = FALSE
  BY DEF Quiet
<1>2. n \in Memories
  BY StrobedType
<1>3. n = [wr_addr |-> n.wr_addr, low_valid |-> n.low_valid, high_valid |-> n.high_valid, code |-> n.code]
      /\ n.low_valid \in BOOLEAN /\ n.high_valid \in BOOLEAN
  <2> HIDE DEF n
  <2> QED
    BY <1>2 DEF Memories
<1>4. out.start => n.wr_addr = 0
  BY DEF Strobed
<1> HIDE DEF n, o
<1>5. ~Completes(n, o)
  BY <1>1 DEF Completes
<1>6. Strobed(n, o) = [wr_addr |-> n.wr_addr, low_valid |-> n.low_valid,
                       high_valid |-> n.high_valid, code |-> n.code]
  BY <1>1, <1>3, <1>4, <1>5 DEF Strobed
<1> QED
  BY <1>3, <1>6 DEF n, o

\* regstrb2mem and the code memory do what Strobed says.
LEMMA MemoryStep ==
    ASSUME Regstrb2mem, CodeRam
    PROVE  Memory' = Strobed(Memory, Internal)
<1>1. Completes(Memory, Internal) <=> CodeWrEn
  BY DEF Completes, Memory, CodeWrEn
<1>2. Memory.wr_addr = wr_addr /\ Memory.low_valid = inst_low_valid
      /\ Memory.high_valid = inst_high_valid /\ Memory.code = code
  BY DEF Memory
<1> QED
  BY <1>1, <1>2 DEF Regstrb2mem, CodeRam, Strobed, Memory

\* Where the outputs are delayed, what arrives is the same later.
LEMMA ArrivedStep ==
    ASSUME LoaderTypeOK, DelayClock, Regstrb2mem, CodeRam, pessimistic' = pessimistic
    PROVE  Arrived' = [mem |-> Strobed(Arrived.mem, regs'), out |-> Quiet(regs')]
<1>1. Memory' = Strobed(Memory, Internal) /\ regs_r' = regs /\ regs_r2' = regs_r
  BY MemoryStep DEF DelayClock
<1>2. CASE pessimistic
  <2>1. Arrived.mem = Strobed(Strobed(Strobed(Memory, regs_r2), regs_r), regs)
    BY <1>2 DEF Arrived
  <2>2. Memory' = Strobed(Memory, regs_r2)
    BY <1>1, <1>2 DEF Internal
  <2>3. Arrived' = [mem |-> Strobed(Strobed(Strobed(Memory', regs_r2'), regs_r'), regs'),
                    out |-> Quiet(regs')]
    BY <1>2 DEF Arrived
  <2> QED
    BY <1>1, <2>1, <2>2, <2>3
<1>3. CASE ~pessimistic
  <2>1. Arrived.mem = Strobed(Memory, regs)
    BY <1>3 DEF Arrived
  <2>2. Memory' = Strobed(Memory, regs)
    BY <1>1, <1>3 DEF Internal
  <2>3. Arrived' = [mem |-> Strobed(Memory', regs'), out |-> Quiet(regs')]
    BY <1>3 DEF Arrived
  <2> QED
    BY <2>1, <2>2, <2>3
<1> QED
  BY <1>2, <1>3

\* The present outputs are the last to arrive.
LEMMA ArrivedAfterRegs ==
    ASSUME LoaderTypeOK
    PROVE  \E m \in Memories : Arrived.mem = Strobed(m, regs)
<1>1. Memory \in Memories /\ regs \in Outputs /\ regs_r \in Outputs /\ regs_r2 \in Outputs
  BY MemoryType DEF LoaderTypeOK
<1>2. Strobed(Strobed(Memory, regs_r2), regs_r) \in Memories
  BY <1>1, StrobedType
<1> QED
  BY <1>1, <1>2 DEF Arrived

\* A clock edge after which the strobes are low changes nothing of what will have
\* arrived.
LEMMA ArrivedQuiet ==
    ASSUME LoaderTypeOK, DelayClock, Regstrb2mem, CodeRam, pessimistic' = pessimistic, regs' = Quiet(regs)
    PROVE  Arrived' = Arrived
<1>1. regs \in Outputs
  BY DEF LoaderTypeOK
<1>2. Strobed(Arrived.mem, Quiet(regs)) = Arrived.mem
  BY <1>1, ArrivedAfterRegs, QuietAfter
<1>3. Quiet(Quiet(regs)) = Quiet(regs)
  BY DEF Quiet
<1>4. Arrived' = [mem |-> Arrived.mem, out |-> Quiet(regs)]
  BY <1>2, <1>3, ArrivedStep
<1> QED
  BY <1>4 DEF Arrived

\* A clock edge in WRITE_UPDATE_REGISTER adds the accepted write to it.
LEMMA ArrivedUpdate ==
    ASSUME LoaderTypeOK, DelayClock, Regstrb2mem, CodeRam, pessimistic' = pessimistic, regs' = UpdatedRegs
    PROVE  Arrived' = Apply(Arrived, Accepted)
<1>1. UpdatedRegs = Updated(Arrived.out, Accepted)
  BY DEF UpdatedRegs, Updated, Arrived, Quiet, Accepted
<1> QED
  BY <1>1, ArrivedStep DEF Apply

\* Half a transaction is one of the oldest posted write.
BusInv == /\ write_state = "WRITE_ADDR_FIRST" => posted # <<>> /\ awaddr = Head(posted).addr
          /\ write_state = "WRITE_DATA_FIRST" => posted # <<>> /\ wdata = Head(posted).data

\* One clock edge of the loader on a bus that offers wr, or nothing.
LEMMA LoaderAtRest ==
    ASSUME LoaderTypeOK, NEW wr \in Write, NEW aw \in BOOLEAN, NEW w \in BOOLEAN, NEW b \in BOOLEAN,
           write_state = "WRITE_ADDR_FIRST" => awaddr = wr.addr,
           write_state = "WRITE_DATA_FIRST" => wdata = wr.data,
           LoaderClock(wr, aw, w, b)
    PROVE  /\ ~Complete(aw, w) => AtRest' = AtRest
           /\ Complete(aw, w) => AtRest' = Apply(AtRest, wr)
           /\ write_state' = "WRITE_ADDR_FIRST" =>
                 awaddr' = wr.addr /\ ~Complete(aw, w) /\ (aw \/ write_state = "WRITE_ADDR_FIRST")
           /\ write_state' = "WRITE_DATA_FIRST" =>
                 wdata' = wr.data /\ ~Complete(aw, w) /\ (w \/ write_state = "WRITE_DATA_FIRST")
<1>1. /\ WriteFsm(wr, aw, w, b) /\ DelayClock /\ Regstrb2mem /\ CodeRam /\ pessimistic' = pessimistic
  BY DEF LoaderClock
<1>2. write_state \in WriteStates
  BY DEF LoaderTypeOK
<1>3. CASE write_state = "WRITE_UPDATE_REGISTER"
  <2>1. ~Complete(aw, w) /\ write_state' = "WRITE_DONE" /\ regs' = UpdatedRegs
    BY <1>1, <1>3 DEF WriteFsm, NextWriteState, Complete, TakesAddr, TakesData
  <2>2. Arrived' = Apply(Arrived, Accepted)
    BY <1>1, <2>1, ArrivedUpdate
  <2>3. AtRest = Apply(Arrived, Accepted) /\ AtRest' = Arrived'
    BY <1>3, <2>1 DEF AtRest
  <2> QED
    BY <2>1, <2>2, <2>3
<1>4. CASE write_state # "WRITE_UPDATE_REGISTER"
  <2>1. regs' = Quiet(regs)
    BY <1>1, <1>4 DEF WriteFsm, Quiet
  <2>2. Arrived' = Arrived /\ AtRest = Arrived
    BY <1>1, <1>4, <2>1, ArrivedQuiet DEF AtRest
  <2>3. CASE Complete(aw, w)
    <3>1. write_state' = "WRITE_UPDATE_REGISTER"
      BY <1>1, <2>3 DEF WriteFsm, NextWriteState
    <3>2. awaddr' = wr.addr /\ wdata' = wr.data
      BY <1>1, <2>3 DEF WriteFsm, Complete, TakesAddr, TakesData
    <3>3. Accepted' = wr
      BY <3>2 DEF Accepted, Write
    <3>4. AtRest' = Apply(Arrived', Accepted')
      BY <3>1 DEF AtRest
    <3> QED
      BY <2>2, <2>3, <3>1, <3>3, <3>4
  <2>4. CASE ~Complete(aw, w)
    <3>1. write_state' # "WRITE_UPDATE_REGISTER"
      BY <1>1, <1>4, <2>4 DEF WriteFsm, NextWriteState
    <3>2. AtRest' = Arrived'
      BY <3>1 DEF AtRest
    <3>3. write_state' = "WRITE_ADDR_FIRST" => awaddr' = wr.addr /\ (aw \/ write_state = "WRITE_ADDR_FIRST")
      BY <1>1, <1>2, <2>4 DEF WriteFsm, NextWriteState, TakesAddr, TakesData, WriteStates
    <3>4. write_state' = "WRITE_DATA_FIRST" => wdata' = wr.data /\ (w \/ write_state = "WRITE_DATA_FIRST")
      BY <1>1, <1>2, <2>4 DEF WriteFsm, NextWriteState, TakesAddr, TakesData, WriteStates, Complete
    <3> QED
      BY <2>2, <2>4, <3>2, <3>3, <3>4
  <2> QED
    BY <2>3, <2>4
<1> QED
  BY <1>3, <1>4

\* A clock edge leaves the loader at rest as it was, or takes the oldest posted write.
LEMMA ClockAtRest ==
    ASSUME TypeInv, BusInv, NEW bus \in BusCycles, Clock(bus)
    PROVE  /\ BusInv'
           /\ \/ AtRest' = AtRest /\ posted' = posted
              \/ posted # <<>> /\ posted' = Tail(posted) /\ AtRest' = Apply(AtRest, Head(posted))
<1>1. bus.awvalid \in BOOLEAN /\ bus.wvalid \in BOOLEAN /\ bus.bready \in BOOLEAN
  BY FilterLoadAssumption
<1>2. LoaderTypeOK /\ posted \in Seq(Write)
  BY DEF TypeInv, TypeOK
<1>3. CASE posted = <<>>
  <2>1. LoaderClock([addr |-> 0, data |-> 0], FALSE, FALSE, bus.bready) /\ posted' = posted
    BY <1>3 DEF Clock
  <2>2. [addr |-> 0, data |-> 0] \in Write
    BY LoadParamsAssumption DEF Word, Write
  <2>3. write_state # "WRITE_ADDR_FIRST" /\ write_state # "WRITE_DATA_FIRST"
    BY <1>3 DEF BusInv
  <2>4. ~Complete(FALSE, FALSE)
    BY DEF Complete, TakesAddr, TakesData
  <2>5. AtRest' = AtRest /\ write_state' # "WRITE_ADDR_FIRST" /\ write_state' # "WRITE_DATA_FIRST"
    BY <1>1, <1>2, <2>1, <2>2, <2>3, <2>4, LoaderAtRest
  <2> QED
    BY <2>1, <2>5 DEF BusInv
<1>4. CASE posted # <<>>
  <2> DEFINE wr == Head(posted)
             done == Complete(bus.awvalid, bus.wvalid)
  <2>1. /\ LoaderClock(wr, bus.awvalid, bus.wvalid, bus.bready)
        /\ posted' = IF done THEN Tail(posted) ELSE posted
    BY <1>4 DEF Clock
  <2>2. wr \in Write
    BY <1>2, <1>4, HeadTailProperties
  <2>3. /\ ~done => AtRest' = AtRest
        /\ done => AtRest' = Apply(AtRest, wr)
        /\ write_state' = "WRITE_ADDR_FIRST" => awaddr' = wr.addr /\ ~done
        /\ write_state' = "WRITE_DATA_FIRST" => wdata' = wr.data /\ ~done
    <3>1. /\ write_state = "WRITE_ADDR_FIRST" => awaddr = wr.addr
          /\ write_state = "WRITE_DATA_FIRST" => wdata = wr.data
      BY DEF BusInv
    <3> HIDE DEF wr
    <3> QED
      BY <1>1, <1>2, <2>1, <2>2, <3>1, LoaderAtRest
  <2>4. CASE done
    BY <1>4, <2>1, <2>3, <2>4 DEF BusInv
  <2>5. CASE ~done
    BY <1>4, <2>1, <2>3, <2>5 DEF BusInv
  <2> QED
    BY <2>4, <2>5
<1> QED
  BY <1>3, <1>4

-----------------------------------------------------------------------------
(* A run is the writes of its program *)

\* Nothing of an earlier run is left, and a program is loaded.
Rewound(e) == ~e.mem.low_valid /\ e.mem.wr_addr = 0

\* The values of the instruction in the registers.
Encoded(s, n) == [high |-> Number(Program[s][n].high), low |-> Number(Program[s][n].low)]

\* A loader that has loaded the program of run s, started the filters and is rewound.
Holds(e, s) == Rewound(e) /\ e.out.start /\ \A n \in DOMAIN Program[s] : e.mem.code[n - 1] = Encoded(s, n)

\* The parts of a machine.
LEMMA MachineFields ==
    ASSUME NEW e \in Machine
    PROVE  /\ e.mem \in Memories /\ e.out \in Outputs
           /\ e.mem.low_valid \in BOOLEAN /\ e.mem.high_valid \in BOOLEAN
           /\ e.mem.wr_addr \in CodeAddr /\ e.mem.code \in [CodeAddr -> Instruction]
BY DEF Machine, Memories

\* The offsets that sendfilt sends are those of the register file (echo.c:97,
\* sendfilt.cpp:69-86).
LEMMA Targets == Target(4) = CONTROL_OFFSET /\ Target(8) = INST_LOW_OFFSET /\ Target(12) = INST_HIGH_OFFSET
BY DEF Target, CONTROL_OFFSET, INST_LOW_OFFSET, INST_HIGH_OFFSET

\* A write of the control register, with no half instruction in the flags: it starts or
\* stops the filters and leaves the memory as it is; a start rewinds.
LEMMA ControlWrite ==
    ASSUME NEW e \in Machine, NEW d \in {0, 1}, ~e.mem.low_valid
    PROVE  LET a == Apply(e, [addr |-> Target(4), data |-> d])
           IN  /\ a.out.start = (d = 1) /\ ~a.mem.low_valid /\ a.mem.code = e.mem.code
               /\ d = 1 => a.mem.wr_addr = 0
               /\ e.mem.wr_addr = 0 => a.mem.wr_addr = 0
<1> DEFINE op == [addr |-> Target(4), data |-> d]
           o == Updated(e.out, op)
           a == Apply(e, op)
<1>1. op.addr = CONTROL_OFFSET /\ op.data = d
  BY Targets
<1>2. (d % 2 = 1) = (d = 1)
  OBVIOUS
<1>3. o.start = (d = 1) /\ ~o.lowStrobe /\ ~o.highStrobe
  <2>1. CONTROL_OFFSET # INST_LOW_OFFSET /\ CONTROL_OFFSET # INST_HIGH_OFFSET
    BY DEF CONTROL_OFFSET, INST_LOW_OFFSET, INST_HIGH_OFFSET
  <2> HIDE DEF op
  <2> QED
    BY <1>1, <1>2, <2>1 DEF Updated
<1> HIDE DEF op
<1>4. a.mem = Strobed(e.mem, o) /\ a.out.start = o.start
  BY DEF Apply, Quiet
<1> HIDE DEF o, a
<1>5. ~Completes(e.mem, o)
  BY <1>3 DEF Completes
<1>6. /\ a.mem.low_valid = (o.lowStrobe \/ e.mem.low_valid)
      /\ a.mem.code = e.mem.code
      /\ a.mem.wr_addr = IF o.start THEN 0 ELSE e.mem.wr_addr
  <2> DEFINE lv == ~Completes(e.mem, o) /\ (o.lowStrobe \/ e.mem.low_valid)
  <2>1. a.mem.low_valid = lv
    BY <1>4 DEF Strobed
  <2>2. lv = (o.lowStrobe \/ e.mem.low_valid)
    BY <1>5
  <2> QED
    BY <1>4, <1>5, <2>1, <2>2 DEF Strobed
<1> QED
  BY <1>3, <1>4, <1>6 DEF a, op

\* The two writes of an instruction.
LEMMA InstructionWrites ==
    ASSUME NEW e \in Machine, NEW h \in Word, NEW l \in Word, ~e.mem.low_valid, ~e.out.start
    PROVE  LET a == Apply(Apply(e, [addr |-> Target(12), data |-> h]), [addr |-> Target(8), data |-> l])
           IN  /\ ~a.out.start /\ ~a.mem.low_valid
               /\ a.mem.wr_addr = (e.mem.wr_addr + 1) % CodeSize
               /\ a.mem.code = [e.mem.code EXCEPT ![e.mem.wr_addr] = [high |-> h, low |-> l]]
<1> DEFINE op1 == [addr |-> Target(12), data |-> h]
           op2 == [addr |-> Target(8), data |-> l]
           o1 == Updated(e.out, op1)
           a1 == Apply(e, op1)
           o2 == Updated(a1.out, op2)
           a2 == Apply(a1, op2)
<1>1. op1.addr = INST_HIGH_OFFSET /\ op1.data = h /\ op2.addr = INST_LOW_OFFSET /\ op2.data = l
  BY Targets
<1>2. /\ CONTROL_OFFSET # INST_LOW_OFFSET /\ CONTROL_OFFSET # INST_HIGH_OFFSET
      /\ INST_LOW_OFFSET # INST_HIGH_OFFSET
  BY DEF CONTROL_OFFSET, INST_LOW_OFFSET, INST_HIGH_OFFSET
<1> HIDE DEF op1, op2
<1>3. ~o1.start /\ o1.highStrobe /\ ~o1.lowStrobe /\ o1.high = h
  BY <1>1, <1>2 DEF Updated
<1>4. a1.mem = Strobed(e.mem, o1) /\ ~a1.out.start /\ a1.out.high = h
  BY <1>3 DEF Apply, Quiet
<1> HIDE DEF o1, a1
<1>5. ~Completes(e.mem, o1)
  BY <1>3 DEF Completes
<1>6. ~a1.mem.low_valid /\ a1.mem.high_valid /\ a1.mem.wr_addr = e.mem.wr_addr /\ a1.mem.code = e.mem.code
  <2> DEFINE lv == ~Completes(e.mem, o1) /\ (o1.lowStrobe \/ e.mem.low_valid)
             hv == ~Completes(e.mem, o1) /\ (o1.highStrobe \/ e.mem.high_valid)
  <2>1. a1.mem.low_valid = lv /\ a1.mem.high_valid = hv
    BY <1>4 DEF Strobed
  <2>2. ~lv /\ hv
    BY <1>3, <1>5
  <2>3. a1.mem.wr_addr = e.mem.wr_addr /\ a1.mem.code = e.mem.code
    BY <1>3, <1>4, <1>5 DEF Strobed
  <2> HIDE DEF lv, hv
  <2> QED
    BY <2>1, <2>2, <2>3
<1>7. ~o2.start /\ ~o2.highStrobe /\ o2.lowStrobe /\ o2.high = h /\ o2.low = l
  BY <1>1, <1>2, <1>4 DEF Updated
<1>8. a2.mem = Strobed(a1.mem, o2) /\ ~a2.out.start
  BY <1>7 DEF Apply, Quiet
<1> HIDE DEF o2, a2
<1>9. Completes(a1.mem, o2)
  BY <1>6, <1>7 DEF Completes
<1>10. /\ ~a2.mem.low_valid
       /\ a2.mem.wr_addr = (a1.mem.wr_addr + 1) % CodeSize
       /\ a2.mem.code = [a1.mem.code EXCEPT ![a1.mem.wr_addr] = [high |-> o2.high, low |-> o2.low]]
  <2> DEFINE lv == ~Completes(a1.mem, o2) /\ (o2.lowStrobe \/ a1.mem.low_valid)
  <2>1. a2.mem.low_valid = lv
    BY <1>8 DEF Strobed
  <2>2. ~lv
    BY <1>9
  <2>3. /\ a2.mem.wr_addr = (a1.mem.wr_addr + 1) % CodeSize
        /\ a2.mem.code = [a1.mem.code EXCEPT ![a1.mem.wr_addr] = [high |-> o2.high, low |-> o2.low]]
    BY <1>7, <1>8, <1>9 DEF Strobed
  <2> HIDE DEF lv
  <2> QED
    BY <2>1, <2>2, <2>3
<1> QED
  BY <1>6, <1>7, <1>8, <1>10 DEF a2, a1, op1, op2

\* The number that one digit is.
LEMMA NumberOfDigit == ASSUME NEW d \in HexDigit PROVE Number(<<d>>) = d
<1>1. 0 \in Word /\ <<d>> \in Seq(HexDigit)
  BY LoadParamsAssumption DEF Word
<1>2. Number(<<d>>) = ShiftStep[<<0, d>>]
  BY <1>1, NumberIterates, StepsKeepTypes, IterateShort
<1> QED
  BY <1>1, <1>2, LoadParamsAssumption DEF ShiftStep, ShiftIn, HexDigit

\* The server reads every number modulo the register's size.
LEMMA NumberType == ASSUME NEW q \in Seq(HexDigit) PROVE Number(q) \in Word
<1>1. 0 \in Word
  BY LoadParamsAssumption DEF Word
<1> QED
  BY <1>1, NumberIterates, IterateType, StepsKeepTypes

\* What the buffers are parsed to.
LEMMA ParseControl ==
    ASSUME NEW w \in Seq(Write), NEW d \in {0, 1}
    PROVE  /\ Iterate(ParseStep, Fresh(w), ControlLine(d)) = Fresh(Append(w, [addr |-> Target(4), data |-> d]))
           /\ [addr |-> Target(4), data |-> d] \in Write
<1> DEFINE op == [addr |-> Target(4), data |-> d]
           q == Line(4, <<d>>)
<1>1. d \in HexDigit /\ 4 \in HexDigit /\ <<d>> \in Seq(HexDigit) /\ Number(<<d>>) = d
  <2>1. d \in HexDigit /\ 4 \in HexDigit
    BY DEF HexDigit
  <2> QED
    BY <2>1, NumberOfDigit
<1>2. Iterate(ParseStep, Fresh(w), q) = Fresh(Append(w, op)) /\ op \in Write
  BY <1>1, ParseLine
<1>3. q \in Seq(Bytes) /\ <<Skipped>> \in Seq(Bytes) /\ Skipped \in Bytes
  <2>1. q \in Seq(Bytes)
    BY <1>1, LineType
  <2>2. Skipped \in Bytes
    BY DEF Bytes, Skipped
  <2> QED
    BY <2>1, <2>2
<1>4. Append(w, op) \in Seq(Write)
  BY <1>2, AppendProperties
<1>5. Fresh(Append(w, op)) \in ParserState /\ Fresh(w) \in ParserState
  BY <1>4, StatesOfParser
<1>6. Iterate(ParseStep, Fresh(Append(w, op)), <<Skipped>>) = Fresh(Append(w, op))
  <2>1. ParseByte(Fresh(Append(w, op)), Skipped) = Fresh(Append(w, op))
    BY DEF ParseByte, Fresh, Skipped, Comma, HexDigit
  <2> QED
    BY <1>3, <1>5, <2>1, OneByte
<1>7. ControlLine(d) = q \o <<Skipped>>
  BY DEF ControlLine
<1> HIDE DEF q, op
<1>8. Iterate(ParseStep, Fresh(w), q \o <<Skipped>>) = Fresh(Append(w, op))
  BY <1>2, <1>3, <1>5, <1>6, ParseConcat
<1> QED
  BY <1>2, <1>7, <1>8 DEF op

\* The two lines of an instruction are its two register writes.
LEMMA ParseInstruction ==
    ASSUME NEW w \in Seq(Write), NEW i \in Digits
    PROVE  LET hi == [addr |-> Target(12), data |-> Number(i.high)]
               lo == [addr |-> Target(8), data |-> Number(i.low)]
           IN  /\ hi \in Write /\ lo \in Write
               /\ Iterate(ParseStep, Fresh(w), InstructionLines(i)) = Fresh(Append(Append(w, hi), lo))
<1> DEFINE hi == [addr |-> Target(12), data |-> Number(i.high)]
           lo == [addr |-> Target(8), data |-> Number(i.low)]
           q == Line(12, i.high)
           r == Line(8, i.low)
<1>1. 12 \in HexDigit /\ 8 \in HexDigit /\ i.high \in Seq(HexDigit) /\ i.low \in Seq(HexDigit)
  BY DEF HexDigit, Digits
<1>2. Iterate(ParseStep, Fresh(w), q) = Fresh(Append(w, hi)) /\ hi \in Write
  BY <1>1, ParseLine
<1>3. Append(w, hi) \in Seq(Write)
  BY <1>2, AppendProperties
<1>4. Iterate(ParseStep, Fresh(Append(w, hi)), r) = Fresh(Append(Append(w, hi), lo)) /\ lo \in Write
  BY <1>1, <1>3, ParseLine
<1>5. q \in Seq(Bytes) /\ r \in Seq(Bytes) /\ Fresh(w) \in ParserState
  BY <1>1, LineType, StatesOfParser
<1>6. InstructionLines(i) = q \o r
  BY DEF InstructionLines
<1> HIDE DEF q, r, hi, lo
<1>7. Iterate(ParseStep, Fresh(w), q \o r) = Fresh(Append(Append(w, hi), lo))
  BY <1>2, <1>4, <1>5, ParseConcat
<1> QED
  BY <1>2, <1>4, <1>6, <1>7 DEF hi, lo

\* The loop over the writes, one write and one more.
LEMMA OneWrite ==
    ASSUME NEW f \in Machine, NEW op \in Write
    PROVE  ApplyStep[<<f, op>>] = Apply(f, op)
BY DEF ApplyStep

LEMMA ApplyConcat ==
    ASSUME NEW e \in Machine, NEW q \in Seq(Write), NEW r \in Seq(Write)
    PROVE  Iterate(ApplyStep, e, q \o r) = Iterate(ApplyStep, Iterate(ApplyStep, e, q), r)
BY ApplyKeepsType, IterateConcat

\* One more write.
LEMMA ApplyAppend ==
    ASSUME NEW e \in Machine, NEW w \in Seq(Write), NEW op \in Write
    PROVE  /\ Iterate(ApplyStep, e, w) \in Machine
           /\ Iterate(ApplyStep, e, Append(w, op)) = Apply(Iterate(ApplyStep, e, w), op)
<1> DEFINE f == Iterate(ApplyStep, e, w)
           one == <<op>>
<1>1. f \in Machine
  BY ApplyKeepsType, IterateType
<1>2. Append(w, op) = w \o one /\ one = <<op>>
  BY AppendIsConcat
<1>3. one \in Seq(Write)
  OBVIOUS
<1> HIDE DEF one
<1>6. Iterate(ApplyStep, e, w \o one) = Iterate(ApplyStep, f, one)
  BY <1>3, ApplyConcat
<1>4. Iterate(ApplyStep, f, <<op>>) = ApplyStep[<<f, op>>]
  <2> HIDE DEF f
  <2> QED
    BY <1>1, ApplyKeepsType, IterateShort
<1>5. ApplyStep[<<f, op>>] = Apply(f, op)
  <2> HIDE DEF f
  <2> QED
    BY <1>1, OneWrite
<1> QED
  BY <1>1, <1>2, <1>4, <1>5, <1>6

\* The first line and the first k instructions are parsed and written.
LoadedUpTo(e, s, k, w) ==
    /\ Iterate(ParseStep, Fresh(<<>>), Upto(s, k + 1)) = Fresh(w)
    /\ ~Iterate(ApplyStep, e, w).out.start /\ ~Iterate(ApplyStep, e, w).mem.low_valid
    /\ k < CodeSize => Iterate(ApplyStep, e, w).mem.wr_addr = k
    /\ \A j \in 1..k : Iterate(ApplyStep, e, w).mem.code[j - 1] = Encoded(s, j)

\* The line that stops the filters.
LEMMA Beginning ==
    ASSUME NEW e \in Machine, Rewound(e), NEW s \in Sessions
    PROVE  \E w \in Seq(Write) : LoadedUpTo(e, s, 0, w)
<1> DEFINE op == [addr |-> Target(4), data |-> 0]
           w == Append(<<>>, op)
           f == Apply(e, op)
<1>1. Iterate(ParseStep, Fresh(<<>>), ControlLine(0)) = Fresh(w) /\ op \in Write
  <2>1. <<>> \in Seq(Write) /\ 0 \in {0, 1}
    OBVIOUS
  <2> QED
    BY <2>1, ParseControl
<1>2. Upto(s, 0 + 1) = ControlLine(0)
  <2>1. Len(Buffers(s)) \in Nat /\ 1 \in 1..Len(Buffers(s))
    BY BuffersFacts
  <2>2. Upto(s, 0) = <<>>
    BY RunFacts
  <2>3. Upto(s, 1) = <<>> \o Buffers(s)[1] /\ Buffers(s)[1] = ControlLine(0)
    <3>1. Upto(s, 1) = Upto(s, 1 - 1) \o Buffers(s)[1]
      BY <2>1, RunFacts
    <3>2. 1 - 1 = 0
      OBVIOUS
    <3>3. Upto(s, 1) = <<>> \o Buffers(s)[1]
      BY <2>2, <3>1, <3>2
    <3> QED
      BY <3>3, BuffersFacts
  <2>4. ControlLine(0) \in Seq(Bytes)
    BY ControlLineType DEF HexDigit
  <2>5. <<>> \o ControlLine(0) = ControlLine(0)
    BY <2>4, ConcatEmptySeq
  <2>6. 0 + 1 = 1
    OBVIOUS
  <2> QED
    BY <2>3, <2>5, <2>6
<1>3. /\ ~f.out.start /\ ~f.mem.low_valid /\ f.mem.wr_addr = 0
  <2>1. 0 \in {0, 1} /\ 0 # 1
    OBVIOUS
  <2>2. ~e.mem.low_valid /\ e.mem.wr_addr = 0
    BY DEF Rewound
  <2> QED
    BY <2>1, <2>2, ControlWrite
<1> HIDE DEF op
<1>4. w \in Seq(Write) /\ Iterate(ApplyStep, e, w) = f
  <2>1. <<>> \in Seq(Write)
    OBVIOUS
  <2>2. w \in Seq(Write)
    BY <1>1, <2>1, AppendProperties
  <2>3. Iterate(ApplyStep, e, <<>>) = e
    BY ApplyKeepsType, IterateShort
  <2>4. Iterate(ApplyStep, e, w) = Apply(Iterate(ApplyStep, e, <<>>), op)
    BY <1>1, <2>1, ApplyAppend
  <2> QED
    BY <2>2, <2>3, <2>4
<1> HIDE DEF w, f
<1>5. \A j \in 1..0 : FALSE
  OBVIOUS
<1>6. LoadedUpTo(e, s, 0, w)
  BY <1>1, <1>2, <1>3, <1>4, <1>5 DEF LoadedUpTo
<1> QED
  BY <1>4, <1>6

\* One instruction more.
LEMMA NextInstruction ==
    ASSUME NEW e \in Machine, NEW s \in Sessions, NEW k \in 1..Len(Program[s]),
           NEW w \in Seq(Write), LoadedUpTo(e, s, k - 1, w)
    PROVE  \E v \in Seq(Write) : LoadedUpTo(e, s, k, v)
<1> DEFINE i == Program[s][k]
           hi == [addr |-> Target(12), data |-> Number(i.high)]
           lo == [addr |-> Target(8), data |-> Number(i.low)]
           u == Append(w, hi)
           v == Append(u, lo)
           f == Iterate(ApplyStep, e, w)
           g == Apply(Apply(f, hi), lo)
<1>1. Len(Program[s]) \in Nat /\ DOMAIN Program[s] = 1..Len(Program[s]) /\ Len(Program[s]) <= CodeSize
  BY BuffersFacts, ProgramsFit
<1>2. k \in Nat /\ k - 1 \in Nat /\ k \in DOMAIN Program[s] /\ k - 1 < CodeSize /\ CodeSize \in Nat
  BY <1>1, LoaderAssumption
<1>3. i \in Digits
  BY <1>2, BuffersFacts
<1>4. /\ hi \in Write /\ lo \in Write
      /\ Iterate(ParseStep, Fresh(w), InstructionLines(i)) = Fresh(v)
  <2> HIDE DEF i
  <2> QED
    BY <1>3, ParseInstruction
<1>5. Number(i.high) \in Word /\ Number(i.low) \in Word
  BY <1>3, NumberType DEF Digits
<1>6. Upto(s, k + 1) = Upto(s, k) \o InstructionLines(i) /\ Upto(s, k) \in Seq(Bytes)
  <2>1. Len(Buffers(s)) = Len(Program[s]) + 2
    BY BuffersFacts
  <2>2. k + 1 \in 1..Len(Buffers(s)) /\ k \in 0..Len(Buffers(s)) /\ (k + 1) - 1 = k
    BY <1>1, <2>1
  <2>3. Upto(s, k + 1) = Upto(s, (k + 1) - 1) \o Buffers(s)[k + 1] /\ Upto(s, k) \in Text
    BY <2>2, RunFacts
  <2>4. Buffers(s)[k + 1] = InstructionLines(i)
    BY <1>2, BuffersFacts
  <2> QED
    BY <2>2, <2>3, <2>4 DEF Text
<1>7. Iterate(ParseStep, Fresh(<<>>), Upto(s, k + 1)) = Fresh(v)
  <2>1. InstructionLines(i) \in Seq(Bytes)
    BY <1>3, InstructionLinesType
  <2>2. Fresh(<<>>) \in ParserState
    <3>1. <<>> \in Seq(Write)
      OBVIOUS
    <3> QED
      BY <3>1, StatesOfParser
  <2>3. Iterate(ParseStep, Fresh(<<>>), Upto(s, k)) = Fresh(w)
    <3>1. (k - 1) + 1 = k
      BY <1>2
    <3> QED
      BY <3>1 DEF LoadedUpTo
  <2> HIDE DEF v, i
  <2>4. Iterate(ParseStep, Fresh(<<>>), Upto(s, k) \o InstructionLines(i))
          = Iterate(ParseStep, Iterate(ParseStep, Fresh(<<>>), Upto(s, k)), InstructionLines(i))
    BY <1>6, <2>1, <2>2, ParseConcat
  <2> QED
    BY <1>4, <1>6, <2>3, <2>4
<1>8. /\ f \in Machine /\ ~f.out.start /\ ~f.mem.low_valid /\ f.mem.wr_addr = k - 1
      /\ \A j \in 1..k-1 : f.mem.code[j - 1] = Encoded(s, j)
  BY <1>2, ApplyAppend, ApplyKeepsType, IterateType DEF LoadedUpTo
<1>9. v \in Seq(Write) /\ Iterate(ApplyStep, e, v) = g
  <2> HIDE DEF hi, lo, i
  <2>1. u \in Seq(Write)
    BY <1>4, AppendProperties
  <2>2. Iterate(ApplyStep, e, u) = Apply(f, hi)
    BY <1>4, ApplyAppend
  <2> HIDE DEF u, f
  <2>3. v \in Seq(Write)
    BY <1>4, <2>1, AppendProperties
  <2>4. Iterate(ApplyStep, e, v) = Apply(Iterate(ApplyStep, e, u), lo)
    BY <1>4, <2>1, ApplyAppend
  <2> QED
    BY <2>2, <2>3, <2>4
<1>10. /\ ~g.out.start /\ ~g.mem.low_valid
       /\ g.mem.wr_addr = ((k - 1) + 1) % CodeSize
       /\ g.mem.code = [f.mem.code EXCEPT ![k - 1] = [high |-> Number(i.high), low |-> Number(i.low)]]
  <2> HIDE DEF f, i
  <2> QED
    BY <1>5, <1>8, InstructionWrites
<1>11. f.mem.code \in [CodeAddr -> Instruction] /\ k - 1 \in CodeAddr
  <2> HIDE DEF f
  <2>1. k - 1 \in CodeAddr
    BY <1>2 DEF CodeAddr
  <2> QED
    BY <1>8, <2>1, MachineFields
<1>12. Encoded(s, k) = [high |-> Number(i.high), low |-> Number(i.low)]
  BY DEF Encoded
<1> HIDE DEF v, g, f, i
<1>13. k < CodeSize => g.mem.wr_addr = k
  <2>1. (k - 1) + 1 = k
    BY <1>2
  <2>2. k < CodeSize => k % CodeSize = k
    BY <1>2
  <2> QED
    BY <1>10, <2>1, <2>2
<1>14. ASSUME NEW j \in 1..k PROVE g.mem.code[j - 1] = Encoded(s, j)
  <2>1. CASE j = k
    BY <1>10, <1>11, <1>12, <2>1
  <2>2. CASE j # k
    <3>1. j \in 1..k-1 /\ j - 1 # k - 1 /\ j - 1 \in CodeAddr
      BY <1>2, <2>2 DEF CodeAddr
    <3>2. g.mem.code[j - 1] = f.mem.code[j - 1]
      BY <1>10, <1>11, <3>1
    <3> QED
      BY <1>8, <3>1, <3>2
  <2> QED
    BY <2>1, <2>2
<1>15. LoadedUpTo(e, s, k, v)
  BY <1>7, <1>9, <1>10, <1>13, <1>14 DEF LoadedUpTo
<1> QED
  BY <1>9, <1>15

\* All the bytes of a run, from a parser between two lines and a rewound loader, are
\* register writes that load its program and start the filters.
LEMMA RunLoads ==
    ASSUME NEW e \in Machine, Rewound(e), NEW s \in Sessions
    PROVE  \E w \in Seq(Write) : /\ Iterate(ParseStep, Fresh(<<>>), RunBytes[s]) = Fresh(w)
                                 /\ Holds(Iterate(ApplyStep, e, w), s)
<1> DEFINE n == Len(Program[s])
           Z == {k \in 0..n : \E w \in Seq(Write) : LoadedUpTo(e, s, k, w)}
<1>1. n \in Nat /\ DOMAIN Program[s] = 1..n /\ Len(Buffers(s)) = n + 2
  BY BuffersFacts
<1>2. 0..n \subseteq Z
  <2>1. 0 \in Z
    BY <1>1, Beginning
  <2>2. ASSUME NEW k \in 1..n, k - 1 \in Z PROVE k \in Z
    <3>1. PICK w \in Seq(Write) : LoadedUpTo(e, s, k - 1, w)
      BY <2>2
    <3>2. \E v \in Seq(Write) : LoadedUpTo(e, s, k, v)
      BY <3>1, NextInstruction
    <3> QED
      BY <1>1, <3>2
  <2> HIDE DEF Z, n
  <2> QED
    BY <1>1, <2>1, <2>2, UpTo
<1>3. PICK w \in Seq(Write) : LoadedUpTo(e, s, n, w)
  BY <1>1, <1>2
<1> DEFINE op == [addr |-> Target(4), data |-> 1]
           v == Append(w, op)
           f == Iterate(ApplyStep, e, w)
           g == Apply(f, op)
<1>4. Iterate(ParseStep, Fresh(w), ControlLine(1)) = Fresh(v) /\ op \in Write
  <2>1. 1 \in {0, 1}
    OBVIOUS
  <2> QED
    BY <2>1, ParseControl
<1>5. /\ RunBytes[s] = Upto(s, n + 1) \o ControlLine(1)
      /\ Upto(s, n + 1) \in Seq(Bytes) /\ ControlLine(1) \in Seq(Bytes)
  <2> HIDE DEF n
  <2>1. n + 2 \in 1..Len(Buffers(s)) /\ n + 1 \in 0..Len(Buffers(s)) /\ (n + 2) - 1 = n + 1
    BY <1>1
  <2>2. Upto(s, n + 2) = Upto(s, (n + 2) - 1) \o Buffers(s)[n + 2] /\ Upto(s, n + 1) \in Text
        /\ RunBytes[s] = Upto(s, Len(Buffers(s)))
    BY <2>1, RunFacts
  <2>3. Buffers(s)[n + 2] = ControlLine(1)
    BY BuffersFacts DEF n
  <2>4. ControlLine(1) \in Seq(Bytes)
    BY ControlLineType DEF HexDigit
  <2> QED
    BY <1>1, <2>1, <2>2, <2>3, <2>4 DEF Text
<1>6. Iterate(ParseStep, Fresh(<<>>), RunBytes[s]) = Fresh(v)
  <2>1. Fresh(<<>>) \in ParserState
    <3>1. <<>> \in Seq(Write)
      OBVIOUS
    <3> QED
      BY <3>1, StatesOfParser
  <2>2. Iterate(ParseStep, Fresh(<<>>), Upto(s, n + 1)) = Fresh(w)
    BY <1>3 DEF LoadedUpTo
  <2> HIDE DEF v, n
  <2>3. Iterate(ParseStep, Fresh(<<>>), Upto(s, n + 1) \o ControlLine(1))
          = Iterate(ParseStep, Iterate(ParseStep, Fresh(<<>>), Upto(s, n + 1)), ControlLine(1))
    BY <1>5, <2>1, ParseConcat
  <2> QED
    BY <1>4, <1>5, <2>2, <2>3
<1>7. /\ f \in Machine /\ ~f.mem.low_valid
      /\ \A j \in 1..n : f.mem.code[j - 1] = Encoded(s, j)
  BY <1>3, ApplyAppend, ApplyKeepsType, IterateType DEF LoadedUpTo
<1>8. v \in Seq(Write) /\ Iterate(ApplyStep, e, v) = g
  <2> HIDE DEF op
  <2> QED
    BY <1>4, AppendProperties, ApplyAppend
<1>9. g.out.start /\ ~g.mem.low_valid /\ g.mem.code = f.mem.code /\ g.mem.wr_addr = 0
  <2> HIDE DEF f
  <2>1. 1 \in {0, 1}
    OBVIOUS
  <2>2. g.out.start = (1 = 1) /\ ~g.mem.low_valid /\ g.mem.code = f.mem.code
        /\ (1 = 1 => g.mem.wr_addr = 0)
    BY <1>7, <2>1, ControlWrite
  <2> HIDE DEF g
  <2> QED
    BY <2>2
<1>10. Holds(g, s)
  <2> HIDE DEF f, g
  <2> QED
    BY <1>1, <1>7, <1>9 DEF Holds, Rewound
<1> HIDE DEF v, g
<1> QED
  BY <1>6, <1>8, <1>10

-----------------------------------------------------------------------------
(* Every undisturbed run loads its program *)

\* What is still to come of the last run.
Rest == SubSeq(RunBytes[last], received[last] + 1, Len(RunBytes[last]))

\* A run that has not begun has sent nothing; no run delivers more than it has sent.
Idle == \A s \in Sessions : client[s] = "idle" => sent[s] = 0 /\ received[s] = 0
Bounded == \A s \in Sessions : received[s] <= SentBytes(s)

\* An undisturbed run has the server for itself, and ends when it has sent everything.
Alone == clean => /\ last \in Sessions /\ client[last] # "idle"
                  /\ client[last] = "sending" \/ AllSent(last)
                  /\ \A t \in Sessions \ {last} : ~Active(t)

\* Before the first run nothing has happened; as long as nothing goes wrong the last run
\* is a clean one.
Untouched == /\ \A s \in Sessions : client[s] = "idle"
             /\ posted = <<>> /\ Parser0 = Fresh(<<>>) /\ Rewound(AtRest)
Untroubled == troubles = 0 => clean \/ Untouched

\* The heart of the invariant: were the rest of the clean run parsed, and all that is on
\* its way applied to the loader at rest, its program would be loaded.
Loads == clean => \E w \in Seq(Write) : /\ Iterate(ParseStep, Parser0, Rest) = Fresh(w)
                                        /\ Holds(Iterate(ApplyStep, AtRest, posted \o w), last)
LoadInv == TypeInv /\ BusInv /\ Idle /\ Bounded /\ Alone /\ Untroubled /\ Loads

\* The loader at rest and the parser change with the registers only.
LEMMA Stays ==
    /\ UNCHANGED loaderVars => /\ AtRest' = AtRest /\ write_state' = write_state
                               /\ awaddr' = awaddr /\ wdata' = wdata
    /\ UNCHANGED <<wr_off, wr_data, state>> => Parser0' = Parser0
<1>1. UNCHANGED loaderVars => /\ AtRest' = AtRest /\ write_state' = write_state
                              /\ awaddr' = awaddr /\ wdata' = wdata
  BY DEF loaderVars, fsmVars, strb2memVars, AtRest, Arrived, Accepted, Memory
<1>2. UNCHANGED <<wr_off, wr_data, state>> => Parser0' = Parser0
  BY DEF Parser0
<1> QED
  BY <1>1, <1>2

\* What the types give to the steps.
LEMMA Types ==
    ASSUME TypeInv
    PROVE  /\ LoaderTypeOK /\ ServerTypeOK /\ posted \in Seq(Write)
           /\ AtRest \in Machine /\ Parser0 \in ParserState
           /\ received \in [Sessions -> Nat] /\ clean \in BOOLEAN /\ troubles \in Nat
           /\ client \in [Sessions -> {"idle", "sending", "done"}] /\ sent \in [Sessions -> Nat]
           /\ \A s \in Sessions : /\ sent[s] \in 0..Len(Buffers(s)) /\ Len(Buffers(s)) \in Nat
                                  /\ SentBytes(s) \in Nat /\ SentBytes(s) <= Len(RunBytes[s])
                                  /\ \A n \in SegmentEnds(s) : n \in Nat /\ n <= SentBytes(s)
                                  /\ sent[s] = 0 => SentBytes(s) = 0
                                  /\ AllSent(s) => SentBytes(s) = Len(RunBytes[s])
                                  /\ RunBytes[s] \in Seq(Bytes) /\ Len(RunBytes[s]) \in Nat
<1>1. LoaderTypeOK /\ ServerTypeOK /\ SendTypeOK /\ posted \in Seq(Write) /\ clean \in BOOLEAN
      /\ received \in [Sessions -> Nat]
  BY DEF TypeInv, TypeOK
<1>2. troubles \in Nat
  BY FilterLoadAssumption DEF TypeInv, TypeOK
<1>3. AtRest \in Machine /\ Parser0 \in ParserState
  BY <1>1, AtRestType, Parser0Type
<1>4. /\ client \in [Sessions -> {"idle", "sending", "done"}] /\ sent \in [Sessions -> Nat]
      /\ \A s \in Sessions : sent[s] \in 0..Len(Buffers(s))
  BY <1>1 DEF SendTypeOK
<1>5. ASSUME NEW s \in Sessions
      PROVE  /\ sent[s] \in 0..Len(Buffers(s)) /\ Len(Buffers(s)) \in Nat
             /\ SentBytes(s) \in Nat /\ SentBytes(s) <= Len(RunBytes[s])
             /\ \A n \in SegmentEnds(s) : n \in Nat /\ n <= SentBytes(s)
             /\ sent[s] = 0 => SentBytes(s) = 0
             /\ AllSent(s) => SentBytes(s) = Len(RunBytes[s])
             /\ RunBytes[s] \in Seq(Bytes) /\ Len(RunBytes[s]) \in Nat
  <2>1. /\ RunBytes[s] \in Seq(Bytes) /\ BufferEnds[s][0] = 0
        /\ BufferEnds[s][Len(Buffers(s))] = Len(RunBytes[s])
    BY EndsFacts DEF Text
  <2>2. Len(RunBytes[s]) \in Nat
    BY <2>1, LenProperties
  <2>3. (sent[s] = 0 => SentBytes(s) = 0) /\ (AllSent(s) => SentBytes(s) = Len(RunBytes[s]))
    BY <2>1 DEF SentBytes, AllSent
  <2>4. Len(Buffers(s)) \in Nat
    BY RunFacts
  <2> QED
    BY <1>4, <2>1, <2>2, <2>3, <2>4, SegmentFacts
<1> QED
  BY <1>1, <1>2, <1>3, <1>4, <1>5

\* A loader in which every write has arrived is the loader at rest.
LEMMA SettledAtRest ==
    ASSUME LoaderTypeOK, Settled
    PROVE  /\ AtRest.mem.code = code /\ AtRest.out.start = regs.start
           /\ AtRest.mem.low_valid = inst_low_valid
           /\ wr_addr = 0 => AtRest.mem.wr_addr = 0
<1> DEFINE m1 == Strobed(Memory, regs_r2)
           m2 == Strobed(m1, regs_r)
           Same(m) == m.code = code /\ m.low_valid = inst_low_valid /\ (wr_addr = 0 => m.wr_addr = 0)
<1>1. AtRest = Arrived
  BY DEF AtRest, Settled
<1>2. ASSUME NEW m, Same(m), NEW r \in {regs, regs_r, regs_r2} PROVE Same(Strobed(m, r))
  <2>1. ~r.lowStrobe /\ ~r.highStrobe
    BY DEF Settled
  <2>2. ~Completes(m, r)
    BY <2>1 DEF Completes
  <2>3. inst_low_valid \in BOOLEAN
    BY DEF LoaderTypeOK
  <2> DEFINE lv == ~Completes(m, r) /\ (r.lowStrobe \/ m.low_valid)
  <2>4. Strobed(m, r).low_valid = lv
    BY DEF Strobed
  <2>5. lv = inst_low_valid
    BY <1>2, <2>1, <2>2, <2>3
  <2>6. Strobed(m, r).code = m.code /\ (m.wr_addr = 0 => Strobed(m, r).wr_addr = 0)
    BY <2>2 DEF Strobed
  <2> HIDE DEF lv
  <2> QED
    BY <1>2, <2>4, <2>5, <2>6
<1>3. Same(Memory)
  BY DEF Memory
<1>4. Same(Arrived.mem)
  <2>1. Same(m1)
    BY <1>2, <1>3
  <2>2. Same(m2)
    <3> HIDE DEF m1, Same
    <3> QED
      BY <1>2, <2>1
  <2>3. Same(Strobed(m2, regs)) /\ Same(Strobed(Memory, regs))
    <3> HIDE DEF m2, Same
    <3> QED
      BY <1>2, <1>3, <2>2
  <2>4. Arrived.mem = Strobed(m2, regs) \/ Arrived.mem = Strobed(Memory, regs)
    BY DEF Arrived
  <2> HIDE DEF m2, Same
  <2> QED
    BY <2>3, <2>4
<1>5. Arrived.out.start = regs.start
  BY DEF Arrived, Quiet
<1> QED
  BY <1>1, <1>4, <1>5

\* Nothing is left of a run that is over.
LEMMA NothingLeft ==
    ASSUME TypeInv, clean, Alone, Loads, AllSent(last), Delivered(last)
    PROVE  Parser0 = Fresh(<<>>) /\ Holds(Iterate(ApplyStep, AtRest, posted), last)
<1>1. last \in Sessions
  BY DEF Alone
<1>2. received[last] = Len(RunBytes[last]) /\ received[last] \in Nat /\ RunBytes[last] \in Seq(Bytes)
  BY <1>1, Types DEF Delivered
<1>3. Rest = <<>>
  <2>1. received[last] + 1 > Len(RunBytes[last])
    BY <1>2
  <2> QED
    BY <1>2, <2>1, SubSeqEmpty DEF Rest
<1>4. Parser0 \in ParserState /\ posted \in Seq(Write)
  BY Types
<1>5. Iterate(ParseStep, Parser0, Rest) = Parser0
  BY <1>3, <1>4, StepsKeepTypes, IterateShort
<1>6. PICK w \in Seq(Write) : Parser0 = Fresh(w) /\ Holds(Iterate(ApplyStep, AtRest, posted \o w), last)
  BY <1>5 DEF Loads
<1>7. w = <<>>
  BY <1>6 DEF Parser0, Fresh
<1>8. posted \o <<>> = posted
  BY <1>4, ConcatEmptySeq
<1> QED
  BY <1>6, <1>7, <1>8

\* Where a run may begin as a clean one, the parser is between two lines, and what is
\* posted leaves the loader rewound.
LEMMA ReadyToBegin ==
    ASSUME LoadInv, \A t \in Sessions : ~Active(t), troubles = 0 \/ CleanBoard
    PROVE  Parser0 = Fresh(<<>>) /\ Rewound(Iterate(ApplyStep, AtRest, posted))
<1>0. TypeInv /\ Alone /\ Loads /\ Untroubled
  BY DEF LoadInv
<1>1. AtRest \in Machine /\ LoaderTypeOK
  BY <1>0, Types
<1>2. Iterate(ApplyStep, AtRest, <<>>) = AtRest
  BY <1>1, ApplyKeepsType, IterateShort
<1>3. CASE CleanBoard
  <2>1. posted = <<>> /\ Settled
    BY <1>3 DEF CleanBoard, Settled
  <2>2. Parser0 = Fresh(<<>>)
    BY <1>3 DEF CleanBoard, Parser0, Fresh
  <2>3. Rewound(AtRest)
    BY <1>1, <1>3, <2>1, SettledAtRest DEF CleanBoard, Rewound
  <2> QED
    BY <1>2, <2>1, <2>2, <2>3
<1>4. CASE troubles = 0 /\ clean
  <2>1. last \in Sessions /\ AllSent(last) /\ Delivered(last)
    BY <1>0, <1>4 DEF Alone, Active
  <2> QED
    BY <1>0, <1>4, <2>1, NothingLeft DEF Holds
<1>5. CASE troubles = 0 /\ ~clean
  BY <1>0, <1>2, <1>5 DEF Untroubled, Untouched
<1> QED
  BY <1>3, <1>4, <1>5

\* Before the first run the board is clean.
LEMMA LoadInit == Init => LoadInv
<1> SUFFICES ASSUME Init PROVE LoadInv
  OBVIOUS
<1>1. TypeInv
  BY TypesInit
<1>2. BusInv /\ Alone /\ Loads
  BY DEF Init, LoaderInit, BusInv, Alone, Loads
<1>3. Idle
  BY DEF Init, SendInit, Idle
<1>4. Bounded
  <2>1. \A s \in Sessions : SentBytes(s) \in Nat /\ received[s] = 0
    BY <1>1, Types DEF Init
  <2> QED
    BY <2>1 DEF Bounded
<1>5. Untouched
  <2>1. \A s \in Sessions : client[s] = "idle"
    BY DEF Init, SendInit
  <2>2. Parser0 = Fresh(<<>>)
    BY DEF Init, ServerInit, Parser0, Fresh
  <2>3. Settled /\ wr_addr = 0 /\ ~inst_low_valid
    BY DEF Init, LoaderInit, Settled, ResetOutputs
  <2>4. Rewound(AtRest)
    BY <1>1, <2>3, SettledAtRest, Types DEF Rewound
  <2> QED
    BY <2>1, <2>2, <2>4 DEF Untouched, Init
<1> QED
  BY <1>1, <1>2, <1>3, <1>4, <1>5 DEF LoadInv, Untroubled

\* What a step leaves of the invariant when it leaves the variables it is about.
LEMMA Frame ==
    ASSUME LoadInv
    PROVE  /\ UNCHANGED <<loaderVars, posted>> => BusInv'
           /\ UNCHANGED <<clientVars, received>> => Idle' /\ Bounded'
           /\ UNCHANGED <<clientVars, received, last>> /\ clean' = clean => Alone'
           /\ UNCHANGED <<received, last>> => Rest' = Rest
<1>1. UNCHANGED <<loaderVars, posted>> => BusInv'
  BY Stays DEF LoadInv, BusInv
<1>2. UNCHANGED <<clientVars, received>> => Idle' /\ Bounded'
  BY DEF LoadInv, clientVars, Idle, Bounded, SentBytes
<1>3. UNCHANGED <<clientVars, received, last>> /\ clean' = clean => Alone'
  BY DEF LoadInv, clientVars, Alone, Active, AllSent, Delivered, SentBytes
<1>4. UNCHANGED <<received, last>> => Rest' = Rest
  BY DEF Rest
<1> QED
  BY <1>1, <1>2, <1>3, <1>4

\* The three parts of the invariant that a step may disturb if it changes no part of
\* the loader, the parser or the bus.
LEMMA LoadsStays ==
    ASSUME LoadInv, UNCHANGED <<loaderVars, wr_off, wr_data, state, posted, received, last>>, clean' => clean
    PROVE  Loads'
<1>1. AtRest' = AtRest /\ Parser0' = Parser0 /\ Rest' = Rest /\ posted' = posted /\ last' = last
  BY Stays, Frame
<1> QED
  BY <1>1 DEF LoadInv, Loads

\* A run that connects: its bytes are all still to come.
LEMMA BeginLoads ==
    ASSUME LoadInv, TypeInv', NEW s \in Sessions, Begin(s)
    PROVE  LoadInv'
<1>0. TypeInv /\ BusInv /\ Idle /\ Bounded /\ Alone /\ Untroubled /\ Loads
  BY DEF LoadInv
<1>1. /\ client[s] = "idle" /\ client' = [client EXCEPT ![s] = "sending"] /\ sent' = sent
      /\ last' = s /\ received' = received /\ posted' = posted
      /\ UNCHANGED <<loaderVars, wr_off, wr_data, state>>
  BY DEF Begin, Connect
<1>2. /\ clean' = (~(\E t \in Sessions : Active(t)) /\ (troubles = 0 \/ CleanBoard))
      /\ troubles' = troubles + (IF \E t \in Sessions : Active(t) THEN 1 ELSE 0)
  BY DEF Begin
<1>3. client \in [Sessions -> {"idle", "sending", "done"}] /\ troubles \in Nat
  BY <1>0, Types
<1>4. AtRest' = AtRest /\ Parser0' = Parser0 /\ BusInv'
  BY <1>1, Stays, Frame
<1>5. Idle' /\ Bounded'
  BY <1>0, <1>1, <1>3 DEF Idle, Bounded, SentBytes
<1>6. Alone'
  <2>1. \A t \in Sessions \ {s} : Active(t)' = Active(t)
    BY <1>1, <1>3 DEF Active, Delivered, SentBytes
  <2>2. client'[s] = "sending"
    BY <1>1, <1>3
  <2> QED
    BY <1>1, <1>2, <2>1, <2>2 DEF Alone
<1>7. Untroubled'
  <2>1. troubles' = 0 => troubles = 0 /\ ~(\E t \in Sessions : Active(t))
    BY <1>2, <1>3
  <2> QED
    BY <1>2, <2>1 DEF Untroubled
<1>8. Loads'
  <2> SUFFICES ASSUME clean'
               PROVE  \E w \in Seq(Write) : /\ Iterate(ParseStep, Parser0', Rest') = Fresh(w)
                                            /\ Holds(Iterate(ApplyStep, AtRest', posted' \o w), last')
    BY DEF Loads
  <2> DEFINE e == Iterate(ApplyStep, AtRest, posted)
  <2>1. Parser0 = Fresh(<<>>) /\ Rewound(e)
    BY <1>2, ReadyToBegin
  <2>2. AtRest \in Machine /\ posted \in Seq(Write) /\ RunBytes[s] \in Seq(Bytes) /\ received[s] = 0
    BY <1>0, <1>1, Types DEF Idle
  <2>3. e \in Machine
    BY <2>2, ApplyKeepsType, IterateType
  <2>4. PICK w \in Seq(Write) : /\ Iterate(ParseStep, Fresh(<<>>), RunBytes[s]) = Fresh(w)
                                /\ Holds(Iterate(ApplyStep, e, w), s)
    <3> HIDE DEF e
    <3> QED
      BY <2>1, <2>3, RunLoads
  <2>5. Iterate(ApplyStep, AtRest, posted \o w) = Iterate(ApplyStep, e, w)
    BY <2>2, ApplyConcat
  <2>6. Rest' = RunBytes[s]
    <3>1. 0 + 1 = 1
      OBVIOUS
    <3>2. Rest' = SubSeq(RunBytes[s], 0 + 1, Len(RunBytes[s]))
      BY <1>1, <2>2 DEF Rest
    <3> QED
      BY <2>2, <3>1, <3>2, SubSeqFull
  <2> HIDE DEF e
  <2> QED
    BY <1>1, <1>4, <2>1, <2>4, <2>5, <2>6
<1> QED
  BY <1>4, <1>5, <1>6, <1>7, <1>8 DEF LoadInv

\* A run that sends a buffer: the rest of its bytes was counted already.
LEMMA SendLoads ==
    ASSUME LoadInv, TypeInv', NEW s \in Sessions, SendBuffer(s)
    PROVE  LoadInv'
<1>0. TypeInv /\ BusInv /\ Idle /\ Bounded /\ Alone /\ Untroubled /\ Loads
  BY DEF LoadInv
<1>1. /\ client[s] = "sending" /\ client' = client /\ sent' = [sent EXCEPT ![s] = @ + 1]
      /\ UNCHANGED <<loaderVars, wr_off, wr_data, state, received, posted, last, clean, troubles>>
  BY DEF SendBuffer, Send, serverVars
<1>2. /\ sent \in [Sessions -> Nat] /\ received \in [Sessions -> Nat]
      /\ sent[s] \in 0..Len(Buffers(s)) /\ Len(Buffers(s)) \in Nat
  BY <1>0, Types
<1>3. sent'[s] = sent[s] + 1 /\ sent'[s] \in 0..Len(Buffers(s)) /\ \A t \in Sessions \ {s} : sent'[t] = sent[t]
  <2>1. sent'[s] \in 0..Len(Buffers(s))
    BY DEF TypeInv, TypeOK, SendTypeOK
  <2> QED
    BY <1>1, <1>2, <2>1
<1>4. BusInv' /\ Loads'
  BY <1>1, Frame, LoadsStays
<1>5. Idle'
  BY <1>0, <1>1, <1>3 DEF Idle
<1>6. Bounded'
  <2>1. SentBytes(s)' >= SentBytes(s) /\ SentBytes(s)' \in Nat /\ SentBytes(s) \in Nat
    <3>1. sent[s] \in 0..sent'[s]
      BY <1>2, <1>3
    <3> QED
      BY <1>2, <1>3, <3>1, EndsFacts DEF SentBytes
  <2>2. received'[s] <= SentBytes(s)'
    <3>1. received[s] <= SentBytes(s) /\ received[s] \in Nat /\ received'[s] = received[s]
      BY <1>0, <1>1, <1>2 DEF Bounded
    <3> QED
      BY <2>1, <3>1
  <2>3. \A t \in Sessions \ {s} : received'[t] <= SentBytes(t)'
    BY <1>0, <1>1, <1>3 DEF Bounded, SentBytes
  <2> QED
    BY <2>2, <2>3 DEF Bounded
<1>7. Alone'
  <2> SUFFICES ASSUME clean PROVE Alone'
    BY <1>1 DEF Alone
  <2>1. s = last
    BY <1>0, <1>1 DEF Alone, Active
  <2>2. \A t \in Sessions \ {s} : Active(t)' = Active(t)
    BY <1>1, <1>3 DEF Active, Delivered, SentBytes
  <2> QED
    BY <1>0, <1>1, <2>1, <2>2 DEF Alone
<1>8. Untroubled'
  BY <1>0, <1>1 DEF Untroubled, Untouched
<1> QED
  BY <1>4, <1>5, <1>6, <1>7, <1>8 DEF LoadInv

\* A run that ends.
LEMMA LeaveLoads ==
    ASSUME LoadInv, TypeInv', NEW s \in Sessions, Leave(s)
    PROVE  LoadInv'
<1>0. TypeInv /\ BusInv /\ Idle /\ Bounded /\ Alone /\ Untroubled /\ Loads
  BY DEF LoadInv
<1>1. /\ client[s] = "sending" /\ client' = [client EXCEPT ![s] = "done"] /\ sent' = sent
      /\ UNCHANGED <<loaderVars, wr_off, wr_data, state, received, posted, last>>
      /\ clean' = (clean /\ AllSent(s)) /\ troubles' = troubles + (IF ~AllSent(s) THEN 1 ELSE 0)
  BY DEF Leave, Quit, Disturb, serverVars
<1>2. client \in [Sessions -> {"idle", "sending", "done"}] /\ troubles \in Nat /\ clean \in BOOLEAN
  BY <1>0, Types
<1>3. BusInv' /\ Loads'
  BY <1>1, Frame, LoadsStays
<1>4. Idle' /\ Bounded'
  BY <1>0, <1>1, <1>2 DEF Idle, Bounded, SentBytes
<1>5. Alone'
  <2> SUFFICES ASSUME clean' PROVE Alone'
    BY DEF Alone
  <2>1. clean /\ AllSent(s) /\ s = last
    BY <1>0, <1>1 DEF Alone, Active
  <2>2. \A t \in Sessions \ {s} : Active(t)' = Active(t)
    BY <1>1, <1>2 DEF Active, Delivered, SentBytes
  <2>3. client'[s] = "done" /\ AllSent(s)'
    BY <1>1, <1>2, <2>1 DEF AllSent
  <2> QED
    BY <1>0, <1>1, <2>1, <2>2, <2>3 DEF Alone
<1>6. Untroubled'
  <2>1. troubles' = 0 => troubles = 0 /\ AllSent(s)
    BY <1>1, <1>2
  <2>2. ~Untouched
    BY <1>1 DEF Untouched
  <2> QED
    BY <1>0, <1>1, <2>1, <2>2 DEF Untroubled
<1> QED
  BY <1>3, <1>4, <1>5, <1>6 DEF LoadInv

\* A connection that is reset is a disturbance.
LEMMA ResetLoads ==
    ASSUME LoadInv, TypeInv', NEW s \in Sessions, Reset(s)
    PROVE  LoadInv'
<1>0. TypeInv /\ BusInv /\ Idle /\ Bounded /\ Alone /\ Untroubled /\ Loads
  BY DEF LoadInv
<1>1. /\ client[s] = "done" /\ received' = [received EXCEPT ![s] = SentBytes(s)]
      /\ UNCHANGED <<loaderVars, clientVars, posted>>
      /\ ~clean' /\ troubles' = troubles + 1
  BY DEF Reset, Disturb
<1>2. received \in [Sessions -> Nat] /\ troubles \in Nat /\ SentBytes(s) \in Nat
  BY <1>0, Types
<1>3. BusInv' /\ Loads' /\ Alone' /\ Untroubled'
  BY <1>1, <1>2, Frame DEF Loads, Alone, Untroubled
<1>4. Idle' /\ Bounded'
  <2>1. \A t \in Sessions : SentBytes(t)' = SentBytes(t)
    BY <1>1 DEF SentBytes, clientVars
  <2>2. Bounded'
    BY <1>0, <1>1, <1>2, <2>1 DEF Bounded
  <2>3. Idle'
    BY <1>0, <1>1, <1>2 DEF Idle, clientVars
  <2> QED
    BY <2>2, <2>3
<1> QED
  BY <1>3, <1>4 DEF LoadInv

\* The parser after a pbuf, with the writes it has made taken from it.
LEMMA ParsedAhead ==
    ASSUME NEW p \in ParserState, NEW r \in Seq(Bytes), NEW w \in Seq(Write),
           Iterate(ParseStep, p, r) = Fresh(w)
    PROVE  LET q == [state |-> p.state, wr_off |-> p.wr_off, wr_data |-> p.wr_data, writes |-> <<>>]
           IN  \E v \in Seq(Write) : Iterate(ParseStep, q, r) = Fresh(v) /\ w = p.writes \o v
<1> DEFINE q == [state |-> p.state, wr_off |-> p.wr_off, wr_data |-> p.wr_data, writes |-> <<>>]
           f == Iterate(ParseStep, q, r)
<1>1. p.writes \in Seq(Write) /\ p.writes \o <<>> = p.writes
  BY ParserFields, ConcatEmptySeq
<1>2. q \in ParserState
  BY ParserFields DEF ParserState
<1>3. p = Ahead(p.writes, q)
  BY <1>1, ParserFields DEF Ahead
<1> HIDE DEF q
<1>4. Iterate(ParseStep, Ahead(p.writes, q), r) = Ahead(p.writes, f)
  BY <1>1, <1>2, ParseAhead
<1>5. Fresh(w) = Ahead(p.writes, f)
  BY <1>3, <1>4
<1>6. f \in ParserState
  BY <1>2, StepsKeepTypes, IterateType
<1> HIDE DEF f
<1>7. /\ f.state = "WR_OFF" /\ f.wr_off = 0 /\ f.wr_data = 0 /\ w = p.writes \o f.writes
  BY <1>5 DEF Fresh, Ahead
<1>8. f = Fresh(f.writes) /\ f.writes \in Seq(Write)
  BY <1>6, <1>7, ParserFields DEF Fresh
<1> QED
  BY <1>7, <1>8 DEF f, q

\* A pbuf: its bytes leave what is still to come, its writes join those on their way.
LEMMA ReceiveLoads ==
    ASSUME LoadInv, TypeInv', NEW s \in Sessions, Receive(s)
    PROVE  LoadInv'
<1>0. TypeInv /\ BusInv /\ Idle /\ Bounded /\ Alone /\ Untroubled /\ Loads
  BY DEF LoadInv
<1>1. PICK len, tot_len \in SegmentEnds(s) :
          /\ received[s] < len /\ len <= tot_len
          /\ \E parsed \in {Parse(SubSeq(RunBytes[s], received[s] + 1, len))} :
                 /\ RecvCallback(s, parsed)
                 /\ posted' = posted \o parsed.writes
          /\ received' = [received EXCEPT ![s] = tot_len]
          /\ Disturb(len < tot_len)
          /\ UNCHANGED <<loaderVars, clientVars, last>>
  BY DEF Receive
<1> DEFINE q == SubSeq(RunBytes[s], received[s] + 1, len)
           parsed == Parse(q)
<1>2. RecvCallback(s, parsed) /\ posted' = posted \o parsed.writes
  BY <1>1
<1>3. /\ received \in [Sessions -> Nat] /\ troubles \in Nat /\ posted \in Seq(Write)
      /\ AtRest \in Machine /\ Parser0 \in ParserState /\ ServerTypeOK
      /\ SentBytes(s) \in Nat /\ RunBytes[s] \in Seq(Bytes) /\ Len(RunBytes[s]) \in Nat
      /\ SentBytes(s) <= Len(RunBytes[s]) /\ (sent[s] = 0 => SentBytes(s) = 0)
  BY <1>0, Types
<1>4. len \in Nat /\ tot_len \in Nat /\ len <= SentBytes(s) /\ tot_len <= SentBytes(s)
  BY <1>0, Types
<1>5. received[s] \in Nat /\ received[s] < SentBytes(s)
  BY <1>1, <1>3, <1>4
<1>6. client[s] # "idle"
  BY <1>0, <1>3, <1>5 DEF Idle
<1>7. /\ clean' = (clean /\ ~(len < tot_len))
      /\ troubles' = troubles + (IF len < tot_len THEN 1 ELSE 0)
  BY <1>1 DEF Disturb
<1>8. AtRest' = AtRest /\ write_state' = write_state /\ awaddr' = awaddr /\ wdata' = wdata
  BY <1>1, Stays
<1>9. \A t \in Sessions : SentBytes(t)' = SentBytes(t)
  BY <1>1 DEF SentBytes, clientVars
<1>10. q \in Seq(Bytes)
  <2>1. \A i \in received[s] + 1 .. len : RunBytes[s][i] \in Bytes
    BY <1>3, <1>4, <1>5
  <2>2. received[s] + 1 \in Int /\ len \in Int
    BY <1>4, <1>5
  <2> QED
    BY <2>1, <2>2, SubSeqProperties
<1>11. parsed = Iterate(ParseStep, Parser0, q)
  <2> HIDE DEF q
  <2> QED
    BY <1>3, <1>10, ParseIterates
<1> HIDE DEF q
<1>12. parsed \in ParserState
  BY <1>3, <1>10, <1>11, StepsKeepTypes, IterateType
<1> HIDE DEF parsed
<1>13. parsed.writes \in Seq(Write)
  BY <1>12, ParserFields
<1>14. Parser0' = [state |-> parsed.state, wr_off |-> parsed.wr_off, wr_data |-> parsed.wr_data,
                   writes |-> <<>>]
  BY <1>2 DEF RecvCallback, Parser0
<1>15. BusInv'
  <2>1. posted # <<>> => posted' # <<>> /\ Head(posted') = Head(posted)
    BY <1>2, <1>3, <1>13
  <2> QED
    BY <1>0, <1>8, <2>1 DEF BusInv
<1>16. Idle' /\ Bounded'
  <2>1. Idle'
    BY <1>0, <1>1, <1>3, <1>6 DEF Idle, clientVars
  <2>2. Bounded'
    BY <1>0, <1>1, <1>3, <1>4, <1>9 DEF Bounded
  <2> QED
    BY <2>1, <2>2
<1>17. clean => s = last
  BY <1>0, <1>5 DEF Alone, Active, Delivered
<1>18. Alone'
  <2> SUFFICES ASSUME clean' PROVE Alone'
    BY DEF Alone
  <2>1. clean /\ s = last
    BY <1>7, <1>17
  <2>2. \A t \in Sessions \ {s} : Active(t)' = Active(t)
    BY <1>1, <1>3, <1>9 DEF Active, Delivered, clientVars
  <2>3. AllSent(last) => AllSent(last)'
    BY <1>1 DEF AllSent, clientVars
  <2> QED
    BY <1>0, <1>1, <2>1, <2>2, <2>3 DEF Alone, clientVars
<1>19. Untroubled'
  <2>1. ~Untouched
    BY <1>6 DEF Untouched
  <2>2. troubles' = 0 => troubles = 0 /\ ~(len < tot_len)
    BY <1>3, <1>7
  <2> QED
    BY <1>0, <1>7, <2>1, <2>2 DEF Untroubled
<1>20. Loads'
  <2> SUFFICES ASSUME clean'
               PROVE  \E v \in Seq(Write) : /\ Iterate(ParseStep, Parser0', Rest') = Fresh(v)
                                            /\ Holds(Iterate(ApplyStep, AtRest', posted' \o v), last')
    BY DEF Loads
  <2>1. clean /\ s = last /\ len = tot_len
    <3>1. clean /\ ~(len < tot_len)
      BY <1>7
    <3>2. len = tot_len
      BY <1>1, <1>4, <3>1
    <3> QED
      BY <1>17, <3>1, <3>2
  <2> DEFINE r == SubSeq(RunBytes[s], len + 1, Len(RunBytes[s]))
  <2>2. Rest' = r
    <3>1. received'[s] = len
      BY <1>1, <1>3, <2>1
    <3> QED
      BY <1>1, <2>1, <3>1 DEF Rest
  <2>3. Rest = q \o r
    <3>1. /\ received[s] + 1 \in 1 .. Len(RunBytes[s]) + 1
          /\ len \in (received[s] + 1) - 1 .. Len(RunBytes[s])
          /\ Len(RunBytes[s]) \in len .. Len(RunBytes[s])
      BY <1>1, <1>3, <1>4, <1>5
    <3> QED
      BY <1>3, <2>1, <3>1, ConcatAdjacentSubSeq DEF Rest, q
  <2>4. r \in Seq(Bytes)
    <3>1. \A i \in len + 1 .. Len(RunBytes[s]) : RunBytes[s][i] \in Bytes
      BY <1>3, <1>4
    <3>2. len + 1 \in Int /\ Len(RunBytes[s]) \in Int
      BY <1>3, <1>4
    <3> QED
      BY <3>1, <3>2, SubSeqProperties
  <2> HIDE DEF r
  <2>5. PICK w \in Seq(Write) : /\ Iterate(ParseStep, Parser0, q \o r) = Fresh(w)
                                /\ Holds(Iterate(ApplyStep, AtRest, posted \o w), last)
    BY <1>0, <2>1, <2>3 DEF Loads
  <2>6. Iterate(ParseStep, parsed, r) = Fresh(w)
    BY <1>3, <1>10, <1>11, <2>4, <2>5, ParseConcat
  <2>7. PICK v \in Seq(Write) : Iterate(ParseStep, Parser0', r) = Fresh(v) /\ w = parsed.writes \o v
    BY <1>12, <1>14, <2>4, <2>6, ParsedAhead
  <2>8. posted \o w = (posted \o parsed.writes) \o v
    <3> DEFINE made == parsed.writes
    <3>1. made \in Seq(Write) /\ posted \in Seq(Write)
      BY <1>3, <1>13
    <3> HIDE DEF made
    <3>2. posted \o (made \o v) = (posted \o made) \o v
      BY <3>1, ConcatAssociative
    <3> QED
      BY <2>7, <3>2 DEF made
  <2> QED
    BY <1>1, <1>2, <1>8, <2>2, <2>5, <2>7, <2>8
<1> QED
  BY <1>15, <1>16, <1>18, <1>19, <1>20 DEF LoadInv

\* A clock edge: a write that is taken leaves the bus for the loader.
LEMMA ClockLoads ==
    ASSUME LoadInv, TypeInv', NEW bus \in BusCycles, Clock(bus)
    PROVE  LoadInv'
<1>0. TypeInv /\ BusInv /\ Idle /\ Bounded /\ Alone /\ Untroubled /\ Loads
  BY DEF LoadInv
<1>1. UNCHANGED <<clientVars, wr_off, wr_data, state, received, last, clean, troubles>>
  BY DEF Clock, serverVars
<1>2. Parser0' = Parser0 /\ Rest' = Rest /\ Idle' /\ Bounded' /\ Alone'
  BY <1>1, Stays, Frame
<1>3. /\ BusInv'
      /\ \/ AtRest' = AtRest /\ posted' = posted
         \/ posted # <<>> /\ posted' = Tail(posted) /\ AtRest' = Apply(AtRest, Head(posted))
  BY <1>0, ClockAtRest
<1>4. Untroubled'
  BY <1>0, <1>1, <1>2, <1>3 DEF Untroubled, Untouched, clientVars
<1>5. Loads'
  <2> SUFFICES ASSUME clean
               PROVE  \E v \in Seq(Write) : /\ Iterate(ParseStep, Parser0', Rest') = Fresh(v)
                                            /\ Holds(Iterate(ApplyStep, AtRest', posted' \o v), last')
    BY <1>1 DEF Loads
  <2>1. PICK w \in Seq(Write) : /\ Iterate(ParseStep, Parser0, Rest) = Fresh(w)
                                /\ Holds(Iterate(ApplyStep, AtRest, posted \o w), last)
    BY <1>0 DEF Loads
  <2>2. CASE AtRest' = AtRest /\ posted' = posted
    BY <1>1, <1>2, <2>1, <2>2
  <2>3. CASE posted # <<>> /\ posted' = Tail(posted) /\ AtRest' = Apply(AtRest, Head(posted))
    <3> DEFINE op == Head(posted)
               one == <<op>>
               tail == Tail(posted)
    <3>1. AtRest \in Machine /\ posted \in Seq(Write)
      BY <1>0, Types
    <3>2. op \in Write /\ tail \in Seq(Write)
      BY <2>3, <3>1, HeadTailProperties
    <3>3. posted = one \o tail
      BY <2>3, <3>1, HeadTailProperties
    <3> HIDE DEF op, tail
    <3>4. one \in Seq(Write)
      BY <3>2
    <3> HIDE DEF one
    <3>5. posted \o w = one \o (tail \o w) /\ tail \o w \in Seq(Write)
      BY <3>2, <3>3, <3>4, ConcatAssociative, ConcatProperties
    <3>6. Iterate(ApplyStep, AtRest, one \o (tail \o w))
            = Iterate(ApplyStep, Iterate(ApplyStep, AtRest, one), tail \o w)
      BY <3>1, <3>4, <3>5, ApplyConcat
    <3>7. Iterate(ApplyStep, AtRest, one) = Apply(AtRest, op)
      <4>1. Iterate(ApplyStep, AtRest, <<op>>) = ApplyStep[<<AtRest, op>>]
        BY <3>1, <3>2, ApplyKeepsType, IterateShort
      <4> QED
        BY <3>1, <3>2, <4>1, OneWrite DEF one
    <3> QED
      BY <1>1, <1>2, <2>1, <2>3, <3>5, <3>6, <3>7 DEF op, tail
  <2> QED
    BY <1>3, <2>2, <2>3
<1> QED
  BY <1>2, <1>3, <1>4, <1>5 DEF LoadInv

\* A restart is a disturbance.
LEMMA RebootLoads ==
    ASSUME LoadInv, TypeInv', Reboot
    PROVE  LoadInv'
<1>0. TypeInv /\ BusInv /\ Idle
  BY DEF LoadInv
<1>1. ~clean' /\ troubles' = troubles + 1 /\ sent' = sent
  BY DEF Reboot, Disturb
<1>2. troubles \in Nat /\ \A s \in Sessions : SentBytes(s) \in Nat /\ (sent[s] = 0 => SentBytes(s) = 0)
  BY <1>0, Types
<1>3. BusInv'
  <2>1. CASE LoaderReset
    BY <2>1 DEF LoaderReset, WriteReset, BusInv
  <2>2. CASE UNCHANGED <<loaderVars, posted>>
    BY <2>2, Frame
  <2> QED
    BY <2>1, <2>2 DEF Reboot
<1>4. \A s \in Sessions : SentBytes(s)' = SentBytes(s) /\ received'[s] = SentBytes(s)
  BY <1>1 DEF SentBytes, Reboot
<1>5. Bounded'
  BY <1>2, <1>4 DEF Bounded
<1>6. Idle'
  <2>1. \A s \in Sessions : client'[s] = "idle" => client[s] = "idle"
    BY DEF Reboot
  <2> QED
    BY <1>0, <1>1, <1>2, <1>4, <2>1 DEF Idle
<1> QED
  BY <1>1, <1>2, <1>3, <1>5, <1>6 DEF LoadInv, Alone, Untroubled, Loads

\* Every step keeps the invariant.
LEMMA LoadStep == LoadInv /\ [Next]_vars => LoadInv'
<1> SUFFICES ASSUME LoadInv, [Next]_vars PROVE LoadInv'
  OBVIOUS
<1>0. TypeInv'
  BY TypesStep DEF LoadInv
<1>1. ASSUME NEW s \in Sessions, Begin(s) PROVE LoadInv'
  BY <1>0, <1>1, BeginLoads
<1>2. ASSUME NEW s \in Sessions, SendBuffer(s) PROVE LoadInv'
  BY <1>0, <1>2, SendLoads
<1>3. ASSUME NEW s \in Sessions, Leave(s) PROVE LoadInv'
  BY <1>0, <1>3, LeaveLoads
<1>4. ASSUME NEW s \in Sessions, Reset(s) PROVE LoadInv'
  BY <1>0, <1>4, ResetLoads
<1>5. ASSUME NEW s \in Sessions, Receive(s) PROVE LoadInv'
  BY <1>0, <1>5, ReceiveLoads
<1>6. ASSUME UNCHANGED <<loaderVars, clientVars, wr_off, wr_data, state, received, posted,
                         last, clean, troubles>>
      PROVE  LoadInv'
  <2>1. BusInv' /\ Idle' /\ Bounded' /\ Alone' /\ Loads'
    BY <1>6, Frame, LoadsStays
  <2>2. AtRest' = AtRest /\ Parser0' = Parser0
    BY <1>6, Stays
  <2>3. Untroubled'
    BY <1>6, <2>2 DEF LoadInv, Untroubled, Untouched, clientVars
  <2> QED
    BY <1>0, <2>1, <2>3 DEF LoadInv
<1>7. ASSUME NEW s \in Sessions, Close(s) PROVE LoadInv'
  BY <1>6, <1>7 DEF Close, RecvClosed
<1>8. ASSUME NEW bus \in BusCycles, Clock(bus) PROVE LoadInv'
  BY <1>0, <1>8, ClockLoads
<1>9. CASE Reboot
  BY <1>0, <1>9, RebootLoads
<1>10. CASE UNCHANGED vars
  BY <1>6, <1>10 DEF vars, serverVars
<1> QED
  BY <1>1, <1>2, <1>3, <1>4, <1>5, <1>7, <1>8, <1>9, <1>10 DEF Next

\* When nothing is still to come and nothing is on its way, the loader at rest is the
\* loader, and its program is loaded.
LEMMA LoadInvLoads == LoadInv => LoadedProgram
<1> SUFFICES ASSUME LoadInv, clean, AllSent(last), Delivered(last), Settled PROVE regs.start /\ Loaded(last)
  BY DEF LoadedProgram
<1>1. TypeInv /\ Alone /\ Loads
  BY DEF LoadInv
<1>2. Holds(Iterate(ApplyStep, AtRest, posted), last)
  BY <1>1, NothingLeft
<1>3. AtRest \in Machine /\ LoaderTypeOK /\ posted = <<>>
  BY <1>1, Types DEF Settled
<1>4. Iterate(ApplyStep, AtRest, posted) = AtRest
  BY <1>3, ApplyKeepsType, IterateShort
<1>5. AtRest.mem.code = code /\ AtRest.out.start = regs.start
  BY <1>3, SettledAtRest
<1> QED
  BY <1>2, <1>4, <1>5 DEF Holds, Loaded, Encoded

\* For every word size of 16 or more, every code memory and all programs that fit in it,
\* any number of runs, any split of the segments, any pace of the bus and both builds: a
\* run that began on a clean board and was not disturbed ends with its program in the
\* code memory from address 0 on and the filters started (sendfilt.cpp:69-87,
\* echo.c:75-118, regstrb2mem.v:69-94).
THEOREM LoadsProgram == Spec => []LoadedProgram
<1>1. LoadInv => LoadedProgram
  BY LoadInvLoads
<1> QED
  BY <1>1, LoadInit, LoadStep, PTL DEF Spec

-----------------------------------------------------------------------------
(* The file of a compiled program (compilefilt.c) *)

\* The fields of an instruction are unsigned (struct bpf_insn, read in compilefilt.c:29-34).
LEMMA RangesAreNumbers == File!Byte \subseteq Nat /\ File!Half \subseteq Nat /\ File!Word \subseteq Nat
<1>1. ASSUME NEW n \in Int PROVE 0..n \subseteq Nat
    OBVIOUS
<1>2. File!Byte \subseteq Nat /\ File!Half \subseteq Nat
    BY DEF File!Byte, File!Half
<1>3. File!LastWord \in Int
    BY DEF File!LastWord
<1>4. File!Word \subseteq Nat
    BY <1>1, <1>3 DEF File!Word
<1> QED
    BY <1>2, <1>4

\* Taking the last byte off a number (the unions of compilefilt.c:37-44).
LEMMA Division ==
    ASSUME NEW v \in Nat
    PROVE  /\ v \div 256 \in Nat /\ v % 256 \in 0..255
           /\ v = 256 * (v \div 256) + (v % 256)
OBVIOUS

\* The two bytes of a half-word make it up (un16, compilefilt.c:37-40).
LEMMA TwoBytes ==
    ASSUME NEW v \in File!Half
    PROVE  /\ File!ByteOf(v, 1) \in Nat /\ File!ByteOf(v, 0) \in Nat
           /\ 256 * File!ByteOf(v, 1) + File!ByteOf(v, 0) = v
<1> DEFINE q == v \div 256
<1>1. v \in Nat /\ v < 65536
    BY DEF File!Half
<1>2. q \in Nat /\ v % 256 \in 0..255 /\ v = 256 * q + (v % 256)
    BY <1>1, Division
<1>3. q % 256 = q
    <2> HIDE DEF q
    <2>1. q < 256
        BY <1>1, <1>2
    <2> QED
        BY <1>2, <2>1
<1>4. File!ByteOf(v, 1) = q % 256 /\ File!ByteOf(v, 0) = v % 256
    BY DEF File!ByteOf
<1> QED
    BY <1>2, <1>3, <1>4

\* The four bytes of a word make it up (un32, compilefilt.c:41-44).
LEMMA FourBytes ==
    ASSUME NEW v \in File!Word
    PROVE  /\ \A n \in 0..3 : File!ByteOf(v, n) \in Nat
           /\ 256 * (256 * (256 * File!ByteOf(v, 3) + File!ByteOf(v, 2)) + File!ByteOf(v, 1)) + File!ByteOf(v, 0) = v
<1> DEFINE p == v \div 256
           q == p \div 256
           r == q \div 256
<1>1. v \in Nat
    BY RangesAreNumbers
<1>2. p \in Nat /\ v % 256 \in Nat /\ v = 256 * p + (v % 256)
    BY <1>1, Division
<1>3. q \in Nat /\ p % 256 \in Nat /\ p = 256 * q + (p % 256)
    BY <1>2, Division
<1>4. r \in Nat /\ q % 256 \in Nat /\ q = 256 * r + (q % 256)
    BY <1>3, Division
<1>5. File!ByteOf(v, 3) = r /\ File!ByteOf(v, 2) = q % 256 /\ File!ByteOf(v, 1) = p % 256 /\ File!ByteOf(v, 0) = v % 256
    BY DEF File!ByteOf
<1> HIDE DEF p, q, r
<1>6. \A n \in 0..3 : n = 0 \/ n = 1 \/ n = 2 \/ n = 3
    OBVIOUS
<1> QED
    BY <1>2, <1>3, <1>4, <1>5, <1>6

\* The eight bytes written for an instruction are those of its numbers, most
\* significant first, whatever the host (compilefilt.c:25-57).
LEMMA EightBytes ==
    ASSUME NEW little \in BOOLEAN, NEW insn \in File!Insn
    PROVE  File!FileBytes(little, insn) =
               <<File!ByteOf(insn.code, 1), File!ByteOf(insn.code, 0), insn.jt, insn.jf,
                 File!ByteOf(insn.k, 3), File!ByteOf(insn.k, 2), File!ByteOf(insn.k, 1), File!ByteOf(insn.k, 0)>>
<1>1. File!fix_endian(little) <=> little
    BY DEF File!fix_endian, File!Bytes32, File!ByteOf
<1>2. CASE little
    BY <1>1, <1>2 DEF File!FileBytes, File!fixed, File!Bytes16, File!Bytes32
<1>3. CASE ~little
    BY <1>1, <1>3 DEF File!FileBytes, File!Stored, File!Bytes16, File!Bytes32
<1> QED
    BY <1>2, <1>3

\* On every host the file has, for every instruction, the two register values that
\* sendfilt sends, in the order in which it sends them and most significant byte
\* first (compilefilt.c:25-58, sendfilt.cpp:75-80).
THEOREM FileHoldsWhatIsSent ==
    ASSUME NEW little \in BOOLEAN, NEW insn \in File!Insn
    PROVE  /\ Len(File!FileBytes(little, insn)) = 8
           /\ File!BigEndian(File!FileBytes(little, insn), 1) = File!High(insn)
           /\ File!BigEndian(File!FileBytes(little, insn), 5) = File!Low(insn)
<1> DEFINE b == File!FileBytes(little, insn)
<1>1. /\ b[1] = File!ByteOf(insn.code, 1) /\ b[2] = File!ByteOf(insn.code, 0) /\ b[3] = insn.jt /\ b[4] = insn.jf
      /\ b[5] = File!ByteOf(insn.k, 3) /\ b[6] = File!ByteOf(insn.k, 2) /\ b[7] = File!ByteOf(insn.k, 1)
      /\ b[8] = File!ByteOf(insn.k, 0) /\ Len(b) = 8
    BY EightBytes
<1>2. insn.code \in File!Half /\ insn.jt \in File!Byte /\ insn.jf \in File!Byte /\ insn.k \in File!Word
    BY DEF File!Insn
<1> HIDE DEF b
<1>3. File!BigEndian(b, 1) = File!High(insn)
    <2>1. 256 * b[1] + b[2] = insn.code /\ b[1] \in Nat /\ b[2] \in Nat
        BY <1>1, <1>2, TwoBytes
    <2>2. insn.jt \in Nat /\ insn.jf \in Nat /\ insn.code \in Nat
        BY <1>2, RangesAreNumbers
    <2> QED
        BY <1>1, <2>1, <2>2 DEF File!BigEndian, File!High
<1>4. File!BigEndian(b, 5) = File!Low(insn)
    BY <1>1, <1>2, FourBytes DEF File!BigEndian, File!Low
<1> QED
    BY <1>1, <1>3, <1>4 DEF b
=============================================================================
