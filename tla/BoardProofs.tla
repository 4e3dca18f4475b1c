---------------------------- MODULE BoardProofs ----------------------------
(****************************************************************************)
(* Proofs about the board's start, for any builds and any limits of the     *)
(* timers: the variables keep their types, the clock generator and the PHY  *)
(* get their whole lists of writes, no transfer outlives its function       *)
(* unless there was an error, and the program serves with an address.       *)
(*                                                                          *)
(* The devices: while nothing disturbs a function, its device has taken the *)
(* writes that come before the present place of the list, and that of the   *)
(* place once the transfer is complete.  The address: the DHCP ticks that   *)
(* were counted and those the counter still holds make up the full time.    *)
(****************************************************************************)
EXTENDS Board, SequenceTheorems, TLAPS

-----------------------------------------------------------------------------
(* The lists of transfers *)

\* The table of the clock generator and the lists of the PHY: pairs of a register and a value.
LEMMA Tables ==
    /\ DOMAIN InitTable = 1..Len(InitTable) /\ Len(InitTable) \in Nat
    /\ DOMAIN PhySetup = 1..Len(PhySetup) /\ Len(PhySetup) \in Nat
    /\ DOMAIN PhyPage = 1..1
    /\ DOMAIN PhySpeed = 1..Len(PhySpeed) /\ Len(PhySpeed) \in Nat
<1>1. Len(InitTable) = 43 /\ DOMAIN InitTable = 1..43
  BY DEF InitTable
<1>2. Len(PhySetup) = 13 /\ DOMAIN PhySetup = 1..13
  BY DEF PhySetup
<1>3. Len(PhySpeed) = 4 /\ DOMAIN PhySpeed = 1..4
  BY DEF PhySpeed
<1>4. DOMAIN PhyPage = 1..1
  BY DEF PhyPage
<1> QED
  BY <1>1, <1>2, <1>3, <1>4

\* Every entry of the clock generator's table is a register and its value (si5324.c:45).
LEMMA TablesHavePairs ==
    \A n \in 1..Len(InitTable) : Len(InitTable[n]) = 2
<1>1. Len(InitTable) = 43
  BY DEF InitTable
<1>2. \A n \in 1..43 : Len(InitTable[n]) = 2
  BY DEF InitTable
<1> QED
  BY <1>1, <1>2

\* The writes to the PHY, one for each entry of a list.
LEMMA Lists ==
  ASSUME NEW n \in Nat, NEW list, DOMAIN list = 1..n,
         NEW S, \A i \in 1..n : I2cPhyWrite(list[i][1], list[i][2]) \in S
  PROVE  PhyWrites(list) \in Seq(S) /\ Len(PhyWrites(list)) = n
<1> DEFINE w == PhyWrites(list)
<1>1. w \in [1..n -> S]
   BY DEF PhyWrites
<1> HIDE DEF w
<1>2. w \in Seq(S) /\ Len(w) = n
   BY <1>1
<1> QED
  BY <1>2 DEF w

\* The writes to the clock generator, one for each entry of its table.
LEMMA SiList ==
  /\ SiWrites \in Seq({SiWrite(InitTable[n]) : n \in 1..Len(InitTable)})
  /\ Len(SiWrites) = Len(InitTable)
  /\ \A n \in 1..Len(InitTable) : SiWrites[n] = SiWrite(InitTable[n])
<1>1. SiWrites \in [1..Len(InitTable) -> {SiWrite(InitTable[n]) : n \in 1..Len(InitTable)}]
   BY Tables DEF SiWrites
<1>2. \A n \in 1..Len(InitTable) : SiWrites[n] = SiWrite(InitTable[n])
   BY Tables DEF SiWrites
<1>3. SiWrites \in Seq({SiWrite(InitTable[n]) : n \in 1..Len(InitTable)}) /\ Len(SiWrites) = Len(InitTable)
   BY <1>1, Tables
<1> QED
  BY <1>2, <1>3

\* The transfers of the clock generator's function, place by place: the multiplexer, then the table.
LEMMA Si ==
  /\ Len(SiScript) = Len(InitTable) + 1
  /\ SiScript[1] = MuxInit
  /\ \A n \in 1..Len(InitTable) : SiScript[n + 1] = SiWrite(InitTable[n])
<1> DEFINE w == SiWrites
           S == {SiWrite(InitTable[n]) : n \in 1..Len(InitTable)} \cup {MuxInit}
           one == <<MuxInit>>
<1>1. w \in Seq(S) /\ Len(w) = Len(InitTable) /\ Len(InitTable) \in Nat
  BY SiList, Tables
<1>2. one \in Seq(S) /\ Len(one) = 1 /\ one[1] = MuxInit
  OBVIOUS
<1>3. SiScript = one \o w
  BY DEF SiScript
<1> HIDE DEF w, S, one
<1>4. Len(one \o w) = Len(one) + Len(w) /\ \A i \in 1 .. Len(one) + Len(w) : (one \o w)[i] =
                     IF i <= Len(one) THEN one[i] ELSE w[i - Len(one)]
  BY <1>1, <1>2, ConcatProperties
<1>5. \A n \in 1..Len(InitTable) : (one \o w)[n + 1] = w[n]
  BY <1>1, <1>2, <1>4
<1>6. (one \o w)[1] = MuxInit
  BY <1>1, <1>2, <1>4
<1> QED
  BY <1>1, <1>2, <1>3, <1>4, <1>5, <1>6, SiList DEF w

\* The list u is s, then t.
Joins(u, s, t, S) == /\ u \in Seq(S) /\ Len(u) = Len(s) + Len(t)
                     /\ \A i \in 1..Len(s) : u[i] = s[i]
                     /\ \A i \in 1..Len(t) : u[Len(s) + i] = t[i]

\* Two sequences put together.
LEMMA Concat ==
    ASSUME NEW S, NEW s \in Seq(S), NEW t \in Seq(S)
    PROVE  Joins(s \o t, s, t, S)
  BY ConcatProperties DEF Joins

\* The transfers of the PHY's function, place by place.
LEMMA Sfp ==
    LET p == Len(PhySetup)
        q == Len(PhySpeed)
        read == I2cPhyRead("11")
    IN  /\ Len(SfpScript) = p + q + 7 /\ DOMAIN SfpScript = 1..p + q + 7 /\ PollAt = p + 3
        /\ SfpScript[1] = ZC706MuxInit /\ SfpScript[2] = SelectPhyReg0
        /\ \A i \in 1..p : SfpScript[2 + i] = I2cPhyWrite(PhySetup[i][1], PhySetup[i][2])
        /\ SfpScript[p + 3] = read[1] /\ SfpScript[p + 4] = read[2]
        /\ SfpScript[p + 5] = I2cPhyWrite(PhyPage[1][1], PhyPage[1][2])
        /\ SfpScript[p + 6] = read[1] /\ SfpScript[p + 7] = read[2]
        /\ \A i \in 1..q : SfpScript[p + 7 + i] = I2cPhyWrite(PhySpeed[i][1], PhySpeed[i][2])
        /\ Len(WriteList["ProgramSfpPhy"]) = p + q + 1
        /\ \A i \in 1..p : WriteList["ProgramSfpPhy"][i] = I2cPhyWrite(PhySetup[i][1], PhySetup[i][2])
        /\ WriteList["ProgramSfpPhy"][p + 1] = I2cPhyWrite(PhyPage[1][1], PhyPage[1][2])
        /\ \A i \in 1..q : WriteList["ProgramSfpPhy"][p + 1 + i] = I2cPhyWrite(PhySpeed[i][1], PhySpeed[i][2])
<1> DEFINE p == Len(PhySetup)
           q == Len(PhySpeed)
           read == I2cPhyRead("11")
           head == <<ZC706MuxInit, SelectPhyReg0>>
           W(e) == I2cPhyWrite(e[1], e[2])
           T == {ZC706MuxInit, SelectPhyReg0, read[1], read[2], W(PhyPage[1])}
                \cup {W(PhySetup[i]) : i \in 1..p} \cup {W(PhySpeed[i]) : i \in 1..q}
           setup == PhyWrites(PhySetup)
           page == PhyWrites(PhyPage)
           speed == PhyWrites(PhySpeed)
           s1 == head \o setup
           s2 == s1 \o read
           s3 == s2 \o page
           s4 == s3 \o read
           s5 == s4 \o speed
           w1 == setup \o page
           w2 == w1 \o speed
<1>1. p \in Nat /\ q \in Nat
  BY Tables
<1>2. head \in Seq(T) /\ Len(head) = 2 /\ head[1] = ZC706MuxInit /\ head[2] = SelectPhyReg0
  OBVIOUS
<1>3. read \in Seq(T) /\ Len(read) = 2
  BY DEF I2cPhyRead
<1>4. setup \in Seq(T) /\ Len(setup) = p /\ \A i \in 1..p : setup[i] = W(PhySetup[i])
  <2>1. DOMAIN PhySetup = 1..p /\ \A i \in 1..p : W(PhySetup[i]) \in T
    BY Tables, <1>1
  <2>2. setup \in Seq(T) /\ Len(setup) = p
    BY <2>1, <1>1, Lists
  <2>3. \A i \in 1..p : setup[i] = W(PhySetup[i])
    BY <2>1 DEF PhyWrites
  <2> QED
    BY <2>2, <2>3
<1>5. speed \in Seq(T) /\ Len(speed) = q /\ \A i \in 1..q : speed[i] = W(PhySpeed[i])
  <2>1. DOMAIN PhySpeed = 1..q /\ \A i \in 1..q : W(PhySpeed[i]) \in T
    BY Tables, <1>1
  <2>2. speed \in Seq(T) /\ Len(speed) = q
    BY <2>1, <1>1, Lists
  <2>3. \A i \in 1..q : speed[i] = W(PhySpeed[i])
    BY <2>1 DEF PhyWrites
  <2> QED
    BY <2>2, <2>3
<1>6. page \in Seq(T) /\ Len(page) = 1 /\ page[1] = W(PhyPage[1])
  <2>1. DOMAIN PhyPage = 1..1 /\ \A i \in 1..1 : W(PhyPage[i]) \in T
    BY Tables, <1>1
  <2>2. page \in Seq(T) /\ Len(page) = 1
    BY <2>1, <1>1, Lists
  <2>3. \A i \in 1..1 : page[i] = W(PhyPage[i])
    BY <2>1 DEF PhyWrites
  <2> QED
    BY <2>2, <2>3
<1>7. SfpScript = s5 /\ SfpBeforePoll = s1 /\ WriteList["ProgramSfpPhy"] = w2
  BY DEF SfpScript, SfpBeforePoll, WriteList
<1> HIDE DEF p, q, read, head, W, T, setup, page, speed
<1>11. /\ s1 \in Seq(T) /\ Len(s1) = p + 2
       /\ s1[1] = ZC706MuxInit /\ s1[2] = SelectPhyReg0
       /\ \A i \in 1..p : s1[2 + i] = W(PhySetup[i])
  <2>1. Joins(s1, head, setup, T)
    BY <1>2, <1>4, Concat
  <2> HIDE DEF s1
  <2> QED
    BY <1>1, <1>2, <1>4, <2>1 DEF Joins
<1> HIDE DEF s1
<1>12. /\ s2 \in Seq(T) /\ Len(s2) = p + 4
       /\ \A i \in 1..p + 2 : s2[i] = s1[i]
       /\ s2[p + 3] = read[1] /\ s2[p + 4] = read[2]
  <2>1. Joins(s2, s1, read, T)
    BY <1>11, <1>3, Concat
  <2> HIDE DEF s2
  <2> QED
    BY <1>1, <1>11, <1>3, <2>1 DEF Joins
<1> HIDE DEF s2
<1>13. /\ s3 \in Seq(T) /\ Len(s3) = p + 5
       /\ \A i \in 1..p + 4 : s3[i] = s2[i]
       /\ s3[p + 5] = W(PhyPage[1])
  <2>1. Joins(s3, s2, page, T)
    BY <1>12, <1>6, Concat
  <2> HIDE DEF s3
  <2> QED
    BY <1>1, <1>12, <1>6, <2>1 DEF Joins
<1> HIDE DEF s3
<1>14. /\ s4 \in Seq(T) /\ Len(s4) = p + 7
       /\ \A i \in 1..p + 5 : s4[i] = s3[i]
       /\ s4[p + 6] = read[1] /\ s4[p + 7] = read[2]
  <2>1. Joins(s4, s3, read, T)
    BY <1>13, <1>3, Concat
  <2> HIDE DEF s4
  <2> QED
    BY <1>1, <1>13, <1>3, <2>1 DEF Joins
<1> HIDE DEF s4
<1>15. /\ s5 \in Seq(T) /\ Len(s5) = p + q + 7
       /\ \A i \in 1..p + 7 : s5[i] = s4[i]
       /\ \A i \in 1..q : s5[p + 7 + i] = W(PhySpeed[i])
  <2>1. Joins(s5, s4, speed, T)
    BY <1>14, <1>5, Concat
  <2> HIDE DEF s5
  <2>2. s5 \in Seq(T) /\ Len(s5) = Len(s4) + Len(speed)
    BY <2>1 DEF Joins
  <2>3. Len(s5) = p + q + 7 /\ \A i \in 1..p + 7 : s5[i] = s4[i]
    BY <1>1, <1>14, <1>5, <2>1 DEF Joins
  <2>4. \A i \in 1..q : s5[p + 7 + i] = W(PhySpeed[i])
    BY <1>1, <1>14, <1>5, <2>1 DEF Joins
  <2> QED
    BY <2>2, <2>3, <2>4
<1> HIDE DEF s5
<1>16. /\ w1 \in Seq(T) /\ Len(w1) = p + 1
       /\ \A i \in 1..p : w1[i] = W(PhySetup[i])
       /\ w1[p + 1] = W(PhyPage[1])
  <2>1. Joins(w1, setup, page, T)
    BY <1>4, <1>6, Concat
  <2> HIDE DEF w1
  <2> QED
    BY <1>1, <1>4, <1>6, <2>1 DEF Joins
<1> HIDE DEF w1
<1>17. /\ Len(w2) = p + q + 1
       /\ \A i \in 1..p + 1 : w2[i] = w1[i]
       /\ \A i \in 1..q : w2[p + 1 + i] = W(PhySpeed[i])
  <2>1. Joins(w2, w1, speed, T)
    BY <1>16, <1>5, Concat
  <2> HIDE DEF w2
  <2> QED
    BY <1>1, <1>16, <1>5, <2>1 DEF Joins
<1> HIDE DEF w2
<1>18. /\ s5[1] = ZC706MuxInit /\ s5[2] = SelectPhyReg0
       /\ \A i \in 1..p : s5[2 + i] = W(PhySetup[i])
  <2>1. \A i \in 1..p + 2 : s5[i] = s1[i]
    BY <1>1, <1>12, <1>13, <1>14, <1>15
  <2> QED
    BY <1>1, <1>11, <2>1
<1>19. /\ s5[p + 3] = read[1] /\ s5[p + 4] = read[2] /\ s5[p + 5] = W(PhyPage[1])
       /\ s5[p + 6] = read[1] /\ s5[p + 7] = read[2]
  BY <1>1, <1>12, <1>13, <1>14, <1>15
<1>20. PollAt = p + 3
  BY <1>7, <1>11, <1>1 DEF PollAt
<1>21. /\ Len(SfpScript) = p + q + 7 /\ DOMAIN SfpScript = 1..p + q + 7 /\ PollAt = p + 3
       /\ SfpScript[1] = ZC706MuxInit /\ SfpScript[2] = SelectPhyReg0
       /\ \A i \in 1..p : SfpScript[2 + i] = W(PhySetup[i])
       /\ SfpScript[p + 3] = read[1] /\ SfpScript[p + 4] = read[2]
       /\ SfpScript[p + 5] = W(PhyPage[1])
       /\ SfpScript[p + 6] = read[1] /\ SfpScript[p + 7] = read[2]
       /\ \A i \in 1..q : SfpScript[p + 7 + i] = W(PhySpeed[i])
  <2>1. DOMAIN s5 = 1..p + q + 7
    BY <1>15
  <2> QED
    BY <1>7, <1>15, <1>18, <1>19, <1>20, <2>1, Zenon
<1>22. /\ Len(WriteList["ProgramSfpPhy"]) = p + q + 1
       /\ \A i \in 1..p : WriteList["ProgramSfpPhy"][i] = W(PhySetup[i])
       /\ WriteList["ProgramSfpPhy"][p + 1] = W(PhyPage[1])
       /\ \A i \in 1..q : WriteList["ProgramSfpPhy"][p + 1 + i] = W(PhySpeed[i])
  <2>1. p + 1 \in 1..p + 1 /\ \A i \in 1..p : i \in 1..p + 1
    BY <1>1
  <2>2. w2[p + 1] = W(PhyPage[1]) /\ \A i \in 1..p : w2[i] = W(PhySetup[i])
    BY <2>1, <1>16, <1>17, Zenon
  <2> QED
    BY <1>7, <1>17, <2>2, Zenon
<1> QED
  BY <1>21, <1>22 DEF p, q, read, W

-----------------------------------------------------------------------------

\* A transfer that writes a register of a device behind the multiplexer.
IsWrite(t) == t.slave # "mux" /\ Len(t.data) = 2

\* The register writes of f before its place n.
Before(f, n) ==
    LET p == Len(PhySetup)
    IN  IF f = "ProgramSi5324" THEN IF n <= 1 THEN 0 ELSE n - 2
        ELSE IF n <= 2 THEN 0
        ELSE IF n <= p + 3 THEN n - 3
        ELSE IF n <= p + 5 THEN p
        ELSE IF n <= p + 8 THEN p + 1
        ELSE n - 7

\* What the transfer t at place n of f is.
IsPlace(f, n, t) ==
    /\ t \in AllTransfers
    /\ t.dir \in {"send", "recv"} /\ t.fail \in {"return", "ignore", "skip"}
    /\ f = "ProgramSi5324" => t.fail = "return"
    /\ Before(f, n) \in Nat
    /\ IsWrite(t) => t.dir = "send" /\ Before(f, n) < Len(WriteList[f])
                     /\ WriteList[f][Before(f, n) + 1] = t
    /\ Before(f, n + 1) = Before(f, n) + (IF IsWrite(t) THEN 1 ELSE 0)

\* Which way the transfers go, what a failed one does, and which write a register.
LEMMA Transfers ==
    /\ MuxInit.slave = "mux" /\ MuxInit.dir = "send" /\ MuxInit.fail = "return"
    /\ ZC706MuxInit.slave = "mux" /\ ZC706MuxInit.dir = "send" /\ ZC706MuxInit.fail = "return"
    /\ SelectPhyReg0.dir = "send" /\ SelectPhyReg0.fail = "return" /\ ~IsWrite(SelectPhyReg0)
    /\ \A e : SiWrite(e).dir = "send" /\ SiWrite(e).fail = "return" /\ (IsWrite(SiWrite(e)) <=> Len(e) = 2)
    /\ \A r, v : /\ I2cPhyWrite(r, v).dir = "send" /\ I2cPhyWrite(r, v).fail = "ignore"
                 /\ IsWrite(I2cPhyWrite(r, v))
    /\ \A r : /\ I2cPhyRead(r)[1].dir = "send" /\ I2cPhyRead(r)[1].fail = "skip" /\ ~IsWrite(I2cPhyRead(r)[1])
              /\ I2cPhyRead(r)[2].dir = "recv" /\ I2cPhyRead(r)[2].fail = "ignore" /\ ~IsWrite(I2cPhyRead(r)[2])
<1>1. /\ MuxInit.slave = "mux" /\ MuxInit.dir = "send" /\ MuxInit.fail = "return"
      /\ ZC706MuxInit.slave = "mux" /\ ZC706MuxInit.dir = "send" /\ ZC706MuxInit.fail = "return"
  BY DEF MuxInit, ZC706MuxInit, SelectMux
<1>2. SelectPhyReg0.dir = "send" /\ SelectPhyReg0.fail = "return" /\ ~IsWrite(SelectPhyReg0)
  BY DEF SelectPhyReg0, IsWrite
<1>3. \A e : SiWrite(e).dir = "send" /\ SiWrite(e).fail = "return" /\ (IsWrite(SiWrite(e)) <=> Len(e) = 2)
  BY DEF SiWrite, IsWrite
<1>4. \A r, v : /\ I2cPhyWrite(r, v).dir = "send" /\ I2cPhyWrite(r, v).fail = "ignore"
               /\ IsWrite(I2cPhyWrite(r, v))
  BY DEF I2cPhyWrite, IsWrite
<1>5. \A r : /\ I2cPhyRead(r)[1].dir = "send" /\ I2cPhyRead(r)[1].fail = "skip" /\ ~IsWrite(I2cPhyRead(r)[1])
            /\ I2cPhyRead(r)[2].dir = "recv" /\ I2cPhyRead(r)[2].fail = "ignore" /\ ~IsWrite(I2cPhyRead(r)[2])
  BY DEF I2cPhyRead, IsWrite
<1> QED
  BY <1>1, <1>2, <1>3, <1>4, <1>5

\* The two functions, their transfers and the clock generator's writes.
LEMMA TwoFunctions ==
    /\ Programming = {"ProgramSi5324", "ProgramSfpPhy"}
    /\ Script["ProgramSi5324"] = SiScript /\ Script["ProgramSfpPhy"] = SfpScript
    /\ WriteList["ProgramSi5324"] = SiWrites
  BY DEF Programming, Script, WriteList

\* Every transfer of a list is what IsPlace says of its place: going through the list makes the
\* writes of WriteList, in order.
LEMMA AtPlace ==
    ASSUME NEW f \in Programming, NEW n \in 1..Len(Script[f])
    PROVE  IsPlace(f, n, Script[f][n])
<1> DEFINE t == Script[f][n]
           p == Len(PhySetup)
           q == Len(PhySpeed)
<1>1. Len(InitTable) \in Nat /\ p \in Nat /\ q \in Nat
  BY Tables
<1>2. CASE f = "ProgramSi5324"
  <2>1. n \in 1..Len(InitTable) + 1 /\ t = SiScript[n] /\ Len(WriteList[f]) = Len(InitTable)
    BY <1>2, TwoFunctions, Si, SiList
  <2>2. CASE n = 1
    <3>1. t = MuxInit
      BY <2>1, <2>2, Si
    <3>2. /\ t \in AllTransfers
      BY <2>1, <1>1, Si DEF AllTransfers, Range
    <3> QED
      BY <1>2, <2>2, <3>1, <3>2, Transfers DEF IsPlace, Before, IsWrite
  <2>3. CASE n # 1
    <3> DEFINE k == n - 1
    <3>1. k \in 1..Len(InitTable) /\ n = k + 1
      BY <2>1, <2>3, <1>1
    <3>2. t = SiWrite(InitTable[k]) /\ WriteList[f][k] = t
      BY <1>2, <2>1, <3>1, Si, SiList, TwoFunctions
    <3>3. Len(InitTable[k]) = 2
      BY <3>1, TablesHavePairs
    <3>4. t \in AllTransfers
      BY <2>1, <1>1, Si DEF AllTransfers, Range
    <3>5. IsWrite(t) /\ t.dir = "send" /\ t.fail = "return"
      BY <3>2, <3>3, Transfers
    <3>6. Before(f, n) = k - 1 /\ Before(f, n + 1) = k
      BY <1>2, <3>1, <1>1 DEF Before
    <3> HIDE DEF k, t
    <3> QED
      BY <1>2, <2>1, <3>1, <3>2, <3>4, <3>5, <3>6, <1>1 DEF IsPlace, t
  <2> QED
    BY <2>2, <2>3
<1>3. CASE f = "ProgramSfpPhy"
  <2> DEFINE list == WriteList["ProgramSfpPhy"]
             read == I2cPhyRead("11")
  <2>1. /\ n \in 1..p + q + 7 /\ t = SfpScript[n] /\ WriteList[f] = list /\ Len(list) = p + q + 1
        /\ Script[f] = SfpScript
    BY <1>3, TwoFunctions, Sfp
  <2>2. t \in AllTransfers
    BY <1>1, <2>1, Sfp DEF AllTransfers, Range
  <2>3. f # "ProgramSi5324"
    BY <1>3
  <2> HIDE DEF t, list
  <2>4. CASE n = 1 \/ n = 2
    <3>1. ~IsWrite(t) /\ t.dir = "send" /\ t.fail = "return"
      BY <2>1, <2>4, Sfp, Transfers DEF IsWrite
    <3>2. Before(f, n) = 0 /\ Before(f, n + 1) = 0
      BY <2>3, <2>4, <1>1 DEF Before
    <3> QED
      BY <2>2, <2>3, <3>1, <3>2 DEF IsPlace, t
  <2>5. CASE n \in 3..p + 2
    <3> DEFINE k == n - 2
    <3>1. k \in 1..p /\ n = 2 + k /\ k < p + q + 1
      BY <2>5, <1>1
    <3>2. t = I2cPhyWrite(PhySetup[k][1], PhySetup[k][2]) /\ list[k] = t
      BY <2>1, <3>1, Sfp DEF list
    <3>3. IsWrite(t) /\ t.dir = "send" /\ t.fail = "ignore"
      BY <3>2, Transfers
    <3>4. Before(f, n) = k - 1 /\ Before(f, n + 1) = k
      BY <2>3, <2>5, <1>1 DEF Before
    <3> HIDE DEF k
    <3> QED
      BY <2>1, <2>2, <2>3, <3>1, <3>2, <3>3, <3>4, <1>1 DEF IsPlace, t
  <2>6. CASE n \in {p + 3, p + 4, p + 6, p + 7}
    <3>1. t = read[1] \/ t = read[2]
      BY <2>1, <2>6, Sfp
    <3>2. ~IsWrite(t) /\ t.dir \in {"send", "recv"} /\ t.fail \in {"skip", "ignore"}
      BY <3>1, Transfers
    <3>3. Before(f, n) = Before(f, n + 1) /\ Before(f, n) \in Nat
      BY <2>3, <2>6, <1>1 DEF Before
    <3> QED
      BY <2>2, <2>3, <3>2, <3>3 DEF IsPlace, t
  <2>7. CASE n = p + 5
    <3>1. t = I2cPhyWrite(PhyPage[1][1], PhyPage[1][2]) /\ list[p + 1] = t
      BY <2>1, <2>7, Sfp DEF list
    <3>2. IsWrite(t) /\ t.dir = "send" /\ t.fail = "ignore"
      BY <3>1, Transfers
    <3>3. Before(f, n) = p /\ Before(f, n + 1) = p + 1
      BY <2>3, <2>7, <1>1 DEF Before
    <3>4. p < p + q + 1
      BY <1>1
    <3> QED
      BY <2>1, <2>2, <2>3, <3>1, <3>2, <3>3, <3>4, <1>1 DEF IsPlace, t
  <2>8. CASE n \in p + 8..p + q + 7
    <3> DEFINE k == n - (p + 7)
    <3>1. k \in 1..q /\ n = p + 7 + k /\ p + k < p + q + 1
      BY <2>8, <1>1
    <3>2. t = I2cPhyWrite(PhySpeed[k][1], PhySpeed[k][2]) /\ list[p + 1 + k] = t
      BY <2>1, <3>1, Sfp DEF list
    <3>3. IsWrite(t) /\ t.dir = "send" /\ t.fail = "ignore"
      BY <3>2, Transfers
    <3>4. Before(f, n) = p + k /\ Before(f, n + 1) = p + 1 + k
      BY <2>3, <2>8, <1>1 DEF Before
    <3> HIDE DEF k
    <3>5. p + k \in Nat /\ p + k + 1 = p + 1 + k
      BY <3>1, <1>1
    <3> QED
      BY <2>1, <2>2, <2>3, <3>1, <3>2, <3>3, <3>4, <3>5, <1>1 DEF IsPlace, t
  <2> QED
    BY <2>1, <2>4, <2>5, <2>6, <2>7, <2>8, <1>1 DEF t
<1> QED
  BY <1>2, <1>3, TwoFunctions

\* The lists begin with no write made and end with all of them made.
LEMMA Ends ==
    ASSUME NEW f \in Programming
    PROVE  /\ Len(Script[f]) \in Nat /\ Len(Script[f]) <= Len(SiScript) + Len(SfpScript)
           /\ Len(Script[f]) >= 1
           /\ Len(WriteList[f]) \in Nat /\ Len(WriteList[f]) <= Len(SiScript) + Len(SfpScript)
           /\ Before(f, 1) = 0 /\ Before(f, Len(Script[f]) + 1) = Len(WriteList[f])
<1>1. Len(InitTable) \in Nat /\ Len(PhySetup) \in Nat /\ Len(PhySpeed) \in Nat
  BY Tables
<1>2. CASE f = "ProgramSi5324"
  <2>1. Len(Script[f]) = Len(InitTable) + 1 /\ Len(WriteList[f]) = Len(InitTable)
    BY <1>2, TwoFunctions, Si, SiList
  <2> QED
    BY <1>1, <1>2, <2>1, Si, Sfp, TwoFunctions DEF Before
<1>3. CASE f = "ProgramSfpPhy"
  <2>1. Len(Script[f]) = Len(PhySetup) + Len(PhySpeed) + 7 /\ Len(WriteList[f]) = Len(PhySetup) + Len(PhySpeed) + 1
    BY <1>3, TwoFunctions, Sfp
  <2> QED
    BY <1>1, <1>3, <2>1, Si, Sfp, TwoFunctions DEF Before
<1> QED
  BY <1>2, <1>3, TwoFunctions

\* The loop that waits for the link goes back over two transfers that write nothing.
LEMMA Poll ==
    /\ PollAt \in 1..Len(Script["ProgramSfpPhy"])
    /\ PollAt + 2 \in 1..Len(Script["ProgramSfpPhy"])
    /\ Before("ProgramSfpPhy", PollAt) = Before("ProgramSfpPhy", PollAt + 2)
<1>1. Len(PhySetup) \in Nat /\ Len(PhySpeed) \in Nat
  BY Tables
<1> QED
  BY <1>1, Sfp, TwoFunctions DEF Before

-----------------------------------------------------------------------------

\* A place of a list is taken in its function, with the instance the handler was given.
Working == /\ step > 0 => /\ pc \in Programming /\ step <= Len(Script[pc]) /\ owner = pc
                          /\ call = "wait_send" => Script[pc][step].dir = "send"
                          /\ call = "wait_recv" => Script[pc][step].dir = "recv"
           /\ step = 0 => call = "none"
           /\ pc \in Programming => result[pc] = NoResult
           /\ pc = "ProgramSi5324" => result["ProgramSfpPhy"] = NoResult

\* The constants of the timers are positive.
LEMMA Limits ==
    /\ DhcpTimeout \in Nat /\ DhcpTimeout >= 1 /\ CoarseTicks \in Nat /\ CoarseTicks >= 1
    /\ RESET_RX_CNTR_LIMIT \in Nat /\ RESET_RX_CNTR_LIMIT >= 1
    /\ ETH_LINK_DETECT_INTERVAL \in Nat /\ ETH_LINK_DETECT_INTERVAL >= 1
<1>1. {DhcpTimeout, CoarseTicks, RESET_RX_CNTR_LIMIT, ETH_LINK_DETECT_INTERVAL} \subseteq Nat \ {0}
  BY TimerAssumption
<1>2. \A n \in {DhcpTimeout, CoarseTicks, RESET_RX_CNTR_LIMIT, ETH_LINK_DETECT_INTERVAL} : n \in Nat \ {0}
  BY <1>1
<1>3. /\ DhcpTimeout \in Nat \ {0} /\ CoarseTicks \in Nat \ {0}
      /\ RESET_RX_CNTR_LIMIT \in Nat \ {0} /\ ETH_LINK_DETECT_INTERVAL \in Nat \ {0}
  BY <1>2
<1> QED
  BY <1>3

\* The variables have their types when the program starts.
LEMMA TypeAtStart == Init => TypeOK /\ Working
<1> SUFFICES ASSUME Init PROVE TypeOK /\ Working
  OBVIOUS
<1>1. TimersTypeOK
  <2>1. TimersInit
    BY DEF Init
  <2>2. timer \in {"off", "loaded", "running", "fired"} /\ handler \in BOOLEAN /\ interrupts \in BOOLEAN
    BY <2>1 DEF TimersInit
  <2>3. TcpFastTmrFlag \in BOOLEAN /\ TcpSlowTmrFlag \in BOOLEAN /\ odd \in BOOLEAN
    BY <2>1 DEF TimersInit
  <2>4. DetectEthLinkStatus \in 0..ETH_LINK_DETECT_INTERVAL - 1 /\ dhcp_timer \in 0..CoarseTicks - 1
    BY <2>1, Limits DEF TimersInit
  <2>5. ResetRxCntr \in 0..RESET_RX_CNTR_LIMIT - 1 /\ dhcp_timoutcntr \in 0..DhcpTimeout
    BY <2>1, Limits DEF TimersInit
  <2> QED
    BY <2>2, <2>3, <2>4, <2>5 DEF TimersTypeOK
<1>2. result = [f \in DOMAIN Script |-> NoResult]
  BY DEF Init, ClocksInit, Script
<1>3. ClocksTypeOK
  <2>1. I2cTypeOK(AllTransfers)
    BY DEF Init, ClocksInit, I2cInit, I2cTypeOK, NoFunction
  <2>2. result \in [DOMAIN Script -> Results]
    BY <1>2 DEF Results
  <2>3. 0 \in 0..(Len(SiScript) + Len(SfpScript))
    BY Ends, TwoFunctions
  <2> QED
    BY <2>1, <2>2, <2>3 DEF Init, ClocksInit, ClocksTypeOK
<1>4. pc \in Programming \cup Booting
  BY TwoFunctions DEF Init, Booting
<1>5. TypeOK
  <2>1. waited \in 0..DhcpTimeout
    BY Limits DEF Init
  <2> QED
    BY <1>1, <1>3, <1>4, <2>1 DEF Init, TypeOK, NoAddress
<1>6. Working
  BY <1>2, TwoFunctions DEF Init, Working, ClocksInit, I2cInit, Programming
<1> QED
  BY <1>5, <1>6

-----------------------------------------------------------------------------

\* What has happened since f was called does not disturb its promise.
Good(f) == ~hidden /\ (f = "ProgramSfpPhy" => ~errors)

\* While nothing disturbs it, a function has made the register writes before its place, and that of its
\* place once the transfer is complete.
Progress ==
    step > 0 /\ Good(pc) =>
       /\ call = "none" => bus = IdleBus /\ received = Before(pc, step)
       /\ call = "wait_idle" \/ Complete => bus.phase # "busy" /\ received = Before(pc, step + 1)
       /\ call # "none" /\ call # "wait_idle" /\ ~Complete =>
             /\ received = Before(pc, step)
             /\ bus.phase = "busy" => bus.transfer = Script[pc][step]

\* What is said of the clocks.
ClockInv == /\ ClocksTypeOK /\ Working /\ Progress
            /\ NoTransferOutlivesItsFunction /\ ClocksProgrammed

\* What the type invariant says of the clocks.
LEMMA ClockTypes ==
    ASSUME ClocksTypeOK
    PROVE  /\ step \in Nat /\ received \in Int /\ RdBuffer \in BOOLEAN /\ phy_read_val \in BOOLEAN
           /\ errors \in BOOLEAN /\ hidden \in BOOLEAN /\ TransmitComplete \in BOOLEAN /\ ReceiveComplete \in BOOLEAN
           /\ result \in [Programming -> Results]
           /\ bus.phase = "busy" => bus.transfer \in AllTransfers /\ bus = Busy(bus.transfer)
           /\ bus.phase \in {"idle", "busy", "stopping"} /\ (bus.phase = "idle" <=> bus = IdleBus)
<1>1. Len(SiScript) + Len(SfpScript) \in Nat
  BY Si, Sfp, Tables
<1>2. step \in Nat /\ received \in Int
  BY <1>1 DEF ClocksTypeOK, Spoilt
<1>3. /\ bus.phase = "busy" => bus.transfer \in AllTransfers /\ bus = Busy(bus.transfer)
      /\ bus.phase \in {"idle", "busy", "stopping"} /\ (bus.phase = "idle" <=> bus = IdleBus)
  BY DEF ClocksTypeOK, I2cTypeOK, IdleBus, Stopping, Busy
<1> QED
  BY <1>2, <1>3 DEF ClocksTypeOK, I2cTypeOK, Programming

\* A function that returns leaves its place, and its result is kept.
LEMMA Returned ==
    ASSUME ClockInv, NEW f \in Programming, pc = f, NEW status \in {XST_SUCCESS, XST_FAILURE},
           Return(f, status), call' = "none",
           pc' = IF result'[f] = NoResult THEN f ELSE AfterProgramming(f),
           status = XST_SUCCESS /\ Good(f) => received = Len(WriteList[f])
    PROVE  /\ Working' /\ Progress' /\ ClocksProgrammed'
           /\ step' = 0 /\ result' \in [Programming -> Results]
           /\ result'[f].status = status /\ result'[f].errors = errors
           /\ \A g \in Programming \ {f} : result'[g] = result[g]
<1> DEFINE r == [status |-> status, errors |-> errors, hidden |-> hidden,
                 programmed |-> received = Len(WriteList[f])]
<1>1. step' = 0 /\ result' = [result EXCEPT ![f] = r] /\ result \in [Programming -> Results]
  BY ClockTypes DEF Return, ClockInv
<1>2. r \in Results
  BY ClockTypes DEF ClockInv, Results
<1>3. r # NoResult /\ r.status = status /\ r.errors = errors /\ r.hidden = hidden
      /\ (r.programmed <=> received = Len(WriteList[f]))
  BY DEF NoResult, XST_SUCCESS, XST_FAILURE
<1> HIDE DEF r
<1>4. result'[f] = r /\ \A g \in Programming \ {f} : result'[g] = result[g]
  BY <1>1
<1>5. pc' = AfterProgramming(f)
  BY <1>3, <1>4
<1>6. ClocksProgrammed'
  <2> SUFFICES ASSUME NEW g \in Programming, Succeeded(g)', ~result'[g].hidden,
                      g = "ProgramSfpPhy" => ~result'[g].errors
               PROVE  result'[g].programmed
    BY DEF ClocksProgrammed
  <2>1. CASE g = f
    BY <2>1, <1>3, <1>4 DEF Succeeded, Good
  <2>2. CASE g # f
    BY <2>2, <1>4 DEF Succeeded, ClockInv, ClocksProgrammed
  <2> QED
    BY <2>1, <2>2
<1>7. Working'
  <2>1. CASE f = "ProgramSi5324"
    BY <2>1, <1>1, <1>4, <1>5, TwoFunctions DEF AfterProgramming, ClockInv, Working
  <2>2. CASE f = "ProgramSfpPhy"
    BY <2>2, <1>1, <1>5, TwoFunctions DEF AfterProgramming, Working
  <2> QED
    BY <2>1, <2>2, TwoFunctions
<1>8. Progress'
  BY <1>1 DEF Progress
<1>9. result' \in [Programming -> Results]
  BY <1>1, <1>2
<1> QED
  BY <1>1, <1>3, <1>4, <1>6, <1>7, <1>8, <1>9

\* A function that goes on is at the next place, or again at the first one of the loop that waits
\* for the link, with the same writes made.
LEMMA GoesOn ==
    ASSUME ClockInv, NEW f \in Programming, pc = f, step > 0, result[f] = NoResult, call' = "none",
           NEW n \in {step + 1, step + 2}, NEW seen \in BOOLEAN, Continue(f, n, seen),
           pc' = IF result'[f] = NoResult THEN f ELSE AfterProgramming(f),
           UNCHANGED <<owner, errors, hidden, received, bus>>,
           Good(f) => n = step + 1 /\ received = Before(f, n) /\ bus = IdleBus,
           bus = IdleBus \/ (f = "ProgramSfpPhy" /\ errors)
    PROVE  Working' /\ Progress' /\ ClocksProgrammed' /\ NoTransferOutlivesItsFunction'
           /\ step' \in 0..(Len(SiScript) + Len(SfpScript)) /\ result' \in [Programming -> Results]
<1>1. step \in Nat /\ step <= Len(Script[f]) /\ n \in Nat /\ n >= 1 /\ owner = f
      /\ Len(Script[f]) \in Nat /\ Len(Script[f]) <= Len(SiScript) + Len(SfpScript)
      /\ Len(SiScript) + Len(SfpScript) \in Nat
  <2>1. step \in Nat /\ n \in Nat /\ n >= 1
    BY ClockTypes DEF ClockInv
  <2>2. step <= Len(Script[f]) /\ owner = f
    BY DEF ClockInv, Working
  <2>3. Len(SiScript) + Len(SfpScript) \in Nat
    BY Si, Sfp, Tables
  <2> QED
    BY <2>1, <2>2, <2>3, Ends
<1>2. owner' = f /\ bus' = bus
  BY <1>1
<1>3. CASE Return(f, XST_SUCCESS) /\ n > Len(Script[f])
  <2>1. Good(f) => n = Len(Script[f]) + 1
    BY <1>1, <1>3
  <2>2. Good(f) => received = Len(WriteList[f])
    BY <2>1, Ends
  <2>3. /\ Working' /\ Progress' /\ ClocksProgrammed' /\ step' = 0 /\ result' \in [Programming -> Results]
        /\ result'[f].status = XST_SUCCESS /\ result'[f].errors = errors
    BY <1>3, <2>2, Returned
  <2>4. NoTransferOutlivesItsFunction'
    BY <1>2, <2>3 DEF NoTransferOutlivesItsFunction, ReportsFailure, Succeeded
  <2>5. 0 \in 0..(Len(SiScript) + Len(SfpScript))
    BY <1>1
  <2> QED
    BY <2>3, <2>4, <2>5
<1>4. ASSUME NEW m \in 1..Len(Script[f]), step' = m, UNCHANGED result, Good(f) => Before(f, m) = Before(f, n)
      PROVE  Working' /\ Progress' /\ ClocksProgrammed' /\ NoTransferOutlivesItsFunction'
             /\ step' \in 0..(Len(SiScript) + Len(SfpScript)) /\ result' \in [Programming -> Results]
  <2>1. pc' = f /\ step' # 0 /\ owner' = f
    BY <1>1, <1>4
  <2>2. Working'
    BY <1>1, <1>4, <2>1 DEF ClockInv, Working
  <2>3. ~Complete'
    BY DEF Complete
  <2>4. Progress'
    BY <1>4, <2>1, <2>3 DEF Progress, Good
  <2>5. ClocksProgrammed'
    BY <1>4 DEF ClockInv, ClocksProgrammed, Succeeded
  <2>6. NoTransferOutlivesItsFunction'
    BY <1>4, <2>1 DEF NoTransferOutlivesItsFunction
  <2> QED
    BY <1>1, <1>4, <2>2, <2>4, <2>5, <2>6, ClockTypes DEF ClockInv
<1>5. CASE f = "ProgramSfpPhy" /\ n = PollAt + 2 /\ ~seen
  <2>1. step' = PollAt /\ UNCHANGED result
    BY <1>5 DEF Continue
  <2>2. PollAt \in 1..Len(Script[f]) /\ Before(f, PollAt) = Before(f, n)
    BY <1>5, Poll
  <2> QED
    BY <1>4, <2>1, <2>2
<1>6. CASE n <= Len(Script[f]) /\ step' = n /\ UNCHANGED result
  BY <1>1, <1>4, <1>6
<1> QED
  BY <1>1, <1>3, <1>5, <1>6 DEF Continue

\* Setting up the hardware begins the list, or the function fails.
LEMMA SetUpStep ==
    ASSUME ClockInv, NEW f \in Programming, pc = f, NEW configured \in BOOLEAN, NEW works \in BOOLEAN,
           SetUp(f, configured, works), pc' = IF result'[f] = NoResult THEN f ELSE AfterProgramming(f)
    PROVE  ClockInv'
<1>1. /\ step = 0 /\ result[f] = NoResult /\ received' = 0 /\ phy_read_val' = FALSE /\ RdBuffer' = FALSE
      /\ call = "none" /\ call' = "none" /\ UNCHANGED <<mux, phyUp>>
  BY DEF SetUp, I2cSetupHardware, ClockInv, Working
<1>2. CASE configured /\ works
  <2>1. /\ step' = 1 /\ result' = result /\ bus' = IdleBus /\ owner' = f
        /\ TransmitComplete' = FALSE /\ ReceiveComplete' = FALSE /\ errors' = FALSE /\ hidden' = FALSE
    BY <1>2 DEF SetUp, I2cSetupHardware, SetupInterruptSystem
  <2>2. pc' = f /\ 1 <= Len(Script[f]) /\ 1 \in 0..(Len(SiScript) + Len(SfpScript)) /\ Before(f, 1) = 0
        /\ 0 \in 0..(Len(SiScript) + Len(SfpScript))
    BY <1>1, <2>1, Ends
  <2>3. I2cTypeOK(AllTransfers)'
    BY <1>1, <2>1, TwoFunctions DEF I2cTypeOK
  <2>4. ClocksTypeOK'
    BY <1>1, <2>1, <2>2, <2>3 DEF ClocksTypeOK, ClockInv
  <2>5. Working'
    BY <1>1, <2>1, <2>2 DEF Working, ClockInv
  <2>6. Progress'
    BY <1>1, <2>1, <2>2 DEF Progress, Complete
  <2>7. NoTransferOutlivesItsFunction' /\ ClocksProgrammed'
    BY <2>1 DEF NoTransferOutlivesItsFunction, ReportsFailure, ClocksProgrammed, Succeeded, ClockInv
  <2> QED
    BY <2>4, <2>5, <2>6, <2>7 DEF ClockInv
<1>3. CASE ~(configured /\ works)
  <2>1. /\ Return(f, XST_FAILURE) /\ UNCHANGED <<TransmitComplete, ReceiveComplete, errors, hidden>>
        /\ bus' \in {bus, IdleBus} /\ owner' \in {owner, f}
    BY <1>3 DEF SetUp, I2cSetupHardware, SetupInterruptSystem, flags
  <2>2. XST_FAILURE # XST_SUCCESS
    BY DEF XST_SUCCESS, XST_FAILURE
  <2>3. /\ Working' /\ Progress' /\ ClocksProgrammed' /\ step' = 0 /\ result' \in [Programming -> Results]
        /\ result'[f].status = XST_FAILURE /\ \A g \in Programming \ {f} : result'[g] = result[g]
    BY <1>1, <2>1, <2>2, Returned
  <2>4. bus # IdleBus => owner \in Programming /\ ReportsFailure(owner)
    BY <1>1 DEF ClockInv, NoTransferOutlivesItsFunction
  <2>5. NoTransferOutlivesItsFunction'
    <3>1. CASE owner' = f
      BY <2>3, <3>1 DEF NoTransferOutlivesItsFunction, ReportsFailure
    <3>2. CASE owner' = owner /\ owner # f
      BY <2>1, <2>3, <2>4, <3>2 DEF NoTransferOutlivesItsFunction, ReportsFailure, Succeeded
    <3> QED
      BY <2>1, <3>1, <3>2
  <2>6. I2cTypeOK(AllTransfers)'
    BY <1>1, <2>1, TwoFunctions DEF I2cTypeOK, ClockInv, ClocksTypeOK
  <2>7. ClocksTypeOK'
    <3>1. 0 \in 0..(Len(SiScript) + Len(SfpScript))
      BY Ends
    <3> QED
      BY <1>1, <2>3, <2>6, <3>1 DEF ClocksTypeOK, ClockInv, Programming
  <2> QED
    BY <2>3, <2>5, <2>7 DEF ClockInv
<1> QED
  BY <1>2, <1>3

\* A transfer that is started takes the bus, unless an earlier one has failed.
LEMMA StartStep ==
    ASSUME ClockInv, NEW f \in Programming, pc = f, StartTransfer(f), result[f] = NoResult,
           pc' = IF result'[f] = NoResult THEN f ELSE AfterProgramming(f)
    PROVE  ClockInv'
<1> DEFINE t == Script[f][step]
<1>1. /\ step > 0 /\ call = "none" /\ UNCHANGED <<step, RdBuffer, phy_read_val, mux, phyUp, received, result>>
      /\ UNCHANGED <<errors, hidden, owner>>
      /\ bus' \in IF bus = IdleBus THEN {Busy(t)} ELSE {bus, Busy(t)}
  BY DEF StartTransfer, StartSend, StartReceive, MasterTransfer, devices
<1>2. step \in 1..Len(Script[f]) /\ owner = f
  BY <1>1, ClockTypes DEF ClockInv, Working
<1>3. t \in AllTransfers /\ t.dir \in {"send", "recv"}
  BY <1>2, AtPlace DEF IsPlace
<1>4. /\ t.dir = "send" => /\ call' = "wait_send" /\ TransmitComplete' = FALSE
                            /\ ReceiveComplete' = ReceiveComplete
      /\ t.dir = "recv" => /\ call' = "wait_recv" /\ ReceiveComplete' = FALSE
                            /\ TransmitComplete' = TransmitComplete
  BY DEF StartTransfer, StartSend, StartReceive
<1>5. pc' = f
  BY <1>1
<1> HIDE DEF t
<1>6. I2cTypeOK(AllTransfers)'
  <2>1. bus' \in {bus, Busy(t)}
    BY <1>1
  <2> QED
    BY <1>1, <1>3, <1>4, <2>1 DEF ClockInv, ClocksTypeOK, I2cTypeOK
<1>7. ClocksTypeOK'
  BY <1>1, <1>6 DEF ClockInv, ClocksTypeOK
<1>8. Working'
  BY <1>1, <1>2, <1>3, <1>4, <1>5 DEF ClockInv, Working, t
<1>9. Progress'
  <2>1. ~Complete'
    BY <1>3, <1>4 DEF Complete
  <2>2. Good(pc)' => bus = IdleBus /\ received = Before(pc, step)
    BY <1>1, <1>5 DEF ClockInv, Progress, Good
  <2>3. Good(pc)' => bus' = Busy(t)
    BY <1>1, <2>2
  <2>4. call' # "none" /\ call' # "wait_idle"
    BY <1>3, <1>4
  <2>5. Busy(t).transfer = t
    BY DEF Busy
  <2> QED
    BY <1>1, <1>5, <2>1, <2>2, <2>3, <2>4, <2>5 DEF Progress, t
<1>10. NoTransferOutlivesItsFunction' /\ ClocksProgrammed'
  BY <1>1, <1>2, <1>5 DEF ClockInv, NoTransferOutlivesItsFunction, ReportsFailure, ClocksProgrammed, Succeeded
<1> QED
  BY <1>7, <1>8, <1>9, <1>10 DEF ClockInv

\* The first loop of a driver call ends: the transfer is complete.
LEMMA AwaitStep ==
    ASSUME ClockInv, NEW f \in Programming, pc = f, AwaitIdle, result[f] = NoResult,
           pc' = IF result'[f] = NoResult THEN f ELSE AfterProgramming(f)
    PROVE  ClockInv'
<1>1. /\ Complete /\ call' = "wait_idle" /\ UNCHANGED <<step, RdBuffer, phy_read_val, mux, phyUp, received, result>>
      /\ UNCHANGED <<TransmitComplete, ReceiveComplete, errors, hidden, owner, bus>>
  BY DEF AwaitIdle, SeeComplete, devices, flags
<1>2. pc' = f /\ step # 0
  BY <1>1 DEF Complete, ClockInv, Working
<1>3. ClocksTypeOK'
  <2>1. I2cTypeOK(AllTransfers)'
    BY <1>1 DEF ClockInv, ClocksTypeOK, I2cTypeOK
  <2> QED
    BY <1>1, <2>1 DEF ClockInv, ClocksTypeOK
<1>4. Working'
  BY <1>1, <1>2 DEF ClockInv, Working
<1>5. Progress'
  BY <1>1, <1>2 DEF ClockInv, Progress, Good
<1>6. NoTransferOutlivesItsFunction' /\ ClocksProgrammed'
  BY <1>1, <1>2 DEF ClockInv, NoTransferOutlivesItsFunction, ReportsFailure, ClocksProgrammed, Succeeded
<1> QED
  BY <1>3, <1>4, <1>5, <1>6 DEF ClockInv

\* The second loop ends with an idle bus: the function goes on.
LEMMA SuccessStep ==
    ASSUME ClockInv, NEW f \in Programming, pc = f, TransferSucceeds(f), result[f] = NoResult,
           pc' = IF result'[f] = NoResult THEN f ELSE AfterProgramming(f)
    PROVE  ClockInv'
<1>1. /\ call = "wait_idle" /\ bus = IdleBus /\ call' = "none"
      /\ UNCHANGED <<TransmitComplete, ReceiveComplete, errors, hidden, owner, bus>>
      /\ UNCHANGED <<RdBuffer, mux, phyUp, received>>
      /\ phy_read_val' \in {RdBuffer, phy_read_val}
      /\ Continue(f, step + 1, phy_read_val')
  BY DEF TransferSucceeds, ReturnSuccess, devices, flags
<1>2. step > 0 /\ step \in Nat /\ phy_read_val' \in BOOLEAN
  BY <1>1, ClockTypes DEF ClockInv, Working
<1>3. Good(f) => received = Before(f, step + 1)
  BY <1>1, <1>2 DEF ClockInv, Progress
<1>4. Working' /\ Progress' /\ ClocksProgrammed' /\ NoTransferOutlivesItsFunction'
      /\ step' \in 0..(Len(SiScript) + Len(SfpScript)) /\ result' \in [Programming -> Results]
  BY <1>1, <1>2, <1>3, GoesOn
<1>5. ClocksTypeOK'
  <2>1. I2cTypeOK(AllTransfers)'
    BY <1>1 DEF ClockInv, ClocksTypeOK, I2cTypeOK
  <2> QED
    BY <1>1, <1>2, <1>4, <2>1 DEF ClockInv, ClocksTypeOK, Programming
<1> QED
  BY <1>4, <1>5 DEF ClockInv

\* A driver call that sees an error returns a failure: the function returns or ignores it.
LEMMA FailureStep ==
    ASSUME ClockInv, NEW f \in Programming, pc = f, TransferFails(f), result[f] = NoResult,
           pc' = IF result'[f] = NoResult THEN f ELSE AfterProgramming(f)
    PROVE  ClockInv'
<1>1. /\ call \in {"wait_send", "wait_recv"} /\ errors /\ call' = "none"
      /\ UNCHANGED <<TransmitComplete, ReceiveComplete, errors, hidden, owner, bus>>
      /\ UNCHANGED <<RdBuffer, phy_read_val, mux, phyUp, received>>
  BY DEF TransferFails, ReturnFailure, devices, flags
<1>2. step > 0 /\ step \in 1..Len(Script[f]) /\ phy_read_val \in BOOLEAN
  BY <1>1, ClockTypes DEF ClockInv, Working
<1>3. /\ Script[f][step].fail \in {"return", "ignore", "skip"}
      /\ f = "ProgramSi5324" => Script[f][step].fail = "return"
  BY <1>2, AtPlace DEF IsPlace
<1>4. XST_FAILURE # XST_SUCCESS
  BY DEF XST_FAILURE, XST_SUCCESS
<1>5. Working' /\ Progress' /\ ClocksProgrammed' /\ NoTransferOutlivesItsFunction'
      /\ step' \in 0..(Len(SiScript) + Len(SfpScript)) /\ result' \in [Programming -> Results]
  <2>1. CASE Script[f][step].fail = "return"
    <3>1. Return(f, XST_FAILURE)
      BY <2>1 DEF TransferFails
    <3>2. /\ Working' /\ Progress' /\ ClocksProgrammed' /\ step' = 0 /\ result' \in [Programming -> Results]
          /\ result'[f].status = XST_FAILURE
      BY <1>1, <1>4, <3>1, Returned
    <3>4. NoTransferOutlivesItsFunction'
      BY <1>1, <1>2, <3>2 DEF NoTransferOutlivesItsFunction, ReportsFailure, ClockInv, Working
    <3>3. 0 \in 0..(Len(SiScript) + Len(SfpScript))
      BY Ends
    <3> QED
      BY <3>2, <3>3, <3>4
  <2>2. CASE Script[f][step].fail # "return"
    <3>1. PICK n \in {step + 1, step + 2} : Continue(f, n, phy_read_val)
      BY <1>3, <2>2 DEF TransferFails
    <3>2. ~Good(f) /\ f = "ProgramSfpPhy"
      BY <1>1, <1>3, <2>2, TwoFunctions DEF Good
    <3> QED
      BY <1>1, <1>2, <3>1, <3>2, GoesOn
  <2> QED
    BY <2>1, <2>2
<1>6. ClocksTypeOK'
  <2>1. I2cTypeOK(AllTransfers)'
    BY <1>1 DEF ClockInv, ClocksTypeOK, I2cTypeOK
  <2> QED
    BY <1>1, <1>5, <2>1 DEF ClockInv, ClocksTypeOK, Programming
<1> QED
  BY <1>5, <1>6 DEF ClockInv

\* An interrupt of the transfer that runs sets the flag its function waits for, and delivers.
LEMMA InterruptStep ==
    ASSUME ClockInv, pc \in Programming, owner = pc, TransferInterrupt(pc), pc' = pc
    PROVE  ClockInv'
<1> DEFINE t == bus.transfer
           now == Script[pc][step]
<1>1. PICK event \in Events(t, Reachable(t)) :
             /\ I2cInterrupt(event)
             /\ IF Error \in event THEN UNCHANGED <<mux, received, RdBuffer>> ELSE Deliver(pc, t)
  BY DEF TransferInterrupt
<1>2. bus.phase = "busy" /\ UNCHANGED <<step, phy_read_val, phyUp, result>>
  BY DEF TransferInterrupt
<1>3. /\ StatusHandler(event) /\ UNCHANGED <<owner, call>>
      /\ bus' \in IF Done(t) \in event THEN {Stopping} ELSE {bus, Stopping}
  BY <1>1 DEF I2cInterrupt
<1>4. t \in AllTransfers /\ bus = Busy(t) /\ bus # IdleBus /\ step \in Nat
  BY <1>2, ClockTypes DEF ClockInv, IdleBus
<1>5. Done(t) \in {"COMPLETE_SEND", "COMPLETE_RECV"} /\ Error \notin {"COMPLETE_SEND", "COMPLETE_RECV"}
  BY DEF Done, Error
<1>6. event \in {{Error}, {Done(t), Error}, {Done(t)}}
  BY DEF Events
<1> HIDE DEF t
<1>7. /\ errors' \in BOOLEAN /\ hidden' \in BOOLEAN /\ TransmitComplete' \in BOOLEAN /\ ReceiveComplete' \in BOOLEAN
      /\ (errors => errors') /\ (hidden => hidden')
  BY <1>3, ClockTypes DEF StatusHandler, ClockInv
<1>8. NoTransferOutlivesItsFunction'
  BY <1>2, <1>3, <1>4 DEF NoTransferOutlivesItsFunction, ReportsFailure, Succeeded, ClockInv
<1>9. ClocksProgrammed'
  BY <1>2 DEF ClocksProgrammed, Succeeded, ClockInv
<1>10. Working'
  BY <1>2, <1>3 DEF Working, ClockInv
<1>11. /\ mux' \in {"none", "si5324", "sfp", "other"} /\ RdBuffer' \in BOOLEAN
       /\ received' \in 0..(Len(SiScript) + Len(SfpScript)) \cup {Spoilt}
  <2>1. /\ mux \in {"none", "si5324", "sfp", "other"} /\ RdBuffer \in BOOLEAN /\ phyUp \in BOOLEAN
        /\ received \in 0..(Len(SiScript) + Len(SfpScript)) \cup {Spoilt}
    BY DEF ClockInv, ClocksTypeOK
  <2>2. Arrive(WriteList[pc], t) \in 0..(Len(SiScript) + Len(SfpScript)) \cup {Spoilt}
    BY <2>1, Ends DEF Arrive
  <2>3. CASE Deliver(pc, t)
    BY <2>1, <2>2, <2>3 DEF Deliver
  <2> QED
    BY <1>1, <2>1, <2>3 DEF t
<1>12. ClocksTypeOK'
  <2>1. bus' \in {bus, Stopping}
    BY <1>3
  <2>2. I2cTypeOK(AllTransfers)'
    BY <1>3, <1>7, <2>1 DEF ClockInv, ClocksTypeOK, I2cTypeOK
  <2> QED
    BY <1>2, <1>11, <2>2 DEF ClockInv, ClocksTypeOK
<1>13. Progress'
  <2> SUFFICES ASSUME step' > 0, Good(pc)'
               PROVE  /\ call' = "none" => bus' = IdleBus /\ received' = Before(pc', step')
                      /\ call' = "wait_idle" \/ Complete' => bus'.phase # "busy" /\ received' = Before(pc', step' + 1)
                      /\ call' # "none" /\ call' # "wait_idle" /\ ~Complete' =>
                            /\ received' = Before(pc', step')
                            /\ bus'.phase = "busy" => bus'.transfer = Script[pc'][step']
    BY DEF Progress
  <2>0. step > 0 /\ step' = step /\ call' = call
    BY <1>2, <1>3
  <2>1. Good(pc) /\ ~hidden'
    BY <1>7 DEF Good
  <2>2. call # "none" /\ call # "wait_idle" /\ ~Complete /\ received = Before(pc, step) /\ t = now
    BY <2>0, <1>2, <1>4, <2>1 DEF Progress, ClockInv, t
  <2>3. call \in {"wait_send", "wait_recv"}
    BY <2>2 DEF ClockInv, ClocksTypeOK, I2cTypeOK
  <2>4. IsPlace(pc, step, t)
    BY <1>4, <2>2, AtPlace DEF ClockInv, Working
  <2>5. /\ call = "wait_send" => t.dir = "send" /\ ~TransmitComplete
        /\ call = "wait_recv" => t.dir = "recv" /\ ~ReceiveComplete
    BY <2>0, <2>2 DEF Complete, ClockInv, Working
  <2>6. Stopping.phase # "busy"
    BY DEF Stopping
  <2>7. CASE event = {Error}
    <3>1. ~Complete' /\ received' = received
      BY <1>1, <1>3, <1>5, <2>2, <2>5, <2>7 DEF StatusHandler, Complete
    <3>2. bus' \in {bus, Stopping}
      BY <1>3
    <3>3. bus'.phase = "busy" => bus'.transfer = now
      BY <2>2, <2>6, <3>2 DEF t
    <3> QED
      BY <2>0, <2>2, <3>1, <3>3
  <2>8. CASE event = {Done(t)}
    <3>1. Deliver(pc, t) /\ bus' = Stopping
      BY <1>1, <1>3, <1>5, <2>8 DEF t
    <3>2. Complete'
      BY <1>3, <2>3, <2>5, <2>8 DEF StatusHandler, Complete, Done
    <3>3. received' = Before(pc, step + 1)
      <4>1. CASE t.slave = "mux"
        BY <2>2, <2>4, <3>1, <4>1 DEF Deliver, IsPlace, IsWrite
      <4>2. CASE t.slave # "mux" /\ t.dir = "recv"
        BY <2>2, <2>4, <3>1, <4>2 DEF Deliver, IsPlace, IsWrite
      <4>3. CASE t.slave # "mux" /\ t.dir # "recv" /\ Len(t.data) # 2
        BY <2>2, <2>4, <3>1, <4>3 DEF Deliver, IsPlace, IsWrite
      <4>4. CASE t.slave # "mux" /\ t.dir # "recv" /\ Len(t.data) = 2
        <5>1. received' = Arrive(WriteList[pc], t) /\ IsWrite(t)
          BY <3>1, <4>4 DEF Deliver, IsWrite
        <5> QED
          BY <2>2, <2>4, <5>1 DEF IsPlace, Arrive, Spoilt
      <4> QED
        BY <4>1, <4>2, <4>3, <4>4
    <3> QED
      BY <2>0, <2>2, <2>6, <3>1, <3>2, <3>3
  <2>9. CASE event = {Done(t), Error}
    BY <1>3, <1>5, <2>1, <2>9 DEF StatusHandler
  <2> QED
    BY <1>6, <2>7, <2>8, <2>9
<1> QED
  BY <1>8, <1>9, <1>10, <1>12, <1>13 DEF ClockInv

\* The other steps: the clocks are left alone, or the bus becomes idle, or the link comes up, or all
\* is forgotten.
LEMMA ClocksRest ==
    ASSUME ClockInv, UNCHANGED clockVars, pc' = pc \/ (step = 0 /\ pc' \notin Programming)
    PROVE  ClockInv'
<1>1. /\ UNCHANGED <<TransmitComplete, ReceiveComplete, errors, hidden, owner, call, bus>>
      /\ UNCHANGED <<step, RdBuffer, phy_read_val, mux, phyUp, received, result>>
  BY DEF clockVars, i2cVars, devices
<1>2. ClocksTypeOK'
  BY <1>1 DEF ClockInv, ClocksTypeOK, I2cTypeOK
<1>3. Working'
  BY <1>1, TwoFunctions DEF ClockInv, Working
<1>4. Progress'
  BY <1>1, ClockTypes DEF ClockInv, Progress, Good, Complete
<1>5. NoTransferOutlivesItsFunction' /\ ClocksProgrammed'
  BY <1>1 DEF ClockInv, NoTransferOutlivesItsFunction, ReportsFailure, ClocksProgrammed, Succeeded
<1> QED
  BY <1>2, <1>3, <1>4, <1>5 DEF ClockInv

\* The bus becomes idle after a transfer.
LEMMA BusStep ==
    ASSUME ClockInv, BusBecomesIdle, pc' = pc
    PROVE  ClockInv'
<1>1. /\ UNCHANGED <<TransmitComplete, ReceiveComplete, errors, hidden, owner, call>> /\ bus = Stopping
      /\ UNCHANGED <<step, RdBuffer, phy_read_val, mux, phyUp, received, result>> /\ bus' = IdleBus
  BY DEF BusBecomesIdle, BusStops, flags, devices
<1>2. ClocksTypeOK'
  BY <1>1 DEF ClockInv, ClocksTypeOK, I2cTypeOK
<1>3. Working'
  BY <1>1 DEF ClockInv, Working
<1>4. IdleBus.phase # "busy" /\ Stopping # IdleBus
  BY DEF IdleBus, Stopping
<1>5. Progress'
  BY <1>1, <1>4 DEF ClockInv, Progress, Good, Complete
<1>6. NoTransferOutlivesItsFunction' /\ ClocksProgrammed'
  BY <1>1 DEF ClockInv, NoTransferOutlivesItsFunction, ReportsFailure, ClocksProgrammed, Succeeded
<1> QED
  BY <1>2, <1>3, <1>5, <1>6 DEF ClockInv

\* The PHY's link comes up.
LEMMA LinkStep ==
    ASSUME ClockInv, PhyComesUp, pc' = pc
    PROVE  ClockInv'
<1>1. /\ UNCHANGED <<TransmitComplete, ReceiveComplete, errors, hidden, owner, call, bus>>
      /\ UNCHANGED <<step, RdBuffer, phy_read_val, mux, received, result>> /\ phyUp' = TRUE
  BY DEF PhyComesUp, i2cVars
<1>2. ClocksTypeOK'
  BY <1>1 DEF ClockInv, ClocksTypeOK, I2cTypeOK
<1>3. Working' /\ Progress'
  BY <1>1 DEF ClockInv, Working, Progress, Good, Complete
<1>4. NoTransferOutlivesItsFunction' /\ ClocksProgrammed'
  BY <1>1 DEF ClockInv, NoTransferOutlivesItsFunction, ReportsFailure, ClocksProgrammed, Succeeded
<1> QED
  BY <1>2, <1>3, <1>4 DEF ClockInv

\* The interrupts are set up anew: what the functions kept is forgotten.
LEMMA LeavingStep ==
    ASSUME ClockInv, ClocksAreLeft, pc \notin Programming, pc' \notin Programming
    PROVE  ClockInv'
<1>1. /\ TransmitComplete' = FALSE /\ ReceiveComplete' = FALSE /\ errors' = FALSE /\ hidden' = FALSE
      /\ owner' = NoFunction /\ call' = "none" /\ bus' = IdleBus
      /\ RdBuffer' = FALSE /\ phy_read_val' = FALSE /\ received' = 0
      /\ result' = [f \in Programming |-> NoResult] /\ UNCHANGED <<step, mux, phyUp>>
  BY DEF ClocksAreLeft, I2cIsLeft, Programming
<1>2. step = 0 /\ step' = 0
  BY <1>1, ClockTypes DEF ClockInv, Working
<1>3. ClocksTypeOK'
  <2>1. 0 \in 0..(Len(SiScript) + Len(SfpScript))
    BY Ends, TwoFunctions
  <2>2. I2cTypeOK(AllTransfers)'
    BY <1>1 DEF I2cTypeOK, NoFunction
  <2>3. result' \in [DOMAIN Script -> Results]
    BY <1>1 DEF Results, Programming
  <2> QED
    BY <1>1, <2>1, <2>2, <2>3 DEF ClockInv, ClocksTypeOK
<1>4. Working' /\ Progress'
  BY <1>1, <1>2, TwoFunctions DEF Working, Progress
<1>5. NoTransferOutlivesItsFunction'
  BY <1>1 DEF NoTransferOutlivesItsFunction
<1>6. ClocksProgrammed'
  <2>1. NoResult.status # XST_SUCCESS
    BY DEF NoResult, XST_SUCCESS
  <2> QED
    BY <1>1, <2>1 DEF ClocksProgrammed, Succeeded
<1> QED
  BY <1>3, <1>4, <1>5, <1>6 DEF ClockInv

-----------------------------------------------------------------------------

\* What a build says.
LEMMA BuildFields ==
    ASSUME build \in Builds
    PROVE  /\ build.platform \in {"microblaze", "zynq", "zynqmp"} /\ build.sfp \in BOOLEAN
           /\ build.zcu102 \in BOOLEAN /\ build.dhcp \in BOOLEAN /\ build.rxreset \in BOOLEAN
  BY BuildsAssumption

\* The timer's interrupt keeps its counters in range, and counts the DHCP ticks down to zero.
LEMMA InterruptTypes ==
    ASSUME TimersTypeOK, build \in Builds, TimerInterrupt(build)
    PROVE  TimersTypeOK' /\ (dhcp_timoutcntr' \in {dhcp_timoutcntr, dhcp_timoutcntr - 1})
           /\ (~(build.dhcp /\ SlowTick) \/ dhcp_timoutcntr = 0 => dhcp_timoutcntr' = dhcp_timoutcntr)
<1>1. /\ timer_callback(build) /\ timer' = "running" /\ UNCHANGED <<handler, interrupts>>
      /\ ResetRxCntr' \in {ResetRxCntr, 0}
                          \cup (IF ResetRxCntr + 1 >= RESET_RX_CNTR_LIMIT THEN {} ELSE {ResetRxCntr + 1})
  <2>1. CASE build.platform = "microblaze"
    BY <2>1 DEF TimerInterrupt, MicroBlazeHandler
  <2>2. CASE build.platform = "zynq"
    BY <2>2, BuildFields DEF TimerInterrupt, ZynqCallback, RxReset
  <2>3. CASE build.platform = "zynqmp"
    BY <2>3 DEF TimerInterrupt, ZynqMPCallback, platform_clear_interrupt
  <2> QED
    BY <2>1, <2>2, <2>3, BuildFields
<1>2. /\ DetectEthLinkStatus' \in 0..ETH_LINK_DETECT_INTERVAL - 1
      /\ ResetRxCntr' \in 0..RESET_RX_CNTR_LIMIT - 1
  BY <1>1, Limits DEF TimersTypeOK, timer_callback, LinkDetect
<1>3. TcpFastTmrFlag' \in BOOLEAN /\ TcpSlowTmrFlag' \in BOOLEAN /\ odd' \in BOOLEAN
  BY <1>1 DEF TimersTypeOK, timer_callback, SlowTick
<1>4. /\ dhcp_timer' \in 0..CoarseTicks - 1 /\ dhcp_timoutcntr' \in 0..DhcpTimeout
      /\ (dhcp_timoutcntr' \in {dhcp_timoutcntr, dhcp_timoutcntr - 1})
      /\ (~(build.dhcp /\ SlowTick) \/ dhcp_timoutcntr = 0 => dhcp_timoutcntr' = dhcp_timoutcntr)
  BY <1>1, Limits DEF TimersTypeOK, timer_callback, CoarseCall
<1> QED
  BY <1>1, <1>2, <1>3, <1>4 DEF TimersTypeOK

\* The states after the address has been settled.
Settled == {"start_application"} \cup Serving

\* The way to an address: with DHCP, the ticks that were counted and those the counter still holds
\* make up the full time, and the default address is only stored when none are left.
AddressInv ==
    /\ build.zcu102 /\ pc \in Booting \cup GettingAddress \cup Settled \cup {"dhcp_set_timeout"} =>
          pc = "IicPhyReset" \/ expander = "released"
    /\ pc \in Settled => ip_addr # NoAddress
    /\ build.dhcp =>
          /\ pc \in {"dhcp_wait", "dhcp_input", "dhcp_check", "dhcp_default"} =>
                waited + dhcp_timoutcntr >= DhcpTimeout
          /\ pc = "dhcp_check" => ip_addr # NoAddress \/ dhcp_timoutcntr = 0
          /\ pc = "dhcp_default" => dhcp_timoutcntr = 0
          /\ ip_addr = "default" => waited = DhcpTimeout /\ pc \in Settled
    /\ ~build.dhcp =>
          /\ pc \in {"enable", "netif_set_up"} \cup Settled => ip_addr = "default"
          /\ pc \notin GettingAddress \cup {"dhcp_set_timeout"}

\* The types of the variables of main.
BootTypes ==
    /\ build \in Builds
    /\ pc \in Programming \cup Booting \cup GettingAddress \cup Settled
              \cup {"dhcp_set_timeout", "returned", "undefined"}
    /\ expander \in {"reset", "outputs", "released"}
    /\ ip_addr \in {NoAddress, "default", "leased"}
    /\ waited \in 0..DhcpTimeout
    /\ application \in {"none", "listening", "failed"}

\* The inductive invariant.
IInv == ClockInv /\ TimersTypeOK /\ BootTypes /\ AddressInv

\* The invariant has the types.
LEMMA Typed ==
    ASSUME IInv
    PROVE  TypeOK
  BY DEF IInv, ClockInv, BootTypes, Settled, TypeOK

-----------------------------------------------------------------------------

\* The invariant holds when the program starts.
LEMMA AtStart ==
    ASSUME Init
    PROVE  IInv
<1>1. TypeOK /\ Working
  BY TypeAtStart
<1>2. step = 0 /\ bus = IdleBus /\ pc \in {"ProgramSi5324", "IicPhyReset"} /\ ip_addr = NoAddress
      /\ \A f \in Programming : result[f] = NoResult
  BY TwoFunctions DEF Init, ClocksInit, I2cInit
<1>3. Progress
  BY <1>2 DEF Progress
<1>4. NoTransferOutlivesItsFunction
  BY <1>2 DEF NoTransferOutlivesItsFunction
<1>5. ClocksProgrammed
  <2>1. NoResult.status # XST_SUCCESS
    BY DEF NoResult, XST_SUCCESS
  <2> QED
    BY <1>2, <2>1 DEF ClocksProgrammed, Succeeded
<1>6. BootTypes
  BY <1>1 DEF TypeOK, BootTypes, Settled
<1>7. AddressInv
  BY <1>2 DEF AddressInv, Booting, GettingAddress, Settled, Serving, NoAddress
<1> QED
  BY <1>1, <1>3, <1>4, <1>5, <1>6, <1>7 DEF IInv, ClockInv, TypeOK

\* A step of a programming function keeps what is said of the clocks.
LEMMA ProgramClocks ==
    ASSUME ClockInv, NEW f \in Programming, Program(f)
    PROVE  ClockInv'
<1>1. pc = f /\ ClockStep(f) /\ pc' = IF result'[f] = NoResult THEN f ELSE AfterProgramming(f)
  BY DEF Program
<1>2. result[f] = NoResult
  BY <1>1 DEF ClockInv, Working
<1>3. CASE \E configured, works \in BOOLEAN : SetUp(f, configured, works)
  <2>1. PICK configured \in BOOLEAN, works \in BOOLEAN : SetUp(f, configured, works)
    BY <1>3
  <2> QED
    BY <1>1, <2>1, SetUpStep
<1>4. CASE StartTransfer(f)
  BY <1>1, <1>2, <1>4, StartStep
<1>5. CASE AwaitIdle
  BY <1>1, <1>2, <1>5, AwaitStep
<1>6. CASE TransferSucceeds(f)
  BY <1>1, <1>2, <1>6, SuccessStep
<1>7. CASE TransferFails(f)
  BY <1>1, <1>2, <1>7, FailureStep
<1> QED
  BY <1>1, <1>3, <1>4, <1>5, <1>6, <1>7 DEF ClockStep

\* A step of a programming function is before everything about addresses.
LEMMA ProgramStep ==
    ASSUME IInv, NEW f \in Programming, Program(f)
    PROVE  IInv'
<1>1. ClockInv'
  BY ProgramClocks DEF IInv
<1>2. /\ pc \in Programming /\ pc' \in Programming \cup {"IicPhyReset"}
      /\ UNCHANGED <<build, expander, ip_addr, waited, application>> /\ UNCHANGED timerVars
  BY TwoFunctions DEF Program, AfterProgramming
<1>3. TimersTypeOK'
  BY <1>2 DEF IInv, TimersTypeOK, timerVars, hardware, counters
<1>4. BootTypes'
  BY <1>2 DEF IInv, BootTypes, Booting
<1>5. AddressInv'
  BY <1>2, TwoFunctions DEF IInv, AddressInv, Booting, GettingAddress, Settled, Serving
<1> QED
  BY <1>1, <1>3, <1>4, <1>5 DEF IInv

\* A step between the boot's states that leaves the clocks alone.
LEMMA Moved ==
    ASSUME IInv, pc \notin Programming, pc' \notin Programming, UNCHANGED clockVars
    PROVE  ClockInv'
<1>1. step = 0
  BY ClockTypes DEF IInv, ClockInv, Working
<1> QED
  BY <1>1, ClocksRest DEF IInv

\* A step that leaves the timers alone.
LEMMA TimersRest ==
    ASSUME TimersTypeOK, UNCHANGED timerVars
    PROVE  TimersTypeOK' /\ dhcp_timoutcntr' = dhcp_timoutcntr /\ dhcp_timoutcntr \in 0..DhcpTimeout
  BY DEF TimersTypeOK, timerVars, hardware, counters

\* The PHY's reset lines of a ZCU102 are released before the platform is set up.
LEMMA ResetStep ==
    ASSUME IInv, IicPhyReset
    PROVE  IInv'
<1>1. /\ pc = "IicPhyReset" /\ pc' \in {"IicPhyReset", "init_platform", "returned"}
      /\ UNCHANGED <<build, ip_addr, waited, application>> /\ UNCHANGED timerVars /\ UNCHANGED clockVars
      /\ expander' \in {expander, "outputs", "released"}
      /\ build.zcu102 /\ pc' = "init_platform" => expander' = "released"
  BY DEF IicPhyReset
<1>2. ClockInv'
  BY <1>1, Moved, TwoFunctions
<1>3. TimersTypeOK'
  BY <1>1, TimersRest DEF IInv
<1>4. BootTypes'
  BY <1>1 DEF IInv, BootTypes, Booting
<1>5. AddressInv'
  BY <1>1, TwoFunctions DEF IInv, AddressInv, Booting, GettingAddress, Settled, Serving
<1> QED
  BY <1>2, <1>3, <1>4, <1>5 DEF IInv

\* The platform is set up, with or without a timer.
LEMMA InitPlatformStep ==
    ASSUME IInv, InitPlatform
    PROVE  IInv'
<1>1. PICK works \in BOOLEAN : init_platform(build, works)
  BY DEF InitPlatform
<1>2. /\ pc = "init_platform" /\ pc' = "xemac_add" /\ ClocksAreLeft
      /\ UNCHANGED <<build, expander, ip_addr, waited, application>>
  BY DEF InitPlatform
<1>3. ClockInv'
  BY <1>2, LeavingStep, TwoFunctions DEF IInv
<1>4. /\ timer' \in {"running", "loaded", "off"} /\ handler' = TRUE
      /\ UNCHANGED <<interrupts, TcpFastTmrFlag, TcpSlowTmrFlag>> /\ UNCHANGED counters /\ UNCHANGED dhcp_timoutcntr
  <2>1. build.platform \in {"microblaze", "zynq", "zynqmp"}
    BY BuildFields DEF IInv, BootTypes
  <2>2. CASE build.platform = "microblaze"
    BY <1>1, <2>2 DEF init_platform, MicroBlazeSetupInterrupts, MicroBlazeSetupTimer
  <2>3. CASE build.platform = "zynq"
    BY <1>1, <2>3 DEF init_platform, ZynqSetupTimer, ZynqSetupInterrupts
  <2>4. CASE build.platform = "zynqmp"
    BY <1>1, <2>4 DEF init_platform, ZynqMPSetupTimer, ZynqMPSetupInterrupts
  <2> QED
    BY <2>1, <2>2, <2>3, <2>4
<1>5. TimersTypeOK'
  BY <1>4 DEF IInv, TimersTypeOK, counters
<1>6. BootTypes'
  BY <1>2 DEF IInv, BootTypes, Booting
<1>7. AddressInv'
  BY <1>2 DEF IInv, AddressInv, Booting, GettingAddress, Settled, Serving
<1> QED
  BY <1>3, <1>5, <1>6, <1>7 DEF IInv

\* Without DHCP the address is fixed here.
LEMMA XemacAddStep ==
    ASSUME IInv, XemacAdd
    PROVE  IInv'
<1>1. /\ pc = "xemac_add" /\ UNCHANGED <<build, expander, waited, application>>
      /\ UNCHANGED timerVars /\ UNCHANGED clockVars
      /\ \/ pc' = "enable" /\ ip_addr' = IF build.dhcp THEN NoAddress ELSE "default"
         \/ pc' = "returned" /\ ip_addr' = ip_addr
  BY DEF XemacAdd
<1>2. ClockInv'
  BY <1>1, Moved, TwoFunctions
<1>3. TimersTypeOK'
  BY <1>1, TimersRest DEF IInv
<1>4. BootTypes'
  BY <1>1 DEF IInv, BootTypes, Booting
<1>5. AddressInv'
  BY <1>1 DEF IInv, AddressInv, Booting, GettingAddress, Settled, Serving, NoAddress
<1> QED
  BY <1>2, <1>3, <1>4, <1>5 DEF IInv

\* The interrupts are switched on.
LEMMA EnableStep ==
    ASSUME IInv, EnableInterrupts
    PROVE  IInv'
<1>1. /\ pc = "enable" /\ pc' = "netif_set_up" /\ platform_enable_interrupts(build)
      /\ UNCHANGED <<build, expander, ip_addr, waited, application>> /\ UNCHANGED clockVars
  BY DEF EnableInterrupts
<1>2. ClockInv'
  BY <1>1, Moved, TwoFunctions
<1>3. /\ timer' \in {timer, "running"} /\ interrupts' = TRUE
      /\ UNCHANGED <<handler, TcpFastTmrFlag, TcpSlowTmrFlag>> /\ UNCHANGED counters /\ UNCHANGED dhcp_timoutcntr
  <2>1. build.platform \in {"microblaze", "zynq", "zynqmp"}
    BY BuildFields DEF IInv, BootTypes
  <2> QED
    BY <1>1, <2>1 DEF platform_enable_interrupts, MicroBlazeEnableInterrupts, ZynqEnableInterrupts,
                      ZynqMPEnableInterrupts
<1>4. TimersTypeOK'
  BY <1>3 DEF IInv, TimersTypeOK, counters
<1>5. BootTypes'
  BY <1>1 DEF IInv, BootTypes, Booting
<1>6. AddressInv'
  BY <1>1 DEF IInv, AddressInv, Booting, GettingAddress, Settled, Serving
<1> QED
  BY <1>2, <1>4, <1>5, <1>6 DEF IInv

\* A step of the main program after the boot: it leaves the clocks, the build and the expander.
LEMMA GotoStep ==
    ASSUME IInv, NEW from \in Booting \cup GettingAddress \cup Settled \cup {"dhcp_set_timeout"},
           NEW to \in GettingAddress \cup Settled \cup {"dhcp_set_timeout"},
           from # "IicPhyReset", Goto(from, to), TimersTypeOK',
           ip_addr' \in {ip_addr, "default", "leased"}, waited' \in {0, waited}
    PROVE  /\ ClockInv' /\ TimersTypeOK' /\ BootTypes'
           /\ pc = from /\ pc' = to /\ UNCHANGED <<build, expander, application>>
           /\ build.zcu102 => expander' = "released"
<1>1. pc = from /\ pc' = to /\ UNCHANGED <<build, expander, application>> /\ UNCHANGED clockVars
  BY DEF Goto
<1>2. pc \notin Programming /\ pc' \notin Programming
  BY <1>1, TwoFunctions DEF Booting, GettingAddress, Settled, Serving
<1>3. ClockInv'
  BY <1>1, <1>2, Moved
<1>4. BootTypes'
  <2>1. 0 \in 0..DhcpTimeout
    BY Limits
  <2> QED
    BY <1>1, <2>1 DEF IInv, BootTypes, Booting
<1>5. build.zcu102 => expander' = "released"
  BY <1>1 DEF IInv, AddressInv
<1> QED
  BY <1>1, <1>3, <1>4, <1>5

\* With DHCP the client is started next, without it the application.
LEMMA NetifSetUpStep ==
    ASSUME IInv, NetifSetUp
    PROVE  IInv'
<1>1. Goto("netif_set_up", IF build.dhcp THEN "dhcp_start" ELSE "start_application")
      /\ UNCHANGED <<ip_addr, waited>> /\ UNCHANGED timerVars
  BY DEF NetifSetUp
<1>2. /\ ClockInv' /\ TimersTypeOK' /\ BootTypes' /\ UNCHANGED <<build, expander, application>>
      /\ pc = "netif_set_up" /\ pc' = IF build.dhcp THEN "dhcp_start" ELSE "start_application"
      /\ build.zcu102 => expander' = "released"
  BY <1>1, GotoStep, TimersRest DEF IInv, Booting, GettingAddress, Settled, Serving
<1>3. AddressInv'
  BY <1>1, <1>2 DEF IInv, AddressInv, Booting, GettingAddress, Settled, Serving, NoAddress
<1> QED
  BY <1>2, <1>3 DEF IInv

\* The ticks are counted from here on.
LEMMA DhcpStartStep ==
    ASSUME IInv, DhcpStart
    PROVE  IInv'
<1>1. Goto("dhcp_start", "dhcp_set_timeout") /\ waited' = 0 /\ ip_addr' = ip_addr /\ UNCHANGED timerVars
  BY DEF DhcpStart
<1>2. /\ ClockInv' /\ TimersTypeOK' /\ BootTypes' /\ UNCHANGED <<build, expander, application>>
      /\ pc = "dhcp_start" /\ pc' = "dhcp_set_timeout"
      /\ build.zcu102 => expander' = "released"
  BY <1>1, GotoStep, TimersRest DEF IInv, Booting, GettingAddress, Settled, Serving
<1>3. AddressInv'
  BY <1>1, <1>2 DEF IInv, AddressInv, Booting, GettingAddress, Settled, Serving
<1> QED
  BY <1>2, <1>3 DEF IInv

\* The counter gets the full time.
LEMMA DhcpSetTimeoutStep ==
    ASSUME IInv, DhcpSetTimeout
    PROVE  IInv'
<1>1. /\ Goto("dhcp_set_timeout", "dhcp_wait") /\ dhcp_timoutcntr' = DhcpTimeout
      /\ UNCHANGED <<ip_addr, waited, TcpFastTmrFlag, TcpSlowTmrFlag>>
      /\ UNCHANGED hardware /\ UNCHANGED counters
  BY DEF DhcpSetTimeout
<1>2. TimersTypeOK'
  BY <1>1, Limits DEF IInv, TimersTypeOK, hardware, counters
<1>3. /\ ClockInv' /\ BootTypes' /\ UNCHANGED <<build, expander, application>>
      /\ pc = "dhcp_set_timeout" /\ pc' = "dhcp_wait"
      /\ build.zcu102 => expander' = "released"
  BY <1>1, <1>2, GotoStep DEF GettingAddress
<1>4. waited \in Nat /\ waited + DhcpTimeout >= DhcpTimeout
  BY Limits DEF IInv, BootTypes
<1>5. AddressInv'
  BY <1>1, <1>3, <1>4 DEF IInv, AddressInv, Booting, GettingAddress, Settled, Serving
<1> QED
  BY <1>2, <1>3, <1>5 DEF IInv

\* The loop ends with an address or with nothing left of the counter.
LEMMA DhcpWaitStep ==
    ASSUME IInv, DhcpWait
    PROVE  IInv'
<1> DEFINE to == IF ip_addr = NoAddress /\ dhcp_timoutcntr > 0 THEN "dhcp_input" ELSE "dhcp_check"
<1>1. Goto("dhcp_wait", to) /\ UNCHANGED <<ip_addr, waited>> /\ UNCHANGED timerVars
  BY DEF DhcpWait
<1>2. dhcp_timoutcntr' = dhcp_timoutcntr /\ dhcp_timoutcntr \in Nat /\ TimersTypeOK'
  BY <1>1, TimersRest, Limits DEF IInv
<1>3. /\ ClockInv' /\ BootTypes' /\ UNCHANGED <<build, expander, application>>
      /\ pc = "dhcp_wait" /\ pc' = to
      /\ build.zcu102 => expander' = "released"
  BY <1>1, <1>2, GotoStep DEF GettingAddress
<1>4. pc' = "dhcp_check" => ip_addr # NoAddress \/ dhcp_timoutcntr = 0
  BY <1>2, <1>3
<1>5. pc' \in {"dhcp_input", "dhcp_check"}
  BY <1>3
<1>6. AddressInv'
  BY <1>1, <1>2, <1>3, <1>4, <1>5 DEF IInv, AddressInv, Booting, GettingAddress, Settled, Serving
<1> QED
  BY <1>2, <1>3, <1>6 DEF IInv

\* A frame may bring the address.
LEMMA DhcpInputStep ==
    ASSUME IInv, DhcpInput
    PROVE  IInv'
<1>1. Goto("dhcp_input", "dhcp_wait") /\ waited' = waited /\ UNCHANGED timerVars
      /\ (ip_addr' = ip_addr \/ ip_addr' = "leased")
  BY DEF DhcpInput, Bind
<1>2. dhcp_timoutcntr' = dhcp_timoutcntr /\ TimersTypeOK'
  BY <1>1, TimersRest DEF IInv
<1>3. /\ ClockInv' /\ BootTypes' /\ UNCHANGED <<build, expander, application>>
      /\ pc = "dhcp_input" /\ pc' = "dhcp_wait"
      /\ build.zcu102 => expander' = "released"
  BY <1>1, <1>2, GotoStep DEF GettingAddress
<1>4. AddressInv'
  BY <1>1, <1>2, <1>3 DEF IInv, AddressInv, Booting, GettingAddress, Settled, Serving
<1> QED
  BY <1>2, <1>3, <1>4 DEF IInv

\* Without an address after the loop, nothing is left of the counter.
LEMMA DhcpCheckStep ==
    ASSUME IInv, DhcpCheck
    PROVE  IInv'
<1> DEFINE to == IF dhcp_timoutcntr <= 0 /\ ip_addr = NoAddress THEN "dhcp_default" ELSE "start_application"
<1>1. Goto("dhcp_check", to) /\ UNCHANGED <<ip_addr, waited>> /\ UNCHANGED timerVars
  BY DEF DhcpCheck
<1>2. dhcp_timoutcntr' = dhcp_timoutcntr /\ dhcp_timoutcntr \in Nat /\ TimersTypeOK'
  BY <1>1, TimersRest, Limits DEF IInv
<1>3. /\ ClockInv' /\ BootTypes' /\ UNCHANGED <<build, expander, application>>
      /\ pc = "dhcp_check" /\ pc' = to
      /\ build.zcu102 => expander' = "released"
  BY <1>1, <1>2, GotoStep DEF GettingAddress, Settled
<1>4. build.dhcp
  BY <1>3, BuildFields DEF IInv, BootTypes, AddressInv, GettingAddress
<1>5. /\ pc' = "dhcp_default" => dhcp_timoutcntr = 0
      /\ pc' = "start_application" => ip_addr # NoAddress
      /\ pc' \in {"dhcp_default", "start_application"}
  <2>1. ip_addr # NoAddress \/ dhcp_timoutcntr = 0
    BY <1>3, <1>4 DEF IInv, AddressInv
  <2> QED
    BY <1>2, <1>3, <2>1
<1>6. AddressInv'
  BY <1>1, <1>2, <1>3, <1>4, <1>5 DEF IInv, AddressInv, Booting, GettingAddress, Settled, Serving
<1> QED
  BY <1>2, <1>3, <1>6 DEF IInv

\* The default address is stored when nothing is left of the counter: DHCP had its full time.
LEMMA DhcpDefaultStep ==
    ASSUME IInv, DhcpDefault
    PROVE  IInv'
<1>1. Goto("dhcp_default", "start_application") /\ ip_addr' = "default" /\ waited' = waited /\ UNCHANGED timerVars
  BY DEF DhcpDefault
<1>2. dhcp_timoutcntr' = dhcp_timoutcntr /\ TimersTypeOK'
  BY <1>1, TimersRest DEF IInv
<1>3. /\ ClockInv' /\ BootTypes' /\ UNCHANGED <<build, expander, application>>
      /\ pc = "dhcp_default" /\ pc' = "start_application"
      /\ build.zcu102 => expander' = "released"
  BY <1>1, <1>2, GotoStep DEF GettingAddress, Settled
<1>4. build.dhcp
  BY <1>3, BuildFields DEF IInv, BootTypes, AddressInv, GettingAddress
<1>5. waited = DhcpTimeout
  <2>1. dhcp_timoutcntr = 0 /\ waited + dhcp_timoutcntr >= DhcpTimeout /\ waited \in 0..DhcpTimeout
    BY <1>3, <1>4 DEF IInv, AddressInv, BootTypes
  <2> QED
    BY <2>1, Limits
<1>6. AddressInv'
  BY <1>1, <1>2, <1>3, <1>4, <1>5 DEF IInv, AddressInv, Booting, GettingAddress, Settled, Serving, NoAddress
<1> QED
  BY <1>2, <1>3, <1>6 DEF IInv

-----------------------------------------------------------------------------

\* Once the address is settled it stays settled.
LEMMA StaysSettled ==
    ASSUME IInv, pc \in Settled, pc' \in Settled, UNCHANGED <<build, waited, expander>>,
           ip_addr' = ip_addr \/ (build.dhcp /\ ip_addr' = "leased")
    PROVE  AddressInv'
  BY DEF IInv, AddressInv, Booting, GettingAddress, Settled, Serving, NoAddress

\* The application starts with the address that was settled.
LEMMA StartApplicationStep ==
    ASSUME IInv, StartApplication
    PROVE  IInv'
<1>1. /\ pc = "start_application" /\ pc' = "fast" /\ application' \in {"listening", "failed"}
      /\ UNCHANGED <<build, expander, ip_addr, waited>> /\ UNCHANGED clockVars /\ UNCHANGED timerVars
  BY DEF StartApplication
<1>2. ClockInv'
  BY <1>1, Moved, TwoFunctions
<1>3. TimersTypeOK'
  BY <1>1, TimersRest DEF IInv
<1>4. BootTypes'
  BY <1>1 DEF IInv, BootTypes, Settled, Serving
<1>5. AddressInv'
  BY <1>1, StaysSettled DEF Settled, Serving
<1> QED
  BY <1>2, <1>3, <1>4, <1>5 DEF IInv

\* The steps of the loop.
LEMMA LoopStep ==
    ASSUME IInv, FastTmr \/ FastClear \/ SlowTmr \/ SlowClear \/ Input
    PROVE  IInv'
<1>1. ASSUME NEW from \in Serving, NEW to \in Serving, Goto(from, to), TimersTypeOK', waited' = waited,
             ip_addr' = ip_addr \/ (build.dhcp /\ ip_addr' = "leased")
      PROVE  IInv'
  <2>1. /\ ClockInv' /\ BootTypes' /\ UNCHANGED <<build, expander, application>> /\ pc = from /\ pc' = to
    BY <1>1, GotoStep DEF Settled, Serving
  <2>2. AddressInv'
    BY <1>1, <2>1, StaysSettled DEF Settled
  <2> QED
    BY <1>1, <2>1, <2>2 DEF IInv
<1>2. CASE FastTmr
  <2>1. /\ Goto("fast", IF TcpFastTmrFlag THEN "fast_clear" ELSE "slow")
        /\ UNCHANGED <<ip_addr, waited>> /\ UNCHANGED timerVars
    BY <1>2 DEF FastTmr
  <2>2. "fast" \in Serving /\ (IF TcpFastTmrFlag THEN "fast_clear" ELSE "slow") \in Serving
    BY DEF Serving
  <2> QED
    BY <1>1, <2>1, <2>2, TimersRest DEF IInv
<1>3. CASE FastClear
  <2>1. /\ Goto("fast_clear", "slow") /\ TcpFastTmrFlag' = FALSE /\ UNCHANGED <<ip_addr, waited, TcpSlowTmrFlag>>
        /\ UNCHANGED hardware /\ UNCHANGED counters /\ UNCHANGED dhcp_timoutcntr
    BY <1>3 DEF FastClear
  <2>2. TimersTypeOK'
    BY <2>1 DEF IInv, TimersTypeOK, hardware, counters
  <2> QED
    BY <1>1, <2>1, <2>2 DEF Serving
<1>4. CASE SlowTmr
  <2>1. /\ Goto("slow", IF TcpSlowTmrFlag THEN "slow_clear" ELSE "input")
        /\ UNCHANGED <<ip_addr, waited>> /\ UNCHANGED timerVars
    BY <1>4 DEF SlowTmr
  <2>2. "slow" \in Serving /\ (IF TcpSlowTmrFlag THEN "slow_clear" ELSE "input") \in Serving
    BY DEF Serving
  <2> QED
    BY <1>1, <2>1, <2>2, TimersRest DEF IInv
<1>5. CASE SlowClear
  <2>1. /\ Goto("slow_clear", "input") /\ TcpSlowTmrFlag' = FALSE /\ UNCHANGED <<ip_addr, waited, TcpFastTmrFlag>>
        /\ UNCHANGED hardware /\ UNCHANGED counters /\ UNCHANGED dhcp_timoutcntr
    BY <1>5 DEF SlowClear
  <2>2. TimersTypeOK'
    BY <2>1 DEF IInv, TimersTypeOK, hardware, counters
  <2> QED
    BY <1>1, <2>1, <2>2 DEF Serving
<1>6. CASE Input
  <2>1. /\ Goto("input", "fast") /\ waited' = waited /\ UNCHANGED timerVars
        /\ (ip_addr' = ip_addr \/ (build.dhcp /\ ip_addr' = "leased"))
    BY <1>6 DEF Input, Bind
  <2> QED
    BY <1>1, <2>1, TimersRest DEF IInv, Serving
<1> QED
  BY <1>2, <1>3, <1>4, <1>5, <1>6

-----------------------------------------------------------------------------

\* The timer's interrupt may find the main program anywhere; what is left of the counter and the ticks
\* that were counted still make up the full time.
LEMMA TimerStep ==
    ASSUME IInv, Timer
    PROVE  IInv'
<1> DEFINE tick == build.dhcp /\ SlowTick
<1>1. /\ TimerInterrupt(build) /\ UNCHANGED <<build, pc, expander, application>> /\ UNCHANGED clockVars
      /\ waited' = IF tick /\ waited < DhcpTimeout THEN waited + 1 ELSE waited
      /\ pc \notin {"returned", "undefined"}
  BY DEF Timer
<1>2. /\ ip_addr' = ip_addr \/ (build.dhcp /\ ip_addr' = "leased")
  BY DEF Timer, Bind
<1>3. /\ TimersTypeOK' /\ (dhcp_timoutcntr' \in {dhcp_timoutcntr, dhcp_timoutcntr - 1})
      /\ (~tick \/ dhcp_timoutcntr = 0 => dhcp_timoutcntr' = dhcp_timoutcntr)
  BY <1>1, InterruptTypes DEF IInv, BootTypes
<1>4. dhcp_timoutcntr \in 0..DhcpTimeout /\ waited \in 0..DhcpTimeout
  BY DEF IInv, BootTypes, TimersTypeOK
<1> HIDE DEF tick
<1> DEFINE later == waited'
           left == dhcp_timoutcntr'
<1>5. /\ later \in 0..DhcpTimeout
      /\ waited + dhcp_timoutcntr >= DhcpTimeout => later + left >= DhcpTimeout
      /\ waited = DhcpTimeout => later = DhcpTimeout
      /\ dhcp_timoutcntr = 0 => left = 0
  <2>1. left \in 0..DhcpTimeout
    BY <1>3 DEF TimersTypeOK
  <2>2. /\ later = IF tick /\ waited < DhcpTimeout THEN waited + 1 ELSE waited
        /\ left \in {dhcp_timoutcntr, dhcp_timoutcntr - 1}
        /\ ~tick \/ dhcp_timoutcntr = 0 => left = dhcp_timoutcntr
    BY <1>1, <1>3
  <2> HIDE DEF later, left
  <2>3. CASE tick /\ waited < DhcpTimeout
    BY <1>4, <2>1, <2>2, <2>3, Limits
  <2>4. CASE ~tick
    BY <1>4, <2>1, <2>2, <2>4, Limits
  <2>5. CASE waited = DhcpTimeout
    BY <1>4, <2>1, <2>2, <2>5, Limits
  <2>6. waited < DhcpTimeout \/ waited = DhcpTimeout
    BY <1>4, Limits
  <2> QED
    BY <2>3, <2>4, <2>5, <2>6
<1>6. ClockInv'
  BY <1>1, ClocksRest DEF IInv
<1>7. BootTypes'
  BY <1>1, <1>2, <1>5 DEF IInv, BootTypes
<1>8. AddressInv'
  <2>1. \/ ip_addr' = ip_addr
        \/ build.dhcp /\ ip_addr' = "leased" /\ ip_addr' # NoAddress /\ ip_addr' # "default"
    BY <1>2 DEF NoAddress
  <2> QED
    BY <1>1, <1>5, <2>1 DEF IInv, AddressInv
<1> QED
  BY <1>3, <1>6, <1>7, <1>8 DEF IInv

\* The other steps leave the boot's variables alone.
LEMMA BootRest ==
    ASSUME IInv, UNCHANGED bootVars, UNCHANGED dhcp_timoutcntr
    PROVE  BootTypes' /\ AddressInv'
<1>1. UNCHANGED <<build, pc, expander, ip_addr, waited, application>>
  BY DEF bootVars
<1>2. BootTypes'
  BY <1>1 DEF IInv, BootTypes
<1>3. AddressInv'
  BY <1>1 DEF IInv, AddressInv
<1> QED
  BY <1>2, <1>3

\* The timer fires.
LEMMA TimerHardwareStep ==
    ASSUME IInv, TimerHardware
    PROVE  IInv'
<1>1. /\ timer' = "fired" /\ UNCHANGED <<handler, interrupts, TcpFastTmrFlag, TcpSlowTmrFlag>>
      /\ UNCHANGED counters /\ UNCHANGED dhcp_timoutcntr /\ UNCHANGED bootVars /\ UNCHANGED clockVars
      /\ pc' = pc
  BY DEF TimerHardware, TimerFires, bootVars
<1>2. TimersTypeOK'
  BY <1>1 DEF IInv, TimersTypeOK, counters
<1>3. ClockInv'
  BY <1>1, ClocksRest DEF IInv
<1> QED
  BY <1>1, <1>2, <1>3, BootRest DEF IInv

\* The bus and the link are the concern of the programming functions alone.
LEMMA BusAndLinkSteps ==
    ASSUME IInv, I2c \/ Bus \/ Link
    PROVE  IInv'
<1>1. UNCHANGED bootVars /\ UNCHANGED timerVars /\ pc' = pc
  BY DEF I2c, Bus, Link, bootVars
<1>2. ClockInv'
  <2>1. CASE I2c
    BY <1>1, <2>1, InterruptStep DEF I2c, IInv
  <2>2. CASE Bus
    BY <1>1, <2>2, BusStep DEF Bus, IInv
  <2>3. CASE Link
    BY <1>1, <2>3, LinkStep DEF Link, IInv
  <2> QED
    BY <2>1, <2>2, <2>3
<1>3. TimersTypeOK' /\ UNCHANGED dhcp_timoutcntr
  BY <1>1, TimersRest DEF IInv
<1> QED
  BY <1>1, <1>2, <1>3, BootRest DEF IInv

\* An interrupt that comes too late finds no function at one of its places.
LEMMA TooLateStep ==
    ASSUME IInv, I2cTooLate
    PROVE  IInv'
<1>1. /\ owner # pc /\ pc' = "undefined" /\ UNCHANGED clockVars /\ UNCHANGED timerVars
      /\ UNCHANGED <<build, expander, ip_addr, waited, application>>
      /\ pc \in Programming \cup {"IicPhyReset", "init_platform"}
  BY DEF I2cTooLate
<1>2. step = 0
  BY <1>1, ClockTypes DEF IInv, ClockInv, Working
<1>3. ClockInv'
  BY <1>1, <1>2, ClocksRest, TwoFunctions DEF IInv
<1>4. TimersTypeOK'
  BY <1>1, TimersRest DEF IInv
<1>5. BootTypes'
  BY <1>1 DEF IInv, BootTypes
<1>6. AddressInv'
  BY <1>1, TwoFunctions DEF IInv, AddressInv, Booting, GettingAddress, Settled, Serving
<1> QED
  BY <1>3, <1>4, <1>5, <1>6 DEF IInv

\* Every step keeps the invariant.
LEMMA NextStep ==
    ASSUME IInv, [Next]_vars
    PROVE  IInv'
<1>1. CASE \E f \in Programming : Program(f)
  <2>1. PICK f \in Programming : Program(f)
    BY <1>1
  <2> QED
    BY <2>1, ProgramStep
<1>2. CASE IicPhyReset \/ InitPlatform \/ XemacAdd \/ EnableInterrupts \/ NetifSetUp
  BY <1>2, ResetStep, InitPlatformStep, XemacAddStep, EnableStep, NetifSetUpStep
<1>3. CASE DhcpStart \/ DhcpSetTimeout \/ DhcpWait \/ DhcpInput \/ DhcpCheck \/ DhcpDefault
  BY <1>3, DhcpStartStep, DhcpSetTimeoutStep, DhcpWaitStep, DhcpInputStep, DhcpCheckStep, DhcpDefaultStep
<1>4. CASE StartApplication \/ FastTmr \/ FastClear \/ SlowTmr \/ SlowClear \/ Input
  BY <1>4, StartApplicationStep, LoopStep
<1>5. CASE Timer \/ TimerHardware \/ I2c \/ I2cTooLate \/ Bus \/ Link
  BY <1>5, TimerStep, TimerHardwareStep, BusAndLinkSteps, TooLateStep
<1>6. CASE UNCHANGED vars
  <2>1. UNCHANGED bootVars /\ UNCHANGED clockVars /\ UNCHANGED timerVars /\ pc' = pc
    BY <1>6 DEF vars, bootVars
  <2>2. ClockInv'
    BY <2>1, ClocksRest DEF IInv
  <2>3. TimersTypeOK' /\ UNCHANGED dhcp_timoutcntr
    BY <2>1, TimersRest DEF IInv
  <2> QED
    BY <2>1, <2>2, <2>3, BootRest DEF IInv
<1> QED
  BY <1>1, <1>2, <1>3, <1>4, <1>5, <1>6 DEF Next, Main

-----------------------------------------------------------------------------
(* Theorems *)

\* The invariant holds throughout, for every set of builds and all limits of the timers.
THEOREM BoardInvariant == Spec => []IInv
<1>1. Init => IInv
  BY AtStart
<1>2. IInv /\ [Next]_vars => IInv'
  BY NextStep
<1> QED
  BY <1>1, <1>2, PTL DEF Spec

\* Every variable of the board keeps its type: no counter leaves its range, whatever the
\* interrupts and the errors on the bus do (platform_zynq.c:90-144, i2c_access.c:209-268).
THEOREM BoardTypes == Spec => []TypeOK
<1>1. IInv => TypeOK
  BY Typed
<1> QED
  BY <1>1, BoardInvariant, PTL

\* Whenever one of the two functions reports success, with no hidden error, and for the PHY no
\* error that was counted either, its device has taken the whole list of writes: in order, once, and
\* no other, although transfers overlap with the loops that wait for them (si5324.c:162-183,
\* sfp.c:111-188, i2c_access.c:226-268, :401-418).
THEOREM ClocksAreProgrammed == Spec => []ClocksProgrammed
<1>1. IInv => ClocksProgrammed
  BY DEF IInv, ClockInv
<1> QED
  BY <1>1, BoardInvariant, PTL

\* A function that returns with nothing to report (success, and for ProgramSfpPhy no error that was
\* counted) has left no transfer on the bus, whatever was signalled on the way: an interrupt that writes to a
\* stack frame that is gone comes only after a failure (i2c_access.c:258, :265, :300, :308).
THEOREM TransfersEndInTime == Spec => []NoTransferOutlivesItsFunction
<1>1. IInv => NoTransferOutlivesItsFunction
  BY DEF IInv, ClockInv
<1> QED
  BY <1>1, BoardInvariant, PTL

\* The program serves only with an address, takes the default one only after DHCP had its full
\* time, and on a ZCU102 has released the PHY's reset, whenever interrupts come and whatever they bind
\* (main.c:202-216, iic_phyreset.c:55-113).
THEOREM ServingHasAddress == Spec => []AddressWhenServing
<1>1. IInv => AddressWhenServing
  BY DEF IInv, AddressInv, AddressWhenServing, Settled, Booting, Serving
<1> QED
  BY <1>1, BoardInvariant, PTL
=============================================================================
