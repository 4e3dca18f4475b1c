# TLA+ models of the FPGA packet filter

These modules model the Verilog of `src/Sources`, a packet filter that watches an AXI
Stream bus, runs a BPF program on every packet it sees, and sends the accepted ones to
another AXI Stream bus; and the software of `src/BPF_Tools` that programs the board and
loads the filter's program over the network. TLC checks the modules on small instances; TLAPS proves some of
the properties for all values of the constants.

## 1. The system

| part | code | state | operations |
|---|---|---|---|
| snooper | `Snoopers/axistream_snooper.v` | write address, `need_to_wait`, delayed ready line | copy a beat, finish a packet, skip the rest of one |
| dispatcher ("ping-pang-pung") | `BPFVM/packetmem/p3ctrl/*.v` | three queues of three 2-bit slots | shift, enqueue, dequeue, reset |
| packet memory | `BPFVM/packetmem/*.v`, `muxes/*.v` | three RAMs with output register and length | write a beat, read, reset a length, switch agents |
| CPU | `BPFVM/CPU/**` | PC, IR, pipeline registers, A, X, scratch memory | fetch, decode, stall, jump, compute, load, store, verdict |
| code memory | `BPFVM/codemem/*.v` | the program | read (CPU), write (code loader) |
| read size adapter | `packetmem/read_size_adapter.v` | offset and size of the last read | pick bytes out of two words |
| forwarder | `Forwarders/axistream_forwarder.v` | read address, TVALID, TLAST, what the bus carried last | read, offer, hold, finish |
| parallel filters | `packetfilt/parallel_packetfilts.v`, `arbiter_4.v`, `one_hot_mux_3.v` | saved enables, `do_select` | arbitrate between VMs, keep the choice |
| code loader | `packetfilt/regstrb2mem.v` | write address, which half has come | pair two halves of an instruction and write them |
| register file | `packetfilt/packet_filter_regs.sv` (generated) | AXI-Lite registers, state of the write FSM | read, write, strobes |
| top level | `axistream_packetfilt.v` | delay registers of a PESSIMISTIC build | wiring, `rst = !axi_aresetn \|\| !control_start` |
| host tools | `BPF_Tools/sendfilt.cpp`, `compilefilt.c` | how much has been sent | compile a filter, send it or write it to a file |
| echo server | `SDK_Sources/echo.c` | a parser's static variables, a callback per connection | parse lines, write registers |
| clocks and PHY | `SDK_Sources/i2c_access.c`, `si5324.c`, `sfp.c` | flags and error count of the I2C driver, registers of the devices | send, receive, interrupt, program a device |
| timers | `SDK_Sources/platform*.c` | flags for the main loop, counters of the timer interrupt | set up, interrupt |
| board program | `SDK_Sources/main.c`, `iic_phyreset.c` | address, DHCP counter | start, get an address, serve |

How they interact. Three *agents* share three *buffers*: the snooper fills a buffer, the
CPU judges the packet in it, the forwarder sends it on. The dispatcher keeps, for each
agent, a queue of the buffers it has to work on; the head of a queue is the agent's
select line and wires the agent to the buffer through multiplexers. An agent that has
finished pulses `done` (the CPU `acc` or `rej`), and its buffer goes to the next agent's
queue, all in one clock edge. An agent without a job sees its ready line low. Several
VMs, each with a CPU and three buffers, may share one snooper and one forwarder; two
chains of arbiters choose the VM. The host stops the filter (`control_start` low),
writes a program and starts it again: `sendfilt` sends lines of text over TCP, the echo
server on the board's processor parses them and stores to the register file, whose
strobes make the code loader write instructions to the code memory. The server runs
inside lwIP, called from the main loop of `main.c`, which a timer interrupt keeps going
through two flags; before that, `main.c` has programmed the clock generator and the PHY
over I2C, with an interrupt handler that shares flags with the polling driver, and waited
for DHCP with a counter that the timer interrupt decrements.

What is hard. Everything moves at once, once a cycle: three agents finish in any
combination, the queues shift while tokens enter, buses stall in any cycle, data arrive
a cycle after they are asked for, ready lines may be a cycle old (`PESSIMISTIC`, which is
the default of the top level), and a stop resets some of the parts and not others. The
CPU has up to four instructions in flight. On the software's side, connections overlap,
break off in the middle of a line and lose data, the processor restarts without the
fabric, interrupts come between any two statements, and I2C transfers fail or end after
the call that started them. What makes each part correct:

* dispatcher: no buffer is lost, duplicated or given to two agents; jobs in order; a job
  is not taken away from an agent that works on it; buffers come back.
* snooper: only whole packets, from their start, no beat missing, no write without a buffer.
* forwarder: each packet once, in order, TLAST on its last beat; a stalled beat is held.
* memory: what was copied is what is judged and sent, with its length.
* parallel filters: one VM per agent, one that is ready, and the same for a whole packet.
* CPU: the program's result is that of executing it one instruction at a time; every
  packet gets a verdict. A load of any size at any address gets the bytes it names.
* loading: after an undisturbed run of `sendfilt` the filter runs exactly its program,
  if the board was clean; the code never changes under a running filter.
* board: a device reported as programmed is programmed; no interrupt handler outlives the
  stack frame it writes to unless that function has reported a failure; the board ends up with an address, a default one only after
  DHCP had its time, and goes on calling lwIP's timers.

The hazards, each at its line with the properties that would catch it, are listed in
`PROJECT.json`; where the properties exclude a part of a hazard, because the code does go wrong there
(section 5), its note says which.

## 2. The modules

In the hardware's modules one step of every behaviour is **one clock cycle**; in the
software's a step is a function, or the part of one between two points at which an
interrupt, a packet or another actor can make a difference. Variables are registers; the wires
that enter a module in the Verilog are parameters of its operators, the wires that leave
it are operators. The blocking assignments that some reset branches use are read as the
registers that synthesis makes of them. Names are those of the Verilog where there is one.

| module | models |
|---|---|
| `JobQueues` | the registers of `snqueue`, `cpuqueue`, `fwdqueue`: `Shift` is the clocked block all three share |
| `P3Ctrl` | `p3ctrl.v`: the ring of the three queues, and its reset |
| `PingPangPung` | the abstract specification: three FIFO lists of buffers |
| `Dispatcher` | `P3Ctrl` driven by agents of any timing, as `packetmem.v` wires them |
| `QueueProofs` | lemmas about `JobQueues` and `P3Ctrl`, used by the two modules of proofs that contain them |
| `DispatcherProofs` | theorems about `Dispatcher`, among them that it implements `PingPangPung` |
| `FilterParams` | the parameters of the build: the values of PESSIMISTIC, the address width |
| `AxiSource` | environment: a source and a sink on the bus that is watched |
| `Snooper`, `SnoopedBus`, `SnooperProofs` | `axistream_snooper.v`; the same on a bus and with a memory that is ready when it likes; theorems about that |
| `Forwarder`, `ForwardedLink`, `ForwarderProofs` | `axistream_forwarder.v`; the same between a memory with one job after another and a sink; theorems about that |
| `PacketMem` | `packetmem.v`: dispatcher, select inversion, multiplexers, three `packetram.v` |
| `FilterDatapath` | `AxiSource`, `Snooper`, `PacketMem` and `Forwarder` in one clock domain, as `axistream_packetfilt.v` and `bpfvm.v` wire them |
| `DatapathProofs` | theorems about `FilterDatapath`, and about `ReadSize` |
| `ParallelFilts` | `parallel_packetfilts.v` with its arbiters, for any number of VMs |
| `BpfIsa` | the instructions, the decoder, the arithmetic, and `Execute`: one instruction in sequential execution |
| `BpfCpu` | the pipeline, stage by stage, and the datapath's registers |
| `CpuJobs` | the CPU with a memory that gives it packets and a host that stops it; which programs it executes rightly (`Executable`) |
| `VmProofs` | theorems about `CpuJobs` and about `ParallelFilts` |
| `ReadSize` | `read_size_adapter.v` with the buffer it reads |
| `LoadParams` | bytes, register values and the hex digits of the program's way to the board |
| `SendFilt` | `sendfilt.cpp`: the buffers a run sends |
| `EchoServer` | `echo.c`: the parser and its callbacks |
| `CodeLoader` | `packet_filter_regs.sv` (write side), the delay registers of `axistream_packetfilt.v`, `regstrb2mem.v`, `coderam.v` |
| `FilterLoad` | the three together, with TCP, the AXI bus and reboots of the processor between them |
| `CodeLoaderProofs` | theorems about `CodeLoader` and `FilterLoad`, and about `BpfFile` |
| `BpfFile` | the bytes of `compilefilt.c`'s file |
| `I2cDriver` | `i2c_access.c`: the polling calls, the status handler, the controller |
| `BoardClocks` | `si5324.c` and `sfp.c` as sequences of transfers, and the devices they program |
| `BoardTimers` | the timer interrupt of `platform_zynq.c`, `platform_zynqmp.c` and `platform.c` with `platform_mb.c` |
| `Board` | `main.c` and `iic_phyreset.c`: `BoardClocks` and `BoardTimers` from the start to the main loop |
| `BoardProofs` | theorems about `Board` |
| `MC...` | instances for TLC |

Abstractions:

* A beat is a value with two halves (the RAM's two ports); its bytes are not modelled.
* In a `PESSIMISTIC` build the watched bus is registered once before the snooper sees it:
  the modelled bus is the delayed one, which is a bus like any other.
* `len_to_forwarder_r` has no initial value in the source: it starts with any length.
  A and X have none either; no property depends on it, because a register that the
  program has not written is `Unknown` to the sequential machine.
* `FilterDatapath` has one VM. The enables of `parallel_packetfilts.v` are then the VM's
  own ready lines, except that a saved enable outlives a stop by one cycle; the done
  pulse it may let through meets a select line that is 0 and a full snooper queue.
  It knows the CPU by its memory interface only: reads anywhere, a verdict after at
  least `MinVerdict` cycles.
* `ParallelFilts` keeps of a VM the number of buffers that wait for each agent. The
  one-hot multiplexers are represented by what they need: that one line is high.
* In `BpfIsa` a load ignores the size (byte, half-word, word), and the operations that
  the ALU answers with an error code (MUL, DIV, MOD) are left out. The pipeline and the
  sequential machine share the decoder and the arithmetic: what is compared is *when*
  things happen, with which operands, and in which order, not what an addition is.
  `NEG` is the complement, as in `pipelined_alu.v`.
* A build is a value of the variable `pessimistic` (or `build`) that never changes, so that
  one run covers all builds.
* `CodeLoader` is on a bus whose master stores whole words (all byte lanes). The write
  FSM's handshake lines are represented by the transfers they allow. In `FilterLoad` the
  clock runs freely and the processor's stores wait on the bus in their order.
* A byte on its way to the board is a hex digit, a comma, a newline or one the parser
  skips; an instruction is the digits of its two numbers. The parser is the code's, byte by byte. A register has `WordSize` values: digits
  that are shifted out at the top are lost, as in the 32-bit register. What the server
  echoes is left out. TCP delivers bytes in order and in segments of any of the modelled
  sizes; a received buffer may be a chain of two, of which the code parses the first.
* The vendor's drivers, lwIP, the I2C controller and the network are external and do what
  their callers must expect: a transfer ends with a completion, an error, or both at once;
  the DHCP client binds an address when it is given a frame or called by the timer, or
  never. The loss of a lease is not modelled.
* The devices behind the I2C bus keep how much of the list they are to get has come, in
  order, or that something else came (`Spoilt`). Delays (`usleep`) and formatting are left out.
* `dhcp_timoutcntr` stays at 0 instead of counting below it (it is compared with `<= 0`
  only); the four limits of the timer interrupt are constants. When the programming of the
  devices is over, its results and local variables are forgotten (`ClocksAreLeft`): main
  does not look at them.
* A stage of the pipeline keeps the whole instruction instead of its decoded control
  lines; the enables that the Verilog gates with `valid` are gated in the same place.
  What the ALU selects for an instruction of another class is not modelled (`Unknown`);
  it is written to A only in a `PESSIMISTIC` build (see 5).

History variables (`age`, `misled`, `copying`, `waiting`, `accepted`, `taken`, `target`,
`isa`, `last`, `clean`, `troubles`, `hidden`, `waited`, `request`, `earlier`) are not
registers or variables of the design and no action's guard depends on them except
where an *environment* is described by them (an agent's minimum time per job).

## 3. The runs

`MinJob = 2` appears throughout: a token enters a queue in its last slot and moves up one
slot a cycle, so an agent that finished a job in the first or second cycle in which the
select line shows it would shift a queue whose first slot is empty, and the token would
stay. The dispatcher is checked and proved for agents that take at least two cycles; the
snooper's, the forwarder's and the CPU's `KeepsJobLongEnough` say that they do.

| run | shows | bounds and why they suffice |
|---|---|---|
| `dispatcher` | exclusive buffers, jobs held, refinement of `PingPangPung`, recycling | complete: the real three buffers and three queues, every combination of done pulses, resets at any time |
| `snooper` | what is copied and when; `CopyFinishes` | buffer of 4 beats, packets of 1 to 5 (one too long), any legal bus wires, PESSIMISTIC; the address is the only unbounded thing and wraps |
| `forwarder` | each packet once and in order, held beats, `JobFinishes` | packets of 1 to 4 beats in a buffer of 4, two job numbers to tell neighbours apart, PESSIMISTIC |
| `datapath` | buffers, select lines, stored packets, deliveries | both builds. PESSIMISTIC: packets of 2 and 3 beats so that lengths shrink and grow from job to job. Without: packets of 3 beats and a CPU that reads in between (its reads disturb the output registers). Stops while the filter is quiet; all three buffers. One packet identity (a second exceeds the time): this run sees the order of packets by their lengths only, `PacketsAreStoredIntact` and `AcceptedAreDelivered` show it for any number of identities |
| `parallel` | one ready VM per agent, no switching | 5 VMs (the default), two arbiters, so that the carry matters; one buffer per VM |
| `cpu` | order of execution, operands, committed state, time per job, verdicts | both builds; all bodies of three instructions from a pool of fifteen (every class, every kind of operand) followed by two returns, restricted as in 5; two packets; gaps and stops in any cycle. Hazards reach over at most three instructions, and a jump adds bubbles. IR begins with the first instruction, which loading leaves there (`LoadedIR`: a write of the code memory clocks its read port at PC = 0, `codemem.v:26`; with two instructions or more the last such read finds the first one), and after a stop or a verdict with whatever the run left in it |
| `loader` | which program runs after runs of `sendfilt`; code stable; every undisturbed run takes effect | both builds; two runs of one and two instructions on a code memory of two, so that appended and mixed programs show and addresses wrap; words of one digit; address and data in either order; one trouble (an overlap, a killed run, lost data, a chained buffer, a reboot with or without the fabric) before, between or in the runs: each trouble leaves at most one half-finished line, instruction and program behind, and a second run shows what that does |
| `board` | meaning of a successful programming; life time of transfers; address; main loop goes on | four builds that between them have all three platforms and every option; all transfers of both devices, an error of any of them; timer limits 5, 4, 3, 2 instead of 400, 4, 120, 24, which keep every order in which the counters can run out relative to each other and to main |

Three-bit words and two scratch registers are enough to tell operands apart; 3-bit
addresses keep jumps inside the code. The programs have forward jumps only, as BPF
demands. A verdict is a return of a constant.

Fairness. The clock runs: `WF_vars(Next)` in every liveness check of the filter, and in `dispatcher`
also that an agent with a job ends it in the end, which the liveness properties of the
three agents justify: `CopyFinishes` (as long as beats are transferred), `JobFinishes` (as
long as the sink is ready again and again) and `GetsVerdict` (programs without backward
jumps). The conditions on the buses are antecedents of the properties, not fairness.
In `loader` the clock runs and the bus lets every store through (`WF_vars(Clock(AllReady))`;
the bus of a processor system answers), lwIP hands over what TCP has received, and a run
of `sendfilt` that is not stopped goes on sending. A kill, a reset, an overlap are not
excluded by fairness: `Restarts` says that a run is disturbed or takes effect. In `board`
the processor goes on (`WF_vars(Main)`), the timer counts, interrupts are taken and
transfers on the I2C bus end. That the PHY's link comes up and that nothing has failed for good
(`Trouble`: main has returned, waits for a PHY that errors made unreachable, or has no
timer) are antecedents of `KeepsServing`.

Deadlock is checked in all runs but `loader`, where nothing is left to do when both runs are over
and the board is at rest, and `board`, where `main` may return.

## 4. The proofs

`DispatcherProofs` with `QueueProofs`, from `MinJobAssumption` and, but for the first theorem, `MinJob >= 2`:

* `TypeCorrect`: every slot of every queue holds a buffer or nothing.
* `ExclusiveControl`: each buffer is in exactly one of the nine slots. The property is not
  inductive. The argument *counts*: `Total(b)`, the number of slots that hold `b`, is 1.
  Lemmas about `Shift` and the three queues say how one clock edge changes the count,
  *if* the slot that is dequeued is the first one and a slot that takes a token is free.
  The first holds because a job that has been visible for two cycles has moved to the
  first slot (`Settled`, with the agents' ages); the second because with three buffers
  in all a queue that receives one cannot be full, and because the snooper's queue, which
  can receive two at once, has room in both slots it uses (`JustReturned`).
* `FrontIsKept`: the buffer at the front of a queue stays there until its agent is done. The one
  way to lose it is two buffers that come back to the snooper at once and overwrite the
  second slot; the same invariant excludes it.

* `QueuesAreLists`: the refinement. The nine registers implement `PingPangPung`, whose state is, for
  each queue, the sequence of its full slots (`JobsOf`). A clock edge is followed slot by slot:
  `OneComesIn` and `TwoComeIn` say that the list loses its head when the first slot is
  dequeued and grows at its end by what comes in, if there is room, and `ClockFits` says
  that there is. So every clock edge is a round of the abstract specification, or its restart.

`SnooperProofs`, from `SourceAssumption`, `ParamsAssumption` and `DepthAssumption` (2^AddrWidth is a
positive number: the provers do not know powers), for every bus that obeys AXI Stream, all packet
lengths, buffers of any size and both builds: all safety invariants of the run `snooper`. The
invariant says that a copy in progress (`addr # 0`) has its buffer and is not skipped
(`Copying`), that the delayed ready line is never up without the ready line (`DelayedReady`),
and that the address is the packet's beat unless the packet is skipped or TLAST misled the
snooper (`InPlace`). None of the properties is inductive without `Copying`.

`ForwarderProofs`, from `LinkAssumption`, `ParamsAssumption` and `DepthAssumption`, for all packet lengths,
buffers of any size and both builds: all safety properties of the run `forwarder`. While a
beat is offered the read address is one ahead of the beats the sink has taken, and 0 with the
last one (`Ahead`); the beat offered is the next one of the job (`Offers`); the register that
keeps the last beat while it hangs on agrees with the buffer's output (`Hanging`). Each cycle is
one of four: a beat is read, the last one is taken, the sink stalls, nothing is offered.

`JobsAreLongEnough` of both modules is the premise of the dispatcher's theorems, `MinJob >= 2`, shown
of its agents, in the terms of their own modules: the snooper has had its buffer that
long after a copy of two beats in a PESSIMISTIC build and of three in the other, the forwarder
after any packet in a PESSIMISTIC build and after one of two beats in the other. The CPU's is
`JobsAreKeptLongEnough` in `VmProofs`, below.

`DatapathProofs` puts these together: the agents of the dispatcher are now the snooper, the forwarder
and a CPU of which only `MinVerdict` is known, and the memories of the agents are the buffers.
`DatapathTypes` needs only that the beats of the source are words of the buffers (`BeatsFit`); the
other theorems are about a `Deployment`, whose conditions are those under which the code works:

* TLAST comes only with a transfer (otherwise the snooper copies a stalled last beat as a packet of
  its own, see 5), and packets fit the buffers (the address wraps otherwise);
* `MinVerdict >= 2`, the premise of the dispatcher once more, and packets are not shorter than
  `DatapathAssumption` says (two beats, three without PESSIMISTIC);
* the filter is stopped only while it is quiet, if at all (a stop leaves lengths behind, see 5).

Buffer size, packet lengths, what the CPU reads and when, the bus and the sink are arbitrary.

* `BuffersAreExclusive`, `MultiplexersAgree`: one agent per buffer, connected both ways.
* `PacketsAreStoredIntact`: a packet stays as it was copied until it has been sent.
* `AcceptedAreDelivered`: the sink gets the accepted packets in order, each beat once.

None of them is inductive, and they need each other: a beat is delivered only if the buffer is the
forwarder's, holds the packet and its length, and the forwarder has read from it in the cycle before.
The invariant `IInv` (TLC checked it on the instance of the run `datapath` first) has seven parts.
`TypeInv`: the types, and that the source is within a packet. `Places`: each buffer is
in one slot, and each front has moved down as its job grew older, where the age of the snooper's and the
forwarder's job is read off *their registers* (`snooperAge`, `forwarderAge`) instead of a history.
`Copying`: a copy in progress has its buffer and is as long as the address says. `SnooperBuffers`: the snooper's
first buffer holds the beats copied so far and the others are empty, which is what makes a length
right when its buffer comes round again. `Histories` and `StoredIntact`: the queues hold the packets.
`Sending`: the address, the offered beat and the delayed lines agree with what the sink has taken.
Every step of a deployment is a `Cycle` (`StepsAreCycles`: a restart of the quiet filter differs from a clock
edge in the queues alone); then comes one lemma per part. `Beside` is how the two lists, of buffers and of
packets, are kept side by side when both lose their heads and grow in the same clock edge.

`CodeLoaderProofs`, from the assumptions on the constants only (`WordSize >= 16`: a register holds every
offset of the register file; `ProgramsFit`, see below):

* `LoaderTypes`: the loader's registers keep their types on a bus that offers any writes
  at any pace, with resets at any time.
* `CodeIsStable`: on such a bus the code memory does not change while `control.start` is
  up. The filters start with the register itself, `regstrb2mem` sees start and strobes
  through up to two delay registers, so that the property is not inductive: what must be
  excluded is a strobe that is still in the delay registers when start rises. The
  strengthening says how long ago the last strobe was: the write FSM needs an update
  cycle, a response and another transfer before it updates a register again, which is as
  long as the delay.
* `RunningCodeIsStable`: the same for `FilterLoad`, since each of its steps is a step of
  the loader or leaves it alone, whatever the host, the network and the processor do.
* `LoadTypes`: the types of all that, among them that no run sends more buffers than it has
  and no register of the server's parser exceeds its width.
* `LoadsProgram`: a run of `sendfilt` that began on a clean board and was not disturbed ends with its program in the
  code memory and the filters started; for every word size, all programs that fit, any number of runs
  before it, however TCP cuts the bytes, the parser's state crosses from one buffer to the
  next and the bus delays the writes. `ProgramsFit` says that no program has more
  instructions than the code memory. Nothing in the code checks that: the write address of a longer
  one wraps and overwrites its start (`regstrb2mem.v:82`).

The argument for `LoadsProgram` looks forward. A program is spread over bytes that TCP still has, half a
line in the parser, stores that wait on the bus, half a transaction in the write FSM and strobes in the
delay registers; what the code memory holds *now* says little. `LoadInv` says what the loader *would* hold
if all that were to arrive, in its order, and that each step leaves this as it is.

* Loops. The parser, the stores and the bytes of the buffers are recursive functions over
  sequences (`Loop`). That such a function has values of the right type, that a sequence in two parts is two loops
  one after the other, and that an element is one round, is proved once for any step
  function (`Iterate`), by induction over the numbers of rounds as a set. The parser's and the loader's
  facts are instances.
* The parser. A buffer is a sequence of register writes (`ParseStep`), which do not depend on those
  of the buffers before it. So the bytes of a run are the writes of its lines: stop, then for each
  instruction its halves, then start. The two values of each instruction are those its digits spell (`Encoded`).
* The loader at rest. `AtRest` is the loader as it will be once the write that the FSM has accepted
  and the strobes in the delay registers have had their effect. A clock edge that completes no
  transaction leaves it as it is; one that does applies one whole write to it (`LoaderAtRest`,
  `ClockAtRest`), in both builds, at any pace and with address and data in either order.
* A run. Applied to a rewound loader, which has no half instruction, the writes of a run put instruction k at address
  k - 1 (`LoadedUpTo`, one instruction at a time) and end with a rewound loader that has been started (`RunLoads`).
* The system. `LoadInv` adds to the types and to `Loads`, the sentence above, what that needs: half a
  transaction is one of the oldest store that waits (`BusInv`), an undisturbed run has the server for itself
  (`Alone`), nothing has been sent by a run that has not begun (`Idle`), TCP delivers no more than was sent (`Bounded`),
  and as long as nothing went wrong there was a clean run or none at all (`Untroubled`). TLC checked it on the run
  `loader` first. `LoadedProgram` is the case in which nothing is on its way any more.

At the end of `DatapathProofs`, for every memory size: `ReadsAreExact` (of `ReadSize`). A read delivers the bytes asked for, at
any alignment and of any size, across the end of the memory too, one cycle later or, in
a PESSIMISTIC build, two. `TwoWords` is the arithmetic of the two ports and the offset,
`ReadSelects` that of the selection; the invariant `Staged` ties both registers to the
requests of the last two cycles.

At the end of `CodeLoaderProofs`, `FileHoldsWhatIsSent` (of `BpfFile`): on a host of either byte order `compilefilt` writes the same
eight bytes for an instruction, which are the two numbers that `sendfilt` sends.

`BoardProofs`, from `TimerAssumption` and `BuildsAssumption` (a build is a platform and four switches), for any set of
builds and any limits of the timers: the four safety invariants of the run `board`, from one inductive
invariant `IInv` (TLC checked it on the instance of that run first).

* `BoardTypes`, and `TransfersEndInTime`: whatever was signalled on the way, a function that has nothing to
  report has left no transfer on the bus.
* `ClocksAreProgrammed`: success of a function means that its device has got the whole list. The result is
  reported long after the writes, and a transfer is finished by an interrupt while the function polls; the
  strengthening `Progress` says where the device must be *at every place of the list and in every phase of
  a driver call*, unless an error has disturbed it: `Before(f, n)` writes are made before place n, and
  that of place n with its completion. `AtPlace` ties this count to the lists themselves (`Script` against
  `WriteList`), place by place; `Poll` says that the loop that waits for the link goes back over
  transfers that write nothing. Each kind of step has its lemma, and `GoesOn` and `Returned` are the two
  ways in which a call ends.
* `ServingHasAddress`: between `dhcp_start` and the default address, the ticks counted and what is left of
  `dhcp_timoutcntr` make up the full time (`AddressInv`), although the interrupt counts both between any two
  steps, may bind an address between test and use, and the counter has not been set when
  the first tick may come.

`VmProofs`, from `IsaAssumption` and `JobsAssumption` (code memory is filled with instructions), for every
program, packet, word size and memory size, and for both builds: the safety invariants of the run `cpu`.
`CpuTypes`, `ProgramOrder`, `CurrentOperands` and `SequentialResult` have the hypothesis `Suitable`: no
comparison or ALU operation uses X within two (PESSIMISTIC: three) instructions after a write to it,
and in a PESSIMISTIC build A and X are loaded from the packet or from each other. Section 5 says why
either is needed. Loops, instructions that wait for themselves, and stops in any cycle are *not* excluded,
unlike in the run: they cost verdicts, not results.

* The argument. `isa` executes an instruction when it leaves stage 1; the registers are written two or three
  cycles later. `PendingA`, `PendingX` and `PendingM` are what a register *will* hold when the instructions
  on their way have written back, the youngest writer deciding, with each operand where it is at the
  moment (`imm2`, the address register, the RAM's output, the ALU's output). `Data` says that
  these are `isa`'s values, where `isa` knows one. A clock edge that issues nothing leaves what is pending as it
  is (`PendingAMovesOn`, `PendingXMovesOn`); one that issues a writer changes it as executing the instruction
  does (`DataIsKept`).
* What that needs: `Ordered` (an instruction that reads A or X in stage 2 or 2.5 has no writer of it
  behind it: the stall conditions), `Stages` (control lines and immediate belong to the instruction they
  travel with), `Control` (`IR` is what `isa` executes next; a jump in stage 2 finds itself still in `IR`,
  whose immediates it uses), and `XPlaces`: since no stall protects a comparison or ALU operation on X, the
  writers on their way are found again in the *program*, as many places before `IR` as stages behind it, where
  `Suitable` forbids them.
* `JobsAreKeptLongEnough` has the only hypothesis that no program begins with a return (section 5): with
  that, the verdict of a packet is at least the second instruction fetched for it (`AgesAgree`). With
  `GetsVerdict` this is what the dispatcher's theorems assume of the CPU.
* The arithmetic is proved, not assumed: powers of two by counting subsets (`Power`, `PowerDoubles`), that every
  set of bits is a number by a least counterexample (`NumbersOfBits`), so that every ALU operation returns a
  word (`AluOpType`).

TLC checked the inductive invariant on the instance of the run `cpu`, and on programs that keep to `Suitable` only
with stops in any cycle.

The second part of `VmProofs`, from `ParallelAssumption`, for any number of VMs and of buffers:

* `FiltsTypes`: no VM gives away a buffer it does not have (conservation of the buffers
  of each VM is the strengthening).
* `OneVM`: the carry chain makes the arbiters enable exactly the first ready line
  (`EnablesTheFirst`, `ArbitersEnableOne`); a saved enable is that of one VM that is
  still ready, or there is none (`Kept`).
* `NoSwitching`: while a packet is under way the enable in use is the saved one, and it is
  that of the packet's VM (`Targeted`).

Only model-checked: the liveness properties (`BuffersRecycled`, `CopyFinishes`, `JobFinishes`,
`GetsVerdict`, `Restarts`, `KeepsServing`); liveness under fairness is out of the prover's reach. Every
invariant and every action property of a passing run is a theorem, under the hypotheses named above
(`MinJob >= 2`, `Deployment`, `Suitable`, `ProgramsFit`).

## 5. What disagrees with the code's own words

Four runs are expected to find a violation, each of something a comment of the code says;
the passing runs are restricted accordingly:

* `snooper_stalled_last`: `need_to_wait` is cleared by TLAST without a look at TREADY. A
  last beat that stalls lets the snooper copy it as a packet of its own. The passing run
  says what holds instead (`CopiesUnlessMisled`); the data path runs use a bus on which
  TLAST comes with a transfer.
* `cpu_stale_x`: ALU operations and comparisons with X do not wait for X.
* `cpu_self_stall`: an ALU operation that has to wait for A (it follows a load by one or two
  places) waits for itself for ever; so does one left in IR by a stop, or at address 0.
* `cpu_pessimistic`: the idle stage delays A and X but not immediates, ALU results and
  scratch memory, so that in a PESSIMISTIC build these load the next instruction's value.

The programs of the run `cpu` (`Executable` in `CpuJobs`) keep clear of the last three, and
stops do not happen while such an instruction is in IR.

Disagreements without a run of their own; the models keep clear of the first two and
contain the others:

* A stop (`p3ctrl_rst`, `packetmem.v:95`) resets the dispatcher only. Lengths and the snooper's
  address survive, and the first packets after a start can have a wrong length. A beat that
  the sink has not taken is still offered during the stop, however long it lasts; if the
  sink takes it only when the forwarder has its first job of the new start, it ends that job in its first
  cycle, before its token has moved up (`axistream_forwarder.v:113-139`): the token is
  enqueued and kept, and two agents own one buffer, contrary to `painfulmuxes.v:118`, "One
  agent always has exclusive control of a buffer". Setting `StopWhen = "any"` in
  `MCDatapath.cfg` lets TLC find that trace as a violation of `ExclusiveBuffers`; the run
  `datapath` and the theorems but `DatapathTypes` stop the filter only while it is quiet.
* Packets of one beat and programs of a single return finish a job before `MinJob`: a
  token is then duplicated. The runs use packets of two beats and more (three in a build without PESSIMISTIC), and programs with
  at least one instruction before the first return.
* `sendfilt.cpp:85` says "Restart the packet filter with the new code": after a run that
  stopped the filter and did not start it, the new code is appended to what is there
  (`regstrb2mem.v:87` rewinds on start only); after half an instruction too many, all halves
  are paired wrongly until the fabric is reset. `LoadedProgram` therefore asks for a clean
  board.
* `StatusHandler` (`i2c_access.c:401-418`) looks at completions first: an error signalled with
  one is not counted, though `i2c_access.c:406` and the functions that use it promise
  XST_SUCCESS only if successful. `ClocksProgrammed` excludes such errors (`hidden`).
* `main` ignores the results of `ProgramSi5324`, `ProgramSfpPhy` and `start_application`
  (`main.c:134-135`, `:227`); `ProgramSfpPhy` returns success whatever its writes did, although
  its comment says "@return XST_SUCCESS if successful else XST_FAILURE" (`sfp.c:108`).
* An I2C call that fails returns while its transfer may go on; the handler then writes to
  the frame of a function that has returned (`I2cTooLate`). `NoTransferOutlivesItsFunction`
  says that only a function that reports the failure leaves a transfer behind, or
  `ProgramSfpPhy`, which goes on after errors, when it has counted one. `MuxInit` (`si5324.c:140`) stores to
  an array of no elements.
* The default address may overwrite one that the interrupt has bound in between
  (`main.c:212`).
* The comment of `platform_zynq.c:123-129` speaks of 100 ms, the counter of 400 interrupts of
  250 ms each; `print_app_header` prints port 6001 and `start_application` listens on 7.

## 6. Not modelled, and the plan

Done, in this order: dispatcher and its abstract specification; snooper, forwarder and
memory, alone and composed; parallel filters; CPU; code loader with all that feeds it;
board program; read size adapter; file format; proofs about the three parts of the data path,
the refinement, the composed data path, the board program, the CPU, and the code loader with
all that feeds it. Left: the CPU in place of the abstract one in `FilterDatapath`, for a few fixed
programs, and the sizes of `ReadSize` in the loads of `BpfCpu`.

Left out for good: the read side of the register file (it answers the processor and
changes nothing else), what `libpcap` compiles, the handler of `sendfilt.cpp` (never
called), the PowerPC port (`platform_ppc`), IPv6, caches and the serial port, lwIP and
the vendor's drivers (their callers see them as external), `Old_Sources` (not
instantiated), the packaged copies in `IPs`, the test benches. That lwIP is called from an interrupt
while the main loop may be inside it (`platform_zynq.c:115`) is a hazard no model of the
calls alone can decide: its data are not in this repository.
