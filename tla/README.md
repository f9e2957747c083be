# Tiara: specifications, model checking and proofs

Tiara is a NIC that runs small *operators* next to the memory they work on. A
client sends a frame (or a host writes a register), a *memory processor* (MP)
runs the operator's instructions, which load, store, copy and atomically update
host memory and the memory of peers, and a result goes back. The repository has
the hardware (`src/rtl`, `src/integration/corundum_app/rtl`), a toolchain
(`src/sw`: assembler, compiler, verifier, client), a second implementation of
toolchain and execution for a browser (`src/web/src/engine`), and test benches.

This directory holds TLA+ specifications of that code, TLC configurations and
TLAPS proofs. Every definition is translated from the source; `PROJECT.json`
maps each one to its lines.

## 1. Inventory

| Part | Source | State | Operations | Hard because |
|---|---|---|---|---|
| Instruction set | `tiara_pkg.svh`, `isa.ts`, `tiara_isa.py` | - | immediates, ALU | two executors give the same bits two meanings |
| Memory processor | `tiara_mp.sv`, `tiara_istore.sv`, `tiara_regfile.sv`, `tiara_alu.sv`, `tiara_loop_stack.sv` | FSM state, pc, registers, loop stack, in-flight counter, multiplier pipeline | fetch, 11 opcodes, waiting for memory, fault | answers, grants and completions are one-cycle pulses on one port |
| Single-MP dispatcher | `tiara_dispatcher.sv` | FSM state, start/done ports | take, await, report | pulses without acknowledgement |
| N-MP dispatcher, MP array | `tiara_dispatcher_n.sv`, `tiara_mp_array.sv`, `tiara_synth_top_n.sv` | busy bits, tag and argument registers, done port | dispatch, complete | MPs start and finish in the same cycle |
| One-request memory | `tiara_mem_simple.sv` | FSM, request, counter, memory | take, wait, drive | posted stores and async copies share the answer port; addresses share cells |
| Memory subsystem | `tiara_memory_subsystem.sv`, `tiara_pcie_dma.sv`, `tiara_rdma_engine.sv` | two slot rings, counters, two memories, pulses | issue, count down, complete, merge | engines overtake each other, pulses collide |
| Interpreter | `vm.ts` | registers, memory, loop stack, counters | every instruction, step limit | must agree with the hardware |
| Verifier | `tiara_verifier.py`, `verifier.ts` | abstract values, loop frames, bound | one pass over the text | says what every execution will do from one pass in text order |
| Wire datapath | `tiara_rx_filter.sv`, `tiara_tx_resp.sv`, `tiara_tx_arb.sv`, `mqnic_app_block.sv`, `tiara_datapath_top.sv` | frame buffer, hold slots, identity registers, response, channel owner | classify, invoke, replay, respond, arbitrate | frames overtake tasks; buffers made for one size |
| Register interface | `tiara_axil_slave.sv` | sticky done, argument registers | writes, reads | a read clears what it may not have seen; windows are decoded from a few bits of the address |
| Operator table | `tiara_op_table.sv` | entries | register, look up | what is not there is address 0 |
| XDMA datapath | `tiara_xdma_engine.sv`, `tiara_xdma_host_stub.sv`, `tiara_synth_top_xdma.sv` | FSM, scratch, descriptors | copy, read, write, atomic | atomics are several bus transactions |
| Encoding, assembler | `isa.ts`, `asm.ts`; `tiara_asm.py` | labels, constants, words | lay out, resolve, encode | instructions of two words, distances counted in words |
| Compiler | `cc.ts`; `tiara_cc.py` | symbols, scratch registers taken, labels made, lines emitted | parse, lower every statement, expression and builtin | seven registers, no stack, registers freed by hand |
| Playground | `Playground.tsx`, `operators.ts` | editors, loaded program, report, result, the interval, the interpreter | load preset, edit, compile, assemble, reset, step, run | eight pieces of state kept in step by callbacks |
| Driver, client, benches, evaluation, site | `src/host`, `src/sw/client`, `src/sim`, `src/eval`, rest of `src/web` | - | drive the above | - |

What makes each part correct:

* **dispatchers**: a task that is accepted is started once on an idle MP and
  reported once, with its own tag and result; none is forgotten;
* **MP**: every instruction has the effect the ISA document gives it; an MP
  that waits is waiting for something that will come, and what comes is its own;
  WAIT does not pass copies; a task's end releases the dispatcher;
* **memories**: the MP goes on exactly when its request is taken, a request is answered
  once, and the counters behind `ready` and WAIT are the true counts;
* **interpreter**: it and the core take the same steps;
* **verifier**: an accepted operator ends within its bound, nests its loops
  within the stack, touches declared memory only, keeps its copies countable;
* **wire**: ordinary frames pass unchanged, a request is run once with its own
  arguments, the answer names its request, frames on the wire are not mixed;
* **register interface**: the host reads its own task's result and error flag, and
  learns of the end of every task it started;
* **toolchain**: the parser gives back the tree that was written; a register is
  given out once and taken back; what the compiler emits the assembler accepts, and
  its loops nest; running the words gives what the C means;
* **playground**: report and result on the screen are those of the program that
  is loaded; running stops; the shipped operators do what they promise.

The parts interact by signals within one clock domain: start/done pulses
(dispatcher and MP), a request/ready/valid interface (MP and memory), AXI
streams (wire path), and a busy flag that the receive filter and the host look
at before they invoke. The verifier and the interpreter meet in the operator:
one judges the text, the other runs it. The playground calls parser, compiler,
assembler, verifier and interpreter one after another, each on what the one before
left, with edits in between.

## 2. Modules

```
TiaraIsa ──┬─ TiaraMP ── TiaraTask ──┬─ TiaraCore  (with TiaraMemSimple)
           │            (TiaraDispatcher)└─ TiaraTop   (with TiaraMemSubsystem)
           ├─ TiaraVM ─────┬─ TiaraOperator (with TiaraVerifier, OperatorShapes)
           │               └ abstract specification of TiaraCore
TiaraIsa ── TiaraEncoding ── TiaraAsm ──┐
TiaraCSyntax ── TiaraParser ── TiaraCC ─┤
TiaraPresets (shipped operators) ───────┼─ TiaraPlayground (with TiaraVM,
TiaraCMeaning (what a C function means) ┘   TiaraVerifier, OperatorShapes)
TaskService ── abstract specification of TiaraDispatcherN
TiaraRxFilter, TiaraTxPath, TiaraDispatcher ── TiaraAppBlock
TiaraAxilSlave, TiaraDispatcher ── TiaraHostPath
```

One action of a hardware module is one clock edge of its FSM: the `always_ff`
block read top to bottom, each `<=` a primed variable. A composing module
(`TiaraTask`, `TiaraCore`, `TiaraTop`, `TiaraAppBlock`) clocks its parts
together in one conjunction, and combinational signals are operators on the
current state. So the interleavings are those of the hardware: what differs
from run to run is when inputs come and how long work takes. Reset is the
initial state.

| Module | Models | State and actions |
|---|---|---|
| `TiaraIsa` | ISA package, both ALUs | pure operators: `SignedImm`, `Wrap` (2^WIDTH), `RtlAlu`, `VmAlu` |
| `TiaraMP` | the MP and its small RAMs | one variable per register of `tiara_mp.sv`; one action per FSM state, and per opcode in S_EXECUTE; `EveryCycle` is the pipeline and counter that run in all states |
| `TiaraDispatcher` | `tiara_dispatcher.sv` | `Invoke`, `NoInvoke`, `AwaitDone`, `PulseDone` |
| `TiaraTask` | dispatcher and MP on an unspecified memory | `TaskStep(args)`; `TaskSpec` lets the memory drive anything |
| `TiaraMemSimple` | `tiara_mem_simple.sv` | `MemRest`, `MemTake`, `MemWaiting`, `MemDrive` |
| `TiaraCore` | `tiara_synth_top.sv` | `Tick` |
| `TiaraMemSubsystem` | router, PCIe DMA and RDMA engines | `SubStep`: issue, countdown, completion of both engines in one edge |
| `TiaraTop` | `tiara_nic_top.sv` | `Tick` |
| `TiaraVM` | `vm.ts` | one action per `case` of `step()`; `VMReset` |
| `TiaraVerifier` | `tiara_verifier.py`, cross-read with `verifier.ts` | the pass as a recursive function over the text, `States`; `Accepts`, `StaticStepBound` |
| `TiaraOperator` | verify, then run | `Invoke`, `Step`, `Abort` (step limit) |
| `OperatorShapes` | hypotheses: classes of programs | `Structured`, `FixedCounts`, `InertTails`, `FewCopies`, `StraightAccesses` |
| `TiaraDispatcherN` | N-MP dispatcher with the MPs' handshake | `Tick(t, fin)`: `Dispatch`, `Complete`, `UpdateBusy`, `StepMPs` |
| `TaskService` | what a dispatcher promises (abstract) | `Accept`, `Report`, `AcceptAndReport` |
| `TiaraRxFilter` | `tiara_rx_filter.sv` | one action per FSM state and outcome |
| `TiaraTxPath` | `tiara_tx_resp.sv`, `tiara_tx_arb.sv` | `Build`, `Drive`, `NextOwner` |
| `TiaraAxilSlave` | `tiara_axil_slave.sv` | write channel: `TakeWrite`, `WriteRests`, `WriteResponds`; read channel: `TakeRead`, `ReadRests`, `ReadResponds`; `Sticky` |
| `TiaraHostPath` | a host program on that interface, dispatcher, the wire's pulses | `Tick(drives, ready, finish, failed, invokes)` |
| `TiaraEncoding` | `isa.ts`: instruction words as numbers | `encode`, `decodeWord`, `ImmFits` |
| `TiaraAsm` | `asm.ts` | `assemble`: both passes over the lines, a line being its label, its first word and tagged operands |
| `TiaraCSyntax` | tokens and trees of `cc.ts` | `Source` writes a tree down as tokens |
| `TiaraParser` | class `Parser` of `cc.ts` | a state of tokens left, trees built; one operator per method; `parseFunction` |
| `TiaraCC` | class `Compiler` of `cc.ts` | a state of lines, symbols, registers taken, labels; one operator per method; `compileC` |
| `TiaraCMeaning` | reference: what a C function means, and the classes of functions the code is right for | `Meaning` |
| `TiaraPresets` | `operators.ts` | the five operators: assembly, manifest, seeds, arguments |
| `TiaraPlayground` | `Playground.tsx` | one action per callback: `LoadPreset`, `EditAsm`, `EditC`, `EditArgs`, `Compile`, `AssembleAndLoad`, `Reset`, `StepClick`, `RunClick`, `Tick` (the interval) |
| `TiaraAppBlock` | `mqnic_app_block.sv` | `Tick`, with the wire, the host and the NIC behind as inputs |

`MC*.tla` instantiate them for TLC; `MCPrograms` has the instructions and
programs the instruction store is loaded with. `*_proofs.tla` hold the proofs.

The toolchain is modelled by what its functions compute, as operators on a state
that is passed on: a method of `Parser` or `Compiler` is an operator from the state
before the call to the one after, `ok` turns false where the code throws, and
nothing is done after. Values that methods return to each other (registers) are a
stack in that state. `TiaraCSyntax`, `TiaraParser`, `TiaraCC` and
`TiaraCMeaning` declare recursive operators, so nothing is proved in them.

Data is reduced to what the properties tell apart. Words have 2 to 4 bits (8 in the
playground) and wrap; a loop frame's count has `COUNTW` bits, fewer than a word; the cell of an address is what the memory takes of it
(`Cell` in `TiaraMemSimple`, `WordIdx` in `TiaraMemSubsystem`); instructions are records of decoded fields, and an
opcode that is none may have the bit that makes the MP fetch a second word, or not (`AfterLatch`). A task's result in
`TiaraDispatcherN` is the tag of the task it was computed for, in
`TiaraAppBlock` the arguments it was computed from. Frames are counted in units
of 32 bytes; a unit is named by its frame and place, so merging, truncation and
stale buffers show; the requester's MAC, op_id and task_id are one identity.

## 3. Runs

| Run | Instance | Shows |
|---|---|---|
| `DispatcherN_any` | 3 MPs, 4 tags | Whatever the timing: done-events answer tasks under way with their result, start pulses reach idle MPs, no task is on two MPs, completions are lost only by collision, the safety half of `TaskService`. If no two MPs ever finish in one cycle: nothing is lost, and every task is reported |
| `Task_open` | 3 registers of 2 bits, programs of 2 instructions, 2 tasks | on a memory that drives any pulses at any time: the handshake holds, the port shows the finished task's result at done and keeps it while the next task runs |
| `Core_refines` | 3-bit words, programs of 3 instructions (memory) and of 5 (loops, branches), 2 tasks | the core implements `TiaraVM`, on `Structured` programs |
| `Core_tasks` | 3-bit words, every program of 3 from 11 instructions, 2 tasks | answers belong to the instruction that waits, nobody waits for nothing, copies are counted exactly while under way, tasks finish |
| `Core_mul` | one MUL | *fails*: MUL does not give the product |
| `Top_tasks` | every program of 4 from 7 instructions, posted stores, copies and waits among them, and `Structured` programs of 3 that wait for every request; rings of 2 and 1 slots, latencies 4 and 9, 2 tasks | full rings, both engines at work, issue next to completion: the slot counters (`UncrowdedCountExact`), issue and ready (`IssuedOnce`), the MP's counter of copies (`ApartCopiesCounted`), whose answer ends a wait (`WaitedAnswerEndsRequest`), each up to the circumstance in which the code loses it |
| `Top_answer` | STORE, LOAD | *fails*: the store's pulse answers the load |
| `Operator_tasks` | 4-bit words; every accepted operator of 3 instructions of all kinds, 5 of flow, 4 of address arithmetic, nests of three loops; 3 argument vectors | the verifier's promises, each for the class of operators for which the code keeps it |
| `App_wire` | 512-bit beats; two frames of any length, or three of two beats; 1 host invocation, any host frames | pass-through, echo, drops, arbitration, answers - each with its circumstances |
| `Host_tasks` | 3 tasks of the host, 2 of the wire, 2 arguments, any delays | with the wire quiet: the host gets its own results, as the third, fourth, first and second of its task, and its own error flag, it learns of the end unless a status read crosses the completion |
| `Playground_session` | 8-bit words; about 1000 C functions, 7 assembly sources, 5 presets, 2 argument vectors, 4 agendas of clicks | trees are parsed back, scratch registers returned, compiled code assembles and nests, its run gives what the C means, presets pass the verifier and keep their promise, what is shown belongs to what is loaded, running ends |
| `Playground_counters` | same | *fails*: the counter of a second loop starts where the first one left its register |

**Bounds.** Two tasks (`MaxTasks`) are what it takes for one to leave something
to the next: every register is written by a task and read by its successor at
the latest. Three MPs give two that collide and a third that is free; a fourth tag
makes the caller wait. Programs of three memory instructions put any two next
to each other with a third before or behind; five flow instructions hold two
loops with a branch in and out. Rings of two slots and of one fill up. Three bits make addresses
of one host half and one peer half and let sums wrap; each half has two cells of two addresses, and `Window` is the
lower address of each: the addresses no two of which share a cell. `COUNTW = 2` gives a frame counts from 0 to 3,
and `LongArgs` has the count 4, whose low bits are zero and which still fits, since the frame holds one less. Two frames suffice for one
to overtake the other's task, three for what follows a merge. `maxSteps = 70`
lies above `max_dynamic = 60`, so that a bound that is exceeded shows before the
limit cuts it; `WrittenCounts`, one of the operators of the run, meets the limit and is outside the class of `EndsUnaided`. The C functions of `MCPlayground` are every pair of binary operators
in both groupings, pairs of unary and binary ones, addresses, every pair of 24
statements on a variable, eight to ten registers wanted at once, and sources the
compiler or the assembler refuses. Words of 8 bits and
immediates of 7 (`IMMW`) keep the layout of registers (16), arguments (8), scratch
registers (9-15) and results (4) as they are, and leave room for addresses of 8-byte
elements; `maxSteps = 90` is above what any of the functions takes and below what a loop
of 63 turns does. `Agendas` bounds a session to five clicks, each from a set: compiling and running a
source; a preset, edited, loaded twice and run; assembly by hand, refused or not, then anything twice; anything while
the interval runs. `MaxHostTasks` bounds the host's invocations; three tasks in `Host_tasks` let one leave its bits to the next
and that one to a third. `HALF = 64` stands for 2^32: a half of a register holds the name of what was written there. Latencies differ
between the engines so that requests overtake; `LOCAL_LATENCY = 9` makes a
posted store outlast the instructions behind it, 0 makes it as fast as can be.

**Fairness.** The hardware's is `WF_vars(Next)`: the clock goes on. In
`TiaraDispatcherN` an MP that runs finishes (`WF(FinishMP(m))`), because the
operators that are loaded terminate (`StepsBounded`, `TasksFinish`). In
`TiaraAppBlock` the environment is the network: `WF(Forthcoming)` says that again and
again there comes a cycle in which nobody holds back - the wire brings its frame,
the receivers are ready, a host frame that has begun goes on, the MP finishes.
Nothing is assumed of the cycles between. In `TiaraHostPath` it is the same kind of cycle: the
host presents its next access and takes its answer, the MP finishes, the wire is quiet. `TiaraPlayground` has `WF(Tick)`: the
browser's `setInterval` fires as long as it is set; nobody has to click. `TiaraOperator` and `Core_refines` check
safety only and assume nothing.

**Circumstances.** Some promises hold for part of the inputs only, because the
code is wrong or because it relies on its caller. They are stated with the
circumstance as a hypothesis, so a run that passes says exactly how far the
promise goes:

* `OneAtATime` (no two MPs finish in one cycle) for `SerialLosesNothing`, `ServiceReports`;
* `Structured` (loops nest and end apart, counts above zero, branches stay in
  their loop, the last RET is an instruction) for `RefinesVM`, `NestingBounded`, `EndsWithRet`;
* addresses that share no cell (`InWindow`) and counts that fit a frame and are not zero (`CountsFit`) for `RefinesVM`;
* `FixedCounts` (no instruction writes a register a loop takes its count from) and `InertTails` (the second word of an
  instruction does nothing when it is executed as one) for `StepsBounded` and `EndsUnaided`; tasks the step limit does not
  stop for `EndsWithRet`; `FewCopies` (copies outside loops, no branch back) for `WaitDrains`;
* `StraightAccesses` (no branch, no loop, no offset; no sum of two registers and no shift, whose intervals
  wrap unnoticed; no copy that leaves its status in a register) and no interval with
  its ends wrapped apart (`Wrapped`) for `StraightAccessesDeclared`;
* programs that wait for every request (`WaitsForAll`) for `WaitedAnswerEndsRequest`;
* `OneEventAtATime` (an engine does not take a request in a cycle in which one completes, nor complete two) for
  `UncrowdedCountExact`; right counters and not only the other engine's ring full (`OnlyTheOtherIsFull`) for `IssuedOnce`;
  `CopiesApart` (copies are accepted and done one at a time, none is blocking, none is under way when a task starts) for `ApartCopiesCounted`;
* frames of two beats (`TwoBeatFrames`) and invocations no longer than the frame buffer (`InvocationsFit`) for pass-through; a client that waits for
  its answer, a host that invokes nothing and sends no frame of one beat for `ClientsAreAnswered`;
* `WireIsQuiet` for `HostGetsItsResult` and for `LostOnlyToWire` (proved, in no run: a start that is lost shows in
  `HostLearnsUncrossed`); that and never `ReadCrossesDone` for
  `HostLearnsUncrossed`;
* `NumbersFit` (literals fit a signed immediate) for `CompiledStructured`;
  `DistinctNames` and `NothingDropped` (no results nobody takes, constant indices) for `ScratchReturned`;
* `PlainC` for `MeansWhatItSays`: `NumbersFit`, `DistinctNames`, `FixedLoops` (a body changes
  neither counter nor bound), `UpdatesOnce` (an updated element's index has no side effect), `SlotsFree`
  (a result slot whose argument is still read is not set), `NoShiftAssign`; with
  `CountersFresh` on top, without which the run `Playground_counters` fails.

## 4. Divergences

The three that have a run are under `findings`. Of the others, all met while
modelling, the model contains the behaviour of the code:

* **MP.** WAIT advances the pc twice and skips the next instruction
  (`tiara_mp.sv` 308-311, 504-507; programs of the runs put a NOP there;
  `NextAfterWait`). The loop stack is not cleared between tasks (366, 510-513;
  `OnlyActiveFrames`). LOOP with count 0 runs its body once (495-501), in
  `vm.test.ts:76` never. Of loops that end together only the innermost is handled
  (590-597; `vm.ts` 234-251 takes all). An unknown opcode ends the task without an
  error (514-515, 567-569; `vm.ts` 455-457 sets one). ANDI sign-extends its
  immediate (`tiara_alu.sv:59`; `ISA.md:93`). RET does not wait for copies
  (510-512; `vm.ts:370`; `RetDrainsCopies`). A loop count keeps 32 of its bits (499; `tiara_loop_stack.sv:42`), all 64 in
  `vm.ts` 338-345, and the test for zero looks at all 64: 2^32 + 1 rounds are one, 2^32 are 2^32. An illegal opcode with bit 63 set
  fetches a second word before it ends the task (397). The done pulse that the memory subsystem
  gives for a blocking copy counts down the asynchronous ones under way (253-254).
* **One-request memory.** An address is cut to `[2 +: AW]` (`tiara_mem_simple.sv` 114-115): the two lowest bits and those between
  the memory's depth and the device id are dropped, so addresses share cells; the comment of `off_of` (33-37) speaks of words of 8 bytes and
  of dropping three bits. Every device but 0 is the one peer (113). The interpreter has a word for every
  address (`vm.ts` 116-121) and lets none share.
* **Memory subsystem.** Region bits of an address and those above the depth of the memory are dropped
  (`tiara_pcie_dma.sv` 84-86). The slot counter is wrong after a cycle with an issue and
  a completion (`tiara_pcie_dma.sv` 167, 245). A request is dropped when the ring
  has no slot though the counter says so (131, 159-168), or taken twice when the
  other engine is not ready (`tiara_memory_subsystem.sv:223`). Two copies that
  end together give one pulse (`tiara_pcie_dma.sv:227`), and WAIT stalls. A short
  request overtakes a long one (17; `YoungestFinishesLast`). The error of a remote
  read stays on the flag (`tiara_rdma_engine.sv:202`; `ISA.md:114`; `CopyStatusIsOwn`).
* **Verifier.** The bound is a product of counts as they are in the text in front of the loop
  (288-295), also where a jump passes over what wrote the count (`DynamicBounded`); such an operator may be accepted and still meet the step limit, nesting follows text order (286), RET is looked for anywhere (349-350),
  copies are clamped (303-306, 351) while the interpreter's counter saturates (`vm.ts`
  412-413), offsets of accesses are not looked at (316-321), intervals may wrap (76-80): an
  ADDI can put the ends in the wrong order; a sum of intervals or a shift can be wider than a word, with ends that look in order. A MEMCPY writes its status over a
  register (`vm.ts:392`), of which the pass still believes what it knew before (303-314). A branch may lead into the
  second word of a CAS or MEMCPY, which the pass never looks at: one that branches back from there never ends. The assembler and the
  compiler make second words that do nothing (`tiara_asm.py` 240, 254, 266), but an image need not come from them.
* **Wire.** A frame that waits for the MP overwrites the identity the running
  task's response will carry (`tiara_rx_filter.sv` 231-254; `WIRE_PROTOCOL.md:25`
  says task_id is echoed; `ResponseEchoes`). The arbiter stays with an input after a
  frame of one beat, which every response is, until that input's next frame ends
  (`tiara_tx_arb.sv` 58-69 against 4-5). A host invocation between the filter's look
  at busy and its pulse makes the dispatcher drop the frame. A host's task is answered on the
  wire as well, to the last wire client. A frame of one beat is merged with the frame behind it and
  beats beyond the second are dropped, though ordinary frames are to pass unchanged
  (`tiara_rx_filter.sv` 191-197, 210-215; `WIRE_PROTOCOL.md:88`; `PassthroughUnchanged`).
* **Register interface.** A result register is chosen by bits 4:3 of the address, and the window begins at 0x2050: it reads as
  result[2], [3], [0], [1] (`tiara_axil_slave.sv:238`; the table in the header, 25; `ResultsInOrder`). A read of the status that has sampled done = 0 clears the bit when its answer
  is taken, two cycles later or more; a completion in between is lost and a host that "polls the status register until
  done" (`DEPLOYMENT.md:135`) polls for ever (`tiara_axil_slave.sv` 260-269; `HostLearns`). A host that
  polls busy instead may see busy fall one cycle before the error flag is set. The done bit of a wire task is taken
  for the host's own, also in the very cycle in which the host's task starts (110-112). A "reset" bit of the control
  register (16) does nothing.
* **N-MP dispatcher.** Of MPs that finish in one cycle all but one are forgotten and stay
  busy for ever (`tiara_dispatcher_n.sv:80`; its header, 11-12; `NoLostCompletion`).
* **Assembler and encoding.** `checkImm40` lets unsigned numbers up to 2^40 - 1 pass, which
  decoding reads as negative (`isa.ts` 104-111). The stride and COUNT options of MEMCPY are encoded and
  nobody acts on them.
* **Compiler.** The counter of a loop is not set to 0 (684-699). Any iteration -
  `i--`, `i += 2` - counts up by one (326-345), and the number of turns is fixed at entry. A
  declaration that shadows a name, and every `for`, deletes the outer symbol (521-538,
  698). `<<=` is compiled as `<` (663). `tiara_set_result(k, ..)` writes over the register
  of argument k. An updated element evaluates its index twice. Sums made for a variable
  index, and results nobody takes, keep their register (641-643, 888-902). A negative mask is printed
  `0x-1`, which the assembler refuses; `a & -1` keeps 40 bits. `int64_t` compares unsigned. Text behind
  the first function is not looked at.
* **Playground.** A source the assembler refuses unloads the program and leaves its report
  and its result on the screen. A step of an empty program throws (`Throw`). The result is labelled
  r0-r3 and shows r1-r4. The C editor's example is compiled to addresses
  the verifier rejects as opaque.

**Further configurations.** Each names the definition it checks and fails with a
short behaviour: `Core_wait`
(`NextAfterWait`, module `MCCore`); `Top_count` (`CountExact`), `Top_wait` (`TasksFinish`; module `MCTop`).
Run `tlc -config Core_wait.cfg MCCore`. Others are got by a line: `Operator_tasks.cfg` with
`Programs <- PastTheEnd` and the one invariant `AccessesDeclared` (the check lets the word past a region through,
`tiara_verifier.py:413` against 372-373), or with `Programs <- WrittenCounts` and the one invariant `DynamicBounded` ("instruction count bounded by
`max_dynamic` from the manifest", 7-8);
`DispatcherN_any.cfg` with the invariant `NoLostCompletion`, `App_wire.cfg` with the invariant `PassthroughUnchanged` or
`ResponseEchoes`, `Host_tasks.cfg` with the property `HostLearns` or the invariant `ResultsInOrder`, each in place of its own; `Core_refines.cfg`
with `Programs <- ZeroProgram`, `NestedProgram` or `BadProgram`, with `ArgSets <- OverArgs` (a count too wide for a frame), or with `WIDTH = 4`,
`Programs <- AndProgram` and `ArgSets <- HighArgs`, shows where core and interpreter
part; the property `TakenIffHeard` with `FullRing` in `Top_count.cfg` shows a request lost, with `PeerStores` in
`Top_tasks.cfg` one taken twice; `Core_wait.cfg` with `StaleProgram` and `OnlyActiveFrames`, `Core_tasks.cfg` with `CopyProgram` and
`RetDrainsCopies`; `Top_count.cfg` with `LongShort` and the property `YoungestFinishesLast`, or `BadThenCopy` and the invariant `CopyStatusIsOwn`. The
type invariants `TypeOK` of `TiaraCore`, `TiaraTop`, `TiaraOperator`, `TiaraAppBlock` and `TiaraPlayground` hold in
`Core_refines`, `Top_tasks`, `Operator_tasks`, `App_wire` and `Playground_session` when added there.

## 5. Proofs

| Module | Theorems | For every |
|---|---|---|
| `TiaraDispatcherN_proofs` | `TypeCorrect`, `AnswersAreRight`, `StartsAreSafe`, `OwnersAreUnique`, `LossNeedsCollision`, `NothingLostSerially`, `Refinement` | number of MPs, set of tags |
| `TiaraTask_proofs` | `HandshakeIsExact`, `ResultsAreStable` | program, memory, argument, width, depth |
| `TiaraCore_proofs` | `AnswersAlwaysBelong`, `WaitsAreAnswered`, `NoPhantomCopies`, `CopiesAreCounted` | program, latency, width, depth |
| | `ImplementsVM`, `ImplementsWhileFitting` | program of the class below, arguments, latency, width, depth, nesting, size of a count, size and grain of the memories |
| `TiaraTop_proofs` | `UncrowdedCount`, `RequestsIssuedOnce`, `RequestsAreWaitedFor`, `AnswersEndRequests` | program, latencies, ring and memory sizes |
| `TiaraAppBlock_proofs` | `FramesStayWhole`, `OnlyTheHostGetsInBetween`, `IdentityIsEchoed`, `OrdinaryFramesPass` | traffic, beat width, frame buffer, number of the host's invocations |
| `TiaraOperator_proofs` | `HasRoom`, `ReachesRet`, `WaitsForCopies`, `StaysDeclared` | program, manifest, argument, width, nesting limit, cap of copies |
| `TiaraOperatorSteps_proofs` | `CountsBounded`, `EndsByItself`, `ReturnsByItself` | program, manifest, argument, width; the last two for every step limit above the manifest's |
| `TiaraHostPath_proofs` | `HostInvariant`, `HostGetsResult`, `OnlyTheWireTakes` | number of tasks, up to three arguments (as many as fit the result registers), timing |

**`TiaraDispatcherN`.** `DoneAnswersItsTask` alone is not inductive: an MP's
pulse is reported with whatever the tag register holds. `IInv` says what an MP's
phase implies for the registers: a start pulse finds the MP idle, with no pulse
pending and its busy bit set (`PulsesInv`); a busy MP's tag is outstanding, its
argument register, its work and its result are the tag's, and a MP that works is
busy (`RegistersInv`); tags of busy MPs differ (`OneOwnerPerTask`). Each step
is proved from two facts about the priority encoders (`LowestFacts`,
`TakingFacts`: at most one index, from the set). `NothingLostSerially` is temporal: its
hypothesis is a condition on the whole behaviour, and PTL combines the one-step
lemma with it. `Refinement` maps accepted tags and the done port to `TaskService`.

**`TiaraTask`.** The handshake is inductive with the dispatcher's busy flag and
the MP's phase; nothing is needed of the memory, of which the specification
assumes nothing. That the port shows the finished task's result and keeps it while the
next one runs (`ResultShown` and `ResultHeld`, together `ResultStable`) follows: the port is written only when the MP has just finished.

**`TiaraCore`.** The invariant relates the waiting states of the MP to the
memory's FSM: S_MEM_WAIT has its own request in the memory or its answer on the
port; a posted store is over before another request can be waiting; the counter
is at most one and says whether a copy is in the memory. The one-request memory is
what makes this true; on the memory subsystem an answer may be another request's (`Top_answer`).

**The core's refinement** (second half of `TiaraCore_proofs`): `RefinesVM`, `Spec => VM!VMSpec` under the mapping at the end of
`TiaraCore`. The two executors differ (section 4), so the theorem is about the programs that avoid the
differences, `Comparable`, each conjunct of which is one of them: `Structured`, a RET that ends the text, and no RET in a
loop (frames that outlive a task); no WAIT and no MEMCPY (skipped instruction, copies); no MUL (product read too
early); ANDI with an immediate the sign extension leaves alone; fewer loops around a loop than the stack has
frames (the MP drops a frame silently, the interpreter faults). A count of zero runs the body
once in the MP and not at all in the interpreter, and one that does not fit a frame another number of rounds; addresses that share
a cell of the core's memory have a word each in the interpreter's. `ImplementsWhileFitting` assumes `[]CountsFit` and
`[]InWindow`: counts from 1 to 2^COUNTW, and addresses of a set `Window` no two of which share a cell - any such set.
`ImplementsVM` derives both from the text and the arguments: counts and addresses are arguments
(plus an immediate) in registers no instruction writes (`Untouched`, `CountsAreArguments`, `AddressesAreArguments`, carried by `HeldInv`), and the
arguments are such counts and addresses. All 743 programs of `Core_refines`
meet all these hypotheses, so it checks by enumeration an instance of what the theorem says.

The invariant `VMInv` has four parts. `FetchInv`: what the MP holds in its instruction registers is the text at the
program counter, which stays in the program. `ArgsInv`: while arguments are loaded, registers hold those loaded
so far and zero elsewhere - the mapping shows the interpreter all of them at once. `LoopsInv`: the loop stack is
the set of loops around the program counter, outermost first, so a frame ends at an instruction of its own,
at most one frame resolves per instruction as in the MP, and the interpreter's search of the whole stack
finds the same one (`OnlyTheTopEnds`, `Resolved`). `RequestInv` on top of `CoreInv`: the
request in the memory is the waiting instruction's with its registers' values, or a posted STORE,
which the mapping finishes early. Steps of the core are then sorted by what the interpreter sees of them: a step that
executes (`ExecuteStep`), one in which the MP waits for the memory (`WaitStep`), and the rest, of which
only the taking over of a task is visible (`OtherStep`).

**`TiaraOperator`.** The verifier reads a text once, in the order it stands in; the interpreter runs it. The
theorems carry what the pass knew at a place over to every visit of that place. The pass is a recursive function
(`States`: the state before each word), and what it says of every word is proved by
the least counterexample: a set of numbers that misses one misses a first one (`LeastNat`,
`Inductive`, from the well-foundedness of the naturals). `Through` is the result: in an accepted program no word was
objected to, and each state follows from the one before by `Visit`.

* *Room and RET*: the frames of the pass at a LOOP hold every loop the LOOP is in (`LiveHolds`), so an accepted text has
  no more loops around a loop than the limit. At run time the loop stack is a chain of loops
  around the program counter (`Nested`, `Around`, kept by `StepNested`: what `resolveLoops` leaves, and what a LOOP pushes), and chains
  are no longer than that (`RoomForFrames`). The program counter stays at beginnings of instructions up
  to the last RET (`At`, `LaidOut`), so nothing but RET and the step limit ends a task, which is what `ReachesRet` says. `EndsByItself` rules the limit out where the counts are
  fixed, second words do nothing and the limit is above the manifest's bound (the defaults are 2,000,000 and 4096), and `ReturnsByItself` puts the two
  together. Without fixed counts it is not so (`WrittenCounts`).
* *Copies* (`Counted`): the copies under way are no more than the MEMCPYs in the text before the program counter; a loop
  that starts over has none in it. So the counter never meets the cap, where it would part from the number
  of copies, and WAIT drains what it should.
* *Steps* (`StepInv`, in `TiaraOperatorSteps_proofs`): the pass counts a word once for every round of the loops that are
  open there (`Price`, a product); what it has counted before a word is the word's place, between 0 and the bound (`Places`,
  `PlacesAre`). In a body every word costs at least what one round costs, for each round (`BodyCosts`, `LoopsAre`). Counts at run time
  are no more than those of the pass, because a count is an argument the manifest bounds, or zero, and stays it (`CountKnown`,
  `RoundsAre`, `CountsStay`). The time a task has taken is shared out over the loop stack, one account per frame (`Accounts`):
  the time since the loop was entered, at the loop's cost, is no more than its finished rounds and the way
  come in the present one (`Paid`). A step that goes on pays for itself (`Pays`, `GoesOn`); a LOOP opens an account (`Enters`), the end of a round
  begins the next (`BeginsAgain`), a loop that is left is settled with the one around it (`Settles`, `Unwinds`, `Leaves`), and the outermost account
  holds the steps within the bound (`InTheBound`). Frames whose loop was left by a branch stay on the stack, and loops may cross,
  so nothing is assumed of how the program nests. The pass refuses every branch back it reads; it does not read
  second words, whence `InertTails`.
* *Addresses* (`Held`): every register lies in the interval of the pass, instruction by instruction (`AfterIs`); `ComputeIs` says so of the
  ALU: ADDI shifts an interval (`Shifted`, with the wrap), ANDI leaves no more than the mask, because a number made of some
  of the bits of another is no larger (`FromBitsBelow`, by the size of the set of bits; the laws of powers of two come from
  counting subsets, `PowerIs`) and the mask the interpreter takes is no more than the verifier's sign-extended one (`MaskIs`).

The proofs corrected the classes of `OperatorShapes`. `StepsBounded` used to hold for any word as the second of an
instruction, where a branch back is overlooked. `StraightAccesses` used to allow one operation of any kind
besides LI and ANDI: the interval of a shift or of a sum may be wider than a word, and a copy's status may stand in for an address. `FewCopies` used to
allow branches back, over a MEMCPY; `Structured` a last RET in the second word of
another instruction, which the verifier does not take for one. Programs of the runs are too short to show these.

**`TiaraTop`.** Slot accounting is proved for every program, with any number of requests under way. `RingsInv` says of the
rings only that a slot is free or holds a request. `SlotStep` says how the set of occupied slots changes in a cycle -
what completes leaves it, what is taken enters it, in a slot that was free, so never one that completes - and `CountStep` that the counter follows
when at most one of the two happens: the case in which both do is the one `OneEventAtATime` excludes, because there the code loses the increment.
`UncrowdedCount` is temporal like `NothingLostSerially`. For `RequestsIssuedOnce`, a right counter below the ring's size means that a slot is free (`ReadyHasRoom`),
so a request that is heard is not dropped; the two engines' ready differ in what the MP hears only if the other ring is full.

That an answer ends the request that was made fails for some programs (`Top_answer`), so `AnswersEndRequests` is about those in which all are waited for (`WaitsForAll`): they have no STORE and no asynchronous
MEMCPY. That speaks of the program text, and the MP executes a register. `FetchInv` bridges the
two: whatever is in the fetch and instruction registers came from the store, because the
pc and the beginnings of loops are addresses of it. Then `RequestInv`: a waiting MP has
one request under way, in one slot of one engine, with every other slot empty and no pulse
out, or its answer is on the port and all rings are empty; an MP that does not wait has
nothing in any ring.

**`TiaraAppBlock`.** Each property needs what lies before it on the way of a frame.
*Arbitration* (`OwnerInv`): a frame that has begun belongs to the input that owns the channel.
*Drops* (`HandshakeInv`, `PulseInv`): a pulse of the filter finds the dispatcher idle unless a
host's task was taken in the cycle between; the MP runs exactly while the dispatcher waits.
*Identity*: `BufferInv` says of which frames the first two places of the buffer are - a frame of one beat is followed
into the buffer by the next, so they may differ while the filter collects, and only then;
`TagInv` that the identity at the pulse is that of the arguments beside it; `EchoInv` that an invocation between pulse and
done port is older than any header in the buffer, so that the identity there is its own or `Overtaken` says so.
*Pass-through* (`Placed`, `Stands`): every delivered beat is at its place, and how many there are follows from the filter's
state and what it holds. The proof showed a case the traffics of the run do not have: an invocation that
is longer than the buffer may wrap `byte_count` to 0 (128 bytes in seven bits,
`tiara_rx_filter.sv` 69, 216), is taken for an ordinary frame and passes. `InvocationsFit` excludes it.

**`TiaraHostPath`.** `HostGetsItsResult` speaks of a host that is through, and nothing about
that state says how it got there. `HostInv` goes along with the host's place `at` in its list of accesses:
one access at a time, on the channel of its kind (`ChannelInv`); every half word whose write was taken
is in the register it was meant for, a second half together with its first (`WrittenInv`); the core rests
before the access that starts the task, then has been asked, or is in exactly one of the stages
`Starting`, `Running`, `Ending`, `Reporting`, `Pulsing` with this task's arguments or result and nothing
sticky, or is over with it (`CoreInv`); a done that was read is this task's, and the words read behind it are the halves of
its results in the order of the window (`ReadInv`, `Window`). All under `WireIsQuiet`: one invocation of the wire leaves a done bit that the host takes for its own.
`HalvesOfJoined` is the arithmetic it rests on: the halves of a joined word are the words that were joined,
for every width.

Assumptions are the `ASSUME`s of the modules, which the runs evaluate: sizes are positive numbers;
`NoInvocation`, `NoTask`, `NoAccess` are no vectors and no accesses; a program is a function from
addresses to instructions (`TaskAssumption`); the frames of a traffic have a length above zero and a beat carries at least
one unit (`TrafficAssumption`, `AppAssumption`); an operator has a first instruction and its addresses are without gaps - the
toolchain loads words from 0 on - and the bounds of a manifest's arguments and regions are unsigned
numbers, those of the arguments words that their values keep to, and its bound on steps is a natural number (`OperatorAssumption`).

Only model-checked: everything about liveness (TLAPS has no reasoning about
fairness and ENABLED here); `ApartCopiesCounted`;
type correctness of MP, core and subsystem as theorems of their own (the parts the proofs need are in their invariants);
parser, compiler and assembler against the meaning of C (recursive operators),
the playground.

## 6. Not modelled, and why

Telemetry counters, cycle accounting and event records: no property is about
them. Loading the instruction store while a task runs: the host loads first.
Preprocessor and lexing of characters, splitting of assembly lines, texts
of errors and listings: wording and layout. `tiara_asm.py` and `tiara_cc.py` are the same algorithms as
`asm.ts` and `cc.ts` and are not mapped a second time. Of the playground: speed, latency figures, event log, tabs.
Operator table, XDMA engine and its host stub: not yet, see the plan. The driver maps registers and
the client starts the simulator: neither keeps a task's state. The register interface
is without the count of retired instructions in its status. Benches drive the ports the way the models' environments do; evaluation scripts
and web pages have no state a property is about.
The strided-copy flags: no executor acts on them. Reset during operation: every
register returns to the initial state. The MP in `TiaraAppBlock` may finish in
one cycle, which the real one never does; this only adds behaviours. Frames are
whole units of 32 bytes. 128-bit beats (the other tested width) are reachable by
the constants of `TiaraRxFilter` except for beats of half a unit.

## 7. Plan

Done: the dispatchers, the MP on both memories, interpreter, verifier, wire path,
register interface, encoding, assembler, compiler, playground; proofs for the dispatchers,
the handshake, the core, its refinement of the interpreter, slot accounting of the memory subsystem, the wire path,
the host path, and the verifier's promises. What is left, in this order:

1. XDMA engine and host stub: copies that move words, atomics as bus
   transactions against a second master; abstract specification: one memory with atomic
   operations;
2. operator table with `tiara_datapath_top.sv`: unregistered operators, start
   addresses in the N-MP array, where several real MPs share a memory;
3. proofs: type correctness of MP and core as theorems.
