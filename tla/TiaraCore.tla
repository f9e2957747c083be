------------------------------ MODULE TiaraCore ------------------------------
(***************************************************************************)
(* rtl/tiara_nic/tiara_synth_top.sv: the single-MP core, one dispatcher    *)
(* (tiara_dispatcher.sv), one memory processor (TiaraMP) and the           *)
(* one-request memory (TiaraMemSimple), clocked together.  The host loads  *)
(* the instruction store and invokes tasks.                                *)
(***************************************************************************)
EXTENDS TiaraMemSimple, Sequences, SequencesExt

CONSTANTS DEPTH, NUM_ARGS, MAX_LOOP_NEST, COUNTW, MAX_IN_FLIGHT,
          Programs,     \* contents of the instruction store
          ArgSets,      \* argument vectors the host invokes with
          MaxTasks,     \* bound: invocations per behaviour
          NoInvocation, \* "the host drives no invocation in this cycle"
          Ports,        \* what an arbitrary memory may drive
          Window        \* addresses no two of which share a cell

VARIABLES
    istore,
    state, pc, inflight, wait_threshold, ifetch, iw0, iw1, regs, arg_idx, ls,
    mul, task_done, task_err,
    dstate,       \* dispatcher FSM: "D_IDLE", "D_RUN" or "D_OUT"
    start,        \* mp_start pulse, start pc and arguments
    inv_busy,
    done,         \* the done port: pulse, result and error flag
    tasks         \* bound: invocations accepted so far

\* Mutant of MemPort: ready again one cycle early.
MemPortEager ==
    [ready |-> mstate \in {"M_IDLE", "M_DRIVE"}, sync_valid |-> out.sync_valid,
     sync_data |-> out.sync_data, sync_err |-> out.sync_err,
     cpy_accept |-> out.cpy_accept, cpy_done |-> out.cpy_done,
     cpy_err |-> out.cpy_err]

(* What tiara_mem_simple drives on the interface in this cycle.            *)
MemPort == [ready |-> mstate = "M_IDLE", sync_valid |-> out.sync_valid,
            sync_data |-> out.sync_data, sync_err |-> out.sync_err,
            cpy_accept |-> out.cpy_accept, cpy_done |-> out.cpy_done,
            cpy_err |-> out.cpy_err]

T == INSTANCE TiaraTask WITH port <- MemPort

ASSUME CoreAssumption ==
    /\ T!TaskAssumption
    /\ Window \subseteq Word
    /\ \A a, b \in Window : Cell(a) = Cell(b) => a = b

vars == <<T!taskVars, memVars>>

Init == T!TaskInit /\ MemInit

(* One clock edge of the whole core.                                       *)
Tick(args) == T!TaskStep(args) /\ MemStep(T!MemRequest)

Next == \E args \in T!Offers : Tick(args)

Spec == Init /\ [][Next]_vars
FairSpec == Spec /\ WF_vars(Next)
-----------------------------------------------------------------------------
TypeOK == T!TaskTypeOK /\ MemTypeOK

(* The memory request an instruction makes.                                *)
RequestOf(op) == IF op = "MEMCPY" THEN "CPY" ELSE op

(* An async copy the memory has taken and not reported yet.                *)
CopyPending ==
    out.cpy_done \/ (mstate # "M_IDLE" /\ cur.kind = "CPY" /\ cur.async)

(* The MP takes any sync_valid in S_MEM_WAIT for its answer.  It is: the    *)
(* pulse of a posted STORE, which nobody waits for, is over before the next *)
(* instruction can be waiting (tiara_mp.sv 295-301, 518-536).              *)
AnswersBelong ==
    state = "S_MEM_WAIT" /\ out.sync_valid =>
        /\ cur.kind = RequestOf(iw0.op)
        /\ cur.cell = Cell(IF iw0.op = "LOAD"
                           THEN Wrap(regs[iw0.rs1] + SignedImm(iw0.imm))
                           ELSE regs[iw0.rs1])

(* A waiting MP has a request in the memory or its answer on the port: it   *)
(* cannot wait for a request the memory never took.                        *)
NobodyWaitsForNothing ==
    state = "S_MEM_WAIT" =>
        \/ mstate # "M_IDLE" /\ ~(cur.kind = "CPY" /\ cur.async)
        \/ out.sync_valid

(* The in-flight counter never counts a copy nobody will report, for which  *)
(* WAIT would stall for ever (tiara_mp.sv 242-255).                        *)
NoPhantomCopy == inflight <= (IF CopyPending THEN 1 ELSE 0)

(* An accepted copy is counted when the MP goes on, and stays counted until *)
(* the memory reports it, so that WAIT cannot run ahead of it; only a new  *)
(* task forgets the copies of the last one.                                *)
CopiesStayCounted ==
    [][\/ state = "S_MEM_ASYNC"
       \/ inflight # 0 /\ ~out.cpy_done /\ state # "S_IDLE"
       => inflight' # 0]_vars

(* The properties of dispatcher and MP, on this memory.                    *)
TasksFinish == T!TasksFinish
NextAfterWait == T!NextAfterWait
MulGivesProduct == T!MulGivesProduct
OnlyActiveFrames == T!OnlyActiveFrames

(* A task is over when its copies are: RET is a barrier.                   *)
RetDrainsCopies == task_done => ~CopyPending

(***************************************************************************)
(* Refinement of the interpreter.  The MP commits a load or an atomic one  *)
(* cycle after the memory has performed it, and commits a store while the  *)
(* memory still holds it; the mapping finishes both.                       *)
(***************************************************************************)
Answered == state = "S_MEM_WAIT" /\ out.sync_valid
Posted == mstate # "M_IDLE" /\ cur.kind = "STORE"
LoadingArgs == state = "S_FETCH1" /\ arg_idx < NUM_ARGS
AtRest == state \in {"S_IDLE", "S_DONE", "S_FAULT"}

MappedRegs ==
    IF LoadingArgs
    THEN [r \in Regs |-> IF r \in 1 .. NUM_ARGS THEN start.args[r] ELSE 0]
    ELSE IF Answered /\ iw0.rd # 0 THEN [regs EXCEPT ![iw0.rd] = out.sync_data]
    ELSE regs

MappedStack ==
    LET stack == IF Answered THEN T!PopOrDecrement(T!LinearPC) ELSE ls
    IN  [i \in 1 .. Len(stack) |-> [start |-> stack[i].begin, end |-> stack[i].end,
                                    remaining |-> stack[i].remain + 1]]

(* What is behind the addresses of Window; the interpreter, whose memory     *)
(* has a word for every address, is not to use others (InWindow).          *)
MappedMem ==
    LET stored == IF Posted THEN [mem EXCEPT ![cur.cell] = Written(cur, @)] ELSE mem
    IN  [a \in Word |-> IF a \in Window THEN stored[Cell(a)] ELSE 0]

VM == INSTANCE TiaraVM WITH
        MAX_INFLIGHT_PER_TASK <- MAX_IN_FLIGHT,
        DATA_COPY_WORD_CAP <- 2^WIDTH,
        WORD_BYTES <- 1,
        words <- istore,
        vregs <- MappedRegs,
        vpc <- IF Answered THEN T!AdjustedPC(T!LinearPC) ELSE pc,
        loopStack <- MappedStack,
        vmem <- MappedMem,
        inFlight <- 0, completions <- 0,
        halted <- AtRest,
        err <- task_err,
        result <- IF AtRest THEN T!TaskResult ELSE [i \in 1 .. 4 |-> 0]

(* The MP asks for addresses of Window only.                               *)
InWindow == T!MemRequest.kind # "none" => T!MemRequest.addr \in Window

(* Instruction by instruction the core does what the interpreter does, on   *)
(* programs free of the constructs the two treat differently.              *)
RefinesVM == VM!VMSpec
=============================================================================
