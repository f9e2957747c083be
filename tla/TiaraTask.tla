------------------------------ MODULE TiaraTask ------------------------------
(***************************************************************************)
(* A dispatcher and the memory processor it feeds, clocked together, as    *)
(* tiara_synth_top.sv and tiara_nic_top.sv wire them.  The memory is left  *)
(* open: TiaraCore and TiaraTop bind `port` to what their memories drive;  *)
(* TaskSpec lets it be any of Ports at any time.                           *)
(***************************************************************************)
EXTENDS TiaraMP

CONSTANTS NoInvocation,
          Programs,     \* contents of the instruction store
          ArgSets,      \* argument vectors the host invokes with
          MaxTasks,     \* bound: invocations per behaviour
          Ports         \* what an arbitrary memory may drive

ASSUME TaskAssumption ==
    /\ DEPTH \in Nat \ {0}
    /\ NUM_ARGS \in 1 .. NUM_REGS - 1
    /\ MAX_LOOP_NEST \in Nat \ {0}
    /\ COUNTW \in 1 .. WIDTH
    /\ MAX_IN_FLIGHT \in Nat \ {0, 1}
    /\ MaxTasks \in Nat
    /\ NoInvocation \notin ArgSets
    /\ Programs \subseteq [PCs -> Instructions]

VARIABLES dstate, inv_busy, done,
          tasks         \* bound: invocations accepted so far

D == INSTANCE TiaraDispatcher WITH task_result <- TaskResult

taskVars == <<istore, mpVars, D!dispatchVars, tasks>>

TaskInit ==
    /\ istore \in Programs
    /\ MPInit
    /\ D!DispatchInit
    /\ tasks = 0

Offers == (IF tasks < MaxTasks THEN ArgSets ELSE {}) \cup {NoInvocation}

(* One clock edge, args being what the host drives.                        *)
TaskStep(args) ==
    /\ D!Dispatch(args)
    /\ tasks' = IF dstate = "D_IDLE" /\ args # NoInvocation THEN tasks + 1 ELSE tasks
    /\ MPStep
    /\ UNCHANGED istore

TaskNext == port' \in Ports /\ \E args \in Offers : TaskStep(args)
OpenInit == TaskInit /\ port \in Ports
TaskSpec == OpenInit /\ [][TaskNext]_<<taskVars, port>>
-----------------------------------------------------------------------------
TaskTypeOK ==
    /\ MPTypeOK
    /\ dstate \in {"D_IDLE", "D_RUN", "D_OUT"}
    /\ inv_busy \in BOOLEAN
    /\ start.valid \in BOOLEAN /\ start.pc \in PCs
    /\ done.valid \in BOOLEAN /\ done.err \in BOOLEAN
    /\ tasks \in 0 .. MaxTasks

(* Dispatcher and MP agree on who holds the task: while the dispatcher      *)
(* waits, it is in the start pulse, in the MP or in the done pulse, and at  *)
(* no other time is there one; so no start is driven into a busy MP and no  *)
(* done pulse goes by unseen (tiara_dispatcher.sv 62-83).                  *)
HandshakeExact ==
    /\ dstate = "D_RUN" =>
         \/ start.valid /\ state = "S_IDLE" /\ ~task_done
         \/ ~start.valid /\ state # "S_IDLE" /\ ~task_done
         \/ ~start.valid /\ state = "S_IDLE" /\ task_done
    /\ dstate # "D_RUN" => ~start.valid /\ state = "S_IDLE" /\ ~task_done

(* What the host reads from the port is the result and the error flag of    *)
(* the last task.  With the done pulse, and in the cycle before it, it is   *)
(* what the MP still has in r1..r4; and as the host may read late, while    *)
(* the MP has the next task, from the start pulse to the cycle after S_DONE, *)
(* the port keeps it, whatever the MP's registers go through               *)
(* (tiara_dispatcher.sv:71).                                               *)
ResultShown ==
    dstate = "D_OUT" \/ done.valid => done.result = TaskResult /\ done.err = task_err
ResultHeld ==
    start.valid \/ state # "S_IDLE" => done'.result = done.result /\ done'.err = done.err
ResultStable == []ResultShown /\ [][ResultHeld]_taskVars

(* Every invocation the dispatcher takes is answered by a done pulse.      *)
TasksFinish == start.valid ~> done.valid

(***************************************************************************)
(* What the documents say of single instructions.                          *)
(***************************************************************************)
(* WAIT stalls: the instruction fetched after it is the one behind it       *)
(* (docs/ISA.md:73).                                                       *)
NextAfterWait ==
    state = "S_FETCH1" /\ arg_idx = NUM_ARGS /\ iw0.op = "WAIT" /\ ls = <<>> =>
        pc > 0 /\ istore[pc - 1] = iw0

(* MUL writes rs1 * rs2 (docs/ISA.md:90).                                  *)
MulGivesProduct ==
    [][state = "S_MUL_WAIT" /\ iw0.rd # 0 =>
         regs'[iw0.rd] = Wrap(rs1v * rs2v)]_taskVars

(* The loop stack holds active frames: none while no task runs              *)
(* (tiara_loop_stack.sv:3).                                                *)
OnlyActiveFrames == state = "S_IDLE" => ls = <<>>
=============================================================================
