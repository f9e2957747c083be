--------------------------- MODULE TiaraTask_proofs ---------------------------
(***************************************************************************)
(* Theorems about a dispatcher and its memory processor, for every memory  *)
(* they may be wired to, every program and every value of the constants.   *)
(***************************************************************************)
EXTENDS TiaraTask, TLAPS

(* The MP's FSM as the dispatcher sees it: what a cycle may do to state,    *)
(* task_done, and, at rest, to the registers and the error flag.           *)
MPView ==
    /\ task_done' = (state = "S_DONE")
    /\ state = "S_IDLE" /\ ~start.valid =>
         state' = "S_IDLE" /\ regs' = regs /\ task_err' = task_err
    /\ state = "S_IDLE" /\ start.valid => state' # "S_IDLE"
    /\ state \notin {"S_IDLE", "S_DONE"} => state' # "S_IDLE"
    /\ state = "S_DONE" =>
         state' = "S_IDLE" /\ regs' = regs /\ task_err' = task_err

LEMMA ViewOfMP == MPStep => MPView
<1> SUFFICES ASSUME MPStep PROVE MPView
  OBVIOUS
<1> USE DEF MPView, MPStep, EveryCycle
<1>1. CASE Idle BY <1>1 DEF Idle
<1>2. CASE StartTask BY <1>2 DEF StartTask
<1>3. CASE LoadArgument BY <1>3 DEF LoadArgument
<1>4. CASE Fetch1 BY <1>4 DEF Fetch1, Fetch
<1>5. CASE Fetch2 BY <1>5 DEF Fetch2, Fetch
<1>6. CASE Latch1 BY <1>6 DEF Latch1, AfterLatch
<1>7. CASE Latch2 BY <1>7 DEF Latch2
<1>8. CASE ExecNop BY <1>8 DEF ExecNop, Executing, Commit, GoTo
<1>9. CASE ExecCompute BY <1>9 DEF ExecCompute, Executing, Commit, GoTo
<1>10. CASE ExecSyncMem BY <1>10 DEF ExecSyncMem, Executing, IssueTo
<1>11. CASE ExecMemcpy BY <1>11 DEF ExecMemcpy, Executing, IssueTo
<1>12. CASE ExecStore BY <1>12 DEF ExecStore, Executing, Commit, GoTo
<1>13. CASE ExecJump BY <1>13 DEF ExecJump, Executing, Commit, GoTo
<1>14. CASE ExecLoop BY <1>14 DEF ExecLoop, Executing, GoTo
<1>15. CASE ExecWait BY <1>15 DEF ExecWait, Executing, GoTo
<1>16. CASE ExecRet BY <1>16 DEF ExecRet, Executing
<1>17. CASE ExecIllegal BY <1>17 DEF ExecIllegal, Executing
<1>18. CASE MemWait BY <1>18 DEF MemWait, Commit, GoTo
<1>19. CASE MemAsync BY <1>19 DEF MemAsync, Commit, GoTo
<1>20. CASE WaitDrain BY <1>20 DEF WaitDrain, Commit, GoTo
<1>21. CASE MulWait BY <1>21 DEF MulWait, Commit, GoTo
<1>22. CASE Finish BY <1>22 DEF Finish
<1> QED
  BY <1>1, <1>2, <1>3, <1>4, <1>5, <1>6, <1>7, <1>8, <1>9, <1>10, <1>11, <1>12,
     <1>13, <1>14, <1>15, <1>16, <1>17, <1>18, <1>19, <1>20, <1>21, <1>22
     DEF MPStep

-----------------------------------------------------------------------------
(* Handshake and result together are inductive.                            *)
Inv == HandshakeExact /\ ResultShown

LEMMA InvInit == TaskInit => Inv
  BY DEF TaskInit, Inv, HandshakeExact, ResultShown, MPInit, D!DispatchInit

(* One clock edge keeps the invariant, whatever the memory drives and       *)
(* whatever the host offers: a lemma about any step of this composition.   *)
LEMMA InvStep == ASSUME NEW args, Inv, TaskStep(args) PROVE Inv'
<1> USE DEF Inv
<1>1. MPView BY ViewOfMP DEF TaskStep
<1>2. D!Dispatch(args) BY DEF TaskStep
<1>3. ASSUME state = "S_IDLE", ~start.valid
      PROVE  TaskResult' = TaskResult /\ task_err' = task_err
  BY <1>1, <1>3 DEF TaskResult, MPView
<1>4. CASE D!Invoke(args)
  <2>1. start'.valid /\ dstate' = "D_RUN" /\ ~done'.valid
    BY <1>4 DEF D!Invoke, D!DonePort
  <2>2. HandshakeExact' BY <1>1, <1>4, <2>1 DEF D!Invoke, HandshakeExact, MPView
  <2> QED BY <2>1, <2>2 DEF ResultShown
<1>5. CASE D!NoInvoke(args)
  <2>1. ~start'.valid /\ dstate' = "D_IDLE" /\ dstate = "D_IDLE" /\ ~done'.valid
    BY <1>5 DEF D!NoInvoke, D!NoStart, D!DonePort
  <2>2. HandshakeExact' BY <1>1, <2>1 DEF HandshakeExact, MPView
  <2> QED BY <2>1, <2>2 DEF ResultShown
<1>6. CASE D!AwaitDone
  <2>1. ~start'.valid /\ dstate = "D_RUN"
    BY <1>6 DEF D!AwaitDone, D!NoStart
  <2>2. CASE task_done
    <3>1. state = "S_IDLE" /\ ~start.valid
      BY <2>1, <2>2 DEF HandshakeExact
    <3>2. /\ dstate' = "D_OUT"
          /\ done'.result = TaskResult /\ done'.err = task_err
      BY <1>6, <2>2 DEF D!AwaitDone
    <3>3. HandshakeExact' BY <1>1, <2>1, <3>1, <3>2 DEF HandshakeExact, MPView
    <3> QED BY <1>3, <2>1, <3>1, <3>2, <3>3 DEF ResultShown
  <2>3. CASE ~task_done
    <3>1. ~done'.valid /\ dstate' = "D_RUN"
      BY <1>6, <2>1, <2>3 DEF D!AwaitDone, D!DonePort
    <3>2. HandshakeExact' BY <1>1, <2>1, <2>3, <3>1 DEF HandshakeExact, MPView
    <3> QED BY <2>1, <3>1, <3>2 DEF ResultShown
  <2> QED BY <2>2, <2>3
<1>7. CASE D!PulseDone
  <2>1. ~start'.valid /\ dstate = "D_OUT" /\ dstate' = "D_IDLE"
    BY <1>7 DEF D!PulseDone, D!NoStart
  <2>2. state = "S_IDLE" /\ ~start.valid BY <2>1 DEF HandshakeExact
  <2>3. HandshakeExact' BY <1>1, <2>1, <2>2 DEF HandshakeExact, MPView
  <2>4. done'.result = done.result /\ done'.err = done.err
    BY <1>7 DEF D!PulseDone, D!DonePort
  <2> QED BY <1>3, <2>1, <2>2, <2>3, <2>4 DEF ResultShown
<1> QED BY <1>2, <1>4, <1>5, <1>6, <1>7 DEF D!Dispatch

LEMMA InvStutter == Inv /\ UNCHANGED taskVars => Inv'
  BY DEF Inv, taskVars, mpVars, D!dispatchVars, HandshakeExact, ResultShown,
         TaskResult

(* The handshake and the result port are right at every moment of every     *)
(* behaviour, on every memory.                                             *)
THEOREM InvariantHolds == TaskSpec => []Inv
<1>1. OpenInit => Inv BY InvInit DEF OpenInit
<1>2. Inv /\ [TaskNext]_<<taskVars, port>> => Inv'
  <2>1. Inv /\ TaskNext => Inv' BY InvStep DEF TaskNext
  <2>2. Inv /\ UNCHANGED <<taskVars, port>> => Inv' BY InvStutter
  <2> QED BY <2>1, <2>2
<1> QED BY <1>1, <1>2, PTL DEF TaskSpec

(* No start is driven into a busy MP and no done pulse is missed.           *)
THEOREM HandshakeIsExact == TaskSpec => []HandshakeExact
<1>1. Inv => HandshakeExact BY DEF Inv
<1> QED BY <1>1, InvariantHolds, PTL

(* With the done pulse, and in the cycle before it, the port shows the      *)
(* finished task's r1..r4 and error flag, as the MP still holds them; and   *)
(* it keeps them while the MP has the next task.                           *)
THEOREM ResultsAreStable == TaskSpec => ResultStable
<1>1. Inv => ResultShown BY DEF Inv
<1>2. ASSUME Inv, NEW args, TaskStep(args) PROVE ResultHeld
  <2> SUFFICES ASSUME start.valid \/ state # "S_IDLE"
               PROVE  done'.result = done.result /\ done'.err = done.err
    BY DEF ResultHeld
  <2>1. dstate = "D_RUN" /\ ~task_done
    BY <1>2 DEF Inv, HandshakeExact
  <2>2. D!AwaitDone
    BY <1>2, <2>1 DEF TaskStep, D!Dispatch, D!Invoke, D!NoInvoke, D!PulseDone
  <2> QED BY <2>1, <2>2 DEF D!AwaitDone, D!DonePort
<1>3. Inv /\ [TaskNext]_<<taskVars, port>> => [ResultHeld]_taskVars
  BY <1>2 DEF TaskNext
<1> QED BY <1>1, <1>3, InvariantHolds, PTL DEF TaskSpec, ResultStable
=============================================================================
