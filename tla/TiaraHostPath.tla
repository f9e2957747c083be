---------------------------- MODULE TiaraHostPath ----------------------------
(***************************************************************************)
(* The host's way to the MP: a program that follows docs/DEPLOYMENT.md     *)
(* (133-136) and mqnic_app_block.sv (932-936), the register interface, the *)
(* dispatcher, and next to the host the wire, whose invocations the same   *)
(* dispatcher takes and prefers.  The MP is its handshake, as in           *)
(* TiaraAppBlock: a task's four results are the operator in the store and   *)
(* the arguments it was started with.                                      *)
(***************************************************************************)
EXTENDS TiaraAxilSlave, Sequences

CONSTANTS MaxTasks,       \* bound: tasks of the host
          MaxWireTasks,   \* bound: invocations of the wire
          NoInvocation, NoTask

ASSUME HostAssumption ==
    /\ NUM_ARGS \in 1 .. 3 /\ MaxTasks \in Nat \ {0} /\ MaxWireTasks \in Nat
    /\ HALF > 8 * (MaxTasks + 1)     \* room for the names of what is written
    /\ NoInvocation \notin [1 .. NUM_ARGS -> Nat]
    /\ NoTask \notin [1 .. 4 -> Nat]

VARIABLES
    istore,               \* the instruction store, of one instruction
    mp, task_done, task_result, task_err,
    dstate, start, inv_busy, done,
    wire, wireTasks,      \* rx_inv_valid; bound: wire invocations so far
    task, at,             \* the host's task, and its next access
    got, sawErr           \* result halves read, error flag read with done

D == INSTANCE TiaraDispatcher

mpVars == <<istore, mp, task_done, task_result, task_err>>
hostVars == <<task, at, got, sawErr>>
vars == <<slaveVars, mpVars, D!dispatchVars, wire, wireTasks, hostVars>>
-----------------------------------------------------------------------------
(* What the host does for its task: load the operator, write the arguments, *)
(* wait until nobody is busy, start, wait for done, read the results.  What  *)
(* it writes is told by task, register (0: the instruction) and half.      *)
Value(k, i, half) == 8 * k + 2 * i + (IF half = "hi" THEN 1 ELSE 0)   \* a name
Write(win, i, half, data) == [kind |-> "write", to |-> Address(win, i, half), data |-> data]
Read(win, i, half) == [kind |-> "read", to |-> Address(win, i, half)]
Halves(f(_, _), n) == [j \in 1 .. 2 * n |-> f((j + 1) \div 2, IF j % 2 = 1 THEN "lo" ELSE "hi")]
Access(k) ==
    <<Write("istore", 0, "lo", Value(k, 0, "lo")), Write("istore", 0, "hi", Value(k, 0, "hi"))>>
      \o Halves(LAMBDA i, h : Write("args", i, h, Value(k, i, h)), NUM_ARGS)
      \o <<[kind |-> "free?", to |-> STATUS], [kind |-> "write", to |-> CTRL, data |-> 1],
           [kind |-> "done?", to |-> STATUS]>>
      \o Halves(LAMBDA i, h : Read("result", i, h), 4)
Last0 == 2 * NUM_ARGS + 13   \* Len(Access(k))
Next0 == Access(task)[at]
AtDone == 2 * NUM_ARGS + 5

(* A task's result registers: its operator, its arguments, and nothing.    *)
ResultOf(args) == [i \in 1 .. 4 |-> IF i = 1 THEN istore
                                    ELSE IF i - 1 \in 1 .. NUM_ARGS THEN args[i - 1] ELSE 0]
Result(k, i, half) == IF i - 1 <= NUM_ARGS THEN Value(k, i - 1, half) ELSE 0
(* The results in the order of the table in the source's header (line 25), *)
(* and in the one in which the window gives them.                          *)
InOrder(k) == Halves(LAMBDA i, h : Result(k, i, h), 4)
Expected(k) == Halves(LAMBDA i, h : Result(k, <<3, 4, 1, 2>>[i], h), 4)

(* One access at a time: the next one is presented when the last has been   *)
(* answered; `drives` is whether the host is that quick.                   *)
Idle0 == wstate = "W_IDLE" /\ rstate = "R_IDLE"
Presents(drives) == drives /\ Idle0 /\ at <= Last0
Written(drives) ==
    IF Presents(drives) /\ Next0.kind = "write" THEN [to |-> Next0.to, data |-> Next0.data]
    ELSE NoAccess
Asked(drives) == IF Presents(drives) /\ Next0.kind # "write" THEN Next0.to ELSE NoAccess

(* The host goes on when its access is answered and, if it is a poll, when  *)
(* the answer is the one it waits for; then to its next task.              *)
Satisfied == /\ Next0.kind = "free?" => ~rdata.busy
             /\ Next0.kind = "done?" => rdata.done
HostStep(drives, ready) ==
    IF at > Last0
    THEN IF drives /\ task < MaxTasks
         THEN task' = task + 1 /\ at' = 1 /\ got' = <<>> /\ sawErr' = FALSE
         ELSE UNCHANGED hostVars
    ELSE IF ~Idle0 /\ ready /\ Satisfied
    THEN /\ at' = at + 1
         /\ got' = IF Next0.kind = "read" THEN Append(got, rdata.word) ELSE got
         /\ sawErr' = IF Next0.kind = "done?" THEN rdata.err ELSE sawErr
         /\ UNCHANGED task
    ELSE UNCHANGED hostVars
-----------------------------------------------------------------------------
Init ==
    /\ SlaveInit /\ D!DispatchInit
    /\ istore = 0
    /\ mp = NoTask /\ task_done = FALSE /\ task_err = FALSE /\ task_result = done.result
    /\ wire = FALSE /\ wireTasks = 0
    /\ task = 1 /\ at = 1 /\ got = <<>> /\ sawErr = FALSE

(* tiara_inv_valid and tiara_inv_args: the wire has priority.              *)
WireArgs == [i \in 1 .. NUM_ARGS |-> Joined(Value(0, i, "lo"), Value(0, i, "hi"))]
Invocation ==
    IF wire THEN WireArgs ELSE IF mp_inv_valid THEN arg_q ELSE NoInvocation

(* A task ends when `finish` says so, with or without an error.            *)
MPStep(finish, failed) ==
    LET ends == mp # NoTask /\ finish
    IN  /\ mp' = IF start.valid /\ mp = NoTask THEN ResultOf(start.args)
                 ELSE IF ends THEN NoTask ELSE mp
        /\ task_done' = ends
        /\ task_result' = IF ends THEN mp ELSE task_result
        /\ task_err' = IF ends THEN failed ELSE (task_err /\ ~start.valid)
        /\ istore' = IF load # NoAccess THEN load.data ELSE istore

(* The receive filter pulses when it has seen the dispatcher free.          *)
WireStep(invokes) ==
    /\ wire' = invokes
    /\ wireTasks' = wireTasks + (IF invokes THEN 1 ELSE 0)

(* One clock edge.                                                         *)
Tick(drives, ready, finish, failed, invokes) ==
    /\ SlaveStep(Written(drives), Asked(drives), ready, inv_busy, done)
    /\ HostStep(drives, ready)
    /\ D!Dispatch(Invocation)
    /\ MPStep(finish, failed)
    /\ WireStep(invokes)

(* The inputs of a cycle; those that nobody looks at have one value.       *)
MayFinish == IF mp # NoTask THEN BOOLEAN ELSE {FALSE}
MayInvoke == IF ~inv_busy /\ wireTasks < MaxWireTasks THEN BOOLEAN ELSE {FALSE}
Next == \E drives, ready \in BOOLEAN, finish, failed \in MayFinish, invokes \in MayInvoke :
          Tick(drives, ready, finish, failed, invokes)

(* Nobody holds anything back.                                             *)
Forthcoming == Tick(TRUE, TRUE, TRUE, FALSE, FALSE)

Spec == Init /\ [][Next]_vars
FairSpec == Spec /\ WF_vars(Forthcoming)
-----------------------------------------------------------------------------
WireIsQuiet == wireTasks = 0

(* A completion after a read of the status has sampled it and before that   *)
(* read has cleared it.                                                    *)
ReadCrossesDone ==
    /\ done_sticky /\ ar_q = STATUS /\ ~rdata.done
    /\ rstate = "R_RESP" \/ clr_done_read

(* With the wire quiet, what the host has read from one end of the result   *)
(* window to the other is the third, the fourth, the first and the second   *)
(* result of its own task, each with both its halves, and the error flag    *)
(* is that task's: done is not the last task's, no result is read before it *)
(* is there (tiara_axil_slave.sv 91-120, 231-241).                         *)
HostGetsItsResult ==
    at > Last0 /\ WireIsQuiet => got = Expected(task) /\ sawErr = done.err

(* "0x2050..0x206F : result registers (4 x 64b = 8 x 32b reads)"           *)
(* (tiara_axil_slave.sv:25): a window from one end to the other is the      *)
(* result from one end to the other.  It is not (line 238).                *)
ResultsInOrder ==
    at > Last0 /\ WireIsQuiet => got = InOrder(task)

(* With the wire quiet no invocation of a host that waits for done meets a  *)
(* dispatcher that is taken, which would drop it without a word            *)
(* (mqnic_app_block.sv 932-937, tiara_dispatcher.sv 62-65).                *)
LostOnlyToWire == mp_inv_valid /\ dstate # "D_IDLE" => ~WireIsQuiet

(* The host that "polls the status register until done" learns of the end   *)
(* of every task (docs/DEPLOYMENT.md:135), ...                             *)
HostLearns == at = AtDone ~> at # AtDone

(* ... which the code keeps as long as no task ends behind the back of a    *)
(* read of the status, and the wire is quiet.                              *)
HostLearnsUncrossed == [](WireIsQuiet /\ ~ReadCrossesDone) => HostLearns
=============================================================================
