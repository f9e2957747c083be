------------------------------- MODULE TiaraTop -------------------------------
(***************************************************************************)
(* rtl/tiara_nic/tiara_nic_top.sv: dispatcher and memory processor with    *)
(* the memory subsystem of the simulator, in which posted stores and async *)
(* copies of the MP are under way together with its later requests.        *)
(***************************************************************************)
EXTENDS TiaraMemSubsystem, Sequences, SequencesExt

CONSTANTS DEPTH, NUM_ARGS, MAX_LOOP_NEST, COUNTW, MAX_IN_FLIGHT,
          Programs, ArgSets, MaxTasks, NoInvocation, Ports   \* see TiaraTask

VARIABLES istore, state, pc, inflight, wait_threshold, ifetch, iw0, iw1, regs,
          arg_idx, ls, mul, task_done, task_err,
          dstate, start, inv_busy, done, tasks

(* cpy_async is driven in S_EXECUTE only.                                  *)
Issuing == state = "S_EXECUTE" /\ iw0.op = "MEMCPY" /\ IsAsync(iw0)

T == INSTANCE TiaraTask WITH port <- MergedPort(Issuing)

ASSUME TopAssumption == T!TaskAssumption

vars == <<T!taskVars, subVars>>

Init == T!TaskInit /\ SubInit

Tick(args) == T!TaskStep(args) /\ SubStep(T!MemRequest)

Next == \E args \in T!Offers : Tick(args)

Spec == Init /\ [][Next]_vars
FairSpec == Spec /\ WF_vars(Next)
-----------------------------------------------------------------------------
TypeOK == T!TaskTypeOK /\ SubTypeOK

TasksFinish == T!TasksFinish

Used(e) == {i \in Slots(e) : slots[e][i] # Free}

(* "count of valid slots" (tiara_pcie_dma.sv:113): what ready is made from.  *)
CountExact == \A e \in Engines : count[e] = Cardinality(Used(e))

(* The counter is the number of occupied slots for as long as no engine     *)
(* takes a request in a cycle in which one completes, or completes two      *)
(* (tiara_pcie_dma.sv 154-245).                                            *)
Events(e) == Cardinality(Completing(e)) + (IF Takes(e, T!MemRequest) THEN 1 ELSE 0)
OneEventAtATime == \A e \in Engines : Events(e) <= 1
UncrowdedCountExact == []OneEventAtATime => []CountExact

(* ready is one signal for both engines and both directions ("memory is     *)
(* ready to accept the next req", tiara_mem_if.sv:46): the MP leaves a      *)
(* memory instruction in the cycle in which its request enters a ring, and *)
(* while it waits for a full ring no request of it has entered one.  The    *)
(* counter is to be right, for else a request heard may be dropped, and the *)
(* ring not asked is not to be the only full one, for else a request may    *)
(* be taken unheard, and once more in every cycle until there is room.      *)
Taken == \E e \in Engines : Takes(e, T!MemRequest)
OnlyTheOtherIsFull ==
    \E e, f \in Engines : Routed(e, T!MemRequest) /\ EngineReady(e) /\ ~EngineReady(f)
IssuedOnce ==
    [][T!MemRequest.kind # "none" /\ CountExact /\ ~OnlyTheOtherIsFull
         => (Taken <=> state' # "S_EXECUTE")]_vars

(* IssuedOnce without its circumstances.                                   *)
TakenIffHeard == [][T!MemRequest.kind # "none" => (Taken <=> state' # "S_EXECUTE")]_vars

(* The MP's own counter, which WAIT looks at: the async copies in the rings, *)
(* those whose completion is on the port, and not yet the one whose accept  *)
(* is (tiara_mp.sv 242-255).  So it is as long as copies come and go one at *)
(* a time, none is blocking - the end of one is taken for the end of        *)
(* another - and none is under way when a task starts.                     *)
Copies(e) == {i \in Slots(e) : slots[e][i].kind = "CPY"}
Engaged(field) == {e \in Engines : pulses[e][field]}
CopiesCounted ==
    inflight = Cardinality(Copies("pdma")) + Cardinality(Copies("rdma"))
               + Cardinality(Engaged("cpy_done")) - Cardinality(Engaged("cpy_accept"))
CopiesApart ==
    /\ Cardinality(Engaged("cpy_done")) + Cardinality(Engaged("cpy_accept")) <= 1
    /\ \A e \in Engines : Cardinality(CompletingOf(e, {"CPY"})) <= 1
    /\ state = "S_EXECUTE" /\ iw0.op = "MEMCPY" => IsAsync(iw0)
    /\ start.valid => inflight = 0
ApartCopiesCounted == []CopiesApart => []CopiesCounted

(* "For sync ops, rvalid pulses when result is available; the MP stalls     *)
(* until it sees rvalid" (tiara_mem_if.sv:15): an MP that is given an       *)
(* answer has nothing under way any more.                                  *)
AnswerEndsRequest ==
    state = "S_MEM_WAIT" /\ MergedPort(Issuing).sync_valid =>
        \A e \in Engines : \A i \in Used(e) :
            slots[e][i].kind # (IF iw0.op = "MEMCPY" THEN "CPY" ELSE iw0.op)

(* So it is with programs that wait for every request they make: they have  *)
(* no STORE and no asynchronous MEMCPY.                                    *)
WaitedFor(w) == w.op # "STORE" /\ ~(w.op = "MEMCPY" /\ IsAsync(w))
WaitsForAll == \A a \in T!PCs : WaitedFor(istore[a])
WaitedAnswerEndsRequest == WaitsForAll => AnswerEndsRequest

(* "rd_status receives 0 on success" (docs/ISA.md:114): the error flag the   *)
(* MP is shown with a copy's completion is not that of an earlier load.    *)
CopyStatusIsOwn ==
    state = "S_MEM_WAIT" /\ iw0.op = "MEMCPY" /\ MergedPort(Issuing).sync_valid =>
        ~MergedPort(Issuing).sync_err

(* "Completions fire in age order" (tiara_pcie_dma.sv:17): of two requests   *)
(* in an engine, the one with the longer wait left was issued later.  Only  *)
(* the request a running MP has just issued is known to be the youngest.   *)
YoungestFinishesLast ==
    [][\A e \in Engines :
         Takes(e, T!MemRequest) =>
           \A i \in Used(e) : slots[e][i].left <= Countdown(e, T!MemRequest)]_vars
=============================================================================
