-------------------------- MODULE TiaraDispatcherN --------------------------
(***************************************************************************)
(* rtl/tiara_nic/tiara_dispatcher_n.sv: the dispatcher that spreads        *)
(* invocations over NUM_MPS memory processors, together with the task      *)
(* handshake of the MPs behind it (rtl/tiara_nic/tiara_mp.sv as            *)
(* tiara_mp_array.sv instantiates it).                                     *)
(*                                                                         *)
(* A step is one clock edge.  Packed bit vectors are sets of MP indices,   *)
(* so that the order of the nonblocking assignments to one bit (set by     *)
(* Dispatch, then cleared by Completion) is the order of the set           *)
(* operations.  The payload of a task is named by its tag: an MP that was  *)
(* handed the arguments of task t computes the result of task t.           *)
(***************************************************************************)
EXTENDS Naturals

CONSTANTS NUM_MPS,            \* number of MPs
          Tags,               \* tags the caller uses
          NoTag               \* value of a tag register that was never loaded

ASSUME DispatcherAssumption ==
    /\ NUM_MPS \in Nat \ {0}
    /\ NoTag \notin Tags

MPs == 0 .. NUM_MPS - 1

VARIABLES
    busy,         \* MPs with a task, as the dispatcher sees it
    tag_q,        \* per MP, the tag of the task dispatched to it
    mp_args,      \* per MP, the arguments it was handed (the task they are of)
    mp_start,     \* MPs whose start pulse is high
    done,         \* the done pulse
    done_tag,     \* its tag
    done_result,  \* and its result (the task the result is of)
    mpState,      \* per MP: "idle", "args", "run" or "done"
    mpWork,       \* per MP, the task whose arguments it loaded
    mp_done,      \* MPs whose task_done pulse is high
    outstanding   \* caller's view: invocations accepted and not reported

vars == <<busy, tag_q, mp_args, mp_start, done, done_tag, done_result,
          mpState, mpWork, mp_done, outstanding>>

TypeOK ==
    /\ busy \subseteq MPs
    /\ tag_q \in [MPs -> Tags \cup {NoTag}]
    /\ mp_args \in [MPs -> Tags \cup {NoTag}]
    /\ mp_start \subseteq MPs
    /\ done \in BOOLEAN
    /\ done_tag \in Tags \cup {NoTag}
    /\ done_result \in Tags \cup {NoTag}
    /\ mpState \in [MPs -> {"idle", "args", "run", "done"}]
    /\ mpWork \in [MPs -> Tags \cup {NoTag}]
    /\ mp_done \subseteq MPs
    /\ outstanding \subseteq Tags

Init ==
    /\ busy = {} /\ mp_start = {} /\ mp_done = {} /\ outstanding = {}
    /\ tag_q = [m \in MPs |-> NoTag]
    /\ mp_args = [m \in MPs |-> NoTag]
    /\ mpWork = [m \in MPs |-> NoTag]
    /\ mpState = [m \in MPs |-> "idle"]
    /\ done = FALSE /\ done_tag = NoTag /\ done_result = NoTag
-----------------------------------------------------------------------------
(* The two priority encoders.  Lowest(S) is empty or a singleton.          *)
Lowest(S) == {i \in S : \A j \in S : i <= j}

FreeOffByOne == (0 .. NUM_MPS) \ busy          \* mutant: one bit too many
FreeIgnoringMP0 == (MPs \ busy) \cup {0}      \* mutant: busy[0] not consulted
Free == MPs \ busy

free_idx == Lowest(Free)

\* mutant: no completion is taken in a cycle in which a start pulse goes out
DoneUnlessStarting == IF mp_start = {} THEN Lowest(mp_done) ELSE {}
done_idx == Lowest(mp_done)

(* The MPs that take the invocation with tag t in this cycle.              *)
Taking(t) == IF t = NoTag THEN {} ELSE free_idx

(***************************************************************************)
(* Dispatch, lines 107-117: the lowest free MP is started with the         *)
(* caller's arguments and remembers the caller's tag.                      *)
(***************************************************************************)
Dispatch(t) ==
    /\ mp_start' = Taking(t)
    /\ mp_args' = [m \in MPs |-> IF m \in Taking(t) THEN t ELSE mp_args[m]]
    /\ tag_q' = [m \in MPs |-> IF m \in Taking(t) THEN t ELSE tag_q[m]]

\* mutant: the tag register of MP 0 is reported whoever completed
CompleteTagOfMP0 ==
    /\ done' = (done_idx # {})
    /\ IF done_idx = {}
       THEN UNCHANGED <<done_tag, done_result>>
       ELSE \E m \in done_idx : done_tag' = tag_q[0] /\ done_result' = mpWork[m]

(***************************************************************************)
(* Completion, lines 119-126: one done-event, for the lowest MP whose      *)
(* task_done pulse is high; only that MP becomes free.                     *)
(***************************************************************************)
Complete ==
    /\ done' = (done_idx # {})
    /\ IF done_idx = {}
       THEN UNCHANGED <<done_tag, done_result>>
       ELSE \E m \in done_idx : done_tag' = tag_q[m] /\ done_result' = mpWork[m]

\* mutant: the busy bit is not cleared when a dispatch happens in the cycle
UpdateBusyNoClear(t) ==
    busy' = IF Taking(t) # {} THEN busy \cup Taking(t) ELSE busy \ done_idx

(* busy: set by Dispatch, then cleared by Completion (the later nonblocking *)
(* assignment wins).                                                        *)
UpdateBusy(t) == busy' = (busy \cup Taking(t)) \ done_idx

(***************************************************************************)
(* One MP's task handshake (tiara_mp.sv): S_IDLE waits for task_start; the *)
(* arguments are read out of mp_args while in S_FETCH1; the program runs   *)
(* until S_DONE, which raises task_done for one cycle and returns to       *)
(* S_IDLE.  A start pulse in any other state is ignored.                   *)
(***************************************************************************)
MPNext(m, fin) ==
    CASE mpState[m] = "idle" -> IF m \in mp_start THEN "args" ELSE "idle"
      [] mpState[m] = "args" -> "run"
      [] mpState[m] = "run"  -> IF m \in fin THEN "done" ELSE "run"
      [] mpState[m] = "done" -> "idle"

StepMPs(fin) ==
    /\ mpState' = [m \in MPs |-> MPNext(m, fin)]
    /\ mpWork' = [m \in MPs |->
                    IF mpState[m] = "args" THEN mp_args[m] ELSE mpWork[m]]
    /\ mp_done' = {m \in MPs : mpState[m] = "done"}

Running == {m \in MPs : mpState[m] = "run"}

(* The caller (mqnic_app_block or a bench): it invokes only tags that have  *)
(* no answer outstanding, and crosses a tag off when it sees done.          *)
CallerSteps(t) ==
    outstanding' = (outstanding \ (IF done THEN {done_tag} ELSE {}))
                     \cup (IF t # NoTag /\ Free # {} THEN {t} ELSE {})

Tick(t, fin) ==
    /\ t \notin outstanding
    /\ fin \subseteq Running
    /\ Dispatch(t)
    /\ Complete
    /\ UpdateBusy(t)
    /\ StepMPs(fin)
    /\ CallerSteps(t)

Next == \E t \in Tags \cup {NoTag}, fin \in SUBSET MPs : Tick(t, fin)

Spec == Init /\ [][Next]_vars

(* The clock never stops, and an operator the verifier accepted terminates. *)
FinishMP(m) == \E t \in Tags \cup {NoTag}, fin \in SUBSET MPs :
                 m \in fin /\ Tick(t, fin)

FairSpec == Spec /\ WF_vars(Next) /\ \A m \in MPs : WF_vars(FinishMP(m))
-----------------------------------------------------------------------------
(* A task is under way on m: its start pulse is up, the MP is working on    *)
(* it, or its task_done pulse is up.                                        *)
UnderWay(m) == m \in mp_start \/ mpState[m] # "idle" \/ m \in mp_done

(* A done-event answers a task the caller is waiting for and carries the    *)
(* result of that same task, whichever MP ran it and whatever was           *)
(* dispatched while it ran (tag_q and mp_args of a busy MP stay put).       *)
DoneAnswersItsTask ==
    done => done_tag \in outstanding /\ done_result = done_tag

(* Dispatch never disturbs an MP: a start pulse only reaches an MP that is  *)
(* in S_IDLE with no completion pending; a pulse at any other time would    *)
(* be ignored by the MP and the task lost.                                  *)
StartOnlyIdleMPs ==
    \A m \in mp_start : mpState[m] = "idle" /\ m \notin mp_done

(* No two MPs that the dispatcher believes busy hold the same tag, and none *)
(* holds a tag whose done-event is on the port: each accepted task has one  *)
(* owner and is reported at most once.                                      *)
OneOwnerPerTask ==
    /\ \A m, k \in busy : m # k => tag_q[m] # tag_q[k]
    /\ done => \A m \in busy : tag_q[m] # done_tag

(* Lines 11-12: "When that MP signals task_done, the dispatcher pops the    *)
(* tag and emits a single done-event".  Stated of states: a busy MP has a   *)
(* task under way, so that its completion is still to come.                 *)
NoLostCompletion == \A m \in busy : UnderWay(m)

(* No two MPs finish in the same cycle, which lines 74-77 call the normal    *)
(* operation; then no completion is lost.                                  *)
OneAtATime == \A m, k \in mp_done : m = k
SerialLosesNothing == []OneAtATime => []NoLostCompletion

(* The only way to lose a completion is another MP's task_done in the same  *)
(* cycle at a lower index (the done_idx encoder reports one).               *)
LostOnlyByCollision ==
    [][\A m \in busy : UnderWay(m) /\ m \in busy' /\ ~UnderWay(m)'
         => \E k \in mp_done : k < m /\ m \in mp_done]_vars

Service == INSTANCE TaskService
             WITH tasks <- {tag_q[m] : m \in busy},
                  event <- IF done THEN done_tag ELSE NoTag

(* The dispatcher implements the safety half of TaskService whatever the    *)
(* timing of the MPs.                                                       *)
ImplementsService == Service!ServiceSafe

(* ... and its liveness half, that every accepted task is reported, when     *)
(* completions never coincide.                                             *)
ServiceReports == []OneAtATime => Service!EveryTaskReported
=============================================================================
