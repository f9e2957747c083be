----------------------- MODULE TiaraDispatcherN_proofs -----------------------
(***************************************************************************)
(* Proofs about the N-MP dispatcher, for every number of MPs and every set *)
(* of tags.  IInv below is the inductive invariant: it ties the start      *)
(* pulse, the MP's state and the task_done pulse of an MP to its busy bit, *)
(* and the tag, argument and result registers of a busy MP to one another  *)
(* and to the caller's outstanding tags.                                   *)
(***************************************************************************)
EXTENDS TiaraDispatcherN, TLAPS

(* What the pulses and the MP state say about busy.                        *)
PulsesInv ==
    /\ mp_start \subseteq busy
    /\ mp_done \subseteq busy
    /\ \A m \in MPs : mpState[m] # "idle" => m \in busy /\ m \notin mp_start
                                               /\ m \notin mp_done
    /\ mp_start \cap mp_done = {}

(* What the registers of a busy MP hold.                                   *)
RegistersInv ==
    /\ \A m \in busy : tag_q[m] \in outstanding /\ mp_args[m] = tag_q[m]
    /\ \A m \in MPs : mpState[m] \in {"run", "done"} \/ m \in mp_done
                        => mpWork[m] = tag_q[m]

IInv == /\ TypeOK
        /\ PulsesInv
        /\ RegistersInv
        /\ OneOwnerPerTask
        /\ DoneAnswersItsTask

(* The priority encoders return at most one index, out of their set.       *)
LEMMA LowestFacts ==
    ASSUME NEW S \in SUBSET MPs
    PROVE  /\ Lowest(S) \subseteq S
           /\ \A i, j \in Lowest(S) : i = j
           /\ \A i \in S : i \notin Lowest(S) => \E j \in S : j < i
<1>1. S \subseteq Nat
  BY DEF MPs
<1>2. QED
  BY <1>1 DEF Lowest

(* The free MP that takes an invocation is not busy.                       *)
LEMMA TakingFacts ==
    ASSUME NEW t
    PROVE  /\ Taking(t) \subseteq MPs \ busy
           /\ \A i, j \in Taking(t) : i = j
           /\ Taking(t) # {} => t # NoTag /\ Free # {}
<1>1. Free \in SUBSET MPs
  BY DEF Free
<1>2. Lowest(Free) \subseteq Free /\ \A i, j \in Lowest(Free) : i = j
  BY <1>1, LowestFacts
<1>3. QED
  BY <1>2 DEF Taking, free_idx, Free

LEMMA InitIInv == Init => IInv
  BY DispatcherAssumption
     DEF Init, IInv, TypeOK, PulsesInv, RegistersInv, OneOwnerPerTask,
         DoneAnswersItsTask

LEMMA StepTypeOK ==
    ASSUME IInv, NEW t \in Tags \cup {NoTag}, NEW fin \in SUBSET MPs,
           Tick(t, fin)
    PROVE  TypeOK'
<1>1. Taking(t) \subseteq MPs
  BY TakingFacts
<1>2. mp_start' \subseteq MPs /\ mp_args' \in [MPs -> Tags \cup {NoTag}]
         /\ tag_q' \in [MPs -> Tags \cup {NoTag}]
  BY <1>1 DEF Tick, Dispatch, IInv, TypeOK
<1>3. done' \in BOOLEAN /\ done_tag' \in Tags \cup {NoTag}
         /\ done_result' \in Tags \cup {NoTag}
  <2>1. done_idx \subseteq MPs
    BY LowestFacts DEF done_idx, IInv, TypeOK
  <2>2. QED
    BY <2>1 DEF Tick, Complete, IInv, TypeOK
<1>4. busy' \subseteq MPs
  BY <1>1 DEF Tick, UpdateBusy, IInv, TypeOK
<1>5. mpState' \in [MPs -> {"idle", "args", "run", "done"}]
  <2>1. ASSUME NEW m \in MPs
        PROVE  MPNext(m, fin) \in {"idle", "args", "run", "done"}
    <3>1. mpState[m] \in {"idle", "args", "run", "done"}
      BY DEF IInv, TypeOK
    <3>2. QED
      BY <3>1 DEF MPNext
  <2>2. QED
    BY <2>1 DEF Tick, StepMPs
<1>6. mpWork' \in [MPs -> Tags \cup {NoTag}] /\ mp_done' \subseteq MPs
  BY DEF Tick, StepMPs, IInv, TypeOK
<1>7. outstanding' \subseteq Tags
  BY DEF Tick, CallerSteps, IInv, TypeOK
<1>8. QED
  BY <1>2, <1>3, <1>4, <1>5, <1>6, <1>7 DEF TypeOK

(* An MP leaves S_IDLE only on a start pulse; it pulses task_done only when *)
(* it was in S_DONE.                                                       *)
LEMMA MPNextFacts ==
    ASSUME IInv, NEW t \in Tags \cup {NoTag}, NEW fin \in SUBSET MPs,
           Tick(t, fin), NEW m \in MPs
    PROVE  /\ mpState[m] = "idle" => mpState'[m] = IF m \in mp_start THEN "args" ELSE "idle"
           /\ mpState[m] = "args" => mpState'[m] = "run"
           /\ mpState[m] = "run" => mpState'[m] = IF m \in fin THEN "done" ELSE "run"
           /\ mpState[m] = "done" => mpState'[m] = "idle"
           /\ m \in mp_done' <=> mpState[m] = "done"
           /\ mpState[m] \in {"idle", "args", "run", "done"}
           /\ mpWork'[m] = IF mpState[m] = "args" THEN mp_args[m] ELSE mpWork[m]
<1>1. mpState[m] \in {"idle", "args", "run", "done"}
  BY DEF IInv, TypeOK
<1>2. mpState'[m] = MPNext(m, fin)
  BY DEF Tick, StepMPs
<1>3. QED
  BY <1>1, <1>2 DEF MPNext, Tick, StepMPs

LEMMA StepPulses ==
    ASSUME IInv, NEW t \in Tags \cup {NoTag}, NEW fin \in SUBSET MPs,
           Tick(t, fin)
    PROVE  PulsesInv'
<1> USE DEF IInv, PulsesInv
<1>1. mp_start' = Taking(t) /\ busy' = (busy \cup Taking(t)) \ done_idx
  BY DEF Tick, Dispatch, UpdateBusy
<1>2. Taking(t) \subseteq MPs \ busy
  BY TakingFacts
<1>3. done_idx \subseteq mp_done
  BY LowestFacts DEF done_idx, TypeOK
<1>4. mp_start' \subseteq busy'
  BY <1>1, <1>2, <1>3
<1>5. ASSUME NEW m \in MPs, mpState[m] = "done"
      PROVE  m \in busy' /\ m \notin mp_start' /\ mpState'[m] = "idle"
  BY <1>1, <1>2, <1>3, <1>5, MPNextFacts
<1>6. mp_done' \subseteq busy' /\ mp_start' \cap mp_done' = {}
  BY <1>5, MPNextFacts DEF Tick, StepMPs
<1>7. ASSUME NEW m \in MPs, mpState'[m] # "idle"
      PROVE  m \in busy' /\ m \notin mp_start' /\ m \notin mp_done'
  <2>1. mpState[m] # "done" /\ m \notin mp_done'
    BY <1>7, MPNextFacts
  <2>2. m \in busy /\ m \notin mp_done
    BY <1>7, <2>1, MPNextFacts DEF TypeOK
  <2>3. QED
    BY <1>1, <1>2, <1>3, <2>1, <2>2
<1>8. QED
  BY <1>4, <1>6, <1>7

LEMMA StepRegisters ==
    ASSUME IInv, NEW t \in Tags \cup {NoTag}, NEW fin \in SUBSET MPs,
           Tick(t, fin)
    PROVE  RegistersInv'
<1> USE DEF IInv
<1>1. Taking(t) \subseteq MPs \ busy
  BY TakingFacts
<1>2. \A m \in MPs : /\ tag_q'[m] = IF m \in Taking(t) THEN t ELSE tag_q[m]
                     /\ mp_args'[m] = IF m \in Taking(t) THEN t ELSE mp_args[m]
  BY DEF Tick, Dispatch
<1>3. busy' \subseteq busy \cup Taking(t)
  BY DEF Tick, UpdateBusy
<1>4. ASSUME NEW m \in busy'
      PROVE  tag_q'[m] \in outstanding' /\ mp_args'[m] = tag_q'[m]
  <2>1. CASE m \in Taking(t)
    <3>1. t # NoTag /\ Free # {}
      BY <2>1, TakingFacts
    <3>2. QED
      BY <1>1, <1>2, <2>1, <3>1 DEF Tick, CallerSteps
  <2>2. CASE m \notin Taking(t)
    <3>1. m \in busy /\ m \in MPs /\ tag_q'[m] = tag_q[m] /\ mp_args'[m] = mp_args[m]
      BY <1>2, <1>3, <1>4, <2>2 DEF TypeOK
    <3>2. done => tag_q[m] # done_tag
      BY <3>1 DEF OneOwnerPerTask
    <3>3. QED
      BY <3>1, <3>2 DEF RegistersInv, Tick, CallerSteps
  <2>3. QED
    BY <2>1, <2>2
<1>5. ASSUME NEW m \in MPs, mpState'[m] \in {"run", "done"} \/ m \in mp_done'
      PROVE  mpWork'[m] = tag_q'[m]
  <2>1. mpState[m] \in {"args", "run", "done"}
    BY <1>5, MPNextFacts
  <2>2. m \in busy /\ tag_q'[m] = tag_q[m]
    BY <1>1, <1>2, <2>1 DEF PulsesInv
  <2>3. QED
    BY <2>1, <2>2, MPNextFacts DEF RegistersInv
<1>6. QED
  BY <1>4, <1>5 DEF RegistersInv

LEMMA StepOwnerAndAnswer ==
    ASSUME IInv, NEW t \in Tags \cup {NoTag}, NEW fin \in SUBSET MPs,
           Tick(t, fin)
    PROVE  OneOwnerPerTask' /\ DoneAnswersItsTask'
<1> USE DEF IInv
<1>1. /\ Taking(t) \subseteq MPs \ busy
      /\ \A i, j \in Taking(t) : i = j
      /\ Taking(t) # {} => t # NoTag
  BY TakingFacts
<1>2. \A m \in MPs : tag_q'[m] = IF m \in Taking(t) THEN t ELSE tag_q[m]
  BY DEF Tick, Dispatch
<1>3. busy' = (busy \cup Taking(t)) \ done_idx
  BY DEF Tick, UpdateBusy
<1>4. done_idx \subseteq mp_done /\ \A i, j \in done_idx : i = j
  BY LowestFacts DEF done_idx, TypeOK
<1>5. t \notin outstanding
  BY DEF Tick
<1>6. ASSUME NEW m \in busy', NEW k \in busy', m # k
      PROVE  tag_q'[m] # tag_q'[k]
  BY <1>1, <1>2, <1>3, <1>5, <1>6 DEF OneOwnerPerTask, RegistersInv, TypeOK
<1>7. ASSUME done'
      PROVE  \E m \in done_idx : /\ m \in busy /\ m \in MPs
                                 /\ done_tag' = tag_q[m]
                                 /\ done_result' = tag_q[m]
  <2>1. done_idx # {}
    BY <1>7 DEF Tick, Complete
  <2>2. PICK m \in done_idx : done_tag' = tag_q[m] /\ done_result' = mpWork[m]
    BY <2>1 DEF Tick, Complete
  <2>3. QED
    BY <1>4, <2>2 DEF PulsesInv, RegistersInv, TypeOK
<1>8. ASSUME done'
      PROVE  /\ done_tag' \in outstanding' /\ done_result' = done_tag'
             /\ \A k \in busy' : tag_q'[k] # done_tag'
  <2>1. PICK m \in done_idx : /\ m \in busy /\ m \in MPs
                              /\ done_tag' = tag_q[m]
                              /\ done_result' = tag_q[m]
    BY <1>7, <1>8
  <2>2. done => tag_q[m] # done_tag
    BY <2>1 DEF OneOwnerPerTask
  <2>3. done_tag' \in outstanding'
    BY <2>1, <2>2 DEF RegistersInv, Tick, CallerSteps
  <2>4. ASSUME NEW k \in busy' PROVE tag_q'[k] # done_tag'
    <3>1. k # m
      BY <1>3, <2>1
    <3>2. QED
      BY <1>1, <1>2, <1>3, <1>5, <2>1, <3>1 DEF OneOwnerPerTask, RegistersInv, TypeOK
  <2>5. QED
    BY <2>1, <2>3, <2>4
<1>9. QED
  BY <1>6, <1>8 DEF OneOwnerPerTask, DoneAnswersItsTask

LEMMA StutterIInv == IInv /\ UNCHANGED vars => IInv'
  BY DEF IInv, TypeOK, PulsesInv, RegistersInv, OneOwnerPerTask,
         DoneAnswersItsTask, vars

LEMMA NextIInv == IInv /\ [Next]_vars => IInv'
<1>1. ASSUME IInv, NEW t \in Tags \cup {NoTag}, NEW fin \in SUBSET MPs,
             Tick(t, fin)
      PROVE  IInv'
  BY <1>1, StepTypeOK, StepPulses, StepRegisters, StepOwnerAndAnswer DEF IInv
<1>2. QED
  BY <1>1, StutterIInv DEF Next

(* The inductive invariant holds in every reachable state.                 *)
THEOREM InductiveInvariant == Spec => []IInv
  BY InitIInv, NextIInv, PTL DEF Spec

(* Type correctness of the dispatcher's and the MPs' registers.            *)
THEOREM TypeCorrect == Spec => []TypeOK
<1>1. IInv => TypeOK
  BY DEF IInv
<1>2. QED
  BY <1>1, InductiveInvariant, PTL

(* Every done-event answers an outstanding task with that task's result,   *)
(* for any number of MPs and any timing of their completions.              *)
THEOREM AnswersAreRight == Spec => []DoneAnswersItsTask
<1>1. IInv => DoneAnswersItsTask
  BY DEF IInv
<1>2. QED
  BY <1>1, InductiveInvariant, PTL

(* A start pulse never reaches an MP that would ignore it.                 *)
THEOREM StartsAreSafe == Spec => []StartOnlyIdleMPs
<1>1. IInv => StartOnlyIdleMPs
  BY DEF IInv, PulsesInv, TypeOK, StartOnlyIdleMPs
<1>2. QED
  BY <1>1, InductiveInvariant, PTL

(* An accepted task has one owner and is reported at most once.            *)
THEOREM OwnersAreUnique == Spec => []OneOwnerPerTask
<1>1. IInv => OneOwnerPerTask
  BY DEF IInv
<1>2. QED
  BY <1>1, InductiveInvariant, PTL

(***************************************************************************)
(* Completions.  An MP in flight stays in flight until its task_done pulse *)
(* is up, and the pulse frees the MP unless a lower MP pulses as well.     *)
(***************************************************************************)
LEMMA CompletionStep ==
    ASSUME IInv, NEW t \in Tags \cup {NoTag}, NEW fin \in SUBSET MPs,
           Tick(t, fin), NEW m \in MPs, m \in busy', ~UnderWay(m)'
    PROVE  /\ m \in busy
           /\ UnderWay(m) => m \in mp_done /\ \E k \in mp_done : k < m
<1> USE DEF IInv
<1>1. busy' = (busy \cup Taking(t)) \ done_idx /\ mp_start' = Taking(t)
  BY DEF Tick, UpdateBusy, Dispatch
<1>2. m \notin Taking(t) /\ mpState'[m] = "idle" /\ m \notin mp_done'
  BY <1>1 DEF UnderWay
<1>3. mpState[m] = "idle" /\ m \notin mp_start
  BY <1>2, MPNextFacts
<1>4. m \in mp_done /\ m \notin done_idx => \E k \in mp_done : k < m
  BY LowestFacts DEF done_idx, TypeOK
<1>5. QED
  BY <1>1, <1>2, <1>3, <1>4 DEF UnderWay

(* A completion is lost only to a task_done pulse of a lower MP in the same *)
(* cycle.                                                                  *)
THEOREM LossNeedsCollision == Spec => LostOnlyByCollision
<1> DEFINE Lost == \A m \in busy : UnderWay(m) /\ m \in busy' /\ ~UnderWay(m)'
                     => \E k \in mp_done : k < m /\ m \in mp_done
<1>1. ASSUME IInv, Next PROVE Lost
  BY <1>1, CompletionStep DEF Next, IInv, TypeOK
<1>2. IInv /\ [Next]_vars => [Lost]_vars
  BY <1>1
<1>3. QED
  BY <1>2, InductiveInvariant, PTL DEF Spec, LostOnlyByCollision

LEMMA SerialStep ==
    ASSUME OneAtATime, NoLostCompletion, IInv, NEW t \in Tags \cup {NoTag},
           NEW fin \in SUBSET MPs, Tick(t, fin)
    PROVE  NoLostCompletion'
<1>1. ASSUME NEW m \in busy', ~UnderWay(m)'
      PROVE  FALSE
  <2>1. m \in MPs
    BY StepTypeOK DEF TypeOK
  <2>2. m \in busy /\ (UnderWay(m) => m \in mp_done /\ \E k \in mp_done : k < m)
    BY <1>1, <2>1, CompletionStep
  <2>3. PICK k \in mp_done : k < m /\ m \in mp_done
    BY <2>2 DEF NoLostCompletion
  <2>4. k = m
    BY <2>3 DEF OneAtATime
  <2>5. QED
    BY <2>1, <2>3, <2>4 DEF MPs
<1>2. QED
  BY <1>1 DEF NoLostCompletion

(* If no two MPs ever finish in the same cycle, no completion is lost.      *)
THEOREM NothingLostSerially == Spec => SerialLosesNothing
<1>1. Init => NoLostCompletion
  BY DEF Init, NoLostCompletion
<1>2. OneAtATime /\ IInv /\ NoLostCompletion /\ [Next]_vars => NoLostCompletion'
  <2>1. ASSUME OneAtATime, IInv, NoLostCompletion, Next PROVE NoLostCompletion'
    BY <2>1, SerialStep DEF Next
  <2>2. NoLostCompletion /\ UNCHANGED vars => NoLostCompletion'
    BY DEF NoLostCompletion, UnderWay, vars
  <2>3. QED
    BY <2>1, <2>2
<1>3. QED
  BY <1>1, <1>2, InductiveInvariant, PTL DEF Spec, SerialLosesNothing

(***************************************************************************)
(* Refinement: the dispatcher implements the safety half of TaskService.   *)
(***************************************************************************)
LEMMA InitRefines == Init => Service!ServiceInit
  BY DEF Init, Service!ServiceInit

LEMMA TickRefines ==
    ASSUME IInv, NEW t \in Tags \cup {NoTag}, NEW fin \in SUBSET MPs,
           Tick(t, fin)
    PROVE  Service!ServiceNext
<1> DEFINE tasks == {tag_q[m] : m \in busy}
           event == IF done THEN done_tag ELSE NoTag
<1> USE DEF IInv
<1>1. /\ Taking(t) \subseteq MPs \ busy
      /\ \A i, j \in Taking(t) : i = j
      /\ Taking(t) # {} => t # NoTag
  BY TakingFacts
<1>2. \A m \in MPs : tag_q'[m] = IF m \in Taking(t) THEN t ELSE tag_q[m]
  BY DEF Tick, Dispatch
<1>3. busy' = (busy \cup Taking(t)) \ done_idx
  BY DEF Tick, UpdateBusy
<1>4. done_idx \subseteq busy /\ \A i, j \in done_idx : i = j
  BY LowestFacts DEF done_idx, TypeOK, PulsesInv
<1>5. t \notin tasks
  BY DEF Tick, RegistersInv
<1>6. busy \subseteq MPs /\ \A m \in busy : tag_q[m] \in Tags
  BY DEF TypeOK, RegistersInv
<1>7. CASE done_idx = {}
  <2>1. event' = NoTag
    BY <1>7 DEF Tick, Complete
  <2>2. CASE Taking(t) = {}
    <3>1. tasks' = tasks
      BY <1>2, <1>3, <1>6, <1>7, <2>2
    <3>2. QED
      BY <2>1, <3>1 DEF Service!ServiceNext, Service!Quiet
  <2>3. CASE Taking(t) # {}
    <3>1. tasks' = tasks \cup {t}
      BY <1>1, <1>2, <1>3, <1>6, <1>7, <2>3
    <3>2. t \in Tags
      BY <1>1, <2>3
    <3>3. QED
      BY <1>5, <2>1, <3>1, <3>2 DEF Service!ServiceNext, Service!Accept
  <2>4. QED
    BY <2>2, <2>3
<1>8. CASE done_idx # {}
  <2>1. PICK d \in done_idx : done_tag' = tag_q[d]
    BY <1>8 DEF Tick, Complete
  <2>2. done_idx = {d} /\ d \in busy
    BY <1>4, <2>1
  <2>3. done' /\ event' = tag_q[d] /\ tag_q[d] \in tasks /\ tag_q[d] \in Tags
    BY <1>6, <1>8, <2>1, <2>2 DEF Tick, Complete
  <2>4. \A m \in busy : tag_q[m] = tag_q[d] <=> m = d
    BY <2>2 DEF OneOwnerPerTask
  <2>5. CASE Taking(t) = {}
    <3>1. tasks' = tasks \ {tag_q[d]}
      BY <1>2, <1>3, <1>6, <2>2, <2>4, <2>5
    <3>2. QED
      BY <2>3, <3>1 DEF Service!ServiceNext, Service!Report
  <2>6. CASE Taking(t) # {}
    <3>1. t \in Tags
      BY <1>1, <2>6
    <3>2. PICK f \in Taking(t) : Taking(t) = {f} /\ f \in MPs /\ f \notin busy
      BY <1>1, <2>6
    <3>3. busy' = (busy \ {d}) \cup {f}
      BY <1>3, <2>2, <3>2
    <3>4. tasks' = {tag_q'[m] : m \in busy \ {d}} \cup {t}
      BY <1>2, <3>2, <3>3
    <3>5. {tag_q'[m] : m \in busy \ {d}} = tasks \ {tag_q[d]}
      BY <1>2, <1>6, <2>4, <3>2
    <3>6. QED
      BY <1>5, <2>3, <3>1, <3>4, <3>5
         DEF Service!ServiceNext, Service!AcceptAndReport
  <2>7. QED
    BY <2>5, <2>6
<1>9. QED
  BY <1>7, <1>8

(* Whatever the timing of its MPs, the dispatcher's done port only makes   *)
(* the steps TaskService allows.                                           *)
THEOREM Refinement == Spec => ImplementsService
<1>1. IInv /\ [Next]_vars => [Service!ServiceNext]_Service!svars
  <2>1. IInv /\ Next => Service!ServiceNext
    BY TickRefines DEF Next
  <2>2. UNCHANGED vars => UNCHANGED Service!svars
    BY DEF vars, Service!svars
  <2>3. QED
    BY <2>1, <2>2
<1>2. QED
  BY <1>1, InitRefines, InductiveInvariant, PTL
     DEF Spec, ImplementsService, Service!ServiceSafe
=============================================================================
