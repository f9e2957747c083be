---------------------------- MODULE TiaraTop_proofs ----------------------------
(***************************************************************************)
(* Theorems about the MP on the memory subsystem of the simulator, for      *)
(* every program, latency, ring size and width.  The configurations         *)
(* Top_count and Top_answer show that they need their circumstances.       *)
(***************************************************************************)
EXTENDS TiaraTop, FiniteSetTheorems, SequenceTheorems, WellFoundedInduction, TLAPS

-----------------------------------------------------------------------------
(***************************************************************************)
(* What the MP executes comes from the instruction store: the program      *)
(* counter and the beginnings of loops are addresses of it.                *)
(***************************************************************************)
LoopFrame(f) ==
    /\ DOMAIN f = {"begin", "end", "remain"}
    /\ f.begin \in T!PCs
LoopStackOK == \E S : ls \in Seq(S) /\ \A f \in S : LoopFrame(f)

Loaded(w) == w = NopWord \/ \E a \in T!PCs : w = istore[a]

FetchInv ==
    /\ istore \in Programs
    /\ pc \in T!PCs /\ start.pc \in T!PCs
    /\ Loaded(ifetch) /\ Loaded(iw0)
    /\ LoopStackOK

LEMMA Immediates == FetchInv => iw0.imm \in Nat
<1> SUFFICES ASSUME FetchInv PROVE iw0.imm \in Nat
  OBVIOUS
<1>1. CASE iw0 = NopWord
  BY <1>1 DEF NopWord, Ins
<1>2. ASSUME NEW a \in T!PCs, iw0 = istore[a]
      PROVE  iw0.imm \in Nat
  <2>1. istore[a] \in T!Instructions
    BY TopAssumption DEF FetchInv, T!TaskAssumption
  <2>2. iw0.imm \in T!ImmField
    BY <2>1, <1>2 DEF T!Instructions
  <2> QED BY <2>2 DEF T!ImmField
<1> QED BY <1>1, <1>2 DEF FetchInv, Loaded

LEMMA Addresses ==
    FetchInv => \A n \in Nat : T!PCPlus(n) \in T!PCs
  BY TopAssumption DEF FetchInv, T!TaskAssumption, T!PCs, T!PCPlus

(* The top of the loop stack, and what is left when it is popped or its     *)
(* count is decremented.                                                   *)
LEMMA LoopTop ==
    ASSUME LoopStackOK, NEW raw, T!LoopEndsAt(raw)
    PROVE  T!Last(ls).begin \in T!PCs
<1>1. PICK S : ls \in Seq(S) /\ \A f \in S : LoopFrame(f)
  BY DEF LoopStackOK
<1>2. ls # <<>> /\ T!Last(ls) = ls[Len(ls)]
  BY DEF T!LoopEndsAt, T!Last
<1>3. Len(ls) \in DOMAIN ls
  BY <1>1, <1>2
<1> QED BY <1>1, <1>2, <1>3 DEF LoopFrame

LEMMA LoopPop ==
    ASSUME LoopStackOK, NEW raw
    PROVE  \E S : T!PopOrDecrement(raw) \in Seq(S) /\ \A f \in S : LoopFrame(f)
<1>1. PICK S : ls \in Seq(S) /\ \A f \in S : LoopFrame(f)
  BY DEF LoopStackOK
<1>2. CASE T!LoopsBack(raw)
  <2> DEFINE n == Len(ls)
             f == [ls[n] EXCEPT !.remain = @ - 1]
  <2>1. ls # <<>> /\ n \in DOMAIN ls
    BY <1>1, <1>2 DEF T!LoopsBack, T!LoopEndsAt
  <2>2. LoopFrame(f)
    BY <1>1, <2>1 DEF LoopFrame
  <2>3. T!PopOrDecrement(raw) = [ls EXCEPT ![n] = f]
    BY <1>2 DEF T!PopOrDecrement
  <2> HIDE DEF f
  <2>4. [ls EXCEPT ![n] = f] \in Seq(S \cup {f})
    <3>1. ls \in Seq(S \cup {f}) /\ n \in 1 .. Len(ls)
      BY <1>1, <2>1
    <3>2. f \in S \cup {f}
      OBVIOUS
    <3> QED BY <3>1, <3>2, ExceptSeq
  <2> QED BY <1>1, <2>2, <2>3, <2>4
<1>3. CASE ~T!LoopsBack(raw) /\ T!LoopEndsAt(raw)
  <2>1. T!PopOrDecrement(raw) = T!Front(ls) /\ ls # <<>>
    BY <1>3 DEF T!PopOrDecrement, T!LoopEndsAt
  <2>2. T!Front(ls) \in Seq(S)
    BY <1>1, <2>1 DEF T!Front
  <2> QED BY <1>1, <2>1, <2>2
<1>4. CASE ~T!LoopEndsAt(raw)
  BY <1>1, <1>4 DEF T!PopOrDecrement, T!LoopsBack
<1> QED BY <1>2, <1>3, <1>4

LEMMA GoingOn ==
    ASSUME FetchInv, NEW raw \in T!PCs, NEW next, T!GoTo(raw, next)
    PROVE  pc' \in T!PCs
  BY LoopTop DEF FetchInv, T!GoTo, T!AdjustedPC, T!LoopsBack

-----------------------------------------------------------------------------
(***************************************************************************)
(* The MP as the memory subsystem sees it.                                 *)
(***************************************************************************)
SyncOps == {"LOAD", "CAS", "CAA", "MEMCPY"}
AsyncCopy == iw0.op = "MEMCPY" /\ IsAsync(iw0)
RequestOf(op) == IF op = "MEMCPY" THEN "CPY" ELSE op
Answer == MergedPort(Issuing)

MPView ==
    /\ state' = "S_MEM_WAIT" =>
         /\ iw0' = iw0
         /\ \/ state = "S_MEM_WAIT" /\ ~Answer.sync_valid
            \/ state = "S_EXECUTE" /\ Answer.ready /\ iw0.op \in SyncOps /\ ~AsyncCopy
    /\ state = "S_EXECUTE" /\ Answer.ready /\ iw0.op \in SyncOps /\ ~AsyncCopy =>
         state' = "S_MEM_WAIT"
    /\ state = "S_MEM_WAIT" /\ ~Answer.sync_valid => state' = "S_MEM_WAIT"
    /\ state = "S_EXECUTE" /\ iw0.op \in SyncOps \cup {"STORE"} =>
         (Answer.ready <=> state' # "S_EXECUTE")

LEMMA ViewOfMP ==
    ASSUME FetchInv, T!MPStep
    PROVE  MPView /\ pc' \in T!PCs /\ LoopStackOK'
                  /\ (ifetch' = ifetch \/ \E a \in T!PCs : ifetch' = istore[a])
                  /\ (iw0' = iw0 \/ iw0' = ifetch)
<1> DEFINE Fetches == /\ ifetch' = ifetch \/ \E a \in T!PCs : ifetch' = istore[a]
                      /\ iw0' = iw0 \/ iw0' = ifetch
<1>a. pc \in T!PCs /\ start.pc \in T!PCs /\ LoopStackOK
  BY DEF FetchInv
<1>b. T!PCPlus(1) \in T!PCs /\ T!LinearPC \in T!PCs /\ T!PCPlus(iw0.imm) \in T!PCs
  BY Addresses, Immediates DEF T!LinearPC
<1>c. UNCHANGED ls => LoopStackOK'
  BY <1>a DEF LoopStackOK, LoopFrame
<1>d. \A raw : ls' = T!PopOrDecrement(raw) => LoopStackOK'
  BY <1>a, LoopPop DEF LoopStackOK, LoopFrame
<1>e. \A raw \in T!PCs : T!Commit(raw) =>
        pc' \in T!PCs /\ LoopStackOK' /\ state' = "S_FETCH1"
  BY <1>d, GoingOn DEF T!Commit, T!GoTo
<1> SUFFICES MPView /\ pc' \in T!PCs /\ LoopStackOK' /\ Fetches
  OBVIOUS
<1> USE <1>a, <1>b, <1>c, <1>e DEF Fetches, MPView, SyncOps, AsyncCopy, Answer
<1>1. CASE T!Idle BY <1>1 DEF T!Idle
<1>2. CASE T!StartTask BY <1>2 DEF T!StartTask
<1>3. CASE T!LoadArgument BY <1>3 DEF T!LoadArgument
<1>4. CASE T!Fetch1 BY <1>4 DEF T!Fetch1, T!Fetch
<1>5. CASE T!Fetch2 BY <1>5 DEF T!Fetch2, T!Fetch
<1>6. CASE T!Latch1 BY <1>6 DEF T!Latch1, T!AfterLatch
<1>7. CASE T!Latch2 BY <1>7 DEF T!Latch2
<1>8. CASE T!ExecNop BY <1>8 DEF T!ExecNop, T!Executing
<1>9. CASE T!ExecCompute BY <1>9 DEF T!ExecCompute, T!Executing
<1>10. CASE T!ExecSyncMem BY <1>10 DEF T!ExecSyncMem, T!Executing, T!IssueTo
<1>11. CASE T!ExecMemcpy BY <1>11 DEF T!ExecMemcpy, T!Executing, T!IssueTo, IsAsync, T!IsAsync
<1>12. CASE T!ExecStore BY <1>12 DEF T!ExecStore, T!Executing
<1>13. CASE T!ExecJump BY <1>13 DEF T!ExecJump, T!Executing
<1>14. CASE T!ExecLoop
  <2> DEFINE frame == [begin |-> T!PCPlus(1), end |-> (pc + T!SignedImm(iw0.imm) + 1) % DEPTH,
                       remain |-> T!CountOf(T!rs1v)]
  <2>1. T!GoTo(T!LinearPC, "S_FETCH1")
        /\ (ls' = Append(ls, frame) \/ ls' = T!PopOrDecrement(T!LinearPC))
    BY <1>14 DEF T!ExecLoop
  <2>2. pc' \in T!PCs /\ state' = "S_FETCH1"
    BY <2>1, GoingOn DEF T!GoTo
  <2>3. LoopFrame(frame)
    BY DEF LoopFrame
  <2>4. PICK S : ls \in Seq(S) /\ \A f \in S : LoopFrame(f)
    BY DEF LoopStackOK
  <2> HIDE DEF frame
  <2>5. Append(ls, frame) \in Seq(S \cup {frame})
    <3>1. ls \in Seq(S \cup {frame}) /\ frame \in S \cup {frame}
      BY <2>4
    <3> QED BY <3>1, AppendProperties
  <2>6. ls' = Append(ls, frame) => LoopStackOK'
    BY <2>3, <2>4, <2>5 DEF LoopStackOK, LoopFrame
  <2>7. LoopStackOK'
    BY <2>1, <2>6, <1>d
  <2> QED BY <2>2, <2>7, <1>14 DEF T!ExecLoop, T!Executing
<1>15. CASE T!ExecWait
  <2>1. ls' = T!PopOrDecrement(T!LinearPC) /\ T!GoTo(T!LinearPC, "S_WAIT")
    BY <1>15 DEF T!ExecWait
  <2>2. pc' \in T!PCs /\ LoopStackOK' /\ state' = "S_WAIT"
    BY <2>1, <1>d, GoingOn DEF T!GoTo
  <2> QED BY <2>2, <1>15 DEF T!ExecWait, T!Executing
<1>16. CASE T!ExecRet BY <1>16 DEF T!ExecRet, T!Executing
<1>17. CASE T!ExecIllegal BY <1>17 DEF T!ExecIllegal, T!Executing
<1>18. CASE T!MemWait BY <1>18 DEF T!MemWait
<1>19. CASE T!MemAsync BY <1>19 DEF T!MemAsync
<1>20. CASE T!WaitDrain BY <1>20 DEF T!WaitDrain
<1>21. CASE T!MulWait BY <1>21 DEF T!MulWait
<1>22. CASE T!Finish BY <1>22 DEF T!Finish
<1> QED
  BY <1>1, <1>2, <1>3, <1>4, <1>5, <1>6, <1>7, <1>8, <1>9, <1>10, <1>11, <1>12, <1>13, <1>14, <1>15, <1>16, <1>17, <1>18, <1>19, <1>20, <1>21, <1>22
     DEF T!MPStep

(* What the MP asks for.                                                   *)
LEMMA Request ==
    /\ T!MemRequest.kind # "none" =>
         /\ state = "S_EXECUTE"
         /\ iw0.op \in SyncOps \cup {"STORE"} /\ T!MemRequest.kind = RequestOf(iw0.op)
    /\ state = "S_EXECUTE" /\ iw0.op \in SyncOps => T!MemRequest.kind = RequestOf(iw0.op)
<1>1. CASE state # "S_EXECUTE"
  BY <1>1 DEF T!MemRequest, T!NoRequest
<1>2. CASE state = "S_EXECUTE" /\ iw0.op \in {"LOAD", "STORE"}
  BY <1>2 DEF T!MemRequest, T!NoRequest, RequestOf, SyncOps
<1>3. CASE state = "S_EXECUTE" /\ iw0.op = "MEMCPY"
  BY <1>3 DEF T!MemRequest, T!NoRequest, RequestOf, SyncOps
<1>4. CASE state = "S_EXECUTE" /\ iw0.op \in {"CAS", "CAA"}
  BY <1>4 DEF T!MemRequest, T!NoRequest, RequestOf, SyncOps
<1>5. CASE state = "S_EXECUTE" /\ iw0.op \notin SyncOps \cup {"STORE"}
  BY <1>5 DEF T!MemRequest, T!NoRequest, SyncOps
<1> QED BY <1>1, <1>2, <1>3, <1>4, <1>5 DEF SyncOps

(* A request goes to one engine.                                           *)
LEMMA OneRoute ==
    ASSUME NEW q, q.kind # "none"
    PROVE  \E e \in Engines : Routed(e, q) /\ \A f \in Engines \ {e} : ~Routed(f, q)
<1> DEFINE local == Dev(q.addr) = 0 /\ (q.kind = "CPY" => Dev(q.data) = 0)
<1>1. \A e : Routed(e, q) <=> (e = "pdma" <=> local)
  BY DEF Routed
<1> HIDE DEF local
<1>2. CASE local
  BY <1>1, <1>2 DEF Engines
<1>3. CASE ~local
  BY <1>1, <1>3 DEF Engines
<1> QED BY <1>2, <1>3

-----------------------------------------------------------------------------
(***************************************************************************)
(* The subsystem with at most one request under way.                       *)
(***************************************************************************)
SlotFields == {"kind", "addr", "data", "swap", "left"}
Kinds == {"LOAD", "CPY", "CAS", "CAA"}

Empty(e) == count[e] = 0 /\ \A i \in Slots(e) : slots[e][i] = Free
Holds(e, i, kind) ==
    /\ i \in Slots(e) /\ count[e] = 1
    /\ DOMAIN slots[e][i] = SlotFields /\ slots[e][i].kind = kind
    /\ \A j \in Slots(e) \ {i} : slots[e][j] = Free
AllEmpty == \A e \in Engines : Empty(e)
OneUnderWay(kind) ==
    \E e \in Engines : /\ \E i \in Slots(e) : Holds(e, i, kind)
                       /\ \A f \in Engines \ {e} : Empty(f)
Quiet(e) == /\ ~pulses[e].rd_valid /\ ~pulses[e].atom_valid
            /\ ~pulses[e].wr_done /\ ~pulses[e].cpy_done
Answers(e) == pulses[e].rd_valid \/ pulses[e].atom_valid \/ pulses[e].cpy_done

LEMMA PulsesOf ==
    ASSUME NEW q, SubStep(q), NEW e \in Engines
    PROVE  /\ pulses'[e].rd_valid = (CompletingOf(e, {"LOAD"}) # {})
           /\ pulses'[e].atom_valid = (CompletingOf(e, {"CAS", "CAA"}) # {})
           /\ pulses'[e].wr_done = (CompletingOf(e, {"STORE"}) # {})
           /\ pulses'[e].cpy_done = (CompletingOf(e, {"CPY"}) # {})
<1>1. pulses'[e] = NewPulses(e, q)
  BY DEF SubStep
<1>2. NewPulses(e, q).rd_valid = (CompletingOf(e, {"LOAD"}) # {})
  BY DEF NewPulses
<1>3. NewPulses(e, q).atom_valid = (CompletingOf(e, {"CAS", "CAA"}) # {})
  BY DEF NewPulses
<1>4. NewPulses(e, q).wr_done = (CompletingOf(e, {"STORE"}) # {})
  BY DEF NewPulses
<1>5. NewPulses(e, q).cpy_done = (CompletingOf(e, {"CPY"}) # {})
  BY DEF NewPulses
<1> QED BY <1>1, <1>2, <1>3, <1>4, <1>5

(* A ring that is empty: what comes in takes its first slot.               *)
LEMMA EmptyStep ==
    ASSUME NEW q, SubStep(q), NEW e \in Engines, Empty(e)
    PROVE  /\ Quiet(e)'
           /\ ~Routed(e, q) => ~Takes(e, q) /\ Empty(e)'
           /\ Routed(e, q) => Takes(e, q) /\ \E i \in Slots(e) : Holds(e, i, q.kind)'
<1>1. Completing(e) = {}
  BY DEF Empty, Completing
<1>2. slots'[e] = NewSlots(e, q) /\ count'[e] = NewCount(e, q)
  BY DEF SubStep
<1>3. Quiet(e)'
  BY <1>1, PulsesOf DEF Quiet, CompletingOf
<1>4. ASSUME ~Routed(e, q) PROVE ~Takes(e, q) /\ Empty(e)'
  BY <1>1, <1>2, <1>4 DEF Takes, NewSlots, NewCount, Empty
<1>5. ASSUME Routed(e, q)
      PROVE  Takes(e, q) /\ \E i \in Slots(e) : Holds(e, i, q.kind)'
  <2> DEFINE s == [kind |-> q.kind, addr |-> q.addr, data |-> q.data, swap |-> q.swap,
                   left |-> Countdown(e, q)]
  <2>1. 0 \in Slots(e) /\ FreeSlots(e) = Slots(e) /\ 0 < MAX_INFLIGHT[e]
    BY SubsystemAssumption DEF Empty, Slots, FreeSlots
  <2>2. Takes(e, q)
    BY <1>5, <2>1 DEF Takes, EngineReady, Empty
  <2>3. PICK first \in Slots(e) : first = Min(FreeSlots(e))
    <3>1. \E x \in Slots(e) : \A y \in Slots(e) : x =< y
      BY <2>1 DEF Slots
    <3> HIDE DEF Slots
    <3> QED BY <2>1, <3>1 DEF Min
  <2>4. NewSlots(e, q) = [i \in Slots(e) |-> IF i = first THEN s ELSE Free]
    BY <1>1, <2>2, <2>3 DEF NewSlots, Empty
  <2>5. count'[e] = 1
    BY <1>1, <1>2, <2>2 DEF NewCount, Empty
  <2>6. DOMAIN s = SlotFields /\ s.kind = q.kind
    BY DEF SlotFields
  <2> HIDE DEF s
  <2>7. slots'[e][first] = s /\ \A j \in Slots(e) \ {first} : slots'[e][j] = Free
    BY <1>2, <2>3, <2>4
  <2>8. Holds(e, first, q.kind)'
    BY <2>3, <2>5, <2>6, <2>7 DEF Holds, Free
  <2> QED BY <2>2, <2>3, <2>8
<1> QED BY <1>3, <1>4, <1>5

(* A ring with one request, and none coming in: it is under way or over.   *)
LEMMA HoldsStep ==
    ASSUME NEW q, q.kind = "none", SubStep(q), NEW e \in Engines, NEW i \in Slots(e),
           NEW kind \in Kinds, Holds(e, i, kind)
    PROVE  \/ Holds(e, i, kind)' /\ Quiet(e)'
           \/ Empty(e)' /\ Answers(e)'
<1>1. ~Takes(e, q)
  BY DEF Takes, Routed
<1>2. slots'[e] = NewSlots(e, q) /\ count'[e] = NewCount(e, q)
  BY DEF SubStep
<1>3. slots[e][i] # Free /\ \A j \in Slots(e) \ {i} : slots[e][j] = Free
  BY DEF Holds, Free, Kinds
<1>4. CASE slots[e][i].left = 0
  <2>1. Completing(e) = {i}
    BY <1>3, <1>4 DEF Completing
  <2>2. NewSlots(e, q) = [j \in Slots(e) |-> Free]
    BY <1>1, <1>3, <2>1 DEF NewSlots
  <2>3. count'[e] = 0
    BY <1>2, <2>1 DEF NewCount, Holds
  <2>4. Empty(e)'
    BY <1>2, <2>2, <2>3 DEF Empty, Free
  <2>5. \A K : CompletingOf(e, K) # {} <=> kind \in K
    BY <2>1 DEF CompletingOf, Holds
  <2>6. Answers(e)'
    <3>1. kind \in {"LOAD"} \/ kind \in {"CAS", "CAA"} \/ kind \in {"CPY"}
      BY DEF Kinds
    <3> QED BY <2>5, <3>1, PulsesOf DEF Answers
  <2> QED BY <2>4, <2>6
<1>5. CASE slots[e][i].left # 0
  <2> DEFINE s == [slots[e][i] EXCEPT !.left = @ - 1]
  <2>1. Completing(e) = {}
    BY <1>3, <1>5 DEF Completing
  <2>2. DOMAIN s = SlotFields /\ s.kind = kind
    BY DEF Holds, SlotFields
  <2>3. NewSlots(e, q) = [j \in Slots(e) |-> IF j = i THEN s ELSE Free]
    BY <1>1, <1>3, <2>1 DEF NewSlots
  <2>4. count'[e] = 1
    BY <1>1, <1>2, <2>1 DEF NewCount, Holds
  <2> HIDE DEF s
  <2>5. slots'[e][i] = s /\ \A j \in Slots(e) \ {i} : slots'[e][j] = Free
    BY <1>2, <2>3
  <2>6. Holds(e, i, kind)'
    BY <2>2, <2>4, <2>5 DEF Holds, Free
  <2>7. Quiet(e)'
    BY <2>1, PulsesOf DEF Quiet, CompletingOf
  <2> QED BY <2>6, <2>7
<1> QED BY <1>4, <1>5

-----------------------------------------------------------------------------
(***************************************************************************)
(* The MP on the subsystem.  A waiting MP has one request under way, or its *)
(* answer on the port and nothing under way; any other MP has nothing      *)
(* under way, and so is the subsystem ready whenever it asks.              *)
(***************************************************************************)
Waits == /\ iw0.op \in SyncOps /\ ~AsyncCopy
         /\ \/ OneUnderWay(RequestOf(iw0.op)) /\ \A e \in Engines : Quiet(e)
            \/ AllEmpty /\ \E e \in Engines : Answers(e)

RequestInv == IF state = "S_MEM_WAIT" THEN Waits ELSE AllEmpty

TopInv == FetchInv /\ (WaitsForAll => RequestInv)

LEMMA InitTop == Init => TopInv
<1> SUFFICES ASSUME Init PROVE TopInv
  OBVIOUS
<1>1. T!TaskInit /\ SubInit
  BY DEF Init
<1>2. 0 \in T!PCs
  BY TopAssumption DEF T!TaskAssumption, T!PCs
<1>3. FetchInv
  <2>1. istore \in Programs /\ T!MPInit /\ T!D!DispatchInit
    BY <1>1 DEF T!TaskInit
  <2>2. LoopStackOK
    BY <2>1 DEF T!MPInit, LoopStackOK
  <2>3. start.pc = 0
    BY <2>1 DEF T!D!DispatchInit
  <2>4. pc = 0 /\ Loaded(ifetch) /\ Loaded(iw0)
    BY <2>1 DEF T!MPInit, Loaded, NopWord, T!NopWord, Ins, T!Ins
  <2> QED BY <1>2, <2>1, <2>2, <2>3, <2>4 DEF FetchInv
<1>4. state # "S_MEM_WAIT" /\ AllEmpty
  BY <1>1 DEF T!TaskInit, T!MPInit, SubInit, AllEmpty, Empty
<1> QED BY <1>3, <1>4 DEF TopInv, RequestInv

LEMMA FetchStep ==
    ASSUME FetchInv, NEW args, Tick(args)
    PROVE  FetchInv' /\ MPView
<1>1. T!D!Dispatch(args) /\ T!MPStep /\ istore' = istore
  BY DEF Tick, T!TaskStep
<1>2. start'.pc \in T!PCs
  <2>1. 0 \in T!PCs
    BY TopAssumption DEF T!TaskAssumption, T!PCs
  <2>2. T!D!Invoke(args) => start'.pc = 0
    BY DEF T!D!Invoke
  <2>3. T!D!NoStart => start'.pc = start.pc
    BY DEF T!D!NoStart
  <2>4. T!D!Invoke(args) \/ T!D!NoStart
    BY <1>1 DEF T!D!Dispatch, T!D!NoInvoke, T!D!AwaitDone, T!D!PulseDone
  <2> QED BY <2>1, <2>2, <2>3, <2>4 DEF FetchInv
<1>3. Loaded(ifetch)' /\ Loaded(iw0)'
  BY <1>1, ViewOfMP DEF FetchInv, Loaded
<1> QED BY <1>1, <1>2, <1>3, ViewOfMP DEF FetchInv

(* What a request of the MP meets: all rings empty, the subsystem ready.    *)
LEMMA Asking ==
    ASSUME TopInv, WaitsForAll, T!MemRequest.kind # "none"
    PROVE  /\ state = "S_EXECUTE" /\ iw0.op \in SyncOps /\ ~AsyncCopy
           /\ T!MemRequest.kind = RequestOf(iw0.op)
           /\ AllEmpty /\ Answer.ready
<1>1. state = "S_EXECUTE" /\ iw0.op \in SyncOps \cup {"STORE"}
      /\ T!MemRequest.kind = RequestOf(iw0.op)
  BY Request
<1>2. WaitedFor(iw0)
  <2>1. CASE iw0 = NopWord
    BY <2>1 DEF WaitedFor, NopWord, Ins
  <2>2. CASE \E a \in T!PCs : iw0 = istore[a]
    BY <2>2 DEF WaitsForAll, TopInv, FetchInv
  <2> QED BY <2>1, <2>2 DEF TopInv, FetchInv, Loaded
<1>3. AllEmpty
  BY <1>1 DEF TopInv, RequestInv
<1>4. Answer.ready
  BY <1>3, SubsystemAssumption DEF AllEmpty, Empty, Answer, MergedPort, EngineReady
<1> QED BY <1>1, <1>2, <1>3, <1>4 DEF WaitedFor, AsyncCopy

LEMMA RequestStep ==
    ASSUME TopInv, WaitsForAll, NEW args, Tick(args)
    PROVE  RequestInv'
<1>1. PICK q : q = T!MemRequest
  OBVIOUS
<1>2. SubStep(q) /\ MPView
  BY <1>1, FetchStep DEF Tick, TopInv
<1>3. ASSUME state = "S_MEM_WAIT"
      PROVE  Answer.sync_valid <=> \E e \in Engines : Answers(e) \/ pulses[e].wr_done
  <2>1. ~Issuing
    BY <1>3 DEF Issuing
  <2> QED BY <2>1 DEF Answer, MergedPort, Pulse, Answers
<1>4. CASE state = "S_MEM_WAIT" /\ ~Answer.sync_valid
  <2>1. Waits /\ \A e \in Engines : ~Answers(e)
    BY <1>3, <1>4 DEF TopInv, RequestInv
  <2>2. q.kind = "none" /\ state' = "S_MEM_WAIT" /\ iw0' = iw0
    BY <1>1, <1>2, <1>4, Request DEF MPView
  <2>3. PICK kind : kind = RequestOf(iw0.op)
    OBVIOUS
  <2>4. kind \in Kinds /\ OneUnderWay(kind)
    BY <2>1, <2>3 DEF Waits, SyncOps, Kinds, RequestOf
  <2>a. PICK e \in Engines : /\ \E i \in Slots(e) : Holds(e, i, kind)
                             /\ \A f \in Engines \ {e} : Empty(f)
    BY <2>4 DEF OneUnderWay
  <2>5. PICK i \in Slots(e) : Holds(e, i, kind)
    BY <2>a
  <2>6. \A f \in Engines \ {e} : Empty(f)' /\ Quiet(f)'
    <3>1. \A f : ~Routed(f, q)
      BY <2>2 DEF Routed
    <3> QED BY <1>2, <2>a, <3>1, EmptyStep
  <2>7. CASE Holds(e, i, kind)' /\ Quiet(e)'
    <3>1. OneUnderWay(kind)' /\ \A f \in Engines : Quiet(f)'
      BY <2>6, <2>7 DEF OneUnderWay
    <3> QED BY <2>1, <2>2, <2>3, <3>1 DEF RequestInv, Waits, AsyncCopy, RequestOf
  <2>8. CASE Empty(e)' /\ Answers(e)'
    <3>1. AllEmpty' /\ \E f \in Engines : Answers(f)'
      BY <2>6, <2>8 DEF AllEmpty
    <3> QED BY <2>1, <2>2, <3>1 DEF RequestInv, Waits, AsyncCopy
  <2> QED BY <1>2, <2>2, <2>4, <2>5, <2>7, <2>8, HoldsStep
<1>5. CASE state = "S_MEM_WAIT" /\ Answer.sync_valid
  <2>1. AllEmpty
    BY <1>3, <1>5 DEF TopInv, RequestInv, Waits, Quiet, Answers
  <2>2. q.kind = "none" /\ state' # "S_MEM_WAIT"
    BY <1>1, <1>2, <1>5, Request DEF MPView
  <2>3. \A f \in Engines : Empty(f)'
    <3>1. \A f : ~Routed(f, q)
      BY <2>2 DEF Routed
    <3> QED BY <1>2, <2>1, <3>1, EmptyStep DEF AllEmpty
  <2> QED BY <2>2, <2>3 DEF RequestInv, AllEmpty
<1>6. CASE state # "S_MEM_WAIT" /\ q.kind = "none"
  <2>1. AllEmpty
    BY <1>6 DEF TopInv, RequestInv
  <2>2. state' # "S_MEM_WAIT"
    BY <1>1, <1>2, <1>6, Request DEF MPView, RequestOf, SyncOps
  <2>3. \A f \in Engines : Empty(f)'
    <3>1. \A f : ~Routed(f, q)
      BY <1>6 DEF Routed
    <3> QED BY <1>2, <2>1, <3>1, EmptyStep DEF AllEmpty
  <2> QED BY <2>2, <2>3 DEF RequestInv, AllEmpty
<1>7. CASE q.kind # "none"
  <2>1. /\ state = "S_EXECUTE" /\ iw0.op \in SyncOps /\ ~AsyncCopy
        /\ q.kind = RequestOf(iw0.op) /\ AllEmpty /\ Answer.ready
    BY <1>1, <1>7, Asking
  <2>2. PICK e \in Engines : Routed(e, q) /\ \A f \in Engines \ {e} : ~Routed(f, q)
    BY <1>7, OneRoute
  <2>3. state' = "S_MEM_WAIT" /\ iw0' = iw0
    BY <1>2, <2>1 DEF MPView
  <2>4. (\E i \in Slots(e) : Holds(e, i, q.kind)') /\ \A f \in Engines \ {e} : Empty(f)'
    BY <1>2, <2>1, <2>2, EmptyStep DEF AllEmpty
  <2>5. \A f \in Engines : Quiet(f)'
    BY <1>2, <2>1, EmptyStep DEF AllEmpty
  <2>6. OneUnderWay(q.kind)'
    BY <2>4 DEF OneUnderWay
  <2> QED BY <2>1, <2>3, <2>5, <2>6 DEF RequestInv, Waits, AsyncCopy, RequestOf
<1> QED BY <1>4, <1>5, <1>6, <1>7

(* The inductive invariant: in a program that waits for every request, an   *)
(* MP that waits has one request under way or its answer before it, and     *)
(* any other has nothing under way.                                        *)
THEOREM RequestsAreWaitedFor == Spec => []TopInv
<1>1. TopInv /\ [Next]_vars => TopInv'
  <2>1. ASSUME TopInv, Next PROVE TopInv'
    <3>1. PICK args : Tick(args)
      BY <2>1 DEF Next
    <3>2. WaitsForAll' <=> WaitsForAll
      BY <3>1 DEF Tick, T!TaskStep, WaitsForAll
    <3> QED BY <2>1, <3>1, <3>2, FetchStep, RequestStep DEF TopInv
  <2>2. ASSUME TopInv, UNCHANGED vars PROVE TopInv'
    <3>1. /\ UNCHANGED <<istore, pc, start, ifetch, iw0, ls, state>>
          /\ UNCHANGED <<slots, count, pulses>>
      BY <2>2 DEF vars, T!taskVars, T!mpVars, T!D!dispatchVars, subVars
    <3>2. FetchInv'
      BY <2>2, <3>1 DEF TopInv, FetchInv, Loaded, LoopStackOK, LoopFrame
    <3>3. WaitsForAll' <=> WaitsForAll
      BY <3>1 DEF WaitsForAll
    <3>4. RequestInv => RequestInv'
      <4>1. AllEmpty' <=> AllEmpty
        BY <3>1 DEF AllEmpty, Empty
      <4>2. \A e : (Quiet(e)' <=> Quiet(e)) /\ (Answers(e)' <=> Answers(e))
        BY <3>1 DEF Quiet, Answers
      <4>3. OneUnderWay(RequestOf(iw0.op))' <=> OneUnderWay(RequestOf(iw0.op))
        BY <3>1 DEF OneUnderWay, Holds, Empty, RequestOf
      <4>4. AsyncCopy' <=> AsyncCopy
        BY <3>1 DEF AsyncCopy
      <4> QED BY <3>1, <4>1, <4>2, <4>3, <4>4 DEF RequestInv, Waits
    <3> QED BY <2>2, <3>2, <3>3, <3>4 DEF TopInv
  <2> QED BY <2>1, <2>2
<1> QED BY <1>1, InitTop, PTL DEF Spec

(* In such a program an MP that is given an answer has nothing under way    *)
(* any more.                                                               *)
THEOREM AnswersEndRequests == Spec => []WaitedAnswerEndsRequest
<1>1. ASSUME TopInv PROVE WaitedAnswerEndsRequest
  <2> SUFFICES ASSUME WaitsForAll, state = "S_MEM_WAIT", Answer.sync_valid
               PROVE  \A e \in Engines : Used(e) = {}
    BY DEF WaitedAnswerEndsRequest, AnswerEndsRequest, Answer
  <2>1. Waits /\ ~Issuing
    BY <1>1 DEF TopInv, RequestInv, Issuing
  <2>2. \E e \in Engines : ~Quiet(e)
    BY <2>1 DEF Answer, MergedPort, Pulse, Quiet
  <2>3. AllEmpty
    BY <2>1, <2>2 DEF Waits
  <2> QED BY <2>3 DEF AllEmpty, Empty, Used
<1> QED BY <1>1, RequestsAreWaitedFor, PTL

-----------------------------------------------------------------------------
(***************************************************************************)
(* The rings with any number of requests under way, for every program.     *)
(***************************************************************************)
ReqKinds == {"LOAD", "STORE", "CPY", "CAS", "CAA"}
SlotOK(s) == s = Free \/ (DOMAIN s = SlotFields /\ s.kind \in ReqKinds)
RingsInv ==
    /\ FetchInv
    /\ \A e \in Engines : \A i \in Slots(e) : SlotOK(slots[e][i])

LEMMA RequestKinds == T!MemRequest.kind # "none" => T!MemRequest.kind \in ReqKinds
  BY Request DEF RequestOf, SyncOps, ReqKinds

(* A set of numbers that is not empty has a smallest.                      *)
LEMMA SmallestOf ==
    ASSUME NEW S \in SUBSET Nat, S # {}
    PROVE  \E x \in S : \A y \in S : x =< y
<1> DEFINE Less == OpToRel(<, Nat)
<1>1. IsWellFoundedOn(Less, Nat)
  BY NatLessThanWellFounded
<1>2. PICK x \in S : \A y \in S : <<y, x>> \notin Less
  <2> HIDE DEF Less
  <2> QED BY <1>1, WFMin, Zenon
<1>3. ASSUME NEW y \in S, y < x PROVE FALSE
  <2>1. <<y, x>> \in Nat \X Nat /\ <<y, x>>[1] < <<y, x>>[2]
    BY <1>3
  <2>2. <<y, x>> \in Less
    BY <2>1, Zenon DEF OpToRel
  <2> QED BY <1>2, <2>2
<1> QED BY <1>3

(* Which slot a request takes.                                             *)
LEMMA FirstFree ==
    ASSUME NEW e \in Engines, FreeSlots(e) # {}
    PROVE  Min(FreeSlots(e)) \in FreeSlots(e)
<1>1. PICK i \in FreeSlots(e) : TRUE
  OBVIOUS
<1>2. FreeSlots(e) \subseteq Nat
  BY SubsystemAssumption DEF FreeSlots, Slots
<1>3. \E x \in FreeSlots(e) : \A y \in FreeSlots(e) : x =< y
  BY <1>1, <1>2, SmallestOf
<1> HIDE DEF FreeSlots
<1> QED BY <1>3 DEF Min

(* One slot after a cycle.                                                 *)
LEMMA SlotStep ==
    ASSUME NEW q, q.kind \in ReqKinds \cup {"none"}, SubStep(q), NEW e \in Engines,
           NEW i \in Slots(e), SlotOK(slots[e][i])
    PROVE  /\ SlotOK(slots'[e][i])
           /\ slots'[e][i] # Free <=>
                \/ Takes(e, q) /\ i = Min(FreeSlots(e))
                \/ slots[e][i] # Free /\ i \notin Completing(e)
<1>1. slots'[e] = NewSlots(e, q)
  BY DEF SubStep
<1>2. CASE Takes(e, q) /\ i = Min(FreeSlots(e))
  <2> DEFINE s == [kind |-> q.kind, addr |-> q.addr, data |-> q.data, swap |-> q.swap,
                   left |-> Countdown(e, q)]
  <2>1. slots'[e][i] = s
    BY <1>1, <1>2 DEF NewSlots
  <2>2. DOMAIN s = SlotFields /\ s.kind \in ReqKinds
    BY <1>2 DEF SlotFields, Takes, Routed
  <2> HIDE DEF s
  <2> QED BY <1>2, <2>1, <2>2 DEF SlotOK, Free, ReqKinds
<1>3. CASE ~(Takes(e, q) /\ i = Min(FreeSlots(e))) /\ (i \in Completing(e) \/ slots[e][i] = Free)
  <2>1. slots'[e][i] = Free
    BY <1>1, <1>3 DEF NewSlots
  <2> QED BY <1>3, <2>1 DEF SlotOK
<1>4. CASE ~(Takes(e, q) /\ i = Min(FreeSlots(e))) /\ i \notin Completing(e) /\ slots[e][i] # Free
  <2> DEFINE s == [slots[e][i] EXCEPT !.left = @ - 1]
  <2>1. slots'[e][i] = s
    BY <1>1, <1>4 DEF NewSlots
  <2>2. DOMAIN s = SlotFields /\ s.kind \in ReqKinds
    BY <1>4 DEF SlotOK, SlotFields
  <2> HIDE DEF s
  <2> QED BY <1>4, <2>1, <2>2 DEF SlotOK, Free, ReqKinds
<1> QED BY <1>2, <1>3, <1>4

LEMMA RingsKept == Spec => []RingsInv
<1>1. Init => RingsInv
  BY InitTop DEF TopInv, Init, SubInit, RingsInv, SlotOK
<1>2. RingsInv /\ [Next]_vars => RingsInv'
  <2>1. ASSUME RingsInv, NEW args, Tick(args) PROVE RingsInv'
    <3>1. FetchInv'
      BY <2>1, FetchStep DEF RingsInv
    <3>2. PICK q : q = T!MemRequest
      OBVIOUS
    <3>3. SubStep(q) /\ q.kind \in ReqKinds \cup {"none"}
      BY <2>1, <3>2, RequestKinds DEF Tick
    <3> QED BY <2>1, <3>1, <3>3, SlotStep DEF RingsInv, SlotOK
  <2>2. ASSUME RingsInv, UNCHANGED vars PROVE RingsInv'
    <3>1. UNCHANGED <<istore, pc, start, ifetch, iw0, ls, slots>>
      BY <2>2 DEF vars, T!taskVars, T!mpVars, T!D!dispatchVars, subVars
    <3> QED BY <2>2, <3>1 DEF RingsInv, FetchInv, Loaded, LoopStackOK, LoopFrame, SlotOK
  <2> QED BY <2>1, <2>2 DEF Next
<1> QED BY <1>1, <1>2, PTL DEF Spec

(* The occupied slots are finitely many, and no more than there are.        *)
LEMMA UsedFinite ==
    ASSUME NEW e \in Engines
    PROVE  /\ IsFiniteSet(Slots(e)) /\ Cardinality(Slots(e)) = MAX_INFLIGHT[e]
           /\ IsFiniteSet(Used(e)) /\ Cardinality(Used(e)) \in Nat
           /\ IsFiniteSet(Completing(e)) /\ Cardinality(Completing(e)) \in Nat
<1>1. MAX_INFLIGHT[e] \in Nat \ {0}
  BY SubsystemAssumption
<1>2. IsFiniteSet(Slots(e)) /\ Cardinality(Slots(e)) = MAX_INFLIGHT[e]
  <2>1. PICK n \in Nat \ {0} : n = MAX_INFLIGHT[e]
    BY <1>1
  <2>2. Slots(e) = 0 .. n - 1 /\ 0 \in Int /\ n - 1 \in Int
    BY <2>1 DEF Slots
  <2>3. 0 <= n - 1 /\ n - 1 - 0 + 1 = n
    BY <2>1
  <2>4. IsFiniteSet(0 .. n - 1) /\ Cardinality(0 .. n - 1) = n - 1 - 0 + 1
    BY <2>2, <2>3, FS_Interval
  <2> QED BY <2>1, <2>2, <2>3, <2>4
<1>3. Used(e) \subseteq Slots(e) /\ Completing(e) \subseteq Slots(e)
  BY DEF Used, Completing
<1> QED BY <1>2, <1>3, FS_Subset, FS_CardinalityType

(* The counter of one engine over one cycle with at most one event.         *)
LEMMA CountStep ==
    ASSUME RingsInv, NEW args, Tick(args), NEW e \in Engines,
           count[e] = Cardinality(Used(e)), Events(e) <= 1
    PROVE  count'[e] = Cardinality(Used(e))'
<1> DEFINE q == T!MemRequest
           U == {i \in Slots(e) : slots'[e][i] # Free}
<1>1. SubStep(q) /\ q.kind \in ReqKinds \cup {"none"} /\ count'[e] = NewCount(e, q)
  BY RequestKinds DEF Tick, SubStep
<1>2. \A i \in Slots(e) : i \in U <=> \/ Takes(e, q) /\ i = Min(FreeSlots(e))
                                      \/ i \in Used(e) \ Completing(e)
  BY <1>1, SlotStep DEF RingsInv, Used
<1>3. Completing(e) \subseteq Used(e)
  BY DEF Completing, Used
<1>4. Cardinality(Used(e))' = Cardinality(U)
  BY DEF Used
<1>5. Events(e) = Cardinality(Completing(e)) + (IF Takes(e, q) THEN 1 ELSE 0)
  BY DEF Events
<1> HIDE DEF q, U
<1>6. U \subseteq Slots(e) /\ Used(e) \subseteq Slots(e)
  BY DEF U, Used
<1>7. CASE Completing(e) = {} /\ ~Takes(e, q)
  BY <1>1, <1>2, <1>4, <1>6, <1>7 DEF NewCount
<1>8. CASE Completing(e) = {} /\ Takes(e, q)
  <2>1. PICK i : i = Min(FreeSlots(e))
    OBVIOUS
  <2>2. i \in FreeSlots(e)
    BY <1>8, <2>1, FirstFree DEF Takes
  <2>3. i \in Slots(e) /\ i \notin Used(e)
    BY <2>2 DEF FreeSlots, Used
  <2>4. U = Used(e) \cup {i}
    BY <1>2, <1>6, <1>8, <2>1, <2>3
  <2>5. Cardinality(U) = Cardinality(Used(e)) + 1
    BY <2>3, <2>4, UsedFinite, FS_AddElement
  <2> QED BY <1>1, <1>4, <1>8, <2>5 DEF NewCount
<1>9. CASE Completing(e) # {}
  <2>1. PICK c : c \in Completing(e)
    BY <1>9
  <2>2. IsFiniteSet(Completing(e) \ {c})
        /\ Cardinality(Completing(e) \ {c}) = Cardinality(Completing(e)) - 1
        /\ Cardinality(Completing(e) \ {c}) \in Nat
    BY <2>1, UsedFinite, FS_RemoveElement, FS_CardinalityType
  <2>3. Cardinality(Completing(e) \ {c}) = 0 /\ ~Takes(e, q)
    BY <1>5, <2>2, UsedFinite
  <2>4. Completing(e) = {c}
    BY <2>1, <2>2, <2>3, FS_EmptySet
  <2>5. U = Used(e) \ {c}
    BY <1>2, <1>6, <2>3, <2>4
  <2>6. Cardinality(U) = Cardinality(Used(e)) - 1
    BY <1>3, <2>1, <2>5, UsedFinite, FS_RemoveElement
  <2> QED BY <1>1, <1>4, <1>9, <2>6 DEF NewCount
<1> QED BY <1>7, <1>8, <1>9

(* The counter from which ready is made is the number of occupied slots,    *)
(* also of a full ring and with both engines at work, for as long as an     *)
(* engine has one event in a cycle.                                        *)
THEOREM UncrowdedCount == Spec => UncrowdedCountExact
<1>1. Init => CountExact
  <2>1. ASSUME Init, NEW e \in Engines PROVE Used(e) = {} /\ count[e] = 0
    BY <2>1 DEF Init, SubInit, Used
  <2> QED BY <2>1, FS_EmptySet DEF CountExact
<1>2. RingsInv /\ OneEventAtATime /\ CountExact /\ [Next]_vars => CountExact'
  <2>1. ASSUME RingsInv, OneEventAtATime, CountExact, Next PROVE CountExact'
    <3>1. PICK args : Tick(args)
      BY <2>1 DEF Next
    <3> QED BY <2>1, <3>1, CountStep DEF OneEventAtATime, CountExact
  <2>2. ASSUME CountExact, UNCHANGED vars PROVE CountExact'
    BY <2>2 DEF vars, subVars, CountExact, Used
  <2> QED BY <2>1, <2>2
<1> QED BY <1>1, <1>2, RingsKept, PTL DEF Spec, UncrowdedCountExact

(* A ring whose exact counter says ready has a slot free.                  *)
LEMMA ReadyHasRoom ==
    ASSUME NEW e \in Engines, count[e] = Cardinality(Used(e)), EngineReady(e)
    PROVE  FreeSlots(e) # {}
<1>1. Cardinality(Used(e)) # Cardinality(Slots(e))
  BY UsedFinite, SubsystemAssumption DEF EngineReady
<1> QED BY <1>1 DEF Used, FreeSlots

(* With the counters right, the MP leaves a memory instruction exactly in   *)
(* the cycle in which its request enters a ring, whatever the two rings    *)
(* hold, unless only the ring it did not ask is full.                      *)
THEOREM RequestsIssuedOnce == Spec => IssuedOnce
<1> DEFINE Heard == T!MemRequest.kind # "none" /\ CountExact /\ ~OnlyTheOtherIsFull
                      => (Taken <=> state' # "S_EXECUTE")
<1>1. ASSUME RingsInv, Next PROVE Heard
  <2> SUFFICES ASSUME T!MemRequest.kind # "none", CountExact, ~OnlyTheOtherIsFull
               PROVE  Taken <=> state' # "S_EXECUTE"
    OBVIOUS
  <2>1. MPView
    BY <1>1, FetchStep DEF Next, RingsInv
  <2>2. Answer.ready <=> state' # "S_EXECUTE"
    BY <2>1, Request DEF MPView
  <2>3. Answer.ready <=> \A e \in Engines : EngineReady(e)
    BY DEF Answer, MergedPort
  <2>4. PICK e \in Engines : Routed(e, T!MemRequest) /\ \A f \in Engines \ {e} : ~Routed(f, T!MemRequest)
    BY OneRoute
  <2>5. ASSUME \A f \in Engines : EngineReady(f) PROVE Taken
    BY <2>4, <2>5, ReadyHasRoom DEF Taken, Takes, CountExact
  <2>6. ASSUME Taken PROVE \A f \in Engines : EngineReady(f)
    BY <2>6 DEF Taken, Takes, OnlyTheOtherIsFull
  <2> QED BY <2>2, <2>3, <2>5, <2>6
<1>2. RingsInv /\ [Next]_vars => [Heard]_vars
  BY <1>1
<1> QED BY <1>2, RingsKept, PTL DEF Spec, IssuedOnce
=============================================================================
