--------------------------- MODULE TiaraCore_proofs ---------------------------
(***************************************************************************)
(* Theorems about the single-MP core, for every program, every latency and *)
(* every width: its memory handshake, and that it implements the           *)
(* interpreter.                                                            *)
(***************************************************************************)
EXTENDS TiaraCore, OperatorShapes, TLAPS, FiniteSetTheorems, SequenceTheorems

WantedAddr == IF iw0.op = "LOAD" THEN Wrap(regs[iw0.rs1] + SignedImm(iw0.imm))
              ELSE regs[iw0.rs1]
SyncOps == {"LOAD", "CAS", "CAA", "MEMCPY"}
AsyncCopy == iw0.op = "MEMCPY" /\ IsAsync(iw0)

(* The MP as the memory sees it.                                           *)
MemView ==
    /\ state' = "S_MEM_WAIT" =>
         /\ iw0' = iw0 /\ regs' = regs
         /\ \/ state = "S_MEM_WAIT" /\ ~out.sync_valid
            \/ /\ state = "S_EXECUTE" /\ mstate = "M_IDLE"
               /\ iw0.op \in SyncOps /\ ~AsyncCopy
    /\ state' = "S_MEM_ASYNC" =>
         \/ state = "S_MEM_ASYNC" /\ ~out.cpy_accept
         \/ state = "S_EXECUTE" /\ mstate = "M_IDLE" /\ AsyncCopy
    /\ state = "S_EXECUTE" /\ mstate = "M_IDLE" /\ iw0.op = "MEMCPY" =>
         state' \in {"S_MEM_WAIT", "S_MEM_ASYNC"}
    /\ \/ T!CountInFlight
       \/ state = "S_IDLE" /\ start.valid /\ inflight' = 0

LEMMA ViewOfMP == T!MPStep => MemView
<1> SUFFICES ASSUME T!MPStep PROVE MemView
  OBVIOUS
<1> USE DEF MemView, MemPort, SyncOps, AsyncCopy
<1>1. CASE T!Idle BY <1>1 DEF T!Idle
<1>2. CASE T!StartTask BY <1>2 DEF T!StartTask
<1>3. CASE T!LoadArgument BY <1>3 DEF T!LoadArgument
<1>4. CASE T!Fetch1 BY <1>4 DEF T!Fetch1, T!Fetch
<1>5. CASE T!Fetch2 BY <1>5 DEF T!Fetch2, T!Fetch
<1>6. CASE T!Latch1 BY <1>6 DEF T!Latch1, T!AfterLatch
<1>7. CASE T!Latch2 BY <1>7 DEF T!Latch2
<1>8. CASE T!ExecNop BY <1>8 DEF T!ExecNop, T!Executing, T!Commit, T!GoTo
<1>9. CASE T!ExecCompute BY <1>9 DEF T!ExecCompute, T!Executing, T!Commit, T!GoTo
<1>10. CASE T!ExecSyncMem BY <1>10 DEF T!ExecSyncMem, T!Executing, T!IssueTo
<1>11. CASE T!ExecMemcpy BY <1>11 DEF T!ExecMemcpy, T!Executing, T!IssueTo, IsAsync, T!IsAsync
<1>12. CASE T!ExecStore BY <1>12 DEF T!ExecStore, T!Executing, T!Commit, T!GoTo
<1>13. CASE T!ExecJump BY <1>13 DEF T!ExecJump, T!Executing, T!Commit, T!GoTo
<1>14. CASE T!ExecLoop BY <1>14 DEF T!ExecLoop, T!Executing, T!GoTo
<1>15. CASE T!ExecWait BY <1>15 DEF T!ExecWait, T!Executing, T!GoTo
<1>16. CASE T!ExecRet BY <1>16 DEF T!ExecRet, T!Executing
<1>17. CASE T!ExecIllegal BY <1>17 DEF T!ExecIllegal, T!Executing
<1>18. CASE T!MemWait BY <1>18 DEF T!MemWait, T!Commit, T!GoTo
<1>19. CASE T!MemAsync BY <1>19 DEF T!MemAsync, T!Commit, T!GoTo
<1>20. CASE T!WaitDrain BY <1>20 DEF T!WaitDrain, T!Commit, T!GoTo
<1>21. CASE T!MulWait BY <1>21 DEF T!MulWait, T!Commit, T!GoTo
<1>22. CASE T!Finish BY <1>22 DEF T!Finish
<1> QED
  BY <1>1, <1>2, <1>3, <1>4, <1>5, <1>6, <1>7, <1>8, <1>9, <1>10, <1>11, <1>12,
     <1>13, <1>14, <1>15, <1>16, <1>17, <1>18, <1>19, <1>20, <1>21, <1>22
     DEF T!MPStep

(* What the MP asks for.                                                   *)
LEMMA Request ==
    /\ T!MemRequest.kind # "none" => state = "S_EXECUTE"
    /\ T!MemRequest.kind = "CPY" =>
         iw0.op = "MEMCPY" /\ (T!MemRequest.async = IsAsync(iw0))
    /\ state = "S_EXECUTE" /\ iw0.op \in SyncOps =>
         T!MemRequest.kind = RequestOf(iw0.op) /\ T!MemRequest.addr = WantedAddr
<1>1. CASE state # "S_EXECUTE"
  BY <1>1 DEF T!MemRequest, T!NoRequest
<1>2. CASE state = "S_EXECUTE" /\ iw0.op = "LOAD"
  BY <1>2 DEF T!MemRequest, T!NoRequest, RequestOf, WantedAddr,
              T!rs1v, SyncOps, IsAsync, T!IsAsync, Wrap, T!Wrap, SignedImm, T!SignedImm
<1>3. CASE state = "S_EXECUTE" /\ iw0.op = "STORE"
  BY <1>3 DEF T!MemRequest, T!NoRequest, SyncOps
<1>4. CASE state = "S_EXECUTE" /\ iw0.op = "MEMCPY"
  BY <1>4 DEF T!MemRequest, T!NoRequest, RequestOf, WantedAddr,
              T!rs1v, SyncOps, IsAsync, T!IsAsync, Wrap, T!Wrap, SignedImm, T!SignedImm
<1>5. CASE state = "S_EXECUTE" /\ iw0.op = "CAS"
  BY <1>5 DEF T!MemRequest, T!NoRequest, RequestOf, WantedAddr,
              T!rs1v, SyncOps, IsAsync, T!IsAsync, Wrap, T!Wrap, SignedImm, T!SignedImm
<1>6. CASE state = "S_EXECUTE" /\ iw0.op = "CAA"
  BY <1>6 DEF T!MemRequest, T!NoRequest, RequestOf, WantedAddr,
              T!rs1v, SyncOps, IsAsync, T!IsAsync, Wrap, T!Wrap, SignedImm, T!SignedImm
<1>7. CASE state = "S_EXECUTE" /\ iw0.op \notin SyncOps \cup {"STORE"}
  BY <1>7 DEF T!MemRequest, T!NoRequest, SyncOps
<1> QED BY <1>1, <1>2, <1>3, <1>4, <1>5, <1>6, <1>7 DEF SyncOps

(* The memory as the MP sees it, q being what the MP asks for.             *)
MemoryView(q) ==
    \/ /\ mstate = "M_IDLE" /\ q.kind = "none" /\ mstate' = "M_IDLE"
       /\ ~out'.sync_valid /\ ~out'.cpy_done /\ ~out'.cpy_accept
    \/ /\ mstate = "M_IDLE" /\ q.kind # "none" /\ mstate' = "M_WAIT"
       /\ cur'.kind = q.kind /\ cur'.cell = Cell(q.addr)
       /\ q.kind = "CPY" => cur'.async = q.async
       /\ ~out'.sync_valid /\ ~out'.cpy_done
       /\ out'.cpy_accept => q.kind = "CPY"
       /\ q.kind = "CPY" => out'.cpy_accept
    \/ /\ mstate = "M_WAIT" /\ mstate' \in {"M_WAIT", "M_DRIVE"} /\ cur' = cur
       /\ ~out'.sync_valid /\ ~out'.cpy_done /\ ~out'.cpy_accept
    \/ /\ mstate = "M_DRIVE" /\ mstate' = "M_IDLE" /\ cur' = cur
       /\ ~out'.cpy_accept
       /\ IF cur.kind = "CPY" /\ cur.async THEN out'.cpy_done /\ ~out'.sync_valid
          ELSE out'.sync_valid /\ ~out'.cpy_done

OutFields == {"sync_valid", "sync_data", "sync_err", "cpy_accept", "cpy_done",
              "cpy_err"}

LEMMA ViewOfMemory ==
    ASSUME NEW q, MemStep(q), DOMAIN out = OutFields
    PROVE  MemoryView(q) /\ DOMAIN out' = OutFields
<1> USE DEF MemoryView, OutFields, Quiet
<1>1. CASE MemRest(q) BY <1>1 DEF MemRest
<1>2. CASE MemTake(q) BY <1>2 DEF MemTake
<1>3. CASE MemWaiting BY <1>3 DEF MemWaiting
<1>4. CASE MemDrive BY <1>4 DEF MemDrive
<1> QED BY <1>1, <1>2, <1>3, <1>4 DEF MemStep

-----------------------------------------------------------------------------
(* A waiting MP: its own request is in the memory, or its answer on the     *)
(* port.                                                                   *)
Waiting ==
    state = "S_MEM_WAIT" =>
        /\ iw0.op \in SyncOps /\ cur.kind = RequestOf(iw0.op) /\ cur.cell = Cell(WantedAddr)
        /\ ~(cur.kind = "CPY" /\ cur.async)
        /\ mstate # "M_IDLE" \/ out.sync_valid
Accepting ==
    /\ state = "S_MEM_ASYNC" => out.cpy_accept /\ cur.kind = "CPY" /\ cur.async
    /\ out.cpy_accept => state \in {"S_MEM_WAIT", "S_MEM_ASYNC"} /\ mstate = "M_WAIT"
(* Answers and reports are pulsed while the memory is idle again.          *)
Pulsing == out.sync_valid \/ out.cpy_done => mstate = "M_IDLE"
(* At most one copy is counted, the one that is pending; its accept pulse   *)
(* is over by then.                                                        *)
Counting ==
    /\ inflight \in {0, 1}
    /\ inflight = 1 => CopyPending /\ ~out.cpy_accept
MStates == mstate \in {"M_IDLE", "M_WAIT", "M_DRIVE"} /\ DOMAIN out = OutFields

CoreInv == Waiting /\ Accepting /\ Pulsing /\ Counting /\ MStates

LEMMA CoreInvInit == Init => CoreInv
  BY DEF Init, CoreInv, Waiting, Accepting, Pulsing, Counting, MStates, MemInit,
         NoPulse, OutFields, T!TaskInit, T!MPInit

(* What a cycle does to the in-flight counter.                             *)
LEMMA Counted ==
    ASSUME CoreInv, MemView
    PROVE  /\ \/ inflight' = 0 /\ ~out.cpy_accept
              \/ inflight' = 0 /\ state = "S_MEM_WAIT"
              \/ inflight' = 1 /\ state = "S_MEM_ASYNC" /\ inflight = 0
              \/ inflight' = 1 /\ inflight = 1 /\ ~out.cpy_done /\ ~out.cpy_accept
           /\ inflight = 1 /\ ~out.cpy_done /\ state # "S_IDLE" => inflight' = 1
  BY CoreAssumption
     DEF CoreInv, Accepting, Pulsing, Counting, MemView, T!CountInFlight, T!Accepted,
         T!MemRequest, T!NoRequest, MemPort, T!TaskAssumption

(* The cases are the phases of the memory.                                 *)
LEMMA CoreInvStep == ASSUME NEW args, CoreInv, Tick(args) PROVE CoreInv'
<1> DEFINE q == T!MemRequest
<1>1. MemView BY ViewOfMP DEF Tick, T!TaskStep
<1>2. MemoryView(q) /\ MStates' BY ViewOfMemory DEF Tick, CoreInv, MStates, MemoryView
<1>3. /\ q.kind # "none" => state = "S_EXECUTE"
      /\ q.kind = "CPY" => iw0.op = "MEMCPY" /\ (q.async = IsAsync(iw0))
      /\ state = "S_EXECUTE" /\ iw0.op \in SyncOps =>
           q.kind = RequestOf(iw0.op) /\ q.addr = WantedAddr
  BY Request
<1> HIDE DEF q
<1>4. state' = "S_MEM_WAIT" => WantedAddr' = WantedAddr
  BY <1>1 DEF MemView, WantedAddr
<1>5. iw0.op \in SyncOps => RequestOf(iw0.op) # "none"
                           /\ (RequestOf(iw0.op) = "CPY" <=> iw0.op = "MEMCPY")
  BY DEF SyncOps, RequestOf
<1>6. Waiting'
  BY <1>1, <1>2, <1>3, <1>4, <1>5
     DEF CoreInv, Waiting, Pulsing, Accepting, MemView, MemoryView, RequestOf, AsyncCopy
<1>7. Accepting'
  BY <1>1, <1>2, <1>3, <1>5
     DEF CoreInv, Accepting, Waiting, Pulsing, MemView, MemoryView, AsyncCopy, SyncOps
<1>8. Pulsing'
  BY <1>2 DEF Pulsing, MemoryView
<1>9. Counting'
  BY <1>1, <1>2, <1>3, Counted
     DEF CoreInv, Counting, Accepting, Pulsing, MemoryView, CopyPending, MStates
<1> QED BY <1>2, <1>6, <1>7, <1>8, <1>9 DEF CoreInv

LEMMA CoreInvStutter == CoreInv /\ UNCHANGED vars => CoreInv'
  BY DEF CoreInv, Waiting, Accepting, Pulsing, Counting, MStates, WantedAddr,
         CopyPending, vars, memVars, T!taskVars, T!mpVars

THEOREM InvariantHolds == Spec => []CoreInv
<1>1. Init => CoreInv BY CoreInvInit
<1>2. CoreInv /\ [Next]_vars => CoreInv'
  BY CoreInvStep, CoreInvStutter DEF Next
<1> QED BY <1>1, <1>2, PTL DEF Spec

-----------------------------------------------------------------------------
(* The answer the MP takes in S_MEM_WAIT is the answer to its instruction:  *)
(* no pulse of an earlier posted STORE or copy reaches it.                 *)
THEOREM AnswersAlwaysBelong == Spec => []AnswersBelong
<1>1. CoreInv => AnswersBelong
  BY DEF CoreInv, Waiting, AnswersBelong, WantedAddr
<1> QED BY <1>1, InvariantHolds, PTL

(* Whoever waits has a request in the memory or its answer on the port.     *)
THEOREM WaitsAreAnswered == Spec => []NobodyWaitsForNothing
<1>1. CoreInv => NobodyWaitsForNothing
  BY DEF CoreInv, Waiting, NobodyWaitsForNothing
<1> QED BY <1>1, InvariantHolds, PTL

(* The in-flight counter counts pending copies only.                       *)
THEOREM NoPhantomCopies == Spec => []NoPhantomCopy
<1>1. CoreInv => NoPhantomCopy
  BY DEF CoreInv, Counting, NoPhantomCopy
<1> QED BY <1>1, InvariantHolds, PTL

(* A copy is counted when the MP goes on and until the memory reports it.   *)
THEOREM CopiesAreCounted == Spec => CopiesStayCounted
<1> DEFINE Uncounted == \/ state = "S_MEM_ASYNC"
                        \/ inflight # 0 /\ ~out.cpy_done /\ state # "S_IDLE"
<1>1. CoreInv /\ [Next]_vars => [Uncounted => inflight' # 0]_vars
  <2> SUFFICES ASSUME CoreInv, NEW args, Tick(args), Uncounted PROVE inflight' # 0
    BY DEF Next
  <2>1. MemView BY ViewOfMP DEF Tick, T!TaskStep
  <2>2. CASE state = "S_MEM_ASYNC"
    BY <2>1, <2>2, Counted DEF CoreInv, Accepting
  <2>3. CASE inflight # 0 /\ ~out.cpy_done /\ state # "S_IDLE"
    BY <2>1, <2>3, Counted DEF CoreInv, Counting
  <2> QED BY <2>2, <2>3
<1> QED BY <1>1, InvariantHolds, PTL DEF Spec, CopiesStayCounted

-----------------------------------------------------------------------------
(***************************************************************************)
(* The core implements the interpreter: every step of the core is a step   *)
(* of the interpreter or changes nothing the interpreter has, for every    *)
(* latency, width and depth and every program of a class that leaves out   *)
(* what the two treat differently (README, section 4).  First, that class. *)
(***************************************************************************)
SharedOps == {"NOP", "COMPUTE", "LOAD", "STORE", "CAS", "CAA", "JUMP", "LOOP", "RET"}

(* An instruction both executors treat alike: no product (the MP reads it   *)
(* too early), no mask the MP would sign-extend, no branch back.            *)
Shared(w) ==
    /\ w.op \in SharedOps
    /\ w.op = "COMPUTE" => w.sub # "MUL"
    /\ w.op = "COMPUTE" /\ w.sub = "ANDI" => Wrap(SignedImm(w.imm)) = w.imm
    /\ w.op \in {"JUMP", "LOOP"} => SignedImm(w.imm) = w.imm

Around(p, a) == {b \in Loops(p) : Inside(p, b, a)}     \* loops that a is in

Comparable(p) ==
    /\ Structured(p)
    /\ LastRet(p) \in Those(p, "RET") \ Tail2(p)
    /\ \A a \in 0 .. LastRet(p) : Shared(p[a])
    /\ \A a \in Loops(p) : Cardinality(Around(p, a)) < MAX_LOOP_NEST
    /\ \A a \in Those(p, "RET") : Around(p, a) = {}

AllComparable == \A p \in Programs : Comparable(p)

(* A count fits a frame and is not zero when its LOOP is executed (with     *)
(* zero the MP runs the body once, the interpreter not at all; of a larger  *)
(* count the MP keeps the low bits).                                       *)
CountsFit == state = "S_EXECUTE" /\ iw0.op = "LOOP" => T!rs1v \in 1 .. 2^COUNTW

-----------------------------------------------------------------------------
(***************************************************************************)
(* The invariant.                                                          *)
(***************************************************************************)
Busy == state \notin {"S_IDLE", "S_DONE"}
End == LastRet(istore)

(* What the MP has fetched is the instruction at the program counter.       *)
FetchInv ==
    /\ istore \in Programs /\ pc \in 0 .. End
    /\ state \in {"S_IDLE", "S_FETCH1", "S_FETCH1_W", "S_FETCH2", "S_FETCH2_W",
                  "S_EXECUTE", "S_MEM_WAIT", "S_DONE"}
    /\ state = "S_FETCH1_W" => ifetch = istore[pc]
    /\ state \in {"S_FETCH2", "S_FETCH2_W", "S_EXECUTE", "S_MEM_WAIT"} => iw0 = istore[pc]
    /\ state \in {"S_FETCH2", "S_FETCH2_W"} => IsTwoWord(iw0)
    /\ state = "S_FETCH2_W" => ifetch = istore[pc + 1]
    /\ state \in {"S_EXECUTE", "S_MEM_WAIT"} /\ IsTwoWord(iw0) => iw1 = istore[pc + 1]

(* The arguments of a task are on the port until they are in the registers. *)
ArgsInv ==
    /\ T!HandshakeExact
    /\ start.pc = 0
    /\ dstate = "D_RUN" => start.args \in ArgSets
    /\ arg_idx \in 0 .. NUM_ARGS
    /\ Busy /\ state # "S_FETCH1" => arg_idx = NUM_ARGS
    /\ LoadingArgs =>
         regs = [r \in Regs |-> IF r \in 1 .. arg_idx THEN start.args[r] ELSE 0]

(* The frames are those of the loops around the program counter, outermost  *)
(* first.                                                                  *)
LoopFrames == [begin : Nat, end : Nat, remain : Nat]
LoopOf(f) == f.begin - 1
Stacked(s, p, a) ==
    /\ s \in Seq(LoopFrames)
    /\ \A i \in 1 .. Len(s) : /\ LoopOf(s[i]) \in Around(p, a)
                              /\ s[i].end = EndOf(p, LoopOf(s[i]))
    /\ \A i, j \in 1 .. Len(s) : i < j => s[i].begin < s[j].begin
LoopsInv == Stacked(ls, istore, pc) /\ (~Busy => ls = <<>>)

(* A request under way is that of the waiting instruction, with the values  *)
(* of its registers and an address of Window; nothing ever fails.          *)
RequestInv ==
    /\ CoreInv
    /\ out.sync_err = FALSE /\ task_err = FALSE
    /\ mem = [c \in Cells |-> mem[c]]
    /\ mstate # "M_IDLE" /\ state # "S_MEM_WAIT" => cur.kind = "STORE"
    /\ mstate # "M_IDLE" /\ state = "S_MEM_WAIT" =>
         /\ WantedAddr \in Window
         /\ iw0.op \in {"CAS", "CAA"} => cur.data = regs[iw0.rs2]
         /\ iw0.op = "CAS" => cur.swap = regs[iw1.rd]

VMInv == FetchInv /\ ArgsInv /\ LoopsInv /\ RequestInv

-----------------------------------------------------------------------------
(***************************************************************************)
(* Programs of the class: where the instruction behind one is.             *)
(***************************************************************************)
Behind(p, a) == a + (IF IsTwoWord(p[a]) THEN 2 ELSE 1)

(* Where the instruction at a may go: on, and no further than the end of    *)
(* any loop it is in.                                                      *)
Lands(p, a, np) ==
    /\ np \in a + 1 .. LastRet(p)
    /\ \A b \in Around(p, a) : np <= EndOf(p, b)

LEMMA Immediates ==
    ASSUME NEW p \in Programs
    PROVE  /\ p \in [T!PCs -> T!Instructions]
           /\ DOMAIN p = 0 .. DEPTH - 1 /\ DEPTH \in Nat
           /\ \A a \in 0 .. DEPTH - 1 : p[a].imm \in Nat
<1>1. p \in [T!PCs -> T!Instructions] /\ DEPTH \in Nat
  BY CoreAssumption DEF T!TaskAssumption
<1>2. \A w \in T!Instructions : w.imm \in Nat
  BY DEF T!Instructions, T!ImmField
<1> QED BY <1>1, <1>2 DEF T!PCs

LEMMA ProgramFacts ==
    ASSUME AllComparable, NEW p \in Programs
    PROVE  /\ LastRet(p) \in 0 .. DEPTH - 1 /\ LastRet(p) \in Nat
           /\ \A a \in 0 .. LastRet(p) :
                a \in 0 .. DEPTH - 1 /\ a \in Nat /\ p[a].imm \in Nat /\ Shared(p[a])
           /\ \A a \in Loops(p) :
                /\ a \in 0 .. LastRet(p) /\ p[a].imm \in Nat \ {0}
                /\ EndOf(p, a) \in Nat /\ EndOf(p, a) <= LastRet(p) /\ a + 1 < EndOf(p, a)
                /\ EndOf(p, a) \notin Tail2(p) /\ EndOf(p, a) - 1 \notin Loops(p)
<1>1. Comparable(p) /\ DOMAIN p = 0 .. DEPTH - 1 /\ DEPTH \in Nat
      /\ \A a \in 0 .. DEPTH - 1 : p[a].imm \in Nat
  BY Immediates DEF AllComparable
<1>2. LastRet(p) \in 0 .. DEPTH - 1
  BY <1>1 DEF Comparable, Those
<1>3. \A a \in 0 .. LastRet(p) : a \in 0 .. DEPTH - 1 /\ p[a].imm \in Nat /\ Shared(p[a])
  BY <1>1, <1>2 DEF Comparable
<1>4. \A a \in Loops(p) : a \in 0 .. DEPTH - 1
  BY <1>1 DEF Loops, Those
<1>5. ASSUME NEW a \in Loops(p)
      PROVE  /\ a \in 0 .. LastRet(p) /\ p[a].imm \in Nat \ {0}
             /\ EndOf(p, a) \in Nat /\ EndOf(p, a) <= LastRet(p) /\ a + 1 < EndOf(p, a)
             /\ EndOf(p, a) \notin Tail2(p) /\ EndOf(p, a) - 1 \notin Loops(p)
  <2>1. /\ p[a].imm > 0 /\ EndOf(p, a) <= LastRet(p)
        /\ EndOf(p, a) \notin Tail2(p) /\ EndOf(p, a) - 1 \notin Loops(p)
    BY <1>1 DEF Comparable, Structured
  <2> QED BY <2>1, <1>1, <1>2, <1>4 DEF EndOf
<1> QED BY <1>2, <1>3, <1>5

LEMMA Linear ==
    ASSUME AllComparable, NEW p \in Programs, NEW a \in 0 .. LastRet(p), p[a].op # "RET"
    PROVE  Lands(p, a, Behind(p, a)) /\ Behind(p, a) \in Nat
<1>1. LastRet(p) \in Those(p, "RET") \ Tail2(p) /\ DOMAIN p = 0 .. DEPTH - 1
  BY Immediates DEF AllComparable, Comparable
<1>2. a # LastRet(p)
  BY <1>1 DEF Those
<1>3. IsTwoWord(p[a]) => a + 1 \in Tail2(p)
  BY <1>1, ProgramFacts DEF Tail2
<1>4. Behind(p, a) \in a + 1 .. LastRet(p) /\ Behind(p, a) \in Nat
  BY <1>1, <1>2, <1>3, ProgramFacts DEF Behind
<1>5. ASSUME NEW b \in Around(p, a) PROVE Behind(p, a) <= EndOf(p, b)
  <2>1. b \in Loops(p) /\ a < EndOf(p, b)
    BY DEF Around, Inside
  <2>2. EndOf(p, b) \notin Tail2(p) /\ EndOf(p, b) \in Nat
    BY <2>1, ProgramFacts
  <2> QED BY <2>1, <2>2, <1>3, ProgramFacts DEF Behind
<1> QED BY <1>4, <1>5 DEF Lands

LEMMA Branch ==
    ASSUME AllComparable, NEW p \in Programs, NEW a \in 0 .. LastRet(p), p[a].op = "JUMP"
    PROVE  Lands(p, a, a + p[a].imm) /\ p[a].imm > 0
<1>1. a \in Those(p, "JUMP")
  BY ProgramFacts, Immediates DEF Those
<1>2. /\ p[a].imm > 0 /\ a + p[a].imm <= LastRet(p)
      /\ \A b \in Loops(p) : Inside(p, b, a) => a + p[a].imm <= EndOf(p, b)
  BY <1>1 DEF AllComparable, Comparable, Structured
<1> QED BY <1>2, ProgramFacts DEF Lands, Around

(* Of two loops around an instruction, the one that begins later ends       *)
(* earlier; a loop that is entered is in all of them.                      *)
LEMMA Nests ==
    ASSUME AllComparable, NEW p \in Programs, NEW a \in 0 .. LastRet(p),
           NEW b \in Around(p, a), NEW c \in Loops(p), b < c, c = a \/ c \in Around(p, a)
    PROVE  EndOf(p, c) < EndOf(p, b)
<1>1. b \in Loops(p) /\ b < a /\ a < EndOf(p, b) /\ (c = a \/ c < a)
  BY DEF Around, Inside
<1>2. b \in Nat /\ c \in Nat /\ a \in Nat /\ EndOf(p, b) \in Nat
  BY <1>1, ProgramFacts
<1>3. Inside(p, b, c)
  BY <1>1, <1>2 DEF Inside
<1> QED BY <1>1, <1>3 DEF AllComparable, Comparable, Structured

-----------------------------------------------------------------------------
(***************************************************************************)
(* The loop stack when the program goes to np.                             *)
(***************************************************************************)
Ends(s, np) == s # <<>> /\ s[Len(s)].end = np
Again(s, np) == Ends(s, np) /\ s[Len(s)].remain # 0
Target(s, np) == IF Again(s, np) THEN s[Len(s)].begin ELSE np
Popped(s, np) == IF Again(s, np) THEN [s EXCEPT ![Len(s)].remain = @ - 1]
                 ELSE IF Ends(s, np) THEN SubSeq(s, 1, Len(s) - 1) ELSE s

LEMMA StackOfMP ==
    \A np : T!AdjustedPC(np) = Target(ls, np) /\ T!PopOrDecrement(np) = Popped(ls, np)
  BY DEF T!AdjustedPC, T!PopOrDecrement, T!LoopsBack, T!LoopEndsAt, T!Last, T!Front,
         Ends, Again, Target, Popped

LEMMA Prefix ==
    ASSUME NEW S, NEW s \in Seq(S), NEW m \in Nat, m <= Len(s)
    PROVE  /\ SubSeq(s, 1, m) \in Seq(S) /\ Len(SubSeq(s, 1, m)) = m
           /\ \A i \in 1 .. m : SubSeq(s, 1, m)[i] = s[i]
  BY SubSeqProperties

LEMMA FrameFacts ==
    ASSUME AllComparable, NEW p \in Programs, NEW a \in 0 .. LastRet(p), NEW s, Stacked(s, p, a),
           NEW i \in 1 .. Len(s)
    PROVE  /\ s[i] \in LoopFrames /\ s[i].begin \in Nat /\ s[i].end \in Nat /\ s[i].remain \in Nat
           /\ LoopOf(s[i]) \in Loops(p) /\ LoopOf(s[i]) \in Nat
           /\ LoopOf(s[i]) < a /\ a < s[i].end /\ s[i].begin < s[i].end
           /\ s[i].end <= LastRet(p)
<1>1. s[i] \in LoopFrames
  BY DEF Stacked
<1>2. LoopOf(s[i]) \in Around(p, a) /\ s[i].end = EndOf(p, LoopOf(s[i]))
  BY DEF Stacked
<1>3. LoopOf(s[i]) \in Loops(p) /\ LoopOf(s[i]) < a /\ a < s[i].end
  BY <1>2 DEF Around, Inside
<1> QED BY <1>1, <1>2, <1>3, ProgramFacts DEF LoopFrames, LoopOf

(* The innermost loop only can end where an instruction goes.              *)
LEMMA OnlyTheTopEnds ==
    ASSUME AllComparable, NEW p \in Programs, NEW a \in 0 .. LastRet(p), NEW s, Stacked(s, p, a),
           NEW np, Lands(p, a, np)
    PROVE  \A i \in 1 .. Len(s) : np <= s[i].end /\ (i # Len(s) => np < s[i].end)
<1>1. np \in Nat /\ a < np
  BY ProgramFacts DEF Lands
<1>2. Len(s) \in Nat
  BY DEF Stacked
<1>3. ASSUME NEW i \in 1 .. Len(s) PROVE np <= s[i].end
  BY DEF Stacked, Lands
<1>4. ASSUME NEW i \in 1 .. Len(s), i # Len(s) PROVE np < s[i].end
  <2> DEFINE t == Len(s)
  <2>1. t \in 1 .. Len(s) /\ i < t
    BY <1>2, <1>4
  <2>2. s[i].begin < s[t].begin
    BY <2>1 DEF Stacked
  <2>3. /\ LoopOf(s[i]) \in Around(p, a) /\ LoopOf(s[t]) \in Around(p, a)
        /\ s[i].end = EndOf(p, LoopOf(s[i])) /\ s[t].end = EndOf(p, LoopOf(s[t]))
    BY <2>1 DEF Stacked
  <2>4. LoopOf(s[i]) < LoopOf(s[t]) /\ LoopOf(s[t]) \in Loops(p)
    BY <2>1, <2>2, FrameFacts DEF LoopOf
  <2>5. s[t].end < s[i].end
    BY <2>3, <2>4, Nests
  <2>6. np <= s[t].end
    BY <2>1, <1>3
  <2>7. s[t].end \in Nat /\ s[i].end \in Nat
    BY <2>1, FrameFacts
  <2> QED BY <1>1, <2>5, <2>6, <2>7
<1> QED BY <1>3, <1>4

LEMMA StackStep ==
    ASSUME AllComparable, NEW p \in Programs, NEW a \in 0 .. LastRet(p), NEW s, Stacked(s, p, a),
           NEW np, Lands(p, a, np)
    PROVE  Stacked(Popped(s, np), p, Target(s, np)) /\ Target(s, np) \in 0 .. LastRet(p)
<1>1. np \in Nat /\ a \in Nat /\ a < np /\ np <= LastRet(p) /\ LastRet(p) \in Nat
  BY ProgramFacts DEF Lands
<1>2. Len(s) \in Nat /\ s \in Seq(LoopFrames)
  BY DEF Stacked
<1>3. CASE ~Ends(s, np)
  <2>1. Popped(s, np) = s /\ Target(s, np) = np
    BY <1>3 DEF Popped, Target, Again
  <2>2. ASSUME NEW i \in 1 .. Len(s) PROVE LoopOf(s[i]) \in Around(p, np)
    <3>1. np < s[i].end
      BY <1>1, <1>2, <1>3, OnlyTheTopEnds, FrameFacts DEF Ends
    <3>2. s[i].end = EndOf(p, LoopOf(s[i]))
      BY DEF Stacked
    <3> QED BY <3>1, <3>2, <1>1, FrameFacts DEF Around, Inside
  <2> QED BY <2>1, <2>2, <1>1 DEF Stacked
<1>4. CASE Ends(s, np) /\ ~Again(s, np)
  <2> DEFINE m == Len(s) - 1
  <2>1. m \in Nat /\ m < Len(s) /\ m <= Len(s) /\ Len(s) \in 1 .. Len(s)
    BY <1>2, <1>4, EmptySeq DEF Ends
  <2>2. Popped(s, np) = SubSeq(s, 1, m) /\ Target(s, np) = np
    BY <2>1, <1>4 DEF Popped, Target
  <2> HIDE DEF m
  <2>3. /\ SubSeq(s, 1, m) \in Seq(LoopFrames) /\ Len(SubSeq(s, 1, m)) = m
        /\ \A i \in 1 .. m : SubSeq(s, 1, m)[i] = s[i]
    BY <1>2, <2>1, Prefix, Zenon
  <2>4. ASSUME NEW i \in 1 .. m PROVE LoopOf(s[i]) \in Around(p, np)
    <3>1. i \in 1 .. Len(s) /\ i # Len(s)
      BY <2>1, <1>2
    <3>2. np < s[i].end
      BY <3>1, OnlyTheTopEnds
    <3>3. s[i].end = EndOf(p, LoopOf(s[i]))
      BY <3>1 DEF Stacked
    <3> QED BY <3>1, <3>2, <3>3, <1>1, FrameFacts DEF Around, Inside
  <2>5. \A i \in 1 .. m : i \in 1 .. Len(s)
    BY <2>1, <1>2
  <2> QED BY <2>2, <2>3, <2>4, <2>5, <1>1 DEF Stacked
<1>5. CASE Again(s, np)
  <2> DEFINE t == Len(s)
  <2>1. t \in 1 .. Len(s)
    BY <1>2, <1>5 DEF Again, Ends
  <2>2. s[t] \in LoopFrames /\ s[t].remain \in Nat \ {0} /\ s[t].begin \in Nat
    BY <2>1, <1>5, FrameFacts DEF Again
  <2>3. [s[t] EXCEPT !.remain = @ - 1] \in LoopFrames
    BY <2>2 DEF LoopFrames
  <2>4. PICK u : u = Popped(s, np)
    OBVIOUS
  <2>5. u = [s EXCEPT ![t] = [s[t] EXCEPT !.remain = @ - 1]]
    BY <1>5, <2>4 DEF Popped
  <2>6. u \in Seq(LoopFrames) /\ Len(u) = Len(s)
        /\ \A i \in 1 .. Len(s) : u[i].begin = s[i].begin /\ u[i].end = s[i].end
    BY <1>2, <2>1, <2>2, <2>3, <2>5 DEF LoopFrames
  <2>7. Target(s, np) = s[t].begin
    BY <1>5 DEF Target
  <2>8. LoopOf(s[t]) \in Loops(p) /\ s[t].begin = LoopOf(s[t]) + 1 /\ LoopOf(s[t]) \in Nat
    BY <2>1, <2>2, FrameFacts DEF LoopOf
  <2>9. ASSUME NEW i \in 1 .. Len(s)
        PROVE  LoopOf(s[i]) \in Around(p, s[t].begin)
    <3>1. /\ LoopOf(s[i]) \in Around(p, a) /\ s[i].end = EndOf(p, LoopOf(s[i]))
          /\ LoopOf(s[t]) \in Around(p, a) /\ s[t].end = EndOf(p, LoopOf(s[t]))
      BY <2>1 DEF Stacked
    <3>2. s[t].begin < s[t].end /\ s[t].end \in Nat /\ s[i].end \in Nat
          /\ LoopOf(s[i]) \in Nat /\ LoopOf(s[i]) \in Loops(p)
      BY <2>1, FrameFacts
    <3>3. CASE i = t
      BY <3>1, <3>2, <3>3, <2>8 DEF Around, Inside
    <3>4. CASE i # t
      <4>1. i < t
        BY <3>4, <1>2
      <4>2. LoopOf(s[i]) < LoopOf(s[t])
        BY <4>1, <2>1, <2>2, FrameFacts DEF Stacked, LoopOf
      <4>3. s[t].end < s[i].end
        BY <3>1, <4>2, <2>8, Nests
      <4> QED BY <3>1, <3>2, <4>2, <4>3, <2>8 DEF Around, Inside
    <3> QED BY <3>3, <3>4
  <2>10. s[t].begin \in 0 .. LastRet(p)
    BY <2>1, <2>2, <1>1, FrameFacts
  <2>11. \A i \in 1 .. Len(s) : LoopOf(u[i]) = LoopOf(s[i])
    BY <2>6 DEF LoopOf
  <2> QED BY <2>4, <2>6, <2>7, <2>9, <2>10, <2>11 DEF Stacked
<1> QED BY <1>3, <1>4, <1>5 DEF Again

LEMMA NoMore ==
    ASSUME NEW S, NEW U, IsFiniteSet(U), NEW f \in Injection(S, U)
    PROVE  Cardinality(S) <= Cardinality(U)
  BY FS_Injection
LEMMA FromZero == ASSUME NEW n \in Nat \ {0} PROVE Cardinality(0 .. n - 1) = n
  BY FS_Interval
LEMMA UpTo == ASSUME NEW n \in Nat PROVE Cardinality(1 .. n) = n
  BY FS_Interval

(* A loop that is entered lies in the loops around it, and there is room    *)
(* for its frame.                                                          *)
LEMMA Pushed ==
    ASSUME AllComparable, NEW p \in Programs, NEW a \in 0 .. LastRet(p), p[a].op = "LOOP",
           NEW s, Stacked(s, p, a), NEW n \in Nat
    PROVE  LET new == [begin |-> a + 1, end |-> EndOf(p, a), remain |-> n]
           IN  /\ new \in LoopFrames /\ Len(s) < MAX_LOOP_NEST
               /\ Stacked(Append(s, new), p, a + 1) /\ a + 1 \in 0 .. LastRet(p)
               /\ \A i \in 1 .. Len(s) : s[i].end # a + 1
<1> DEFINE new == [begin |-> a + 1, end |-> EndOf(p, a), remain |-> n]
<1>1. a \in Loops(p) /\ a \in Nat
  BY ProgramFacts, Immediates DEF Loops, Those
<1>2. /\ EndOf(p, a) \in Nat /\ EndOf(p, a) <= LastRet(p) /\ a + 1 < EndOf(p, a)
      /\ LastRet(p) \in Nat
  BY <1>1, ProgramFacts
<1>3. new \in LoopFrames
  BY <1>1, <1>2 DEF LoopFrames
<1>4. s \in Seq(LoopFrames) /\ Len(s) \in Nat
  BY DEF Stacked
<1>5. Len(s) < MAX_LOOP_NEST
  <2> DEFINE f == [i \in 1 .. Len(s) |-> LoopOf(s[i])]
  <2>1. f \in [1 .. Len(s) -> Around(p, a)]
    BY DEF Stacked
  <2>2. \A i, j \in 1 .. Len(s) : f[i] = f[j] => i = j
    <3> SUFFICES ASSUME NEW i \in 1 .. Len(s), NEW j \in 1 .. Len(s), f[i] = f[j], i # j
                 PROVE  FALSE
      OBVIOUS
    <3>1. s[i].begin = s[j].begin
      BY FrameFacts DEF LoopOf
    <3>2. s[i].begin \in Nat /\ s[j].begin \in Nat
      BY FrameFacts
    <3>3. i < j \/ j < i
      BY <1>4
    <3> QED BY <3>1, <3>2, <3>3 DEF Stacked
  <2>3. f \in Injection(1 .. Len(s), Around(p, a))
    BY <2>1, <2>2 DEF Injection, IsInjective
  <2> HIDE DEF f
  <2>4. IsFiniteSet(Around(p, a))
    <3>1. Around(p, a) \subseteq 0 .. LastRet(p)
      BY ProgramFacts DEF Around
    <3>2. IsFiniteSet(0 .. LastRet(p))
      BY <1>2, FS_Interval
    <3> QED BY <3>1, <3>2, FS_Subset, Zenon
  <2>5. Cardinality(1 .. Len(s)) <= Cardinality(Around(p, a))
    BY <2>3, <2>4, NoMore, Zenon
  <2>6. Cardinality(1 .. Len(s)) = Len(s)
    BY <1>4, UpTo, Zenon
  <2>7. Cardinality(Around(p, a)) < MAX_LOOP_NEST
    BY <1>1 DEF AllComparable, Comparable
  <2>8. Cardinality(Around(p, a)) \in Nat /\ MAX_LOOP_NEST \in Nat
    BY <2>4, FS_CardinalityType, CoreAssumption DEF T!TaskAssumption
  <2> QED BY <1>4, <2>5, <2>6, <2>7, <2>8
<1> HIDE DEF new
<1>6. PICK u : u = Append(s, new)
  OBVIOUS
<1>7. /\ u \in Seq(LoopFrames) /\ Len(u) = Len(s) + 1 /\ u[Len(s) + 1] = new
      /\ \A i \in 1 .. Len(s) : u[i] = s[i]
  BY <1>3, <1>4, <1>6
<1>8. ASSUME NEW i \in 1 .. Len(s)
      PROVE  /\ LoopOf(s[i]) \in Around(p, a + 1) /\ s[i].begin < a + 1 /\ s[i].end # a + 1
             /\ s[i].end = EndOf(p, LoopOf(s[i]))
  <2>1. LoopOf(s[i]) \in Around(p, a) /\ s[i].end = EndOf(p, LoopOf(s[i]))
    BY DEF Stacked
  <2>2. /\ LoopOf(s[i]) \in Loops(p) /\ LoopOf(s[i]) < a /\ a < s[i].end /\ s[i].end \in Nat
        /\ LoopOf(s[i]) \in Nat /\ s[i].begin \in Nat
    BY FrameFacts
  <2>3. s[i].end - 1 \notin Loops(p)
    BY <2>1, <2>2, ProgramFacts
  <2>4. s[i].end # a + 1
    BY <2>3, <1>1, <2>2
  <2> QED BY <2>1, <2>2, <2>4, <1>1 DEF Around, Inside, LoopOf
<1>9. /\ LoopOf(new) = a /\ new.begin = a + 1 /\ new.end = EndOf(p, a)
      /\ LoopOf(new) \in Around(p, a + 1)
  BY <1>1, <1>2 DEF new, LoopOf, Around, Inside
<1>10. Stacked(u, p, a + 1)
  <2>1. ASSUME NEW i \in 1 .. Len(u)
        PROVE  LoopOf(u[i]) \in Around(p, a + 1) /\ u[i].end = EndOf(p, LoopOf(u[i]))
    <3>1. i \in 1 .. Len(s) \/ i = Len(s) + 1
      BY <1>4, <1>7
    <3> QED BY <3>1, <1>7, <1>8, <1>9
  <2>2. ASSUME NEW i \in 1 .. Len(u), NEW j \in 1 .. Len(u), i < j
        PROVE  u[i].begin < u[j].begin
    <3>1. i \in 1 .. Len(s) /\ (j \in 1 .. Len(s) \/ j = Len(s) + 1)
      BY <1>4, <1>7, <2>2
    <3>2. CASE j \in 1 .. Len(s)
      BY <3>1, <3>2, <1>7, <2>2 DEF Stacked
    <3>3. CASE j = Len(s) + 1
      BY <3>1, <3>3, <1>7, <1>8, <1>9
    <3> QED BY <3>1, <3>2, <3>3
  <2> QED BY <2>1, <2>2, <1>7 DEF Stacked
<1>11. a + 1 \in 0 .. LastRet(p)
  BY <1>1, <1>2
<1> QED BY <1>3, <1>5, <1>6, <1>8, <1>10, <1>11 DEF new

-----------------------------------------------------------------------------
(***************************************************************************)
(* The interpreter's resolveLoops on the image of the loop stack, of which  *)
(* only the top may end at np.                                             *)
(***************************************************************************)
Image(s) == [i \in 1 .. Len(s) |-> [start |-> s[i].begin, end |-> s[i].end,
                                    remaining |-> s[i].remain + 1]]
LastTime(m, np, i) == m[i].end = np /\ m[i].remaining <= 1
Kept(m, np) == CHOOSE j \in 0 .. Len(m) :
                 /\ \A i \in j + 1 .. Len(m) : LastTime(m, np, i)
                 /\ j > 0 => ~LastTime(m, np, j)
VMFrames == [start : Nat, end : Nat, remaining : Nat]

LEMMA FunctionIsSeq ==
    ASSUME NEW U, NEW n \in Nat, NEW f \in [1 .. n -> U]
    PROVE  f \in Seq(U) /\ Len(f) = n
  OBVIOUS

LEMMA ImageFacts ==
    ASSUME NEW s \in Seq(LoopFrames)
    PROVE  /\ Image(s) \in Seq(VMFrames) /\ Len(Image(s)) = Len(s) /\ Len(s) \in Nat
           /\ \A i \in 1 .. Len(s) :
                /\ s[i].begin \in Nat /\ s[i].end \in Nat /\ s[i].remain \in Nat
                /\ Image(s)[i] = [start |-> s[i].begin, end |-> s[i].end,
                                  remaining |-> s[i].remain + 1]
                /\ Image(s)[i].start = s[i].begin /\ Image(s)[i].end = s[i].end
                /\ Image(s)[i].remaining = s[i].remain + 1
<1>1. Len(s) \in Nat /\ \A i \in 1 .. Len(s) : s[i] \in LoopFrames
  OBVIOUS
<1>2. Image(s) \in [1 .. Len(s) -> VMFrames]
  BY <1>1 DEF Image, LoopFrames, VMFrames
<1>3. Image(s) \in Seq(VMFrames) /\ Len(Image(s)) = Len(s)
  BY <1>1, <1>2, FunctionIsSeq, Zenon
<1>4. ASSUME NEW i \in 1 .. Len(s)
      PROVE  /\ s[i].begin \in Nat /\ s[i].end \in Nat /\ s[i].remain \in Nat
             /\ Image(s)[i] = [start |-> s[i].begin, end |-> s[i].end,
                               remaining |-> s[i].remain + 1]
             /\ Image(s)[i].start = s[i].begin /\ Image(s)[i].end = s[i].end
             /\ Image(s)[i].remaining = s[i].remain + 1
  <2>1. s[i].begin \in Nat /\ s[i].end \in Nat /\ s[i].remain \in Nat
    BY <1>1 DEF LoopFrames
  <2>2. Image(s)[i] = [start |-> s[i].begin, end |-> s[i].end,
                       remaining |-> s[i].remain + 1]
    BY DEF Image
  <2> QED BY <2>1, <2>2
<1> QED BY <1>1, <1>3, <1>4

(* What is left of the stack: the frames up to the last that stays.        *)
LEMMA KeptIs ==
    ASSUME NEW m, NEW np, NEW n \in Nat, Len(m) = n, NEW k \in 0 .. n,
           \A i \in k + 1 .. n : LastTime(m, np, i), k > 0 => ~LastTime(m, np, k)
    PROVE  Kept(m, np) = k
<1>1. ASSUME NEW j \in 0 .. n, \A i \in j + 1 .. n : LastTime(m, np, i),
             j > 0 => ~LastTime(m, np, j)
      PROVE  j = k
  <2>1. CASE j < k
    <3>1. k \in j + 1 .. n /\ k > 0
      BY <2>1
    <3> QED BY <3>1, <1>1
  <2>2. CASE j > k
    <3>1. j \in k + 1 .. n /\ j > 0
      BY <2>2
    <3> QED BY <3>1, <1>1
  <2> QED BY <2>1, <2>2
<1> QED BY <1>1 DEF Kept

LEMMA SameSeq ==
    ASSUME NEW U, NEW s \in Seq(U), NEW V, NEW v \in Seq(V), Len(s) = Len(v),
           \A i \in 1 .. Len(s) : s[i] = v[i]
    PROVE  s = v
  OBVIOUS

LEMMA OneLess ==
    ASSUME NEW h \in LoopFrames, h.remain # 0
    PROVE  LET f == [h EXCEPT !.remain = @ - 1]
           IN  /\ f \in LoopFrames /\ f.begin = h.begin /\ f.end = h.end
               /\ f.remain = h.remain - 1
  BY DEF LoopFrames

LEMMA Resolved ==
    ASSUME NEW s \in Seq(LoopFrames), NEW np \in Nat,
           \A i \in 1 .. Len(s) : i # Len(s) => s[i].end # np
    PROVE  LET m == Image(s)
               k == Kept(m, np)
               again == k > 0 /\ m[k].end = np
           IN  /\ again <=> Again(s, np)
               /\ again => m[k].start = s[Len(s)].begin
               /\ Image(Popped(s, np)) =
                    IF again THEN [SubSeq(m, 1, k) EXCEPT ![k].remaining = @ - 1]
                    ELSE SubSeq(m, 1, k)
<1>0. PICK t \in Nat : t = Len(s)
  OBVIOUS
<1>1. PICK m : m = Image(s)
  OBVIOUS
<1>2. /\ m \in Seq(VMFrames) /\ Len(m) = t
      /\ \A i \in 1 .. t :
           /\ s[i].begin \in Nat /\ s[i].end \in Nat /\ s[i].remain \in Nat
           /\ m[i] = [start |-> s[i].begin, end |-> s[i].end, remaining |-> s[i].remain + 1]
           /\ m[i].start = s[i].begin /\ m[i].end = s[i].end /\ m[i].remaining = s[i].remain + 1
  BY <1>0, <1>1, ImageFacts
<1>3. \A i \in 1 .. t : LastTime(m, np, i) <=> s[i].end = np /\ s[i].remain = 0
  BY <1>2 DEF LastTime
<1>4. Ends(s, np) <=> t > 0 /\ s[t].end = np
  BY <1>0, EmptySeq DEF Ends
<1>5. Again(s, np) <=> Ends(s, np) /\ s[t].remain # 0
  BY <1>0 DEF Again
<1>6. CASE Again(s, np)
  <2>1. t \in 1 .. t /\ t > 0 /\ s[t].end = np /\ s[t].remain # 0
    BY <1>4, <1>5, <1>6
  <2>2. t \in 0 .. t /\ \A i \in t + 1 .. t : LastTime(m, np, i)
    OBVIOUS
  <2>3. ~LastTime(m, np, t)
    BY <1>3, <2>1
  <2>4. Kept(m, np) = t
    BY <1>2, <2>2, <2>3, KeptIs
  <2>5. m[t].end = np /\ m[t].start = s[t].begin
    BY <1>2, <2>1
  <2>6. SubSeq(m, 1, t) = m
    BY <1>2
  <2>7. PICK u : u = Popped(s, np)
    OBVIOUS
  <2>8. u = [s EXCEPT ![t].remain = @ - 1]
    BY <1>0, <1>6, <2>7 DEF Popped
  <2>9. s[t] \in LoopFrames
    BY <1>0, <2>1
  <2>10. PICK f : f = [s[t] EXCEPT !.remain = @ - 1]
    OBVIOUS
  <2>10a. /\ f \in LoopFrames /\ f.begin = s[t].begin /\ f.end = s[t].end
          /\ f.remain = s[t].remain - 1
    BY <2>1, <2>9, <2>10, OneLess
  <2>11. u = [s EXCEPT ![t] = f]
    BY <2>8, <2>10, Zenon
  <2>12. u \in Seq(LoopFrames) /\ Len(u) = t
         /\ \A i \in 1 .. t : u[i] = IF i = t THEN f ELSE s[i]
    BY <1>0, <2>1, <2>10a, <2>11
  <2>13. PICK g : g = [m[t] EXCEPT !.remaining = @ - 1]
    OBVIOUS
  <2>13a. g = [start |-> f.begin, end |-> f.end, remaining |-> f.remain + 1]
    <3>1. m[t] = [start |-> s[t].begin, end |-> s[t].end, remaining |-> s[t].remain + 1]
          /\ s[t].remain \in Nat
      BY <1>2, <2>1
    <3>2. g = [start |-> s[t].begin, end |-> s[t].end, remaining |-> s[t].remain]
      BY <2>13, <3>1
    <3> QED BY <2>10a, <3>1, <3>2
  <2>14. g \in VMFrames
    <3>1. f.begin \in Nat /\ f.end \in Nat /\ f.remain + 1 \in Nat
      BY <1>2, <2>1, <2>10a
    <3> QED BY <2>13a, <3>1 DEF VMFrames
  <2>15. PICK v : v = [m EXCEPT ![t] = g]
    OBVIOUS
  <2>16. v \in Seq(VMFrames) /\ Len(v) = t
         /\ \A i \in 1 .. t : v[i] = IF i = t THEN g ELSE m[i]
    BY <1>2, <2>1, <2>14, <2>15
  <2>17. /\ Image(u) \in Seq(VMFrames) /\ Len(Image(u)) = t
         /\ \A i \in 1 .. t : Image(u)[i] = [start |-> u[i].begin, end |-> u[i].end,
                                             remaining |-> u[i].remain + 1]
    BY <2>12, ImageFacts
  <2>18. \A i \in 1 .. t : Image(u)[i] = v[i]
    <3> SUFFICES ASSUME NEW i \in 1 .. t PROVE Image(u)[i] = v[i]
      OBVIOUS
    <3>1. Image(u)[i] = [start |-> u[i].begin, end |-> u[i].end, remaining |-> u[i].remain + 1]
      BY <2>17
    <3>2. CASE i = t
      <4>1. u[i] = f /\ v[i] = g
        BY <3>2, <2>12, <2>16
      <4> QED BY <3>1, <4>1, <2>13a
    <3>3. CASE i # t
      <4>1. u[i] = s[i] /\ v[i] = m[i]
        BY <3>3, <2>12, <2>16
      <4>2. m[i] = [start |-> s[i].begin, end |-> s[i].end, remaining |-> s[i].remain + 1]
        BY <1>2
      <4> QED BY <3>1, <4>1, <4>2
    <3> QED BY <3>2, <3>3
  <2>19. Image(u) = v
    BY <2>16, <2>17, <2>18, SameSeq
  <2>20. v = [m EXCEPT ![t].remaining = @ - 1]
    BY <2>13, <2>15, Zenon
  <2> QED BY <1>0, <1>1, <1>6, <2>1, <2>4, <2>5, <2>6, <2>7, <2>19, <2>20
<1>7. ASSUME ~Again(s, np), NEW k \in 0 .. t, Kept(m, np) = k, k > 0 => s[k].end # np,
             Popped(s, np) \in Seq(LoopFrames), Len(Popped(s, np)) = k,
             \A i \in 1 .. k : Popped(s, np)[i] = s[i]
      PROVE  /\ ~(k > 0 /\ m[k].end = np)
             /\ Image(Popped(s, np)) = SubSeq(m, 1, k)
  <2>1. ~(k > 0 /\ m[k].end = np)
    <3> SUFFICES ASSUME k > 0 PROVE m[k].end # np
      OBVIOUS
    <3>1. k \in 1 .. t
      OBVIOUS
    <3> QED BY <3>1, <1>2, <1>7
  <2>2. PICK u : u = Popped(s, np)
    OBVIOUS
  <2>3. PICK v : v = SubSeq(m, 1, k)
    OBVIOUS
  <2>4. v \in Seq(VMFrames) /\ Len(v) = k /\ \A i \in 1 .. k : v[i] = m[i]
    <3>1. k \in Nat /\ k <= Len(m)
      BY <1>2
    <3> QED BY <1>2, <2>3, <3>1, Prefix
  <2>5. /\ Image(u) \in Seq(VMFrames) /\ Len(Image(u)) = k
        /\ \A i \in 1 .. k : Image(u)[i] = [start |-> u[i].begin, end |-> u[i].end,
                                            remaining |-> u[i].remain + 1]
    BY <1>7, <2>2, ImageFacts
  <2>6. \A i \in 1 .. k : i \in 1 .. t /\ u[i] = s[i]
    BY <1>7, <2>2
  <2>7. \A i \in 1 .. k : Image(u)[i] = v[i]
    <3> SUFFICES ASSUME NEW i \in 1 .. k PROVE Image(u)[i] = v[i]
      OBVIOUS
    <3>1. Image(u)[i] = [start |-> u[i].begin, end |-> u[i].end, remaining |-> u[i].remain + 1]
      BY <2>5
    <3>2. i \in 1 .. t /\ u[i] = s[i] /\ v[i] = m[i]
      BY <2>4, <2>6
    <3>3. m[i] = [start |-> s[i].begin, end |-> s[i].end, remaining |-> s[i].remain + 1]
      BY <1>2, <3>2
    <3> QED BY <3>1, <3>2, <3>3
  <2>8. Image(u) = v
    BY <2>4, <2>5, <2>7, SameSeq
  <2> QED BY <2>1, <2>2, <2>3, <2>8
<1>8. CASE Ends(s, np) /\ ~Again(s, np)
  <2>1. t \in 1 .. t /\ t > 0 /\ s[t].end = np /\ s[t].remain = 0
    BY <1>4, <1>5, <1>8
  <2>2. PICK k \in 0 .. t : k = t - 1
    BY <2>1
  <2>3. \A i \in k + 1 .. t : i = t
    BY <2>2
  <2>4. \A i \in k + 1 .. t : LastTime(m, np, i)
    BY <1>3, <2>1, <2>3
  <2>5. k > 0 => k \in 1 .. t /\ k # t
    BY <2>2
  <2>6. k > 0 => s[k].end # np
    BY <1>0, <2>5
  <2>7. k > 0 => ~LastTime(m, np, k)
    BY <1>3, <2>5, <2>6
  <2>8. Kept(m, np) = k
    BY <1>2, <2>4, <2>7, KeptIs
  <2>9. Popped(s, np) = SubSeq(s, 1, k)
    BY <1>0, <1>8, <2>2 DEF Popped
  <2>10. k \in Nat /\ k <= Len(s)
    BY <1>0
  <2>11. /\ Popped(s, np) \in Seq(LoopFrames) /\ Len(Popped(s, np)) = k
         /\ \A i \in 1 .. k : Popped(s, np)[i] = s[i]
    <3>1. /\ SubSeq(s, 1, k) \in Seq(LoopFrames) /\ Len(SubSeq(s, 1, k)) = k
          /\ \A i \in 1 .. k : SubSeq(s, 1, k)[i] = s[i]
      BY <2>10, Prefix
    <3> QED BY <2>9, <3>1
  <2>12. /\ ~(k > 0 /\ m[k].end = np)
         /\ Image(Popped(s, np)) = SubSeq(m, 1, k)
    BY <1>7, <1>8, <2>6, <2>8, <2>11
  <2> QED BY <1>1, <1>8, <2>8, <2>12
<1>9. CASE ~Ends(s, np)
  <2>1. ~Again(s, np)
    BY <1>5, <1>9
  <2>2. t \in 0 .. t /\ \A i \in t + 1 .. t : LastTime(m, np, i)
    OBVIOUS
  <2>3. t > 0 => s[t].end # np /\ t \in 1 .. t
    BY <1>4, <1>9
  <2>4. t > 0 => ~LastTime(m, np, t)
    BY <1>3, <2>3
  <2>5. Kept(m, np) = t
    BY <1>2, <2>2, <2>4, KeptIs
  <2>6. Popped(s, np) = s
    BY <1>9, <2>1 DEF Popped
  <2>7. /\ ~(t > 0 /\ m[t].end = np)
        /\ Image(Popped(s, np)) = SubSeq(m, 1, t)
    BY <1>0, <1>7, <2>1, <2>2, <2>3, <2>5, <2>6
  <2> QED BY <1>1, <2>1, <2>5, <2>7
<1> QED BY <1>6, <1>8, <1>9

-----------------------------------------------------------------------------
(***************************************************************************)
(* The invariant is one: the program counter and the loop stack.           *)
(***************************************************************************)
Executes == state \in {"S_EXECUTE", "S_MEM_WAIT"}

LEMMA AtPC ==
    ASSUME AllComparable, FetchInv, Executes
    PROVE  /\ istore \in Programs /\ pc \in 0 .. LastRet(istore) /\ pc \in Nat
           /\ iw0 = istore[pc] /\ Shared(iw0) /\ iw0.imm \in Nat
           /\ DEPTH \in Nat /\ LastRet(istore) \in 0 .. DEPTH - 1
<1>1. istore \in Programs /\ pc \in 0 .. LastRet(istore) /\ iw0 = istore[pc]
  BY DEF FetchInv, Executes, End
<1> QED BY <1>1, ProgramFacts, Immediates

LEMMA OnIs ==
    ASSUME AllComparable, FetchInv, Executes, iw0.op # "RET"
    PROVE  LET np == Behind(istore, pc)
           IN  T!LinearPC = np /\ Lands(istore, pc, np) /\ np \in Nat
<1>1. Lands(istore, pc, Behind(istore, pc)) /\ Behind(istore, pc) \in Nat
  BY AtPC, Linear
<1>2. T!LinearPC = Behind(istore, pc) % DEPTH
  BY AtPC DEF T!LinearPC, T!PCPlus, Behind, T!IsTwoWord, IsTwoWord, T!TwoWordOps, TwoWordOps
<1>3. Behind(istore, pc) \in 0 .. DEPTH - 1
  BY <1>1, AtPC DEF Lands
<1> QED BY <1>1, <1>2, <1>3, AtPC

LEMMA Commits ==
    ASSUME AllComparable, FetchInv, LoopsInv, NEW np, Lands(istore, pc, np), T!Commit(np),
           istore' = istore
    PROVE  /\ state' = "S_FETCH1" /\ pc' = Target(ls, np) /\ ls' = Popped(ls, np)
           /\ FetchInv' /\ LoopsInv'
<1>1. state' = "S_FETCH1" /\ pc' = Target(ls, np) /\ ls' = Popped(ls, np)
  BY StackOfMP DEF T!Commit, T!GoTo
<1>2. istore \in Programs /\ pc \in 0 .. LastRet(istore) /\ Stacked(ls, istore, pc)
  BY DEF FetchInv, LoopsInv, End
<1>3. Stacked(ls', istore, pc') /\ pc' \in 0 .. LastRet(istore)
  BY <1>1, <1>2, StackStep
<1> QED BY <1>1, <1>2, <1>3 DEF FetchInv, LoopsInv, Busy, End

(* States between two commits.                                             *)
LEMMA Keeps ==
    ASSUME FetchInv, LoopsInv, istore' = istore, pc' = pc, ls' = ls, Busy' \/ ls = <<>>
    PROVE  istore' \in Programs /\ pc' \in 0 .. End' /\ LoopsInv'
  BY DEF FetchInv, LoopsInv, End

(* Where a JUMP goes: forward or on.                                       *)
LEMMA JumpsTo ==
    ASSUME AllComparable, FetchInv, state = "S_EXECUTE", iw0.op = "JUMP"
    PROVE  LET np == IF T!rs1v # 0 THEN pc + iw0.imm ELSE Behind(istore, pc)
           IN  /\ Lands(istore, pc, np) /\ np \in Nat /\ SignedImm(iw0.imm) = iw0.imm
               /\ (IF T!rs1v # 0 /\ T!SignedImm(iw0.imm) > 0 THEN T!PCPlus(iw0.imm)
                   ELSE T!LinearPC) = np
<1>1. /\ istore \in Programs /\ pc \in 0 .. LastRet(istore) /\ pc \in Nat /\ iw0 = istore[pc]
      /\ iw0.imm \in Nat /\ SignedImm(iw0.imm) = iw0.imm
      /\ DEPTH \in Nat /\ LastRet(istore) \in 0 .. DEPTH - 1
  BY AtPC DEF Executes, Shared
<1>2. T!SignedImm(iw0.imm) = iw0.imm
  BY <1>1 DEF T!SignedImm, SignedImm
<1>3. Lands(istore, pc, pc + iw0.imm) /\ iw0.imm > 0
  BY <1>1, Branch
<1>4. T!PCPlus(iw0.imm) = pc + iw0.imm
  BY <1>1, <1>3 DEF T!PCPlus, Lands
<1>5. /\ T!LinearPC = Behind(istore, pc) /\ Lands(istore, pc, Behind(istore, pc))
      /\ Behind(istore, pc) \in Nat
  BY OnIs DEF Executes
<1> QED BY <1>1, <1>2, <1>3, <1>4, <1>5

(* A count that fits is kept as it is.                                      *)
LEMMA FittingCount ==
    ASSUME NEW n \in 1 .. 2^COUNTW
    PROVE  n \in Nat \ {0} /\ n - 1 \in Nat /\ T!CountOf(n) = n - 1
<1>1. COUNTW \in Nat
  BY CoreAssumption, IsaAssumption DEF T!TaskAssumption
<1>2. IsFiniteSet(1 .. COUNTW) /\ Cardinality(1 .. COUNTW) = COUNTW
  BY <1>1, FS_Interval
<1>3. PICK M : M = 2^COUNTW
  OBVIOUS
<1>4. M \in Nat
  <2>1. IsFiniteSet(SUBSET (1 .. COUNTW)) /\ Cardinality(SUBSET (1 .. COUNTW)) = 2^COUNTW
    BY <1>2, FS_SUBSET
  <2> QED BY <1>3, <2>1, FS_CardinalityType
<1>5. n \in 1 .. M /\ T!CountOf(n) = (n - 1) % M
  BY <1>3 DEF T!CountOf
<1> QED BY <1>4, <1>5

LEMMA Enters ==
    ASSUME AllComparable, FetchInv, LoopsInv, CountsFit, state = "S_EXECUTE",
           iw0.op = "LOOP", T!ExecLoop, istore' = istore
    PROVE  LET new == [begin |-> pc + 1, end |-> EndOf(istore, pc), remain |-> T!rs1v - 1]
           IN  /\ state' = "S_FETCH1" /\ pc' = pc + 1 /\ ls' = Append(ls, new)
               /\ T!rs1v \in Nat \ {0} /\ T!rs1v - 1 \in Nat
               /\ FetchInv' /\ LoopsInv'
<1> DEFINE new == [begin |-> pc + 1, end |-> EndOf(istore, pc), remain |-> T!rs1v - 1]
<1>1. /\ istore \in Programs /\ pc \in 0 .. LastRet(istore) /\ pc \in Nat /\ iw0 = istore[pc]
      /\ iw0.imm \in Nat /\ SignedImm(iw0.imm) = iw0.imm
      /\ DEPTH \in Nat /\ LastRet(istore) \in 0 .. DEPTH - 1
  BY AtPC DEF Executes, Shared
<1>2. /\ T!rs1v \in Nat \ {0} /\ T!rs1v - 1 \in Nat
      /\ T!CountOf(T!rs1v) = T!rs1v - 1
  BY FittingCount DEF CountsFit
<1>3. Stacked(ls, istore, pc)
  BY DEF LoopsInv
<1>4. /\ new \in LoopFrames /\ Len(ls) < MAX_LOOP_NEST
      /\ Stacked(Append(ls, new), istore, pc + 1) /\ pc + 1 \in 0 .. LastRet(istore)
      /\ \A i \in 1 .. Len(ls) : ls[i].end # pc + 1
  BY <1>1, <1>2, <1>3, Pushed
<1>5. pc \in Loops(istore)
  BY <1>1, Immediates, ProgramFacts DEF Loops, Those
<1>6. EndOf(istore, pc) \in 0 .. DEPTH - 1
  BY <1>1, <1>5, ProgramFacts
<1>7. T!PCPlus(1) = pc + 1 /\ T!LinearPC = pc + 1
  <2>1. T!PCPlus(1) = pc + 1
    <3>1. pc + 1 \in 0 .. DEPTH - 1
      BY <1>1, <1>4
    <3> QED BY <1>1, <3>1 DEF T!PCPlus
  <2> QED BY <2>1 DEF T!LinearPC, T!IsTwoWord, T!TwoWordOps
<1>8. (pc + T!SignedImm(iw0.imm) + 1) % DEPTH = EndOf(istore, pc)
  <2>1. T!SignedImm(iw0.imm) = iw0.imm
    BY <1>1 DEF T!SignedImm, SignedImm
  <2>2. pc + iw0.imm + 1 = EndOf(istore, pc)
    BY <1>1 DEF EndOf
  <2> QED BY <2>1, <2>2, <1>1, <1>6
<1>9. ~Ends(ls, pc + 1)
  <2>1. ls # <<>> => Len(ls) \in 1 .. Len(ls)
    <3>1. ls \in Seq(LoopFrames)
      BY <1>3 DEF Stacked
    <3> QED BY <3>1, EmptySeq
  <2> QED BY <2>1, <1>4 DEF Ends
<1>10. T!AdjustedPC(pc + 1) = pc + 1
  BY <1>9, StackOfMP DEF Target, Again
<1>11. state' = "S_FETCH1" /\ pc' = pc + 1 /\ ls' = Append(ls, new)
  BY <1>2, <1>4, <1>7, <1>8, <1>10 DEF T!ExecLoop, T!GoTo
<1> HIDE DEF new
<1>12. FetchInv' /\ LoopsInv'
  BY <1>1, <1>4, <1>11 DEF FetchInv, LoopsInv, Busy, End
<1> QED BY <1>2, <1>11, <1>12 DEF new

(* What a cycle does to the program: one action of the MP at a time.       *)
LEMMA ProgramStep ==
    ASSUME AllComparable, FetchInv, LoopsInv, CoreInv, CountsFit, start.pc = 0,
           T!MPStep, istore' = istore
    PROVE  FetchInv' /\ LoopsInv'
<1>0. /\ DEPTH \in Nat /\ LastRet(istore) \in 0 .. DEPTH - 1 /\ istore \in Programs
      /\ pc \in 0 .. LastRet(istore) /\ pc \in Nat /\ Shared(istore[pc])
  BY ProgramFacts, Immediates DEF FetchInv, End
<1>1. CASE T!Idle
  <2>1. /\ state = "S_IDLE" /\ state' = "S_IDLE" /\ pc' = pc /\ ls' = ls /\ ls = <<>>
    BY <1>1 DEF T!Idle, LoopsInv, Busy
  <2> QED BY <2>1, Keeps DEF FetchInv
<1>2. CASE T!StartTask
  <2>1. state' = "S_FETCH1" /\ pc' = 0 /\ ls' = ls /\ ls = <<>>
    BY <1>2 DEF T!StartTask, LoopsInv, Busy
  <2>2. Stacked(ls', istore', pc')
    BY <2>1 DEF Stacked
  <2> QED BY <1>0, <2>1, <2>2 DEF FetchInv, LoopsInv, Busy, End
<1>3. CASE T!LoadArgument
  <2>1. state' = "S_FETCH1" /\ pc' = pc /\ ls' = ls
    BY <1>3 DEF T!LoadArgument
  <2> QED BY <2>1, Keeps DEF FetchInv, Busy
<1>4. CASE T!Fetch1
  <2>1. state' = "S_FETCH1_W" /\ pc' = pc /\ ls' = ls /\ ifetch' = istore[pc]
    BY <1>4 DEF T!Fetch1, T!Fetch
  <2> QED BY <2>1, Keeps DEF FetchInv, Busy
<1>5. CASE T!Fetch2
  <2>1. /\ state = "S_FETCH2" /\ state' = "S_FETCH2_W" /\ pc' = pc /\ ls' = ls
        /\ ifetch' = istore[T!PCPlus(1)] /\ iw0' = iw0
    BY <1>5 DEF T!Fetch2, T!Fetch
  <2>2. iw0 = istore[pc] /\ IsTwoWord(istore[pc])
    BY <2>1 DEF FetchInv
  <2>3. Lands(istore, pc, pc + 2)
    BY <1>0, <2>2, Linear DEF Behind, IsTwoWord, TwoWordOps
  <2>4. T!PCPlus(1) = pc + 1
    BY <1>0, <2>3 DEF T!PCPlus, Lands
  <2> QED BY <2>1, <2>2, <2>4, Keeps DEF FetchInv, Busy
<1>6. CASE T!Latch1
  <2>1. /\ state = "S_FETCH1_W" /\ pc' = pc /\ ls' = ls /\ iw0' = ifetch
        /\ state' \in T!AfterLatch(ifetch)
    BY <1>6 DEF T!Latch1
  <2>2. T!IsTwoWord(ifetch) <=> IsTwoWord(ifetch)
    BY DEF T!IsTwoWord, T!TwoWordOps, IsTwoWord, TwoWordOps
  <2>3. ifetch.op # "BAD"
    BY <1>0, <2>1 DEF FetchInv, Shared, SharedOps
  <2>4. state' = IF IsTwoWord(ifetch) THEN "S_FETCH2" ELSE "S_EXECUTE"
    BY <2>1, <2>2, <2>3 DEF T!AfterLatch
  <2> QED BY <2>1, <2>4, Keeps DEF FetchInv, Busy
<1>7. CASE T!Latch2
  <2>1. /\ state = "S_FETCH2_W" /\ state' = "S_EXECUTE" /\ pc' = pc /\ ls' = ls
        /\ iw0' = iw0 /\ iw1' = ifetch
    BY <1>7 DEF T!Latch2
  <2> QED BY <2>1, Keeps DEF FetchInv, Busy
<1>8. CASE T!ExecNop
  BY <1>8, OnIs, Commits DEF T!ExecNop, T!Executing, Executes
<1>9. CASE T!ExecCompute
  <2>1. state = "S_EXECUTE" /\ iw0.op = "COMPUTE" /\ iw0 = istore[pc]
    BY <1>9 DEF T!ExecCompute, T!Executing, FetchInv
  <2>2. T!Commit(T!LinearPC)
    BY <1>0, <1>9, <2>1 DEF T!ExecCompute, Shared
  <2> QED BY <2>1, <2>2, OnIs, Commits DEF Executes
<1>10. CASE T!ExecSyncMem
  <2>1. /\ state = "S_EXECUTE" /\ state' \in {"S_EXECUTE", "S_MEM_WAIT"}
        /\ pc' = pc /\ ls' = ls /\ iw0' = iw0 /\ iw1' = iw1
    BY <1>10 DEF T!ExecSyncMem, T!Executing, T!IssueTo
  <2> QED BY <2>1, Keeps DEF FetchInv, Busy
<1>11. CASE T!ExecMemcpy
  BY <1>0, <1>11 DEF T!ExecMemcpy, T!Executing, FetchInv, Shared, SharedOps
<1>12. CASE T!ExecStore
  <2>1. /\ state = "S_EXECUTE" /\ iw0.op = "STORE" /\ iw0' = iw0 /\ iw1' = iw1
        /\ T!Commit(T!LinearPC) \/ (state' = state /\ pc' = pc /\ ls' = ls)
    BY <1>12 DEF T!ExecStore, T!Executing
  <2>2. CASE T!Commit(T!LinearPC)
    BY <2>1, <2>2, OnIs, Commits DEF Executes
  <2>3. CASE state' = state /\ pc' = pc /\ ls' = ls
    BY <2>1, <2>3, Keeps DEF FetchInv, Busy
  <2> QED BY <2>1, <2>2, <2>3
<1>13. CASE T!ExecJump
  <2>1. PICK np : Lands(istore, pc, np) /\ T!Commit(np)
    BY <1>13, JumpsTo DEF T!ExecJump, T!Executing
  <2> QED BY <2>1, Commits
<1>14. CASE T!ExecLoop
  BY <1>14, Enters DEF T!ExecLoop, T!Executing
<1>15. CASE T!ExecWait
  BY <1>0, <1>15 DEF T!ExecWait, T!Executing, FetchInv, Shared, SharedOps
<1>16. CASE T!ExecRet
  <2>1. state = "S_EXECUTE" /\ state' = "S_DONE" /\ iw0.op = "RET" /\ pc' = pc /\ ls' = ls
    BY <1>16 DEF T!ExecRet, T!Executing
  <2>2. pc \in Those(istore, "RET")
    BY <1>0, <2>1, Immediates DEF Those, FetchInv
  <2>3. Around(istore, pc) = {}
    BY <1>0, <2>2 DEF AllComparable, Comparable
  <2>4. ls \in Seq(LoopFrames) /\ \A i \in 1 .. Len(ls) : FALSE
    BY <2>3 DEF LoopsInv, Stacked
  <2>5. ls = <<>>
    BY <2>4, EmptySeq
  <2> QED BY <2>1, <2>5, Keeps DEF FetchInv
<1>17. CASE T!ExecIllegal
  BY <1>0, <1>17 DEF T!ExecIllegal, T!Executing, FetchInv, Shared, SharedOps
<1>18. CASE T!MemWait
  <2>1. /\ state = "S_MEM_WAIT" /\ iw0' = iw0 /\ iw1' = iw1
        /\ T!Commit(T!LinearPC) \/ (state' = state /\ pc' = pc /\ ls' = ls)
    BY <1>18 DEF T!MemWait
  <2>2. CASE T!Commit(T!LinearPC)
    <3>1. iw0.op # "RET"
      BY <2>1 DEF CoreInv, Waiting, SyncOps
    <3> QED BY <2>1, <2>2, <3>1, OnIs, Commits DEF Executes
  <2>3. CASE state' = state /\ pc' = pc /\ ls' = ls
    BY <2>1, <2>3, Keeps DEF FetchInv, Busy
  <2> QED BY <2>1, <2>2, <2>3
<1>19. CASE T!MemAsync
  BY <1>19 DEF T!MemAsync, FetchInv
<1>20. CASE T!WaitDrain
  BY <1>20 DEF T!WaitDrain, FetchInv
<1>21. CASE T!MulWait
  BY <1>21 DEF T!MulWait, FetchInv
<1>22. CASE T!Finish
  <2>1. state = "S_DONE" /\ state' = "S_IDLE" /\ pc' = pc /\ ls' = ls /\ ls = <<>>
    BY <1>22 DEF T!Finish, FetchInv, LoopsInv, Busy
  <2> QED BY <2>1, Keeps DEF FetchInv
<1> QED
  BY <1>1, <1>2, <1>3, <1>4, <1>5, <1>6, <1>7, <1>8, <1>9, <1>10, <1>11, <1>12,
     <1>13, <1>14, <1>15, <1>16, <1>17, <1>18, <1>19, <1>20, <1>21, <1>22
     DEF T!MPStep

-----------------------------------------------------------------------------
(***************************************************************************)
(* The invariant is one: arguments and requests.                           *)
(***************************************************************************)
(* What a cycle of the MP, with any program, does to both.                 *)
RunView ==
    /\ task_done' = (state = "S_DONE")
    /\ state = "S_IDLE" /\ ~start.valid => state' = "S_IDLE" /\ arg_idx' = arg_idx
    /\ state = "S_IDLE" /\ start.valid =>
         state' = "S_FETCH1" /\ arg_idx' = 0 /\ regs' = [r \in Regs |-> 0]
    /\ state = "S_DONE" => state' = "S_IDLE"
    /\ state \notin {"S_IDLE", "S_DONE"} => state' # "S_IDLE"
    /\ LoadingArgs =>
         /\ state' = "S_FETCH1" /\ arg_idx' = arg_idx + 1
         /\ regs' = IF arg_idx + 1 = 0 THEN regs
                    ELSE [regs EXCEPT ![arg_idx + 1] = start.args[arg_idx + 1]]
    /\ state # "S_IDLE" /\ ~LoadingArgs => arg_idx' = arg_idx
    /\ state = "S_EXECUTE" /\ mstate = "M_IDLE" /\ iw0.op \in {"LOAD", "CAS", "CAA"} =>
         state' = "S_MEM_WAIT"
    /\ state = "S_EXECUTE" /\ iw0.op \notin SyncOps => state' # "S_MEM_WAIT"
    /\ state' = "S_MEM_WAIT" => iw0' = iw0 /\ iw1' = iw1 /\ regs' = regs
    /\ state = "S_MEM_WAIT" /\ ~out.sync_valid => state' = "S_MEM_WAIT"
    /\ task_err = FALSE /\ out.sync_err = FALSE => task_err' = FALSE

LEMMA ViewOfRun == T!MPStep => RunView
<1> SUFFICES ASSUME T!MPStep PROVE RunView
  OBVIOUS
<1> USE DEF RunView, MemPort, SyncOps, LoadingArgs, T!MPStep, T!EveryCycle
<1>1. CASE T!Idle BY <1>1 DEF T!Idle
<1>2. CASE T!StartTask BY <1>2 DEF T!StartTask, T!Regs, Regs
<1>3. CASE T!LoadArgument BY <1>3 DEF T!LoadArgument, T!WriteReg
<1>4. CASE T!Fetch1 BY <1>4, CoreAssumption DEF T!Fetch1, T!Fetch, T!TaskAssumption
<1>5. CASE T!Fetch2 BY <1>5 DEF T!Fetch2, T!Fetch
<1>6. CASE T!Latch1 BY <1>6 DEF T!Latch1, T!AfterLatch
<1>7. CASE T!Latch2 BY <1>7 DEF T!Latch2
<1>8. CASE T!ExecNop BY <1>8 DEF T!ExecNop, T!Executing, T!Commit, T!GoTo
<1>9. CASE T!ExecCompute BY <1>9 DEF T!ExecCompute, T!Executing, T!Commit, T!GoTo
<1>10. CASE T!ExecSyncMem BY <1>10 DEF T!ExecSyncMem, T!Executing, T!IssueTo
<1>11. CASE T!ExecMemcpy BY <1>11 DEF T!ExecMemcpy, T!Executing, T!IssueTo
<1>12. CASE T!ExecStore BY <1>12 DEF T!ExecStore, T!Executing, T!Commit, T!GoTo
<1>13. CASE T!ExecJump BY <1>13 DEF T!ExecJump, T!Executing, T!Commit, T!GoTo
<1>14. CASE T!ExecLoop BY <1>14 DEF T!ExecLoop, T!Executing, T!GoTo
<1>15. CASE T!ExecWait BY <1>15 DEF T!ExecWait, T!Executing, T!GoTo
<1>16. CASE T!ExecRet BY <1>16 DEF T!ExecRet, T!Executing
<1>17. CASE T!ExecIllegal BY <1>17 DEF T!ExecIllegal, T!Executing
<1>18. CASE T!MemWait BY <1>18 DEF T!MemWait, T!Commit, T!GoTo
<1>19. CASE T!MemAsync BY <1>19 DEF T!MemAsync, T!Commit, T!GoTo
<1>20. CASE T!WaitDrain BY <1>20 DEF T!WaitDrain, T!Commit, T!GoTo
<1>21. CASE T!MulWait BY <1>21 DEF T!MulWait, T!Commit, T!GoTo
<1>22. CASE T!Finish BY <1>22 DEF T!Finish
<1> QED
  BY <1>1, <1>2, <1>3, <1>4, <1>5, <1>6, <1>7, <1>8, <1>9, <1>10, <1>11, <1>12,
     <1>13, <1>14, <1>15, <1>16, <1>17, <1>18, <1>19, <1>20, <1>21, <1>22
     DEF T!MPStep

(* The start port.                                                         *)
StartView ==
    \/ /\ dstate = "D_IDLE" /\ dstate' = "D_RUN"
       /\ start'.valid /\ start'.pc = 0 /\ start'.args \in ArgSets
    \/ /\ ~start'.valid /\ start'.pc = start.pc /\ start'.args = start.args
       /\ \/ dstate = "D_IDLE" /\ dstate' = "D_IDLE"
          \/ dstate = "D_RUN" /\ dstate' = IF task_done THEN "D_OUT" ELSE "D_RUN"
          \/ dstate = "D_OUT" /\ dstate' = "D_IDLE"

LEMMA ViewOfStart == ASSUME NEW args \in T!Offers, T!D!Dispatch(args) PROVE StartView
<1> USE DEF StartView, T!D!NoStart
<1>1. CASE T!D!Invoke(args)
  BY <1>1 DEF T!D!Invoke, T!Offers
<1>2. CASE T!D!NoInvoke(args)
  BY <1>2 DEF T!D!NoInvoke
<1>3. CASE T!D!AwaitDone
  BY <1>3 DEF T!D!AwaitDone
<1>4. CASE T!D!PulseDone
  BY <1>4 DEF T!D!PulseDone
<1> QED BY <1>1, <1>2, <1>3, <1>4 DEF T!D!Dispatch

LEMMA ArgsStep ==
    ASSUME NEW args \in T!Offers, FetchInv, ArgsInv, Tick(args)
    PROVE  ArgsInv'
<1>1. RunView
  BY ViewOfRun DEF Tick, T!TaskStep
<1>2. T!D!Dispatch(args)
  BY DEF Tick, T!TaskStep
<1>3. NUM_ARGS \in Nat \ {0}
  BY CoreAssumption, IsaAssumption DEF T!TaskAssumption
<1>4. T!HandshakeExact' /\ start'.pc = 0 /\ (dstate' = "D_RUN" => start'.args \in ArgSets)
  BY <1>1, <1>2, ViewOfStart DEF ArgsInv, RunView, StartView, T!HandshakeExact
<1>5. Busy => start'.args = start.args
  BY <1>2, ViewOfStart DEF ArgsInv, Busy, T!HandshakeExact, StartView
<1>6. /\ arg_idx' \in 0 .. NUM_ARGS
      /\ Busy' /\ state' # "S_FETCH1" => arg_idx' = NUM_ARGS
  <2>1. CASE state \in {"S_IDLE", "S_DONE"}
    <3>1. arg_idx' = arg_idx \/ arg_idx' = 0
      BY <1>1, <2>1 DEF RunView, LoadingArgs
    <3>2. arg_idx' \in 0 .. NUM_ARGS
      BY <1>3, <3>1 DEF ArgsInv
    <3>3. ~Busy' \/ state' = "S_FETCH1"
      BY <1>1, <2>1 DEF RunView, Busy
    <3> QED BY <3>2, <3>3
  <2>2. CASE LoadingArgs
    <3>1. arg_idx' = arg_idx + 1 /\ state' = "S_FETCH1"
      BY <1>1, <2>2 DEF RunView
    <3> QED BY <1>3, <2>2, <3>1 DEF ArgsInv, LoadingArgs
  <2>3. CASE state \notin {"S_IDLE", "S_DONE"} /\ ~LoadingArgs
    <3>1. arg_idx' = arg_idx /\ arg_idx = NUM_ARGS
      BY <1>1, <1>3, <2>3 DEF ArgsInv, RunView, Busy, LoadingArgs
    <3> QED BY <1>3, <3>1
  <2> QED BY <2>1, <2>2, <2>3
<1>7. ASSUME LoadingArgs'
      PROVE  regs' = [r \in Regs |-> IF r \in 1 .. arg_idx' THEN start'.args[r] ELSE 0]
  <2>1. CASE state = "S_IDLE"
    BY <1>1, <1>7, <2>1 DEF RunView, LoadingArgs
  <2>2. CASE LoadingArgs
    BY <1>1, <1>3, <1>5, <2>2 DEF ArgsInv, RunView, LoadingArgs, Busy
  <2>3. CASE state # "S_IDLE" /\ ~LoadingArgs
    BY <1>1, <1>7, <2>3 DEF ArgsInv, RunView, LoadingArgs, Busy, FetchInv
  <2> QED BY <2>1, <2>2, <2>3
<1> QED BY <1>4, <1>6, <1>7 DEF ArgsInv

LEMMA RequestStep ==
    ASSUME AllComparable, NEW args, FetchInv, RequestInv, InWindow, Tick(args)
    PROVE  RequestInv'
<1> DEFINE q == T!MemRequest
<1>1. RunView /\ MemView
  BY ViewOfRun, ViewOfMP DEF Tick, T!TaskStep
<1>2. CoreInv'
  BY CoreInvStep DEF RequestInv
<1>3. MemStep(q) /\ MStates
  BY DEF Tick, RequestInv, CoreInv
<1>4. MemoryView(q)
  BY <1>3, ViewOfMemory DEF MStates
<1>5. out'.sync_err = FALSE /\ task_err' = FALSE
  <2>1. out'.sync_err = out.sync_err
    BY <1>3 DEF MemStep, MemRest, MemTake, MemWaiting, MemDrive, Quiet, MStates, OutFields
  <2> QED BY <1>1, <2>1 DEF RunView, RequestInv
<1>6. mem' = [c \in Cells |-> mem'[c]]
  BY <1>3 DEF MemStep, MemRest, MemTake, MemWaiting, MemDrive, RequestInv
<1>7. state = "S_EXECUTE" => iw0.op \in SharedOps
  BY AtPC DEF Executes, Shared
<1>8. /\ q.kind # "none" => state = "S_EXECUTE"
      /\ state = "S_EXECUTE" /\ iw0.op \in {"NOP", "COMPUTE", "JUMP", "LOOP", "RET"} =>
           q.kind = "none"
      /\ state = "S_EXECUTE" /\ iw0.op = "STORE" => q.kind = "STORE"
      /\ state = "S_EXECUTE" /\ iw0.op \in {"CAS", "CAA"} => q.data = regs[iw0.rs2]
      /\ state = "S_EXECUTE" /\ iw0.op = "CAS" => q.swap = regs[iw1.rd]
  BY DEF T!MemRequest, T!NoRequest, T!rs2v, T!rd2v
<1>12. /\ q.kind # "none" => q.addr \in Window
       /\ state = "S_EXECUTE" /\ iw0.op \in SyncOps => q.addr = WantedAddr
  BY Request DEF InWindow
<1>13. state' = "S_MEM_WAIT" => WantedAddr' = WantedAddr
  BY <1>1 DEF MemView, WantedAddr
<1> HIDE DEF q
<1>9. mstate' # "M_IDLE" /\ state' # "S_MEM_WAIT" => cur'.kind = "STORE"
  BY <1>1, <1>4, <1>7, <1>8
     DEF RequestInv, CoreInv, Pulsing, RunView, MemView, MemoryView, SharedOps
<1>10. CASE mstate = "M_IDLE" /\ mstate' # "M_IDLE"
  <2>1. MemTake(q)
    BY <1>3, <1>10 DEF MemStep, MemRest, MemWaiting, MemDrive
  <2>2. cur'.data = q.data /\ cur'.swap = q.swap /\ state = "S_EXECUTE"
    BY <1>8, <2>1 DEF MemTake
  <2>3. state' = "S_MEM_WAIT" => iw0' = iw0 /\ iw1' = iw1 /\ regs' = regs
    BY <1>1 DEF RunView
  <2>4. state' = "S_MEM_WAIT" => WantedAddr' \in Window
    <3>1. q.kind # "none"
      BY <2>1 DEF MemTake
    <3>2. state' = "S_MEM_WAIT" => iw0.op \in SyncOps
      BY <1>1, <2>2 DEF MemView
    <3> QED BY <1>12, <1>13, <2>2, <3>1, <3>2
  <2> QED BY <1>2, <1>5, <1>6, <1>8, <1>9, <2>2, <2>3, <2>4 DEF RequestInv
<1>11. CASE mstate # "M_IDLE" /\ mstate' # "M_IDLE"
  <2>1. cur' = cur
    BY <1>4, <1>11 DEF MemoryView
  <2>2. state' = "S_MEM_WAIT" =>
          state = "S_MEM_WAIT" /\ iw0' = iw0 /\ iw1' = iw1 /\ regs' = regs
    BY <1>1, <1>11 DEF RunView, MemView
  <2> QED BY <1>2, <1>5, <1>6, <1>9, <1>11, <1>13, <2>1, <2>2 DEF RequestInv
<1> QED BY <1>2, <1>5, <1>6, <1>10, <1>11 DEF RequestInv

LEMMA VMInvInit == AllComparable /\ Init => VMInv
<1> SUFFICES ASSUME AllComparable, Init PROVE VMInv
  OBVIOUS
<1>1. CoreInv
  BY CoreInvInit
<1>2. istore \in Programs /\ End \in Nat
  BY ProgramFacts DEF Init, T!TaskInit, End
<1>3. FetchInv
  BY <1>2 DEF Init, T!TaskInit, T!MPInit, FetchInv
<1>4. NUM_ARGS \in Nat \ {0}
  BY CoreAssumption, IsaAssumption DEF T!TaskAssumption
<1>5. ArgsInv
  BY <1>4 DEF Init, T!TaskInit, T!MPInit, T!D!DispatchInit, ArgsInv, T!HandshakeExact, Busy,
              LoadingArgs
<1>6. LoopsInv
  BY DEF Init, T!TaskInit, T!MPInit, LoopsInv, Stacked
<1>7. RequestInv
  BY <1>1 DEF Init, T!TaskInit, T!MPInit, MemInit, NoPulse, RequestInv
<1> QED BY <1>3, <1>5, <1>6, <1>7 DEF VMInv

LEMMA VMInvStep ==
    ASSUME AllComparable, VMInv, CountsFit, InWindow, NEW args \in T!Offers, Tick(args)
    PROVE  VMInv'
<1>1. T!MPStep /\ istore' = istore
  BY DEF Tick, T!TaskStep
<1>2. FetchInv' /\ LoopsInv'
  BY <1>1, ProgramStep DEF VMInv, ArgsInv, RequestInv
<1> QED BY <1>2, ArgsStep, RequestStep DEF VMInv

LEMMA VMInvStutter == VMInv /\ UNCHANGED vars => VMInv'
<1> SUFFICES ASSUME VMInv, UNCHANGED vars PROVE VMInv'
  OBVIOUS
<1>1. CoreInv'
  BY CoreInvStutter DEF VMInv, RequestInv
<1> QED
  BY <1>1 DEF VMInv, FetchInv, ArgsInv, LoopsInv, RequestInv, Busy, End, LoadingArgs,
              WantedAddr, T!HandshakeExact, vars, memVars, T!taskVars, T!mpVars, T!D!dispatchVars

-----------------------------------------------------------------------------
(***************************************************************************)
(* The interpreter's state as the core shows it.                           *)
(***************************************************************************)
VpcBar == IF Answered THEN T!AdjustedPC(T!LinearPC) ELSE pc
ResultBar == IF AtRest THEN T!TaskResult ELSE [i \in 1 .. 4 |-> 0]

LEMMA Stutters ==
    ASSUME istore' = istore, MappedRegs' = MappedRegs, VpcBar' = VpcBar,
           MappedStack' = MappedStack, MappedMem' = MappedMem, AtRest' <=> AtRest,
           task_err' = task_err, ResultBar' = ResultBar
    PROVE  UNCHANGED VM!vmVars
  BY DEF VM!vmVars, VpcBar, ResultBar, AtRest

(* Outside its special moments the core shows its own registers.           *)
LEMMA Plain ==
    /\ ~Answered => VpcBar = pc /\ MappedStack = Image(ls)
    /\ ~Answered /\ ~LoadingArgs => MappedRegs = regs
    /\ ~Answered' => VpcBar' = pc' /\ MappedStack' = Image(ls')
    /\ ~Answered' /\ ~LoadingArgs' => MappedRegs' = regs'
  BY DEF VpcBar, MappedStack, MappedRegs, Image

LEMMA AluAgrees ==
    ASSUME NEW w, Shared(w), w.op = "COMPUTE", NEW a, NEW b
    PROVE  T!RtlAlu(w.sub, a, b, w.imm) = VM!VmAlu(w.sub, a, b, w.imm)
<1>1. \A S : T!FromBits(S) = VM!FromBits(S)
  BY DEF T!FromBits, VM!FromBits, T!MapThenSumSet, VM!MapThenSumSet,
         T!MapThenFoldSet, VM!MapThenFoldSet
<1>2. \A x : T!Bits(x) = VM!Bits(x)
  BY DEF T!Bits, VM!Bits
<1>3. \A s, x, y, i : T!AluWith(s, x, y, i) = VM!AluWith(s, x, y, i)
  BY <1>1, <1>2 DEF T!AluWith, VM!AluWith, T!Wrap, VM!Wrap, T!BoolWord, VM!BoolWord,
                    T!ShiftCount, VM!ShiftCount
<1>4. /\ T!Wrap(T!SignedImm(w.imm)) = Wrap(SignedImm(w.imm))
      /\ VM!Wrap(VM!SignedImm(w.imm)) = Wrap(SignedImm(w.imm))
  BY DEF T!Wrap, VM!Wrap, Wrap, T!SignedImm, VM!SignedImm, SignedImm
<1>5. w.sub = "ANDI" => Wrap(SignedImm(w.imm)) = w.imm
  BY DEF Shared
<1> QED BY <1>3, <1>4, <1>5 DEF T!RtlAlu, VM!VmAlu

(* resolveLoops, with the stack the loop stack s shows.                    *)
LEMMA GoesTo ==
    ASSUME istore \in Programs, NEW s \in Seq(LoopFrames), NEW np \in Nat,
           \A i \in 1 .. Len(s) : i # Len(s) => s[i].end # np,
           Target(s, np) \in 0 .. DEPTH - 1,
           VpcBar' = Target(s, np), MappedStack' = Image(Popped(s, np)),
           ~AtRest', ~AtRest, task_err' = FALSE, istore' = istore
    PROVE  VM!VMGoTo(np, Image(s))
<1> DEFINE m == Image(s)
           k == Kept(m, np)
           again == k > 0 /\ m[k].end = np
           to == IF again THEN m[k].start ELSE np
<1>1. /\ again <=> Again(s, np)
      /\ again => m[k].start = s[Len(s)].begin
      /\ Image(Popped(s, np)) =
           IF again THEN [SubSeq(m, 1, k) EXCEPT ![k].remaining = @ - 1]
           ELSE SubSeq(m, 1, k)
  BY Resolved
<1>2. to = Target(s, np)
  BY <1>1 DEF Target
<1>3. VM!Len0 = DEPTH
  <2>1. DEPTH \in Nat \ {0} /\ DOMAIN istore = 0 .. DEPTH - 1
    BY Immediates, CoreAssumption DEF T!TaskAssumption
  <2>2. Cardinality(0 .. DEPTH - 1) = DEPTH
    BY <2>1, FromZero, Zenon
  <2>3. VM!Len0 = Cardinality(DOMAIN istore)
    BY DEF VM!Len0, VM!Cardinality, Cardinality
  <2> QED BY <2>1, <2>2, <2>3
<1>4. ~(to >= VM!Len0)
  BY <1>2, <1>3, CoreAssumption DEF T!TaskAssumption
<1>5. ResultBar' = ResultBar
  BY DEF ResultBar
<1>6. AtRest' = (to >= VM!Len0) /\ task_err' = (to >= VM!Len0)
  <2> HIDE DEF to
  <2>1. PICK n \in Int : n = VM!Len0
    BY <1>3, CoreAssumption DEF T!TaskAssumption
  <2>2. PICK x \in Int : x = to
    BY <1>2, CoreAssumption DEF T!TaskAssumption
  <2>3. (x >= n) = FALSE
    BY <1>4, <2>1, <2>2
  <2>4. AtRest' = FALSE
    BY DEF AtRest
  <2> QED BY <2>1, <2>2, <2>3, <2>4
<1>7. MappedStack' = IF again THEN [SubSeq(m, 1, k) EXCEPT ![k].remaining = @ - 1]
                     ELSE SubSeq(m, 1, k)
  BY <1>1
<1>8. VpcBar' = to
  BY <1>2
<1> HIDE DEF m
<1> QED BY <1>5, <1>6, <1>7, <1>8 DEF VM!VMGoTo, Kept, LastTime, VpcBar, ResultBar, AtRest, m

(* The interpreter is at the instruction the MP executes.                  *)
LEMMA SameInstruction ==
    ASSUME AllComparable, VMInv, Executes, ~Answered
    PROVE  /\ ~AtRest /\ VpcBar = pc /\ MappedRegs = regs /\ MappedStack = Image(ls)
           /\ VM!Head0 = iw0 /\ (IsTwoWord(iw0) => VM!Extra = iw1)
           /\ \A r : VM!R(r) = regs[r]
           /\ \A op : VM!Stepping(op) <=> iw0.op = op
           /\ VM!VMGoTo(Behind(istore, pc), Image(ls)) => VM!VMNext
           /\ VM!MemAddr = Wrap(regs[iw0.rs1] + SignedImm(iw0.imm))
<1>1. ~AtRest /\ ~LoadingArgs
  BY DEF Executes, AtRest, LoadingArgs
<1>2. VpcBar = pc /\ MappedRegs = regs /\ MappedStack = Image(ls)
  BY <1>1, Plain
<1>3. iw0 = istore[pc] /\ (IsTwoWord(iw0) => iw1 = istore[pc + 1])
  BY DEF VMInv, FetchInv, Executes
<1>4. VM!Head0 = iw0 /\ (IsTwoWord(iw0) => VM!Extra = iw1)
  BY <1>2, <1>3 DEF VM!Head0, VM!Extra, VpcBar
<1>5. \A r : VM!R(r) = regs[r]
  BY <1>2 DEF VM!R
<1>6. \A op : VM!Stepping(op) <=> iw0.op = op
  BY <1>1, <1>4 DEF VM!Stepping, AtRest
<1>7. VM!IsTwoWord(iw0) <=> IsTwoWord(iw0)
  BY DEF VM!IsTwoWord, VM!TwoWordOps, IsTwoWord, TwoWordOps
<1>8. VM!VMNext <=> VM!VMGoTo(VpcBar + (IF VM!IsTwoWord(VM!Head0) THEN 2 ELSE 1), MappedStack)
  BY DEF VM!VMNext, VpcBar
<1>9. VpcBar + (IF VM!IsTwoWord(VM!Head0) THEN 2 ELSE 1) = Behind(istore, pc)
  BY <1>2, <1>3, <1>4, <1>7 DEF Behind
<1>10. VM!VMGoTo(Behind(istore, pc), Image(ls)) => VM!VMNext
  BY <1>2, <1>8, <1>9
<1>11. VM!MemAddr = Wrap(regs[iw0.rs1] + SignedImm(iw0.imm))
  BY <1>4, <1>5 DEF VM!MemAddr, VM!Wrap, VM!SignedImm, Wrap, SignedImm
<1> QED BY <1>1, <1>2, <1>4, <1>5, <1>6, <1>10, <1>11

(* An instruction that goes to np, committed.                              *)
LEMMA CommitGoes ==
    ASSUME AllComparable, VMInv, state = "S_EXECUTE", NEW np \in Nat, Lands(istore, pc, np),
           T!Commit(np), istore' = istore, arg_idx' = arg_idx, task_err' = FALSE
    PROVE  VM!VMGoTo(np, Image(ls)) /\ MappedRegs' = regs'
<1>1. /\ istore \in Programs /\ pc \in 0 .. LastRet(istore) /\ Stacked(ls, istore, pc)
      /\ ls \in Seq(LoopFrames)
  BY DEF VMInv, FetchInv, LoopsInv, End, Stacked
<1>2. state' = "S_FETCH1" /\ pc' = Target(ls, np) /\ ls' = Popped(ls, np)
  BY Commits DEF VMInv
<1>3. arg_idx = NUM_ARGS
  BY DEF VMInv, ArgsInv, Busy
<1>4. NUM_ARGS \in Nat
  BY CoreAssumption, IsaAssumption DEF T!TaskAssumption
<1>5. ~Answered' /\ ~LoadingArgs' /\ ~AtRest /\ ~AtRest'
  BY <1>2, <1>3, <1>4 DEF Answered, LoadingArgs, AtRest
<1>6. VpcBar' = Target(ls, np) /\ MappedStack' = Image(Popped(ls, np)) /\ MappedRegs' = regs'
  BY <1>2, <1>5, Plain
<1>7. \A i \in 1 .. Len(ls) : i # Len(ls) => ls[i].end # np
  <2> SUFFICES ASSUME NEW i \in 1 .. Len(ls), i # Len(ls) PROVE ls[i].end # np
    OBVIOUS
  <2>1. np < ls[i].end /\ ls[i].end \in Nat
    BY <1>1, OnlyTheTopEnds, FrameFacts
  <2> QED BY <2>1
<1>8. Target(ls, np) \in 0 .. DEPTH - 1
  BY <1>1, StackStep, ProgramFacts
<1> QED BY <1>1, <1>5, <1>6, <1>7, <1>8, GoesTo

(* The memory m seen through the addresses.  A write to the cell of an      *)
(* address of Window is seen there and nowhere else.                       *)
Seen(m) == [a \in Word |-> IF a \in Window THEN m[Cell(a)] ELSE 0]
Stored == IF Posted THEN [mem EXCEPT ![cur.cell] = Written(cur, @)] ELSE mem

LEMMA SeenAfter ==
    ASSUME NEW m, m = [c \in Cells |-> m[c]], NEW x \in Window, NEW v
    PROVE  /\ Seen([m EXCEPT ![Cell(x)] = v]) = [Seen(m) EXCEPT ![x] = v]
           /\ Seen(m)[x] = m[Cell(x)]
<1> DEFINE n == [m EXCEPT ![Cell(x)] = v]
<1>1. /\ x \in Word /\ \A a \in Window : a \in Word /\ (Cell(a) = Cell(x) => a = x)
  BY CoreAssumption
<1>2. \A a \in Window : Cell(a) \in Cells
  BY <1>1 DEF Cells
<1>3. \A a \in Window : n[Cell(a)] = IF a = x THEN v ELSE m[Cell(a)]
  BY <1>1, <1>2
<1> HIDE DEF n
<1>4. Seen(n) = [Seen(m) EXCEPT ![x] = v]
  BY <1>1, <1>3 DEF Seen
<1> QED BY <1>1, <1>4 DEF Seen, n

(* What a cycle does to the memory the interpreter sees.                   *)
LEMMA MemoryStep ==
    ASSUME AllComparable, VMInv, InWindow, NEW args, Tick(args)
    PROVE  /\ state = "S_EXECUTE" /\ iw0.op = "STORE" /\ mstate = "M_IDLE" =>
                MappedMem' = [MappedMem EXCEPT ![Wrap(regs[iw0.rs1] + SignedImm(iw0.imm))] =
                                regs[iw0.rs2]]
           /\ state = "S_MEM_WAIT" /\ mstate = "M_DRIVE" =>
                /\ MappedMem' = [MappedMem EXCEPT ![WantedAddr] =
                                   Written(cur, MappedMem[WantedAddr])]
                /\ MappedMem = [a \in Word |-> MappedMem[a]] /\ WantedAddr \in Word
                /\ ~out.sync_valid /\ out'.sync_valid
                /\ cur.kind \in {"LOAD", "CAS", "CAA"} =>
                     out'.sync_data = MappedMem[WantedAddr]
           /\ ~(state = "S_EXECUTE" /\ iw0.op = "STORE" /\ mstate = "M_IDLE")
              /\ ~(state = "S_MEM_WAIT" /\ mstate = "M_DRIVE") =>
                MappedMem' = MappedMem
           /\ out'.sync_valid => mstate = "M_DRIVE"
<1> DEFINE q == T!MemRequest
<1>1. MemStep(q) /\ MStates /\ MemoryView(q)
  BY ViewOfMemory DEF Tick, VMInv, RequestInv, CoreInv, MStates
<1>2. out'.sync_valid => mstate = "M_DRIVE"
  BY <1>1 DEF MemoryView
<1>3. state = "S_EXECUTE" => iw0.op \in SharedOps
  BY AtPC DEF Executes, Shared, VMInv
<1>4. /\ q.kind # "none" => state = "S_EXECUTE" /\ q.addr \in Window
      /\ q.kind = "STORE" => iw0.op = "STORE"
      /\ state = "S_EXECUTE" /\ iw0.op = "STORE" =>
           /\ q.kind = "STORE" /\ q.data = regs[iw0.rs2]
           /\ q.addr = Wrap(regs[iw0.rs1] + SignedImm(iw0.imm))
  <2>1. q.kind # "none" => q.addr \in Window
    BY DEF InWindow
  <2> QED
    BY <2>1
       DEF T!MemRequest, T!NoRequest, T!rs1v, T!rs2v, T!Wrap, T!SignedImm, Wrap, SignedImm
<1>8. MappedMem = Seen(Stored) /\ MappedMem' = Seen(Stored')
  BY DEF MappedMem, Seen, Stored
<1>9. mem = [c \in Cells |-> mem[c]]
  BY DEF VMInv, RequestInv
<1> HIDE DEF q
<1>5. CASE mstate = "M_IDLE"
  <2>1. Stored = mem
    BY <1>5 DEF Stored, Posted
  <2>2. CASE q.kind = "none"
    <3>1. mem' = mem /\ mstate' = mstate
      BY <1>1, <1>5, <2>2 DEF MemStep, MemRest, MemTake, MemWaiting, MemDrive
    <3>2. Stored' = mem
      BY <1>5, <3>1 DEF Stored, Posted
    <3> QED BY <1>2, <1>4, <1>5, <1>8, <2>1, <2>2, <3>2
  <2>3. CASE q.kind # "none"
    <3>1. /\ mem' = mem /\ mstate' = "M_WAIT" /\ cur'.kind = q.kind
          /\ cur'.cell = Cell(q.addr) /\ cur'.data = q.data
      BY <1>1, <1>5, <2>3 DEF MemStep, MemRest, MemTake, MemWaiting, MemDrive
    <3>2. CASE q.kind = "STORE"
      <4>1. Stored' = [mem EXCEPT ![Cell(q.addr)] = q.data]
        BY <3>1, <3>2 DEF Stored, Posted, Written
      <4>2. MappedMem' = [MappedMem EXCEPT ![q.addr] = q.data]
        BY <1>4, <1>8, <1>9, <2>1, <2>3, <4>1, SeenAfter
      <4> QED BY <1>2, <1>4, <1>5, <3>2, <4>2
    <3>3. CASE q.kind # "STORE"
      <4>1. Stored' = mem
        BY <3>1, <3>3 DEF Stored, Posted
      <4> QED BY <1>2, <1>4, <1>5, <1>8, <2>1, <3>3, <4>1
    <3> QED BY <3>2, <3>3
  <2> QED BY <2>2, <2>3
<1>6. CASE mstate = "M_WAIT"
  <2>1. mem' = mem /\ cur' = cur /\ mstate' # "M_IDLE"
    BY <1>1, <1>6 DEF MemStep, MemRest, MemTake, MemWaiting, MemDrive
  <2>2. Stored' = Stored
    BY <1>6, <2>1 DEF Stored, Posted, Written
  <2> QED BY <1>2, <1>6, <1>8, <2>2
<1>7. CASE mstate = "M_DRIVE"
  <2>1. MemDrive
    BY <1>1, <1>7 DEF MemStep, MemRest, MemTake, MemWaiting
  <2>2. /\ mem' = [mem EXCEPT ![cur.cell] = Written(cur, @)] /\ mstate' = "M_IDLE"
    BY <2>1 DEF MemDrive
  <2>3. Stored' = mem'
    BY <2>2 DEF Stored, Posted
  <2>4. CASE state = "S_MEM_WAIT"
    <3>1. /\ iw0.op \in {"LOAD", "CAS", "CAA"} /\ cur.kind = iw0.op
          /\ cur.cell = Cell(WantedAddr) /\ WantedAddr \in Window /\ ~out.sync_valid
      <4>1. /\ iw0.op \in SyncOps /\ cur.kind = RequestOf(iw0.op)
            /\ cur.cell = Cell(WantedAddr) /\ WantedAddr \in Window
        BY <1>7, <2>4 DEF VMInv, RequestInv, CoreInv, Waiting
      <4>2. iw0.op \in SharedOps
        BY <2>4, AtPC DEF Executes, Shared, VMInv
      <4>3. ~out.sync_valid
        BY <1>7 DEF VMInv, RequestInv, CoreInv, Pulsing
      <4> QED BY <4>1, <4>2, <4>3 DEF SyncOps, SharedOps, RequestOf
    <3>2. Stored = mem
      BY <3>1 DEF Stored, Posted
    <3>3. out'.sync_valid /\ out'.sync_data = mem[cur.cell]
      BY <1>1, <2>1, <3>1 DEF MemDrive, Quiet, MStates, OutFields
    <3>8. PICK x \in Window : x = WantedAddr /\ cur.cell = Cell(x)
      BY <3>1, Zenon
    <3>9. PICK v : v = Written(cur, mem[cur.cell])
      OBVIOUS
    <3>10. Seen([mem EXCEPT ![Cell(x)] = v]) = [Seen(mem) EXCEPT ![x] = v] /\ Seen(mem)[x] = mem[Cell(x)]
      BY <1>9, SeenAfter, Zenon
    <3>4. MappedMem[WantedAddr] = mem[cur.cell]
      BY <1>8, <3>2, <3>8, <3>10, Zenon
    <3>5. Stored' = [mem EXCEPT ![Cell(WantedAddr)] = Written(cur, mem[cur.cell])]
      BY <2>2, <2>3, <3>1
    <3>6. MappedMem' = [MappedMem EXCEPT ![WantedAddr] = Written(cur, mem[cur.cell])]
      <4>1. Stored' = [mem EXCEPT ![Cell(x)] = v]
        BY <3>5, <3>8, <3>9, Zenon
      <4>2. MappedMem' = [Seen(mem) EXCEPT ![x] = v]
        BY <1>8, <3>10, <4>1, Zenon
      <4> QED BY <1>8, <3>2, <3>8, <3>9, <4>2, Zenon
    <3>7. MappedMem = [a \in Word |-> MappedMem[a]] /\ WantedAddr \in Word
      BY <3>1, CoreAssumption DEF MappedMem
    <3> QED BY <1>2, <1>7, <2>4, <3>1, <3>3, <3>4, <3>6, <3>7
  <2>5. CASE state # "S_MEM_WAIT"
    <3>1. cur.kind = "STORE"
      BY <1>7, <2>5 DEF VMInv, RequestInv
    <3>2. Stored = mem'
      BY <1>7, <2>2, <3>1 DEF Stored, Posted
    <3> QED BY <1>2, <1>7, <1>8, <2>3, <2>5, <3>2
  <2> QED BY <2>4, <2>5
<1> QED BY <1>1, <1>5, <1>6, <1>7 DEF MStates

(* An answer arrives: the instruction is done, for the interpreter.        *)
LEMMA AnswerGoes ==
    ASSUME AllComparable, VMInv, state = "S_MEM_WAIT", state' = "S_MEM_WAIT",
           ~out.sync_valid, out'.sync_valid, task_err' = FALSE, istore' = istore,
           pc' = pc, ls' = ls, regs' = regs, iw0' = iw0
    PROVE  /\ VM!VMGoTo(Behind(istore, pc), Image(ls))
           /\ MappedRegs' = IF iw0.rd # 0 THEN [regs EXCEPT ![iw0.rd] = out'.sync_data]
                            ELSE regs
<1> DEFINE np == Behind(istore, pc)
<1>1. /\ istore \in Programs /\ pc \in 0 .. LastRet(istore) /\ Stacked(ls, istore, pc)
      /\ ls \in Seq(LoopFrames) /\ FetchInv /\ CoreInv
  BY DEF VMInv, FetchInv, LoopsInv, RequestInv, End, Stacked
<1>2. iw0.op # "RET"
  BY <1>1 DEF CoreInv, Waiting, SyncOps
<1>3. T!LinearPC = np /\ Lands(istore, pc, np) /\ np \in Nat
  BY <1>1, <1>2, OnIs DEF Executes
<1>4. Answered' /\ ~LoadingArgs' /\ ~AtRest /\ ~AtRest'
  BY DEF Answered, LoadingArgs, AtRest
<1>5. /\ (T!AdjustedPC(T!LinearPC))' = T!AdjustedPC(T!LinearPC)
      /\ (T!PopOrDecrement(T!LinearPC))' = T!PopOrDecrement(T!LinearPC)
  BY DEF T!AdjustedPC, T!PopOrDecrement, T!LoopsBack, T!LoopEndsAt, T!Last, T!Front,
         T!LinearPC, T!PCPlus, T!IsTwoWord, T!TwoWordOps
<1>6. VpcBar' = Target(ls, np)
  BY <1>3, <1>4, <1>5, StackOfMP DEF VpcBar
<1>7. MappedStack' = Image(Popped(ls, np))
  BY <1>3, <1>4, <1>5, StackOfMP DEF MappedStack, Image
<1>8. MappedRegs' = IF iw0.rd # 0 THEN [regs EXCEPT ![iw0.rd] = out'.sync_data] ELSE regs
  BY <1>4 DEF MappedRegs
<1>9. \A i \in 1 .. Len(ls) : i # Len(ls) => ls[i].end # np
  <2> SUFFICES ASSUME NEW i \in 1 .. Len(ls), i # Len(ls) PROVE ls[i].end # np
    OBVIOUS
  <2>1. np < ls[i].end /\ ls[i].end \in Nat
    BY <1>1, <1>3, OnlyTheTopEnds, FrameFacts
  <2> QED BY <2>1, <1>3
<1>10. Target(ls, np) \in 0 .. DEPTH - 1
  BY <1>1, <1>3, StackStep, ProgramFacts
<1> HIDE DEF np
<1>11. VM!VMGoTo(np, Image(ls))
  BY <1>1, <1>3, <1>4, <1>6, <1>7, <1>9, <1>10, GoesTo
<1> QED BY <1>8, <1>11 DEF np

LEMMA EntersGoes ==
    ASSUME AllComparable, VMInv, CountsFit, state = "S_EXECUTE", iw0.op = "LOOP",
           T!ExecLoop, istore' = istore, task_err' = FALSE
    PROVE  /\ T!rs1v # 0
           /\ VM!VMGoTo(pc + 1, Append(Image(ls),
                [start |-> pc + 1, end |-> pc + 1 + SignedImm(iw0.imm), remaining |-> T!rs1v]))
           /\ MappedRegs' = regs'
<1>1. /\ istore \in Programs /\ pc \in 0 .. LastRet(istore) /\ Stacked(ls, istore, pc)
      /\ ls \in Seq(LoopFrames) /\ FetchInv /\ LoopsInv
  BY DEF VMInv, FetchInv, LoopsInv, RequestInv, End, Stacked
<1>2. /\ pc \in Nat /\ iw0 = istore[pc] /\ iw0.imm \in Nat /\ SignedImm(iw0.imm) = iw0.imm
      /\ DEPTH \in Nat /\ LastRet(istore) \in 0 .. DEPTH - 1
  BY <1>1, AtPC DEF Executes, Shared
<1>3. PICK n \in Nat \ {0} : n = T!rs1v
  BY FittingCount DEF CountsFit
<1>4. PICK new : new = [begin |-> pc + 1, end |-> EndOf(istore, pc), remain |-> n - 1]
  OBVIOUS
<1>5. state' = "S_FETCH1" /\ pc' = pc + 1 /\ ls' = Append(ls, new)
  BY <1>1, <1>3, <1>4, Enters
<1>6. /\ new \in LoopFrames /\ pc + 1 \in 0 .. LastRet(istore)
      /\ \A i \in 1 .. Len(ls) : ls[i].end # pc + 1
  <2>1. n - 1 \in Nat
    OBVIOUS
  <2> QED BY <1>1, <1>2, <1>4, <2>1, Pushed
<1>7. pc \in Loops(istore)
  BY <1>1, <1>2, Immediates, ProgramFacts DEF Loops, Those
<1>8. /\ new.begin = pc + 1 /\ new.end = EndOf(istore, pc) /\ new.remain = n - 1
      /\ new.end # pc + 1 /\ EndOf(istore, pc) = pc + 1 + SignedImm(iw0.imm)
  <2>1. pc + 1 < EndOf(istore, pc) /\ EndOf(istore, pc) \in Nat
    BY <1>1, <1>7, ProgramFacts
  <2> QED BY <1>2, <1>4, <2>1 DEF EndOf
<1>9. PICK u : u = Append(ls, new)
  OBVIOUS
<1>10. PICK t \in Nat : t = Len(ls)
  BY <1>1
<1>11. /\ u \in Seq(LoopFrames) /\ Len(u) = t + 1 /\ u[t + 1] = new
       /\ \A i \in 1 .. t : u[i] = ls[i]
  BY <1>1, <1>6, <1>9, <1>10
<1>12. ~Ends(u, pc + 1)
  BY <1>8, <1>11 DEF Ends
<1>13. \A i \in 1 .. Len(u) : i # Len(u) => u[i].end # pc + 1
  <2> SUFFICES ASSUME NEW i \in 1 .. Len(u), i # Len(u) PROVE u[i].end # pc + 1
    OBVIOUS
  <2>1. i \in 1 .. t
    BY <1>10, <1>11
  <2> QED BY <2>1, <1>6, <1>10, <1>11
<1>14. Target(u, pc + 1) = pc + 1 /\ Popped(u, pc + 1) = u
  BY <1>12 DEF Target, Popped, Again
<1>15. arg_idx = NUM_ARGS /\ arg_idx' = arg_idx /\ NUM_ARGS \in Nat
  <2>1. NUM_ARGS \in Nat
    BY CoreAssumption, IsaAssumption DEF T!TaskAssumption
  <2> QED BY <2>1 DEF VMInv, ArgsInv, Busy, T!ExecLoop, T!Executing
<1>16. ~Answered' /\ ~LoadingArgs' /\ ~AtRest /\ ~AtRest'
  BY <1>5, <1>15 DEF Answered, LoadingArgs, AtRest
<1>17. VpcBar' = pc + 1 /\ MappedStack' = Image(u) /\ MappedRegs' = regs'
  BY <1>5, <1>9, <1>16, Plain
<1>18. VM!VMGoTo(pc + 1, Image(u))
  <2>1. pc + 1 \in 0 .. DEPTH - 1 /\ pc + 1 \in Nat
    BY <1>2, <1>6
  <2>2. Target(u, pc + 1) \in 0 .. DEPTH - 1
    BY <2>1, <1>14
  <2>3. VpcBar' = Target(u, pc + 1) /\ MappedStack' = Image(Popped(u, pc + 1))
    BY <1>14, <1>17
  <2> QED BY <1>1, <1>11, <1>13, <1>16, <2>1, <2>2, <2>3, GoesTo
<1>19. PICK fr : fr = [start |-> pc + 1, end |-> pc + 1 + SignedImm(iw0.imm), remaining |-> n]
  OBVIOUS
<1>20. Image(u) = Append(Image(ls), fr)
  <2>1. /\ Image(u) \in Seq(VMFrames) /\ Len(Image(u)) = t + 1
        /\ \A i \in 1 .. t + 1 : Image(u)[i] = [start |-> u[i].begin, end |-> u[i].end,
                                                remaining |-> u[i].remain + 1]
    BY <1>11, ImageFacts
  <2>2. /\ Image(ls) \in Seq(VMFrames) /\ Len(Image(ls)) = t
        /\ \A i \in 1 .. t : Image(ls)[i] = [start |-> ls[i].begin, end |-> ls[i].end,
                                             remaining |-> ls[i].remain + 1]
    BY <1>1, <1>10, ImageFacts
  <2>3. fr = [start |-> new.begin, end |-> new.end, remaining |-> new.remain + 1]
        /\ fr \in VMFrames
    <3>1. new.begin \in Nat /\ new.end \in Nat /\ new.remain + 1 = n
      BY <1>2, <1>8
    <3> QED BY <3>1, <1>8, <1>19 DEF VMFrames
  <2>4. PICK v : v = Append(Image(ls), fr)
    OBVIOUS
  <2>5. v \in Seq(VMFrames) /\ Len(v) = t + 1 /\ v[t + 1] = fr
        /\ \A i \in 1 .. t : v[i] = Image(ls)[i]
    BY <2>2, <2>3, <2>4
  <2>6. \A i \in 1 .. t + 1 : Image(u)[i] = v[i]
    <3> SUFFICES ASSUME NEW i \in 1 .. t + 1 PROVE Image(u)[i] = v[i]
      OBVIOUS
    <3>1. CASE i \in 1 .. t
      <4>1. u[i] = ls[i] /\ v[i] = Image(ls)[i]
        BY <3>1, <1>11, <2>5
      <4> QED BY <3>1, <4>1, <2>1, <2>2
    <3>2. CASE i = t + 1
      <4>1. u[i] = new /\ v[i] = fr
        BY <3>2, <1>11, <2>5
      <4> QED BY <4>1, <2>1, <2>3
    <3> QED BY <3>1, <3>2
  <2> QED BY <2>1, <2>4, <2>5, <2>6, SameSeq
<1> QED BY <1>3, <1>17, <1>18, <1>19, <1>20

(* Nothing the interpreter has changes.                                    *)
LEMMA Idles ==
    ASSUME ~Answered, ~Answered', ~LoadingArgs, ~LoadingArgs', istore' = istore,
           regs' = regs, pc' = pc, ls' = ls, MappedMem' = MappedMem, AtRest' <=> AtRest,
           task_err' = task_err
    PROVE  UNCHANGED VM!vmVars
<1>1. MappedRegs' = MappedRegs /\ VpcBar' = VpcBar /\ MappedStack' = MappedStack
  BY Plain DEF Image
<1>2. ResultBar' = ResultBar
  BY DEF ResultBar, T!TaskResult
<1> QED BY <1>1, <1>2, Stutters

(* A step of the core in S_EXECUTE: the instruction, or the wait for the    *)
(* memory to take its request.                                             *)
LEMMA ExecuteStep ==
    ASSUME AllComparable, VMInv, CountsFit, InWindow, NEW args \in T!Offers, Tick(args),
           state = "S_EXECUTE"
    PROVE  VM!VMNextStep \/ UNCHANGED VM!vmVars
<1>1. T!MPStep /\ istore' = istore /\ FetchInv /\ LoopsInv /\ task_err = FALSE
  BY DEF Tick, T!TaskStep, VMInv, RequestInv
<1>2. task_err' = FALSE
  BY <1>1, RequestStep DEF VMInv, RequestInv
<1>3. /\ iw0.op \in SharedOps /\ Shared(iw0)
  BY <1>1, AtPC DEF Executes, Shared
<1>4. Executes /\ ~Answered /\ ~LoadingArgs /\ ~AtRest
  BY DEF Executes, Answered, LoadingArgs, AtRest
<1>5. /\ VpcBar = pc /\ MappedRegs = regs /\ MappedStack = Image(ls)
      /\ VM!Head0 = iw0
      /\ \A r : VM!R(r) = regs[r]
      /\ \A op : VM!Stepping(op) <=> iw0.op = op
      /\ VM!VMGoTo(Behind(istore, pc), Image(ls)) => VM!VMNext
      /\ VM!MemAddr = Wrap(regs[iw0.rs1] + SignedImm(iw0.imm))
  BY <1>4, SameInstruction
<1>6. iw0.op # "STORE" \/ mstate # "M_IDLE" => MappedMem' = MappedMem
  BY MemoryStep
<1>7. ASSUME NEW np \in Nat, Lands(istore, pc, np), T!Commit(np), arg_idx' = arg_idx
      PROVE  VM!VMGoTo(np, Image(ls)) /\ MappedRegs' = regs'
  BY <1>1, <1>2, <1>7, CommitGoes
<1>8. ASSUME T!Commit(T!LinearPC), arg_idx' = arg_idx, iw0.op # "RET"
      PROVE  VM!VMNext /\ MappedRegs' = regs'
  <2>1. /\ T!LinearPC = Behind(istore, pc) /\ Lands(istore, pc, Behind(istore, pc))
        /\ Behind(istore, pc) \in Nat
    BY <1>1, <1>4, <1>8, OnIs
  <2>2. VM!VMGoTo(Behind(istore, pc), Image(ls)) /\ MappedRegs' = regs'
    BY <1>7, <1>8, <2>1
  <2> QED BY <1>5, <2>2
<1>9. CASE T!ExecNop
  <2>1. iw0.op = "NOP" /\ T!Commit(T!LinearPC) /\ arg_idx' = arg_idx /\ regs' = regs
    BY <1>9 DEF T!ExecNop, T!Executing
  <2>2. VM!VMNext /\ MappedRegs' = MappedRegs /\ MappedMem' = MappedMem
    BY <1>5, <1>6, <1>8, <2>1
  <2>3. VM!VMNop
    BY <1>5, <2>1, <2>2 DEF VM!VMNop, VM!counters
  <2> QED BY <2>3 DEF VM!VMNextStep, VM!VMStep
<1>10. CASE T!ExecCompute
  <2>1. /\ iw0.op = "COMPUTE" /\ iw0.sub # "MUL" /\ T!Commit(T!LinearPC) /\ arg_idx' = arg_idx
        /\ T!WriteReg(iw0.rd, T!RtlAlu(iw0.sub, T!rs1v, T!rs2v, iw0.imm))
    BY <1>3, <1>10 DEF T!ExecCompute, T!Executing, Shared
  <2>2. VM!VMNext /\ MappedRegs' = regs' /\ MappedMem' = MappedMem
    BY <1>5, <1>6, <1>8, <2>1
  <2>3. T!RtlAlu(iw0.sub, T!rs1v, T!rs2v, iw0.imm)
          = VM!VmAlu(VM!Head0.sub, VM!R(VM!Head0.rs1), VM!R(VM!Head0.rs2), VM!Head0.imm)
    <3>1. T!rs1v = VM!R(VM!Head0.rs1) /\ T!rs2v = VM!R(VM!Head0.rs2)
      BY <1>5 DEF T!rs1v, T!rs2v
    <3> QED BY <1>3, <1>5, <2>1, <3>1, AluAgrees
  <2>4. VM!VMSet(VM!Head0.rd, VM!VmAlu(VM!Head0.sub, VM!R(VM!Head0.rs1),
                                       VM!R(VM!Head0.rs2), VM!Head0.imm))
    BY <1>5, <2>1, <2>2, <2>3 DEF VM!VMSet, T!WriteReg
  <2>5. VM!VMCompute
    BY <1>5, <2>1, <2>2, <2>4 DEF VM!VMCompute, VM!counters
  <2> QED BY <2>5 DEF VM!VMNextStep, VM!VMStep
<1>11. CASE T!ExecSyncMem
  <2>1. /\ iw0.op \in {"LOAD", "CAS", "CAA"} /\ pc' = pc /\ ls' = ls /\ regs' = regs
        /\ state' \in {"S_EXECUTE", "S_MEM_WAIT"}
    BY <1>11 DEF T!ExecSyncMem, T!Executing, T!IssueTo
  <2>2. ~Answered' /\ ~LoadingArgs' /\ ~AtRest'
    <3>1. out'.sync_valid => mstate = "M_DRIVE"
      BY MemoryStep
    <3>2. state' = "S_MEM_WAIT" => mstate = "M_IDLE"
      BY <1>1, ViewOfMP DEF MemView
    <3> QED BY <2>1, <3>1, <3>2 DEF Answered, LoadingArgs, AtRest
  <2>3. MappedMem' = MappedMem
    BY <1>6, <2>1
  <2> QED BY <1>1, <1>2, <1>4, <2>1, <2>2, <2>3, Idles
<1>12. CASE T!ExecStore
  <2>1. iw0.op = "STORE" /\ arg_idx' = arg_idx /\ regs' = regs
    BY <1>12 DEF T!ExecStore, T!Executing
  <2>2. CASE mstate = "M_IDLE"
    <3>1. T!Commit(T!LinearPC)
      BY <1>12, <2>2 DEF T!ExecStore, MemPort
    <3>2. VM!VMNext /\ MappedRegs' = MappedRegs
      BY <1>5, <1>8, <2>1, <3>1
    <3>3. MappedMem' = [MappedMem EXCEPT ![VM!MemAddr] = VM!R(VM!Head0.rs2)]
      <4>1. MappedMem' = [MappedMem EXCEPT ![Wrap(regs[iw0.rs1] + SignedImm(iw0.imm))] =
                          regs[iw0.rs2]]
        BY <2>1, <2>2, MemoryStep
      <4> QED BY <4>1, <1>5
    <3>4. VM!VMStore
      BY <1>5, <2>1, <3>2, <3>3 DEF VM!VMStore, VM!counters
    <3> QED BY <3>4 DEF VM!VMNextStep, VM!VMStep
  <2>3. CASE mstate # "M_IDLE"
    <3>1. state' = state /\ pc' = pc /\ ls' = ls
      BY <1>12, <2>3 DEF T!ExecStore, MemPort
    <3>2. ~Answered' /\ ~LoadingArgs' /\ ~AtRest'
      BY <3>1 DEF Answered, LoadingArgs, AtRest
    <3> QED BY <1>1, <1>2, <1>4, <1>6, <2>1, <2>3, <3>1, <3>2, Idles
  <2> QED BY <2>2, <2>3
<1>13. CASE T!ExecJump
  <2>1. PICK np \in Nat :
          /\ np = IF T!rs1v # 0 THEN pc + iw0.imm ELSE Behind(istore, pc)
          /\ Lands(istore, pc, np) /\ T!Commit(np) /\ SignedImm(iw0.imm) = iw0.imm
    BY <1>1, <1>13, JumpsTo DEF T!ExecJump, T!Executing
  <2>2. iw0.op = "JUMP" /\ arg_idx' = arg_idx /\ regs' = regs
    BY <1>13 DEF T!ExecJump, T!Executing
  <2>3. VM!VMGoTo(np, Image(ls)) /\ MappedRegs' = MappedRegs /\ MappedMem' = MappedMem
    BY <1>5, <1>6, <1>7, <2>1, <2>2
  <2>4. IF VM!R(VM!Head0.rs1) # 0
        THEN VM!VMGoTo(VpcBar + VM!SignedImm(VM!Head0.imm), MappedStack) ELSE VM!VMNext
    <3>1. VM!R(VM!Head0.rs1) = T!rs1v /\ VM!SignedImm(VM!Head0.imm) = iw0.imm
      BY <1>5, <2>1 DEF T!rs1v, VM!SignedImm, SignedImm
    <3>2. CASE T!rs1v # 0
      <4>1. VM!VMGoTo(VpcBar + VM!SignedImm(VM!Head0.imm), MappedStack)
        BY <1>5, <2>1, <2>3, <3>1, <3>2
      <4> QED BY <3>1, <3>2, <4>1
    <3>3. CASE T!rs1v = 0
      BY <1>5, <2>1, <2>3, <3>1, <3>3
    <3> QED BY <3>2, <3>3
  <2>5. VM!VMJump
    BY <1>5, <2>2, <2>3, <2>4 DEF VM!VMJump, VM!counters, VpcBar
  <2> QED BY <2>5 DEF VM!VMNextStep, VM!VMStep
<1>14. CASE T!ExecLoop
  <2>1. iw0.op = "LOOP" /\ regs' = regs
    BY <1>14 DEF T!ExecLoop, T!Executing
  <2>2. /\ T!rs1v # 0 /\ MappedRegs' = MappedRegs
        /\ VM!VMGoTo(pc + 1, Append(Image(ls),
             [start |-> pc + 1, end |-> pc + 1 + SignedImm(iw0.imm), remaining |-> T!rs1v]))
    BY <1>1, <1>2, <1>5, <1>14, <2>1, EntersGoes
  <2>3. VM!R(VM!Head0.rs1) = T!rs1v /\ VM!SignedImm(VM!Head0.imm) = SignedImm(iw0.imm)
    BY <1>5 DEF T!rs1v, VM!SignedImm, SignedImm
  <2>4. VM!VMGoTo(VpcBar + 1, Append(MappedStack,
          [start |-> VpcBar + 1, end |-> VpcBar + 1 + VM!SignedImm(VM!Head0.imm),
           remaining |-> VM!R(VM!Head0.rs1)]))
    BY <1>5, <2>2, <2>3
  <2>5. VM!VMLoop
    BY <1>5, <1>6, <2>1, <2>2, <2>3, <2>4 DEF VM!VMLoop, VM!counters, VpcBar
  <2> QED BY <2>5 DEF VM!VMNextStep, VM!VMStep
<1>15. CASE T!ExecRet
  <2>1. /\ iw0.op = "RET" /\ state' = "S_DONE" /\ pc' = pc /\ ls' = ls /\ regs' = regs
    BY <1>15 DEF T!ExecRet, T!Executing
  <2>2. ~Answered' /\ ~LoadingArgs' /\ AtRest'
    BY <2>1 DEF Answered, LoadingArgs, AtRest
  <2>3. MappedRegs' = MappedRegs /\ VpcBar' = VpcBar /\ MappedStack' = MappedStack
    BY <1>5, <2>1, <2>2, Plain
  <2>4. ResultBar' = [i \in 1 .. 4 |-> IF i \in VM!Regs THEN MappedRegs[i] ELSE 0]
    BY <1>5, <2>1, <2>2 DEF ResultBar, T!TaskResult, T!Regs, VM!Regs
  <2>5. VM!VMRet
    <3>1. AtRest' = TRUE /\ task_err' = task_err /\ MappedMem' = MappedMem
      BY <1>1, <1>2, <1>6, <2>1 DEF AtRest
    <3>2. VM!Stepping("RET")
      BY <1>5, <2>1
    <3>3. 0 = 0 - 0
      OBVIOUS
    <3> QED BY <1>1, <2>3, <2>4, <3>1, <3>2, <3>3, Zenon
            DEF VM!VMRet, VpcBar, ResultBar
  <2> QED BY <2>5 DEF VM!VMNextStep, VM!VMStep
<1>16. T!ExecNop \/ T!ExecCompute \/ T!ExecSyncMem \/ T!ExecStore \/ T!ExecJump
       \/ T!ExecLoop \/ T!ExecRet
  BY <1>1, <1>3
     DEF T!MPStep, T!Idle, T!StartTask, T!LoadArgument, T!Fetch1, T!Fetch2, T!Fetch,
         T!Latch1, T!Latch2, T!MemWait, T!MemAsync, T!WaitDrain, T!MulWait, T!Finish,
         T!ExecMemcpy, T!ExecWait, T!ExecIllegal, T!Executing, SharedOps
<1> QED BY <1>9, <1>10, <1>11, <1>12, <1>13, <1>14, <1>15, <1>16

(* A step of the core in S_MEM_WAIT: the instruction, when the memory       *)
(* performs it.                                                            *)
LEMMA WaitStep ==
    ASSUME AllComparable, VMInv, InWindow, NEW args \in T!Offers, Tick(args),
           state = "S_MEM_WAIT"
    PROVE  VM!VMNextStep \/ UNCHANGED VM!vmVars
<1>1. T!MPStep /\ istore' = istore /\ FetchInv /\ task_err = FALSE /\ CoreInv
  BY DEF Tick, T!TaskStep, VMInv, RequestInv
<1>2. task_err' = FALSE
  BY <1>1, RequestStep DEF VMInv, RequestInv
<1>3. iw0.op \in {"LOAD", "CAS", "CAA"}
  <2>1. iw0.op \in SharedOps
    BY <1>1, AtPC DEF Executes, Shared
  <2> QED BY <2>1, <1>1 DEF CoreInv, Waiting, SyncOps, SharedOps
<1>4. cur.kind = iw0.op
  BY <1>1, <1>3 DEF CoreInv, Waiting, RequestOf
<1>5. T!MemWait
  BY <1>1 DEF T!MPStep, T!Idle, T!StartTask, T!LoadArgument, T!Fetch1, T!Fetch2, T!Fetch,
              T!Latch1, T!Latch2, T!MemAsync, T!WaitDrain, T!MulWait, T!Finish,
              T!ExecNop, T!ExecCompute, T!ExecSyncMem, T!ExecStore, T!ExecJump, T!ExecLoop,
              T!ExecRet, T!ExecMemcpy, T!ExecWait, T!ExecIllegal, T!Executing
<1>6. ~LoadingArgs /\ ~AtRest /\ arg_idx = NUM_ARGS /\ arg_idx' = arg_idx /\ NUM_ARGS \in Nat
      /\ iw0' = iw0 /\ iw1' = iw1
  BY <1>5, CoreAssumption, IsaAssumption
     DEF LoadingArgs, AtRest, VMInv, ArgsInv, Busy, T!MemWait, T!TaskAssumption
<1>7. CASE out.sync_valid
  <2>1. mstate = "M_IDLE"
    BY <1>1, <1>7 DEF CoreInv, Pulsing
  <2>2. MappedMem' = MappedMem /\ ~out'.sync_valid
    BY <2>1, MemoryStep
  <2>3. /\ state' = "S_FETCH1" /\ pc' = T!AdjustedPC(T!LinearPC)
        /\ ls' = T!PopOrDecrement(T!LinearPC)
        /\ regs' = IF iw0.rd = 0 THEN regs ELSE [regs EXCEPT ![iw0.rd] = out.sync_data]
    BY <1>3, <1>5, <1>7 DEF T!MemWait, T!Commit, T!GoTo, T!WriteReg, MemPort
  <2>4. Answered /\ ~Answered' /\ ~LoadingArgs' /\ ~AtRest'
    BY <1>6, <1>7, <2>3 DEF Answered, LoadingArgs, AtRest
  <2>5. VpcBar' = VpcBar /\ MappedStack' = MappedStack /\ MappedRegs' = MappedRegs
    BY <1>6, <2>3, <2>4 DEF VpcBar, MappedStack, MappedRegs
  <2>6. ResultBar' = ResultBar
    BY <1>6, <2>4 DEF ResultBar
  <2> QED BY <1>1, <1>2, <1>6, <2>2, <2>4, <2>5, <2>6, Stutters
<1>8. CASE ~out.sync_valid
  <2>1. state' = "S_MEM_WAIT" /\ pc' = pc /\ ls' = ls /\ regs' = regs
    BY <1>5, <1>8 DEF T!MemWait, MemPort
  <2>2. ~Answered /\ Executes /\ ~LoadingArgs' /\ ~AtRest'
    BY <1>8, <2>1 DEF Answered, Executes, LoadingArgs, AtRest
  <2>3. CASE mstate # "M_DRIVE"
    <3>1. ~out'.sync_valid /\ MappedMem' = MappedMem
      BY <2>3, MemoryStep
    <3>2. ~Answered'
      BY <3>1 DEF Answered
    <3> QED BY <1>1, <1>2, <1>6, <2>1, <2>2, <3>1, <3>2, Idles
  <2>4. CASE mstate = "M_DRIVE"
    <3>1. /\ MappedMem' = [MappedMem EXCEPT ![WantedAddr] =
                             Written(cur, MappedMem[WantedAddr])]
          /\ MappedMem = [a \in Word |-> MappedMem[a]] /\ WantedAddr \in Word
          /\ out'.sync_valid /\ out'.sync_data = MappedMem[WantedAddr]
      BY <1>3, <1>4, <2>4, MemoryStep
    <3>2. /\ VpcBar = pc /\ MappedRegs = regs /\ MappedStack = Image(ls)
          /\ VM!Head0 = iw0 /\ (IsTwoWord(iw0) => VM!Extra = iw1)
          /\ \A r : VM!R(r) = regs[r]
          /\ \A op : VM!Stepping(op) <=> iw0.op = op
          /\ VM!VMGoTo(Behind(istore, pc), Image(ls)) => VM!VMNext
          /\ VM!MemAddr = Wrap(regs[iw0.rs1] + SignedImm(iw0.imm))
      BY <2>2, SameInstruction
    <3>3. /\ VM!VMGoTo(Behind(istore, pc), Image(ls))
          /\ MappedRegs' = IF iw0.rd # 0 THEN [regs EXCEPT ![iw0.rd] = out'.sync_data]
                           ELSE regs
      BY <1>1, <1>2, <1>6, <1>8, <2>1, <3>1, AnswerGoes
    <3>4. VM!VMNext
      BY <3>2, <3>3
    <3>5. VM!VMSet(VM!Head0.rd, MappedMem[WantedAddr])
      BY <3>1, <3>2, <3>3 DEF VM!VMSet
    <3>6. CASE iw0.op = "LOAD"
      <4>1. WantedAddr = VM!MemAddr
        BY <3>2, <3>6 DEF WantedAddr
      <4>2. MappedMem' = MappedMem
        <5>1. Written(cur, MappedMem[WantedAddr]) = MappedMem[WantedAddr]
          BY <1>4, <3>6 DEF Written
        <5>2. PICK m : m = MappedMem
          OBVIOUS
        <5>3. [m EXCEPT ![WantedAddr] = m[WantedAddr]] = m
          BY <3>1, <5>2
        <5> QED BY <3>1, <5>1, <5>2, <5>3
      <4>3. VM!VMLoad
        BY <3>2, <3>4, <3>5, <3>6, <4>1, <4>2 DEF VM!VMLoad, VM!counters
      <4> QED BY <4>3 DEF VM!VMNextStep, VM!VMStep
    <3>7. CASE iw0.op = "CAS"
      <4>1. WantedAddr = VM!R(VM!Head0.rs1)
        BY <3>2, <3>7 DEF WantedAddr
      <4>2. VM!Extra = iw1
        BY <3>2, <3>7 DEF IsTwoWord, TwoWordOps
      <4>3. cur.data = VM!R(VM!Head0.rs2) /\ cur.swap = VM!R(VM!Extra.rd)
        BY <2>4, <3>2, <3>7, <4>2 DEF VMInv, RequestInv
      <4>4. MappedMem' = [MappedMem EXCEPT ![VM!R(VM!Head0.rs1)] =
                          IF @ = VM!R(VM!Head0.rs2) THEN VM!R(VM!Extra.rd) ELSE @]
        BY <1>4, <3>1, <3>7, <4>1, <4>3 DEF Written
      <4>5. VM!VMCas
        BY <3>2, <3>4, <3>5, <3>7, <4>1, <4>4 DEF VM!VMCas, VM!counters
      <4> QED BY <4>5 DEF VM!VMNextStep, VM!VMStep
    <3>8. CASE iw0.op = "CAA"
      <4>1. WantedAddr = VM!R(VM!Head0.rs1)
        BY <3>2, <3>8 DEF WantedAddr
      <4>2. cur.data = VM!R(VM!Head0.rs2)
        BY <2>4, <3>2, <3>8 DEF VMInv, RequestInv
      <4>3. MappedMem' = [MappedMem EXCEPT ![VM!R(VM!Head0.rs1)] =
                          VM!Wrap(@ + VM!R(VM!Head0.rs2))]
        BY <1>4, <3>1, <3>8, <4>1, <4>2 DEF Written, Wrap, VM!Wrap
      <4>4. VM!VMCaa
        BY <3>2, <3>4, <3>5, <3>8, <4>1, <4>3 DEF VM!VMCaa, VM!counters
      <4> QED BY <4>4 DEF VM!VMNextStep, VM!VMStep
    <3> QED BY <1>3, <3>6, <3>7, <3>8
  <2> QED BY <2>3, <2>4
<1> QED BY <1>7, <1>8

LEMMA OneMore ==
    ASSUME NEW v, NEW a \in Nat, NEW s,
           s = [r \in Regs |-> IF r \in 1 .. a THEN v[r] ELSE 0]
    PROVE  [s EXCEPT ![a + 1] = v[a + 1]]
             = [r \in Regs |-> IF r \in 1 .. a + 1 THEN v[r] ELSE 0]
<1>1. \A r \in Regs : r \in Int
  BY IsaAssumption DEF Regs
<1>2. \A r \in Regs : r \in 1 .. a + 1 <=> r \in 1 .. a \/ r = a + 1
  BY <1>1
<1> QED BY <1>2

(* Every other step: a task is taken over, arguments are loaded, words are  *)
(* fetched, a task ends.                                                   *)
LEMMA OtherStep ==
    ASSUME AllComparable, VMInv, InWindow, NEW args \in T!Offers, Tick(args),
           state \notin {"S_EXECUTE", "S_MEM_WAIT"}
    PROVE  VM!VMNextStep \/ UNCHANGED VM!vmVars
<1>1. T!MPStep /\ istore' = istore /\ FetchInv /\ task_err = FALSE /\ StartView
  BY ViewOfStart DEF Tick, T!TaskStep, VMInv, RequestInv
<1>2. task_err' = FALSE
  BY <1>1, RequestStep DEF VMInv, RequestInv
<1>3. MappedMem' = MappedMem
  BY MemoryStep
<1>4. ~Answered /\ ~Answered'
  <2>1. state' # "S_MEM_WAIT"
    BY <1>1, ViewOfMP DEF MemView
  <2> QED BY <2>1 DEF Answered
<1>5. NUM_ARGS \in Nat \ {0}
  BY CoreAssumption, IsaAssumption DEF T!TaskAssumption
<1>6. ASSUME pc' = pc, ls' = ls, regs' = regs, ~LoadingArgs, ~LoadingArgs', AtRest' <=> AtRest
      PROVE  UNCHANGED VM!vmVars
  BY <1>1, <1>2, <1>3, <1>4, <1>6, Idles
<1>7. CASE T!Idle
  <2>1. /\ state = "S_IDLE" /\ state' = "S_IDLE" /\ pc' = pc /\ ls' = ls /\ regs' = regs
    BY <1>7 DEF T!Idle
  <2> QED BY <1>6, <2>1 DEF LoadingArgs, AtRest
<1>8. CASE T!StartTask
  <2>1. /\ state = "S_IDLE" /\ start.valid /\ state' = "S_FETCH1" /\ pc' = 0 /\ ls' = ls
        /\ arg_idx' = 0
    BY <1>8 DEF T!StartTask, VMInv, ArgsInv
  <2>2. dstate = "D_RUN" /\ start.args \in ArgSets /\ start'.args = start.args
    BY <1>1, <2>1 DEF VMInv, ArgsInv, T!HandshakeExact, StartView
  <2>3. LoadingArgs' /\ AtRest = TRUE /\ AtRest' = FALSE
    BY <1>5, <2>1 DEF LoadingArgs, AtRest
  <2>4. MappedRegs' = [r \in VM!Regs |-> IF r \in 1 .. NUM_ARGS THEN start.args[r] ELSE 0]
    BY <2>2, <2>3 DEF MappedRegs, VM!Regs, Regs
  <2>5. VpcBar' = 0
    BY <1>4, <2>1, Plain
  <2>6. MappedStack' = <<>>
    <3>1. ls' = <<>> /\ MappedStack' = Image(ls')
      BY <1>4, <2>1, Plain DEF VMInv, LoopsInv, Busy
    <3>2. <<>> \in Seq(LoopFrames) /\ <<>> \in Seq(VMFrames) /\ Len(<<>>) = 0
      OBVIOUS
    <3>3. Image(<<>>) \in Seq(VMFrames) /\ Len(Image(<<>>)) = 0
      BY <3>2, ImageFacts
    <3>4. Image(<<>>) = <<>>
      BY <3>3, EmptySeq
    <3> QED BY <3>1, <3>4
  <2>7. ResultBar' = VM!NoResult
    BY <2>3 DEF ResultBar, VM!NoResult
  <2>8. VM!VMFresh(start.args)
    BY <1>2, <2>3, <2>4, <2>5, <2>6, <2>7 DEF VM!VMFresh, VpcBar, ResultBar
  <2>9. VM!VMReset(start.args)
    BY <1>1, <1>3, <2>3, <2>8 DEF VM!VMReset
  <2> QED BY <2>2, <2>9 DEF VM!VMNextStep
<1>9. CASE T!LoadArgument
  <2>1. /\ LoadingArgs /\ state' = "S_FETCH1" /\ pc' = pc /\ ls' = ls
        /\ arg_idx' = arg_idx + 1
        /\ regs' = IF arg_idx + 1 = 0 THEN regs
                   ELSE [regs EXCEPT ![arg_idx + 1] = start.args[arg_idx + 1]]
    BY <1>9 DEF T!LoadArgument, T!WriteReg, LoadingArgs
  <2>2. /\ regs = [r \in Regs |-> IF r \in 1 .. arg_idx THEN start.args[r] ELSE 0]
        /\ arg_idx \in 0 .. NUM_ARGS - 1 /\ start'.args = start.args
    BY <1>1, <1>5, <2>1 DEF VMInv, ArgsInv, LoadingArgs, StartView, T!HandshakeExact
  <2>3. MappedRegs' = MappedRegs
    <3>1. CASE LoadingArgs'
      BY <2>1, <2>2, <3>1 DEF MappedRegs
    <3>2. CASE ~LoadingArgs'
      <4>1. arg_idx + 1 = NUM_ARGS
        BY <1>5, <2>1, <2>2, <3>2 DEF LoadingArgs
      <4>2. regs' = [r \in Regs |-> IF r \in 1 .. NUM_ARGS THEN start.args[r] ELSE 0]
        <5>1. regs' = [regs EXCEPT ![arg_idx + 1] = start.args[arg_idx + 1]]
              /\ arg_idx \in Nat
          <6>1. arg_idx \in Nat /\ arg_idx + 1 # 0
            BY <1>5, <2>2
          <6> QED BY <2>1, <6>1
        <5>2. PICK v : v = start.args
          OBVIOUS
        <5>3. PICK s : s = regs
          OBVIOUS
        <5>4. PICK a \in Nat : a = arg_idx
          BY <5>1
        <5>5. s = [r \in Regs |-> IF r \in 1 .. a THEN v[r] ELSE 0]
          BY <2>2, <5>2, <5>3, <5>4
        <5>6. [s EXCEPT ![a + 1] = v[a + 1]]
                = [r \in Regs |-> IF r \in 1 .. a + 1 THEN v[r] ELSE 0]
          <6>1. a \in Nat
            BY <5>4
          <6> QED BY <6>1, <5>5, OneMore
        <5>7. regs' = [s EXCEPT ![a + 1] = v[a + 1]]
          BY <5>1, <5>2, <5>3, <5>4
        <5>8. a + 1 = NUM_ARGS
          BY <4>1, <5>4
        <5>9. regs' = [r \in Regs |-> IF r \in 1 .. a + 1 THEN v[r] ELSE 0]
          BY <5>6, <5>7, Zenon
        <5>10. regs' = [r \in Regs |-> IF r \in 1 .. NUM_ARGS THEN v[r] ELSE 0]
          BY <5>8, <5>9, Zenon
        <5> QED BY <5>2, <5>10, Zenon
      <4>3. MappedRegs' = regs'
        BY <1>4, <3>2, Plain
      <4> QED BY <2>1, <4>2, <4>3 DEF MappedRegs
    <3> QED BY <3>1, <3>2
  <2>4. VpcBar' = VpcBar /\ MappedStack' = MappedStack
    BY <1>4, <2>1, Plain
  <2>5. ~AtRest /\ ~AtRest'
    BY <2>1 DEF LoadingArgs, AtRest
  <2>6. ResultBar' = ResultBar
    BY <2>5 DEF ResultBar
  <2> QED BY <1>1, <1>2, <1>3, <2>3, <2>4, <2>5, <2>6, Stutters
<1>10. CASE T!Fetch1 \/ T!Fetch2 \/ T!Latch1 \/ T!Latch2
  <2>1. /\ state \in {"S_FETCH1", "S_FETCH1_W", "S_FETCH2", "S_FETCH2_W"}
        /\ state' \in {"S_FETCH1_W", "S_FETCH2", "S_FETCH2_W", "S_EXECUTE"}
        /\ pc' = pc /\ ls' = ls /\ regs' = regs
        /\ state = "S_FETCH1" => arg_idx = NUM_ARGS
    BY <1>10 DEF T!Fetch1, T!Fetch2, T!Fetch, T!Latch1, T!AfterLatch, T!Latch2
  <2>2. ~LoadingArgs /\ ~LoadingArgs' /\ ~AtRest /\ ~AtRest'
    BY <1>5, <2>1 DEF LoadingArgs, AtRest
  <2> QED BY <1>6, <2>1, <2>2
<1>11. CASE T!Finish
  <2>1. /\ state = "S_DONE" /\ state' = "S_IDLE" /\ pc' = pc /\ ls' = ls /\ regs' = regs
    BY <1>1, <1>11 DEF T!Finish, FetchInv
  <2> QED BY <1>6, <2>1 DEF LoadingArgs, AtRest
<1>12. T!Idle \/ T!StartTask \/ T!LoadArgument \/ T!Fetch1 \/ T!Fetch2 \/ T!Latch1
       \/ T!Latch2 \/ T!Finish
  BY <1>1 DEF T!MPStep, FetchInv, T!MemWait, T!MemAsync, T!WaitDrain, T!MulWait,
              T!ExecNop, T!ExecCompute, T!ExecSyncMem, T!ExecStore, T!ExecJump, T!ExecLoop,
              T!ExecRet, T!ExecMemcpy, T!ExecWait, T!ExecIllegal, T!Executing
<1> QED BY <1>7, <1>8, <1>9, <1>10, <1>11, <1>12

LEMMA VMInitial == ASSUME AllComparable, Init PROVE VM!VMInit
<1>1. /\ state = "S_IDLE" /\ pc = 0 /\ ls = <<>> /\ regs = [r \in Regs |-> 0]
      /\ task_err = FALSE /\ mstate = "M_IDLE" /\ mem = [c \in Cells |-> 0]
  BY DEF Init, T!TaskInit, T!MPInit, MemInit, T!Regs, Regs
<1>2. ~Answered /\ ~LoadingArgs /\ ~Posted /\ AtRest = TRUE
  BY <1>1 DEF Answered, LoadingArgs, Posted, AtRest
<1>3. VpcBar = 0 /\ MappedRegs = [r \in VM!Regs |-> 0]
  BY <1>1, <1>2, Plain DEF VM!Regs, Regs
<1>4. MappedStack = <<>>
  <2>1. MappedStack = Image(<<>>)
    BY <1>1, <1>2, Plain
  <2>2. <<>> \in Seq(LoopFrames) /\ <<>> \in Seq(VMFrames) /\ Len(<<>>) = 0
    OBVIOUS
  <2>3. Image(<<>>) \in Seq(VMFrames) /\ Len(Image(<<>>)) = 0
    BY <2>2, ImageFacts
  <2>4. Image(<<>>) = <<>>
    BY <2>3, EmptySeq
  <2> QED BY <2>1, <2>4
<1>5. MappedMem = [a \in VM!Word |-> 0]
  <2>1. \A a \in Window : mem[Cell(a)] = 0
    BY <1>1, CoreAssumption DEF Cells
  <2> QED BY <1>2, <2>1 DEF MappedMem, Word, VM!Word
<1>6. ResultBar = VM!NoResult
  BY <1>1, <1>2 DEF ResultBar, T!TaskResult, T!Regs, Regs, VM!NoResult
<1> QED BY <1>1, <1>2, <1>3, <1>4, <1>5, <1>6, Zenon DEF VM!VMInit, VpcBar, ResultBar

LEMMA VMStuttersToo == UNCHANGED vars => UNCHANGED VM!vmVars
<1> SUFFICES ASSUME UNCHANGED vars PROVE UNCHANGED VM!vmVars
  OBVIOUS
<1>1. Answered' <=> Answered
  BY DEF vars, memVars, T!taskVars, T!mpVars, T!D!dispatchVars, Answered
<1>2. LoadingArgs' <=> LoadingArgs
  BY DEF vars, memVars, T!taskVars, T!mpVars, T!D!dispatchVars, LoadingArgs
<1>3. Posted' <=> Posted
  BY DEF vars, memVars, T!taskVars, T!mpVars, T!D!dispatchVars, Posted
<1>4. (AtRest' <=> AtRest) /\ T!TaskResult' = T!TaskResult
  BY DEF vars, memVars, T!taskVars, T!mpVars, T!D!dispatchVars, AtRest, T!TaskResult
<1>5. /\ (T!AdjustedPC(T!LinearPC))' = T!AdjustedPC(T!LinearPC)
      /\ (T!PopOrDecrement(T!LinearPC))' = T!PopOrDecrement(T!LinearPC)
  BY DEF vars, memVars, T!taskVars, T!mpVars, T!D!dispatchVars,
         T!AdjustedPC, T!PopOrDecrement, T!LoopsBack, T!LoopEndsAt, T!Last, T!Front,
         T!LinearPC, T!PCPlus, T!IsTwoWord, T!TwoWordOps
<1>6. /\ istore' = istore /\ pc' = pc /\ ls' = ls /\ regs' = regs /\ iw0' = iw0
      /\ out' = out /\ start' = start /\ mem' = mem /\ cur' = cur /\ task_err' = task_err
  BY DEF vars, memVars, T!taskVars, T!mpVars, T!D!dispatchVars
<1>7. /\ MappedRegs' = MappedRegs /\ VpcBar' = VpcBar /\ MappedStack' = MappedStack
      /\ MappedMem' = MappedMem /\ ResultBar' = ResultBar
  BY <1>1, <1>2, <1>3, <1>4, <1>5, <1>6
     DEF MappedRegs, VpcBar, MappedStack, MappedMem, ResultBar, Written
<1> QED BY <1>4, <1>6, <1>7, Stutters

(* While counts fit and addresses stay in Window, every step of the core on *)
(* programs of the class is a step of the interpreter or changes nothing    *)
(* the interpreter has.                                                     *)
LEMMA EveryStep ==
    ASSUME AllComparable, VMInv, CountsFit, InWindow, [Next]_vars
    PROVE  VMInv' /\ (VM!VMNextStep \/ UNCHANGED VM!vmVars)
<1>1. CASE UNCHANGED vars
  BY <1>1, VMStuttersToo, VMInvStutter
<1>2. CASE Next
  BY <1>2, VMInvStep, ExecuteStep, WaitStep, OtherStep DEF Next
<1> QED BY <1>1, <1>2

(* The core implements the interpreter, on programs of the class, as long   *)
(* as the counts of loops fit a frame and no two addresses asked for share  *)
(* a cell (rtl/tiara_nic/tiara_mp.sv against web/src/engine/vm.ts).         *)
THEOREM ImplementsWhileFitting ==
    AllComparable => (Spec /\ []CountsFit /\ []InWindow => RefinesVM)
<1> SUFFICES ASSUME AllComparable PROVE Spec /\ []CountsFit /\ []InWindow => RefinesVM
  OBVIOUS
<1>1. Init => VMInv /\ VM!VMInit
  BY VMInvInit, VMInitial
<1>2. VMInv /\ CountsFit /\ InWindow /\ [Next]_vars => VMInv' /\ [VM!VMNextStep]_(VM!vmVars)
  BY EveryStep
<1> QED BY <1>1, <1>2, PTL DEF Spec, RefinesVM, VM!VMSpec

-----------------------------------------------------------------------------
(***************************************************************************)
(* Programs that keep to that: their counts and addresses are arguments no  *)
(* instruction overwrites, and the arguments are in range.                 *)
(***************************************************************************)
Untouched(p) ==
    {0} \cup {r \in 1 .. NUM_ARGS : \A b \in DOMAIN p : WritesReg(p[b]) => p[b].rd # r}
Given(args, r) == IF r = 0 THEN 0 ELSE args[r]

CountsAreArguments ==
    \A p \in Programs : \A a \in Loops(p) :
        /\ p[a].rs1 \in Untouched(p)
        /\ \A args \in ArgSets : Given(args, p[a].rs1) \in 1 .. 2^COUNTW

MemoryOps == {"LOAD", "STORE", "CAS", "CAA"}
AddressOf(w, base) ==
    IF w.op \in {"LOAD", "STORE"} THEN Wrap(base + SignedImm(w.imm)) ELSE base
AddressesAreArguments ==
    \A p \in Programs : \A a \in DOMAIN p : p[a].op \in MemoryOps =>
        /\ p[a].rs1 \in Untouched(p)
        /\ \A args \in ArgSets : AddressOf(p[a], Given(args, p[a].rs1)) \in Window

(* Those registers still hold the arguments.                                *)
HeldInv ==
    /\ DOMAIN regs = Regs
    /\ Busy /\ ~LoadingArgs =>
         \A r \in Untouched(istore) : regs[r] = Given(start.args, r)

(* A cycle of the MP that is not about arguments changes one register, the  *)
(* rd of an instruction that writes one.                                    *)
WriteView ==
    \/ regs' = regs
    \/ state = "S_IDLE" /\ start.valid
    \/ LoadingArgs
    \/ /\ Executes /\ WritesReg(iw0) /\ iw0.rd # 0
       /\ DOMAIN regs' = DOMAIN regs
       /\ \A r \in DOMAIN regs : r # iw0.rd => regs'[r] = regs[r]

LEMMA WriteIs ==
    ASSUME NEW r, NEW v, T!WriteReg(r, v)
    PROVE  /\ DOMAIN regs' = DOMAIN regs /\ (regs' = regs \/ r # 0)
           /\ \A q \in DOMAIN regs : q # r => regs'[q] = regs[q]
  BY DEF T!WriteReg

LEMMA ViewOfWrite ==
    ASSUME T!MPStep, FetchInv, CoreInv
    PROVE  WriteView
<1> USE DEF WriteView
<1>1. CASE T!Idle \/ T!StartTask
  BY <1>1 DEF T!Idle, T!StartTask
<1>2. CASE T!LoadArgument
  BY <1>2 DEF T!LoadArgument, LoadingArgs
<1>3. CASE T!Fetch1 \/ T!Fetch2 \/ T!Latch1 \/ T!Latch2
  BY <1>3 DEF T!Fetch1, T!Fetch2, T!Fetch, T!Latch1, T!Latch2
<1>4. CASE T!ExecCompute
  <2>1. state = "S_EXECUTE" /\ iw0.op = "COMPUTE"
    BY <1>4 DEF T!ExecCompute, T!Executing
  <2>2. regs' = regs \/ T!WriteReg(iw0.rd, T!RtlAlu(iw0.sub, T!rs1v, T!rs2v, iw0.imm))
    BY <1>4 DEF T!ExecCompute
  <2> QED BY <2>1, <2>2, WriteIs DEF Executes, WritesReg
<1>5. CASE T!ExecNop \/ T!ExecSyncMem \/ T!ExecStore \/ T!ExecJump \/ T!ExecLoop
           \/ T!ExecRet \/ T!ExecMemcpy \/ T!ExecWait \/ T!ExecIllegal
  BY <1>5 DEF T!ExecNop, T!ExecSyncMem, T!ExecStore, T!ExecJump, T!ExecLoop, T!ExecRet,
              T!ExecMemcpy, T!ExecWait, T!ExecIllegal, T!IssueTo
<1>6. CASE T!MemWait
  <2>1. state = "S_MEM_WAIT" /\ iw0.op \in SyncOps
    BY <1>6 DEF T!MemWait, CoreInv, Waiting
  <2>2. regs' = regs \/ \E v : T!WriteReg(iw0.rd, v)
    BY <1>6 DEF T!MemWait
  <2> QED BY <2>1, <2>2, WriteIs DEF Executes, WritesReg, SyncOps
<1>7. CASE T!MemAsync \/ T!WaitDrain \/ T!MulWait
  BY <1>7 DEF T!MemAsync, T!WaitDrain, T!MulWait, FetchInv
<1>8. CASE T!Finish
  BY <1>8 DEF T!Finish
<1> QED BY <1>1, <1>2, <1>3, <1>4, <1>5, <1>6, <1>7, <1>8 DEF T!MPStep

LEMMA Fitting ==
    ASSUME AllComparable, CountsAreArguments, AddressesAreArguments, VMInv, HeldInv
    PROVE  CountsFit /\ InWindow
<1>1. CASE state # "S_EXECUTE"
  BY <1>1 DEF CountsFit, InWindow, T!MemRequest, T!NoRequest
<1>2. CASE state = "S_EXECUTE"
  <2>1. istore \in Programs /\ pc \in 0 .. LastRet(istore) /\ iw0 = istore[pc]
    BY <1>2, AtPC DEF VMInv, Executes
  <2>2. pc \in 0 .. DEPTH - 1 /\ DOMAIN istore = 0 .. DEPTH - 1
    BY <2>1, ProgramFacts, Immediates
  <2>3. start.args \in ArgSets
    BY <1>2 DEF VMInv, ArgsInv, T!HandshakeExact
  <2>4. iw0.rs1 \in Untouched(istore) => regs[iw0.rs1] = Given(start.args, iw0.rs1)
    BY <1>2 DEF HeldInv, Busy, LoadingArgs
  <2>5. CountsFit
    <3>1. iw0.op = "LOOP" => pc \in Loops(istore)
      BY <2>1, <2>2 DEF Loops, Those
    <3> QED BY <2>1, <2>3, <2>4, <3>1 DEF CountsFit, CountsAreArguments, T!rs1v
  <2>6. InWindow
    <3>1. iw0.op \in SharedOps
      BY <1>2, AtPC DEF VMInv, Executes, Shared
    <3>2. T!MemRequest.kind # "none" =>
            iw0.op \in MemoryOps /\ T!MemRequest.addr = AddressOf(iw0, regs[iw0.rs1])
      BY <1>2, <3>1
         DEF T!MemRequest, T!NoRequest, T!rs1v, MemoryOps, AddressOf, SharedOps,
             T!Wrap, Wrap, T!SignedImm, SignedImm
    <3>3. iw0.op \in MemoryOps =>
            /\ iw0.rs1 \in Untouched(istore)
            /\ AddressOf(iw0, Given(start.args, iw0.rs1)) \in Window
      BY <2>1, <2>2, <2>3 DEF AddressesAreArguments
    <3> QED BY <2>4, <3>2, <3>3 DEF InWindow
  <2> QED BY <2>5, <2>6
<1> QED BY <1>1, <1>2

LEMMA HeldStep ==
    ASSUME AllComparable, VMInv, HeldInv, NEW args \in T!Offers, Tick(args)
    PROVE  HeldInv'
<1>1. RunView /\ WriteView /\ istore' = istore /\ StartView
  BY ViewOfRun, ViewOfWrite, ViewOfStart DEF Tick, T!TaskStep, VMInv, RequestInv
<1>2. Busy => start'.args = start.args
  BY <1>1 DEF VMInv, ArgsInv, Busy, T!HandshakeExact, StartView
<1>3. NUM_ARGS \in 1 .. NUM_REGS - 1 /\ NUM_REGS \in Nat \ {0}
  BY CoreAssumption, IsaAssumption DEF T!TaskAssumption
<1>4. \A r \in Untouched(istore) : r \in Regs /\ (r = 0 \/ r \in 1 .. NUM_ARGS)
  BY <1>3 DEF Untouched, Regs
<1>5. Untouched(istore') = Untouched(istore)
  BY <1>1
<1>6. CASE state = "S_IDLE"
  <2>1. CASE start.valid
    <3>1. state' = "S_FETCH1" /\ arg_idx' = 0 /\ regs' = [r \in Regs |-> 0]
      BY <1>1, <1>6, <2>1 DEF RunView
    <3> QED BY <1>3, <3>1 DEF HeldInv, LoadingArgs
  <2>2. CASE ~start.valid
    <3>1. state' = "S_IDLE" /\ regs' = regs
      BY <1>1, <1>6, <2>2 DEF RunView, WriteView, LoadingArgs, Executes
    <3> QED BY <3>1 DEF HeldInv, Busy
  <2> QED BY <2>1, <2>2
<1>7. CASE LoadingArgs
  <2>1. /\ regs = [r \in Regs |-> IF r \in 1 .. arg_idx THEN start.args[r] ELSE 0]
        /\ state' = "S_FETCH1" /\ arg_idx' = arg_idx + 1 /\ arg_idx \in 0 .. NUM_ARGS - 1
        /\ regs' = [regs EXCEPT ![arg_idx + 1] = start.args[arg_idx + 1]]
        /\ start'.args = start.args
    BY <1>1, <1>2, <1>3, <1>7 DEF VMInv, ArgsInv, LoadingArgs, RunView, Busy
  <2>2. DOMAIN regs' = Regs
    BY <2>1
  <2>3. ASSUME ~LoadingArgs', NEW r \in Untouched(istore)
        PROVE  regs'[r] = Given(start.args, r)
    <3>1. arg_idx + 1 = NUM_ARGS
      BY <1>3, <2>1, <2>3 DEF LoadingArgs
    <3>2. CASE r = 0
      <4>1. r \in Regs /\ r # arg_idx + 1 /\ r \notin 1 .. arg_idx
        BY <1>4, <2>1, <3>2
      <4> QED BY <2>1, <3>2, <4>1 DEF Given
    <3>3. CASE r = arg_idx + 1
      BY <1>4, <2>1, <3>3 DEF Given
    <3>4. CASE r # 0 /\ r # arg_idx + 1
      <4>1. r \in Regs /\ r \in 1 .. arg_idx
        BY <1>3, <1>4, <2>1, <2>3, <3>1, <3>4
      <4> QED BY <2>1, <3>4, <4>1 DEF Given
    <3> QED BY <3>2, <3>3, <3>4
  <2> QED BY <1>5, <2>1, <2>2, <2>3 DEF HeldInv
<1>8. CASE state # "S_IDLE" /\ ~LoadingArgs
  <2>1. Busy' => Busy
    BY <1>1, <1>8 DEF RunView, Busy
  <2>2. CASE regs' = regs
    BY <1>1, <1>2, <1>5, <1>8, <2>1, <2>2 DEF HeldInv
  <2>3. CASE regs' # regs
    <3>1. /\ Executes /\ WritesReg(iw0) /\ DOMAIN regs' = DOMAIN regs /\ iw0.rd # 0
          /\ \A r \in DOMAIN regs : r # iw0.rd => regs'[r] = regs[r]
      BY <1>1, <1>8, <2>3 DEF WriteView
    <3>2. iw0 = istore[pc] /\ pc \in DOMAIN istore
      BY <3>1, AtPC, ProgramFacts, Immediates DEF VMInv
    <3>3. \A r \in Untouched(istore) : r # iw0.rd
      BY <3>1, <3>2 DEF Untouched
    <3> QED BY <1>1, <1>2, <1>4, <1>5, <1>8, <2>1, <3>1, <3>3 DEF HeldInv
  <2> QED BY <2>2, <2>3
<1> QED BY <1>6, <1>7, <1>8

LEMMA HeldStutter == HeldInv /\ UNCHANGED vars => HeldInv'
  BY DEF HeldInv, Busy, LoadingArgs, vars, memVars, T!taskVars, T!mpVars, T!D!dispatchVars

(* The core implements the interpreter, on programs of the class whose      *)
(* counts and addresses are arguments nothing overwrites, for arguments in  *)
(* range (rtl/tiara_nic/tiara_mp.sv against web/src/engine/vm.ts).          *)
THEOREM ImplementsVM ==
    AllComparable /\ CountsAreArguments /\ AddressesAreArguments => (Spec => RefinesVM)
<1> SUFFICES ASSUME AllComparable, CountsAreArguments, AddressesAreArguments
             PROVE  Spec => RefinesVM
  OBVIOUS
<1>1. Init => VMInv /\ HeldInv
  <2> SUFFICES ASSUME Init PROVE VMInv /\ HeldInv
    OBVIOUS
  <2>1. state = "S_IDLE" /\ regs = [r \in T!Regs |-> 0]
    BY DEF Init, T!TaskInit, T!MPInit
  <2> QED BY <2>1, VMInvInit DEF HeldInv, Busy, T!Regs, Regs
<1>2. VMInv /\ HeldInv => CountsFit /\ InWindow
  BY Fitting
<1>3. VMInv /\ HeldInv /\ [Next]_vars => VMInv' /\ HeldInv'
  <2> SUFFICES ASSUME VMInv, HeldInv, [Next]_vars PROVE VMInv' /\ HeldInv'
    OBVIOUS
  <2>1. CASE UNCHANGED vars
    BY <2>1, VMInvStutter, HeldStutter
  <2>2. CASE Next
    BY <2>2, <1>2, VMInvStep, HeldStep DEF Next
  <2> QED BY <2>1, <2>2
<1>4. AllComparable
  OBVIOUS
<1> QED BY <1>1, <1>2, <1>3, <1>4, ImplementsWhileFitting, PTL DEF Spec

=============================================================================
