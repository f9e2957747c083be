------------------------------- MODULE TiaraMP -------------------------------
(***************************************************************************)
(* rtl/tiara_nic/tiara_mp.sv, one memory processor, with the parts it      *)
(* instantiates: tiara_istore, tiara_regfile, tiara_alu and                *)
(* tiara_loop_stack.  A step is one clock edge; the actions are the states *)
(* of the main FSM, S_EXECUTE split by opcode.                             *)
(*                                                                         *)
(* The module is composed with a memory (TiaraCore, TiaraTop): `port` is   *)
(* what the memory drives on tiara_mem_if in this cycle, MemRequest what   *)
(* the MP drives on it.                                                    *)
(***************************************************************************)
EXTENDS TiaraIsa, Sequences, SequencesExt

CONSTANTS DEPTH,            \* words of instruction store (INSTR_STORE_DEPTH)
          NUM_ARGS,         \* task arguments (8 in the code)
          MAX_LOOP_NEST,    \* depth of the loop stack (8 in the code)
          COUNTW,           \* bits of a frame's count (32 in the code)
          MAX_IN_FLIGHT     \* values of the in-flight counter (2^6)

VARIABLES
    istore,          \* instruction store: address -> instruction word
    start,           \* the dispatcher's start pulse, start pc and arguments
    port,            \* what the memory drives: ready, sync_*, cpy_*
    state,           \* FSM state
    pc,
    inflight,        \* async copies accepted and not done
    wait_threshold,
    ifetch,          \* read register of the instruction store
    iw0, iw1,        \* latched instruction words
    regs,
    arg_idx,         \* arguments loaded so far (NUM_ARGS: args_loaded)
    ls,              \* loop stack, top last: [begin, end, remain]
    mul,             \* multiplier pipeline: operand registers and product
    task_done,
    task_err

mpVars == <<state, pc, inflight, wait_threshold, ifetch, iw0, iw1, regs,
            arg_idx, ls, mul, task_done, task_err>>

PCs == 0 .. DEPTH - 1
States == {"S_IDLE", "S_FETCH1", "S_FETCH1_W", "S_FETCH2", "S_FETCH2_W",
           "S_EXECUTE", "S_MEM_WAIT", "S_MEM_ASYNC", "S_WAIT", "S_MUL_WAIT",
           "S_DONE", "S_FAULT"}
Counts == 0 .. 2^COUNTW - 1
Frames == [begin : PCs, end : PCs, remain : Counts]

MPTypeOK ==
    /\ state \in States
    /\ pc \in PCs
    /\ inflight \in 0 .. MAX_IN_FLIGHT - 1
    /\ wait_threshold \in ImmField
    /\ regs \in [Regs -> Word] /\ regs[0] = 0
    /\ arg_idx \in 0 .. NUM_ARGS
    /\ Len(ls) <= MAX_LOOP_NEST
    /\ \A i \in 1 .. Len(ls) : ls[i] \in Frames
    /\ mul \in [a : Word, b : Word, pipe : Word]
    /\ task_done \in BOOLEAN /\ task_err \in BOOLEAN

MPInit ==
    /\ state = "S_IDLE" /\ pc = 0 /\ inflight = 0 /\ wait_threshold = 0
    /\ ifetch = NopWord /\ iw0 = NopWord /\ iw1 = NopWord
    /\ regs = [r \in Regs |-> 0]
    /\ arg_idx = 0 /\ ls = <<>>
    /\ mul = [a |-> 0, b |-> 0, pipe |-> 0]
    /\ task_done = FALSE /\ task_err = FALSE
-----------------------------------------------------------------------------
(* Combinational signals.                                                  *)
PCPlus(n) == (pc + n) % DEPTH
rs1v == regs[iw0.rs1]
rs2v == regs[iw0.rs2]
rd2v == regs[iw1.rd]
NoFrame == [begin |-> 0, end |-> 0, remain |-> 0]

(* What the MP drives on the memory interface: at most one request, in      *)
(* S_EXECUTE only (lines 437-482).                                         *)
NoRequest == [kind |-> "none", addr |-> 0, data |-> 0, swap |-> 0, len |-> 0,
              async |-> FALSE]
MemRequest ==
    IF state # "S_EXECUTE" THEN NoRequest
    ELSE CASE iw0.op = "LOAD"   -> [NoRequest EXCEPT !.kind = "LOAD",
                                      !.addr = Wrap(rs1v + SignedImm(iw0.imm))]
           [] iw0.op = "STORE"  -> [NoRequest EXCEPT !.kind = "STORE",
                                      !.addr = Wrap(rs1v + SignedImm(iw0.imm)),
                                      !.data = rs2v]
           [] iw0.op = "MEMCPY" -> [NoRequest EXCEPT !.kind = "CPY",
                                      !.addr = rs1v, !.data = rs2v,
                                      !.len = iw0.imm, !.async = IsAsync(iw0)]
           [] iw0.op = "CAS"    -> [NoRequest EXCEPT !.kind = "CAS",
                                      !.addr = rs1v, !.data = rs2v, !.swap = rd2v]
           [] iw0.op = "CAA"    -> [NoRequest EXCEPT !.kind = "CAA",
                                      !.addr = rs1v, !.data = rs2v]
           [] OTHER             -> NoRequest

(* The loop frame that ends where this instruction goes (lines 589-597).    *)
LoopEndsAt(raw) == ls # <<>> /\ Last(ls).end = raw
LoopsBack(raw) == LoopEndsAt(raw) /\ Last(ls).remain # 0

AdjustedPC(raw) == IF LoopsBack(raw) THEN Last(ls).begin ELSE raw

PopOrDecrement(raw) ==
    IF LoopsBack(raw) THEN [ls EXCEPT ![Len(ls)].remain = @ - 1]
    ELSE IF LoopEndsAt(raw) THEN Front(ls) ELSE ls

\* Mutant of LinearPC: every instruction is one word.
LinearPCOneWord == PCPlus(1)
LinearPC == PCPlus(IF IsTwoWord(iw0) THEN 2 ELSE 1)

(* Commit the instruction and go on at raw: program counter and, unless the *)
(* instruction pushes a frame, the loop stack.                             *)
GoTo(raw, next) == pc' = AdjustedPC(raw) /\ state' = next
Commit(raw) == GoTo(raw, "S_FETCH1") /\ ls' = PopOrDecrement(raw)

WriteReg(r, v) == regs' = IF r = 0 THEN regs ELSE [regs EXCEPT ![r] = v]

\* Mutant of Accepted: the accept pulse is expected in the issuing cycle.
AcceptedAtIssue == /\ port.cpy_accept
                   /\ MemRequest.kind = "CPY" /\ MemRequest.async

(* In-flight copies (lines 242-255): the later assignment, the decrement,   *)
(* wins when a copy is accepted and another completes in one cycle.        *)
Accepted == /\ port.cpy_accept
            /\ state = "S_MEM_ASYNC"
                 \/ (MemRequest.kind = "CPY" /\ MemRequest.async)
\* Mutant of CountInFlight: a done pulse always decrements.
CountNoFloor ==
    inflight' = IF port.cpy_done THEN (inflight - 1) % MAX_IN_FLIGHT
                ELSE IF Accepted THEN (inflight + 1) % MAX_IN_FLIGHT
                ELSE inflight
CountInFlight ==
    inflight' = IF port.cpy_done /\ inflight # 0 THEN inflight - 1
                ELSE IF Accepted THEN (inflight + 1) % MAX_IN_FLIGHT
                ELSE inflight

MulIssued == state = "S_EXECUTE" /\ iw0.op = "COMPUTE" /\ iw0.sub = "MUL"

(* Registers that change every cycle whatever the state.                   *)
EveryCycle ==
    /\ task_done' = (state = "S_DONE")
    /\ mul' = [a |-> IF MulIssued THEN rs1v ELSE mul.a,
               b |-> IF MulIssued THEN rs2v ELSE mul.b,
               pipe |-> Wrap(mul.a * mul.b)]
-----------------------------------------------------------------------------
(* The FSM states.                                                         *)
Idle ==
    /\ state = "S_IDLE" /\ ~start.valid
    /\ CountInFlight
    /\ UNCHANGED <<state, pc, wait_threshold, ifetch, iw0, iw1, regs, arg_idx,
                   ls, task_err>>

StartTask ==
    /\ state = "S_IDLE" /\ start.valid
    /\ state' = "S_FETCH1"
    /\ pc' = start.pc
    /\ regs' = [r \in Regs |-> 0]
    /\ arg_idx' = 0 /\ inflight' = 0 /\ task_err' = FALSE
    /\ UNCHANGED <<wait_threshold, ifetch, iw0, iw1, ls>>

LoadArgument ==
    /\ state = "S_FETCH1" /\ arg_idx < NUM_ARGS
    /\ WriteReg(arg_idx + 1, start.args[arg_idx + 1])
    /\ arg_idx' = arg_idx + 1
    /\ CountInFlight
    /\ UNCHANGED <<state, pc, wait_threshold, ifetch, iw0, iw1, ls, task_err>>

Fetch(from, to, addr) ==
    /\ state = from
    /\ ifetch' = istore[addr]
    /\ state' = to
    /\ CountInFlight
    /\ UNCHANGED <<pc, wait_threshold, iw0, iw1, regs, arg_idx, ls, task_err>>
Fetch1 == arg_idx = NUM_ARGS /\ Fetch("S_FETCH1", "S_FETCH1_W", pc)
Fetch2 == Fetch("S_FETCH2", "S_FETCH2_W", PCPlus(1))

(* The top bit of the word says that a second one follows.  "BAD" is any    *)
(* byte that encodes no opcode, with that bit set or clear.                *)
AfterLatch(w) ==
    IF IsTwoWord(w) THEN {"S_FETCH2"}
    ELSE IF w.op = "BAD" THEN {"S_FETCH2", "S_EXECUTE"} ELSE {"S_EXECUTE"}

Latch1 ==
    /\ state = "S_FETCH1_W"
    /\ iw0' = ifetch
    /\ state' \in AfterLatch(ifetch)
    /\ CountInFlight
    /\ UNCHANGED <<pc, wait_threshold, ifetch, iw1, regs, arg_idx, ls, task_err>>

Latch2 ==
    /\ state = "S_FETCH2_W"
    /\ iw1' = ifetch
    /\ state' = "S_EXECUTE"
    /\ CountInFlight
    /\ UNCHANGED <<pc, wait_threshold, ifetch, iw0, regs, arg_idx, ls, task_err>>

Executing(op) ==
    /\ state = "S_EXECUTE" /\ iw0.op = op
    /\ CountInFlight
    /\ UNCHANGED <<ifetch, iw0, iw1, arg_idx, task_err>>

ExecNop ==
    /\ Executing("NOP")
    /\ Commit(LinearPC)
    /\ UNCHANGED <<wait_threshold, regs>>

ExecCompute ==
    /\ Executing("COMPUTE")
    /\ IF iw0.sub = "MUL"
       THEN state' = "S_MUL_WAIT" /\ UNCHANGED <<pc, regs, ls>>
       ELSE /\ WriteReg(iw0.rd, RtlAlu(iw0.sub, rs1v, rs2v, iw0.imm))
            /\ Commit(LinearPC)
    /\ UNCHANGED wait_threshold

\* Mutant of IssueTo: the request counts as taken at once.
IssueUnheard(next) ==
    /\ state' = next
    /\ UNCHANGED <<pc, wait_threshold, regs, ls>>

(* LOAD, CAS and CAA wait for the memory to take the request, then for its  *)
(* answer; so does MEMCPY, async copies for the accept pulse only.         *)
IssueTo(next) ==
    /\ state' = IF port.ready THEN next ELSE state
    /\ UNCHANGED <<pc, wait_threshold, regs, ls>>

ExecSyncMem == \E op \in {"LOAD", "CAS", "CAA"} : Executing(op) /\ IssueTo("S_MEM_WAIT")

ExecMemcpy ==
    /\ Executing("MEMCPY")
    /\ IssueTo(IF IsAsync(iw0) THEN "S_MEM_ASYNC" ELSE "S_MEM_WAIT")

(* STORE is posted: the MP goes on as soon as the request is taken.        *)
ExecStore ==
    /\ Executing("STORE")
    /\ IF port.ready THEN Commit(LinearPC)
       ELSE UNCHANGED <<state, pc, ls>>
    /\ UNCHANGED <<wait_threshold, regs>>

ExecJump ==
    /\ Executing("JUMP")
    /\ Commit(IF rs1v # 0 /\ SignedImm(iw0.imm) > 0 THEN PCPlus(iw0.imm)
              ELSE LinearPC)
    /\ UNCHANGED <<wait_threshold, regs>>

(* The low COUNTW bits of the register, less one, in as many bits.  The     *)
(* test for zero looks at the whole register.                              *)
\* Mutant of CountOf: the iterations left count the one that begins.
CountWithFirst(x) == x % 2^COUNTW
CountOf(x) == (x - 1) % 2^COUNTW

(* A push takes precedence over the pop or decrement of the same cycle      *)
(* (tiara_loop_stack.sv 57-66).                                            *)
ExecLoop ==
    /\ Executing("LOOP")
    /\ GoTo(LinearPC, "S_FETCH1")
    /\ ls' = IF Len(ls) < MAX_LOOP_NEST /\ rs1v # 0
             THEN Append(ls, [begin |-> PCPlus(1),
                              end |-> (pc + SignedImm(iw0.imm) + 1) % DEPTH,
                              remain |-> CountOf(rs1v)])
             ELSE PopOrDecrement(LinearPC)
    /\ UNCHANGED <<wait_threshold, regs>>

(* WAIT advances the program counter here and again in S_WAIT.             *)
ExecWait ==
    /\ Executing("WAIT")
    /\ GoTo(LinearPC, "S_WAIT")
    /\ ls' = PopOrDecrement(LinearPC)
    /\ wait_threshold' = IF iw0.sub = "ADD" THEN iw0.imm % 16 ELSE 0
    /\ UNCHANGED regs

ExecRet ==
    /\ Executing("RET")
    /\ state' = "S_DONE"
    /\ UNCHANGED <<pc, wait_threshold, regs, ls>>

ExecIllegal ==
    /\ Executing("BAD")
    /\ state' = "S_FAULT"
    /\ UNCHANGED <<pc, wait_threshold, regs, ls>>

(* S_MEM_WAIT takes whatever sync_valid the memory raises as the answer.   *)
MemWait ==
    /\ state = "S_MEM_WAIT"
    /\ IF port.sync_valid
       THEN /\ WriteReg(iw0.rd, IF iw0.op = "MEMCPY" THEN BoolWord(port.sync_err)
                                ELSE port.sync_data)
            /\ Commit(LinearPC)
            /\ task_err' = (task_err \/ port.sync_err)
       ELSE UNCHANGED <<state, pc, ls, regs, task_err>>
    /\ CountInFlight
    /\ UNCHANGED <<wait_threshold, ifetch, iw0, iw1, arg_idx>>

MemAsync ==
    /\ state = "S_MEM_ASYNC"
    /\ IF port.cpy_accept
       THEN WriteReg(iw0.rd, BoolWord(port.cpy_err)) /\ Commit(LinearPC)
       ELSE UNCHANGED <<state, pc, ls, regs>>
    /\ CountInFlight
    /\ UNCHANGED <<wait_threshold, ifetch, iw0, iw1, arg_idx, task_err>>

WaitDrain ==
    /\ state = "S_WAIT"
    /\ IF inflight <= wait_threshold THEN Commit(LinearPC)
       ELSE UNCHANGED <<state, pc, ls>>
    /\ CountInFlight
    /\ UNCHANGED <<wait_threshold, ifetch, iw0, iw1, regs, arg_idx, task_err>>

(* The product of the operands latched at the previous edge is not in the   *)
(* pipeline register yet (tiara_alu.sv 32-44).                             *)
MulWait ==
    /\ state = "S_MUL_WAIT"
    /\ WriteReg(iw0.rd, mul.pipe)
    /\ Commit(LinearPC)
    /\ CountInFlight
    /\ UNCHANGED <<wait_threshold, ifetch, iw0, iw1, arg_idx, task_err>>

\* Mutant of Finish: a fault is never left.
FinishOrHang ==
    /\ state \in {"S_DONE", "S_FAULT"}
    /\ state' = IF state = "S_FAULT" THEN "S_FAULT" ELSE "S_IDLE"
    /\ CountInFlight
    /\ UNCHANGED <<pc, wait_threshold, ifetch, iw0, iw1, regs, arg_idx, ls,
                   task_err>>
Finish ==
    /\ state \in {"S_DONE", "S_FAULT"}
    /\ state' = IF state = "S_FAULT" THEN "S_DONE" ELSE "S_IDLE"
    /\ CountInFlight
    /\ UNCHANGED <<pc, wait_threshold, ifetch, iw0, iw1, regs, arg_idx, ls,
                   task_err>>

MPStep ==
    /\ EveryCycle
    /\ \/ Idle \/ StartTask \/ LoadArgument \/ Fetch1 \/ Fetch2
       \/ Latch1 \/ Latch2
       \/ ExecNop \/ ExecCompute \/ ExecSyncMem \/ ExecMemcpy \/ ExecStore
       \/ ExecJump \/ ExecLoop \/ ExecWait \/ ExecRet \/ ExecIllegal
       \/ MemWait \/ MemAsync \/ WaitDrain \/ MulWait \/ Finish

(* r1..r4 as the result port shows them.                                   *)
TaskResult == [i \in 1 .. 4 |-> IF i \in Regs THEN regs[i] ELSE 0]
=============================================================================
