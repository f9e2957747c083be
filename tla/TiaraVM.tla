------------------------------- MODULE TiaraVM -------------------------------
(***************************************************************************)
(* web/src/engine/vm.ts: the instruction-level interpreter, the reference  *)
(* the memory processor is compared with.  A step is one call of step(),   *)
(* or of reset() for the next task; memory survives from task to task.     *)
(***************************************************************************)
EXTENDS TiaraIsa, SequencesExt

CONSTANTS NUM_ARGS,                \* task arguments
          MAX_INFLIGHT_PER_TASK,   \* cap of the in-flight counter
          DATA_COPY_WORD_CAP,      \* words a copy moves at most
          WORD_BYTES,              \* addresses a word takes (8; 1 where memory is counted in words)
          ArgSets                  \* argument vectors tasks are invoked with

VARIABLES words,       \* the program
          vregs, vpc,
          loopStack,   \* frames [start, end, remaining], top last
          vmem,
          inFlight,    \* the in-flight counter,
          completions, \* ... and how many copies really have yet to complete
          halted, err,
          result       \* r1..r4 captured by RET

vmVars == <<words, vregs, vpc, loopStack, vmem, inFlight, completions, halted,
            err, result>>
counters == <<inFlight, completions>>

NoResult == [i \in 1 .. 4 |-> 0]
Head0 == words[vpc]
Extra == words[vpc + 1]
R(r) == vregs[r]
Len0 == Cardinality(DOMAIN words)

VMInit ==
    /\ halted = TRUE /\ err = FALSE /\ vpc = 0
    /\ vregs = [r \in Regs |-> 0]
    /\ loopStack = <<>> /\ inFlight = 0 /\ completions = 0 /\ result = NoResult
    /\ vmem = [a \in Word |-> 0]

(* reset(args).  Missing arguments are 0.                                  *)
VMFresh(args) ==
    /\ vregs' = [r \in Regs |-> IF r \in 1 .. NUM_ARGS THEN args[r] ELSE 0]
    /\ vpc' = 0 /\ loopStack' = <<>> /\ inFlight' = 0 /\ completions' = 0
    /\ halted' = FALSE /\ err' = FALSE /\ result' = NoResult

(* The next task, after the previous one halted.                           *)
VMReset(args) == halted /\ VMFresh(args) /\ UNCHANGED <<words, vmem>>

VMSet(r, v) == vregs' = IF r = 0 THEN vregs ELSE [vregs EXCEPT ![r] = v]

\* Mutant of VMGoTo: an iteration is not counted.
VMGoToUncounted(np, stack) ==
    LET again == stack # <<>> /\ Last(stack).end = np
        to == IF again THEN Last(stack).start ELSE np
    IN  /\ loopStack' = stack
        /\ vpc' = to
        /\ halted' = (to >= Len0) /\ err' = (to >= Len0)
        /\ UNCHANGED <<words, result>>

(***************************************************************************)
(* resolveLoops(np): frames that end at np in their last iteration are     *)
(* popped, then the frame below, if it ends at np too, starts over.        *)
(***************************************************************************)
VMGoTo(np, stack) ==
    LET lastTime(i) == stack[i].end = np /\ stack[i].remaining <= 1
        k == CHOOSE j \in 0 .. Len(stack) :
               /\ \A i \in j + 1 .. Len(stack) : lastTime(i)
               /\ j > 0 => ~lastTime(j)
        kept == SubSeq(stack, 1, k)
        again == k > 0 /\ stack[k].end = np
        to == IF again THEN stack[k].start ELSE np
    IN  /\ loopStack' = IF again THEN [kept EXCEPT ![k].remaining = @ - 1]
                                 ELSE kept
        /\ vpc' = to
        /\ halted' = (to >= Len0)         \* ran past the end: missing RET
        /\ err' = (to >= Len0)
        /\ UNCHANGED <<words, result>>

VMNext == VMGoTo(vpc + (IF IsTwoWord(Head0) THEN 2 ELSE 1), loopStack)

Stepping(op) == ~halted /\ Head0.op = op

VMNop == Stepping("NOP") /\ VMNext /\ UNCHANGED <<vregs, vmem, counters>>

VMCompute ==
    /\ Stepping("COMPUTE")
    /\ VMSet(Head0.rd, VmAlu(Head0.sub, R(Head0.rs1), R(Head0.rs2), Head0.imm))
    /\ VMNext
    /\ UNCHANGED <<vmem, counters>>

MemAddr == Wrap(R(Head0.rs1) + SignedImm(Head0.imm))

VMLoad ==
    /\ Stepping("LOAD")
    /\ VMSet(Head0.rd, vmem[MemAddr])
    /\ VMNext
    /\ UNCHANGED <<vmem, counters>>

VMStore ==
    /\ Stepping("STORE")
    /\ vmem' = [vmem EXCEPT ![MemAddr] = R(Head0.rs2)]
    /\ VMNext
    /\ UNCHANGED <<vregs, counters>>

VMCas ==
    /\ Stepping("CAS")
    /\ VMSet(Head0.rd, vmem[R(Head0.rs1)])
    /\ vmem' = [vmem EXCEPT ![R(Head0.rs1)] =
                  IF @ = R(Head0.rs2) THEN R(Extra.rd) ELSE @]
    /\ VMNext
    /\ UNCHANGED counters

VMCaa ==
    /\ Stepping("CAA")
    /\ VMSet(Head0.rd, vmem[R(Head0.rs1)])
    /\ vmem' = [vmem EXCEPT ![R(Head0.rs1)] = Wrap(@ + R(Head0.rs2))]
    /\ VMNext
    /\ UNCHANGED counters

VMJump ==
    /\ Stepping("JUMP")
    /\ IF R(Head0.rs1) # 0 THEN VMGoTo(vpc + SignedImm(Head0.imm), loopStack)
       ELSE VMNext
    /\ UNCHANGED <<vregs, vmem, counters>>

(* A zero count skips the body; the new frame takes part in resolveLoops.  *)
VMLoop ==
    /\ Stepping("LOOP")
    /\ LET count == R(Head0.rs1)
           endPc == vpc + 1 + SignedImm(Head0.imm)
       IN  IF count = 0 THEN VMGoTo(endPc, loopStack)
           ELSE VMGoTo(vpc + 1, Append(loopStack, [start |-> vpc + 1, end |-> endPc,
                                                   remaining |-> count]))
    /\ UNCHANGED <<vregs, vmem, counters>>

\* Mutant of VMWait: one copy too many may stay under way.
VMWaitOneShort ==
    /\ Stepping("WAIT")
    /\ LET above   == Max({0, inFlight - SignedImm(Head0.imm) - 1})
           drained == Min({above, completions})
       IN  inFlight' = inFlight - drained /\ completions' = completions - drained
    /\ VMNext
    /\ UNCHANGED <<vregs, vmem>>

(* A wait completes copies, the earliest first, until the counter is down   *)
(* to the threshold or no copy is left.                                    *)
VMWait ==
    /\ Stepping("WAIT")
    /\ LET above   == Max({0, inFlight - SignedImm(Head0.imm)})
           drained == Min({above, completions})
       IN  inFlight' = inFlight - drained /\ completions' = completions - drained
    /\ VMNext
    /\ UNCHANGED <<vregs, vmem>>

(* doMemcpy: word by word, lowest address first, so that a copy onto its    *)
(* own tail repeats the words in between.  A part of a word counts as one; *)
(* the data of a long copy is moved up to a cap only.                      *)
WordsOf(len) == (len + WORD_BYTES - 1) \div WORD_BYTES
Copied(dst, src, len) ==
    LET n == Max({0, Min({WordsOf(len), DATA_COPY_WORD_CAP})})
        at(base, i) == Wrap(base + WORD_BYTES * (i - 1))
        after[i \in 0 .. n] ==
          IF i = 0 THEN vmem
          ELSE [after[i - 1] EXCEPT ![at(dst, i)] = after[i - 1][at(src, i)]]
    IN  after[n]

CountCopy ==
    /\ inFlight' = Min({MAX_INFLIGHT_PER_TASK, inFlight + 1})
    /\ completions' = completions + 1

VMMemcpy ==
    /\ Stepping("MEMCPY")
    /\ vmem' = Copied(R(Head0.rs1), R(Head0.rs2),
                      IF LenFromReg(Head0) THEN R(Extra.rd) ELSE SignedImm(Head0.imm))
    /\ VMSet(Head0.rd, 0)
    /\ IF IsAsync(Head0) THEN CountCopy ELSE UNCHANGED counters
    /\ VMNext

(* RET drains the copies and captures r1..r4.                              *)
VMRet ==
    /\ Stepping("RET")
    /\ halted' = TRUE
    /\ inFlight' = inFlight - completions /\ completions' = 0
    /\ result' = [i \in 1 .. 4 |-> IF i \in Regs THEN vregs[i] ELSE 0]
    /\ UNCHANGED <<words, vregs, vpc, loopStack, vmem, err>>

VMIllegal ==
    /\ Stepping("BAD")
    /\ halted' = TRUE /\ err' = TRUE
    /\ UNCHANGED <<words, vregs, vpc, loopStack, vmem, counters, result>>

VMStep == \/ VMNop \/ VMCompute \/ VMLoad \/ VMStore \/ VMCas \/ VMCaa
          \/ VMJump \/ VMLoop \/ VMWait \/ VMMemcpy \/ VMRet \/ VMIllegal

VMNextStep == VMStep \/ \E args \in ArgSets : VMReset(args)

VMSpec == VMInit /\ [][VMNextStep]_vmVars
=============================================================================
