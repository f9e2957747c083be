---------------------------- MODULE TiaraOperator ----------------------------
(***************************************************************************)
(* The life of an operator in the toolchain: the verifier judges it under  *)
(* a manifest, then the interpreter runs tasks of it with arguments within *)
(* the manifest's bounds (the playground runs rejected operators as well). *)
(* run() of vm.ts steps until the task has halted; a task that takes more  *)
(* than maxSteps steps is aborted.                                         *)
(***************************************************************************)
EXTENDS TiaraVM, OperatorShapes, Sequences

CONSTANTS INSTR_STORE_DEPTH, MAX_LOOP_NEST,
          MAX_LENGTH,      \* longest copy the verifier accepts
          maxSteps,        \* step limit of the interpreter (2,000,000)
          Programs,        \* operators submitted
          Manifest         \* the manifest they are submitted with

V == INSTANCE TiaraVerifier

ASSUME OperatorAssumption ==
    /\ INSTR_STORE_DEPTH \in Nat \ {0} /\ MAX_LOOP_NEST \in Nat
    /\ maxSteps \in Nat /\ MAX_INFLIGHT_PER_TASK \in Nat
    \* an operator has a first instruction: the interpreter cannot fetch without
    /\ \A p \in Programs :
         /\ IsFiniteSet(DOMAIN p) /\ 0 \in DOMAIN p
         /\ p \in [0 .. Cardinality(DOMAIN p) - 1 -> Instructions]
    /\ Manifest.max_dynamic \in Nat
    /\ \A a \in Manifest.regions : a.base \in Nat /\ a.size \in Nat
    /\ \A r \in DOMAIN Manifest.arguments :
         /\ r \in 1 .. NUM_ARGS
         /\ Manifest.arguments[r].lo \in Word /\ Manifest.arguments[r].hi \in Word
    /\ \A args \in ArgSets, r \in 1 .. NUM_ARGS :
         r \in DOMAIN Manifest.arguments =>
           args[r] \in Manifest.arguments[r].lo .. Manifest.arguments[r].hi

VARIABLES accepted,        \* the verifier's verdict
          bound,           \* its static_step_bound
          steps            \* steps of the task so far

vars == <<vmVars, accepted, bound, steps>>

Init ==
    /\ words \in Programs
    /\ accepted = V!Accepts(words, Manifest)
    /\ bound = V!StaticStepBound(words, Manifest)
    /\ VMInit
    /\ steps = 0

Invoke ==
    /\ \E args \in ArgSets : VMReset(args)
    /\ steps' = 0
    /\ UNCHANGED <<accepted, bound>>

Step ==
    /\ steps < maxSteps
    /\ VMStep
    /\ steps' = steps + 1
    /\ UNCHANGED <<accepted, bound>>

(* "step limit exceeded": the task halts with an error.                    *)
Abort ==
    /\ ~halted /\ steps >= maxSteps
    /\ halted' = TRUE /\ err' = TRUE
    /\ UNCHANGED <<words, vregs, vpc, loopStack, vmem, counters, result,
                   accepted, bound, steps>>

Next == Invoke \/ Step \/ Abort
Spec == Init /\ [][Next]_vars

-----------------------------------------------------------------------------
TypeOK ==
    /\ vregs \in [Regs -> Word] /\ vregs[0] = 0
    /\ vmem \in [Word -> Word]
    /\ inFlight \in Int /\ completions \in Nat
    /\ halted \in BOOLEAN /\ err \in BOOLEAN /\ accepted \in BOOLEAN
    /\ steps \in 0 .. maxSteps

(***************************************************************************)
(* The promises.  A promise the code keeps for a class of programs only    *)
(* names the class; what happens outside of it is told in the README.      *)
(***************************************************************************)
(* Termination: a task takes no more steps than the verifier computed       *)
(* ("instruction count bounded", tiara_verifier.py:7), if no instruction    *)
(* writes a count and the second words of instructions do nothing.         *)
StepsBounded ==
    accepted /\ steps > bound => ~FixedCounts(words) \/ ~InertTails(words)

(* Such an operator ends by itself: the step limit is never met.            *)
EndsUnaided ==
    accepted /\ FixedCounts(words) /\ InertTails(words) => steps < maxSteps

(* "instruction count bounded by `max_dynamic` from the manifest"           *)
(* (tiara_verifier.py:7-8), for every operator.  The verifier takes a count *)
(* from the text in front of the loop, the task from the way it came.      *)
DynamicBounded == accepted => steps <= Manifest.max_dynamic

(* "loop nesting <= 8" (tiara_verifier.py:11): the loop stack of hardware   *)
(* and interpreter has room for the frames an accepted operator pushes.    *)
NestingBounded == accepted /\ Len(loopStack) > MAX_LOOP_NEST => ~Structured(words)

(* An accepted operator ends with RET ("operator has no RET on at least one *)
(* path" is what it would be rejected with, tiara_verifier.py:350), unless  *)
(* the step limit ends it.                                                 *)
EndsWithRet ==
    accepted /\ halted /\ err => ~Structured(words) \/ steps >= maxSteps

(* "every memory address must be provably inside a declared region", whose  *)
(* addresses are "[base, base+size)" (tiara_verifier.py:366, 372).         *)
Touched ==
    CASE Head0.op \in {"LOAD", "STORE"} -> {MemAddr}
      [] Head0.op \in {"CAS", "CAA"}    -> {R(Head0.rs1)}
      [] Head0.op = "MEMCPY"            -> {R(Head0.rs1), R(Head0.rs2)}
      [] OTHER                          -> {}
Declared(size(_)) ==
    \A a \in Touched : \E r \in Manifest.regions : a - r.base \in 0 .. size(r)
AccessesDeclared == accepted /\ ~halted => Declared(LAMBDA r : r.size - 1)

(* What the code keeps of it: straight code with plain addresses touches    *)
(* declared regions, or the address one past the end of one, if no interval *)
(* of the pass has its ends wrapped apart.                                 *)
Wrapped ==
    LET states == V!States(words, Manifest)
    IN  \E n \in DOMAIN states, r \in Regs : states[n].abs[r].lo > states[n].abs[r].hi
StraightAccessesDeclared ==
    accepted /\ ~halted /\ ~Declared(LAMBDA r : r.size) =>
      Wrapped \/ ~StraightAccesses(words)

(* WAIT n returns with at most n copies under way (docs/ISA.md:73), if the  *)
(* operator keeps to the cap of 32 copies (tiara_verifier.py:11).          *)
WaitDrains ==
    [][Stepping("WAIT") /\ vpc' # vpc /\ completions' > Max({0, SignedImm(Head0.imm)})
         => ~FewCopies(words, MAX_INFLIGHT_PER_TASK)]_vars
=============================================================================
