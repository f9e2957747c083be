---------------------------- MODULE TiaraVerifier ----------------------------
(***************************************************************************)
(* sw/verifier/tiara_verifier.py (ported line by line to                   *)
(* web/src/engine/verifier.ts): what is checked of an operator before it   *)
(* is registered.  One pass over the words, in the order they stand in;    *)
(* a register's value is an interval, tagged with a region, or opaque.     *)
(*                                                                         *)
(* A program is a function from word addresses to instruction words, a     *)
(* manifest a record of max_dynamic, regions and arguments.                *)
(***************************************************************************)
EXTENDS TiaraIsa, Sequences, SequencesExt

CONSTANTS INSTR_STORE_DEPTH, MAX_LOOP_NEST, MAX_INFLIGHT_PER_TASK,
          MAX_LENGTH          \* longest copy a manifest allows (2^32)

Size(p) == Cardinality(DOMAIN p)
-----------------------------------------------------------------------------
(* AbsVal, the abstract value lattice.                                     *)
NoRegion == "none"
Interval(lo, hi, region) == [lo |-> lo, hi |-> hi, region |-> region, opaque |-> FALSE]
AbsTop == [lo |-> 0, hi |-> 2^WIDTH - 1, region |-> NoRegion, opaque |-> TRUE]
AbsConst(v) == Interval(Wrap(v), Wrap(v), NoRegion)

AbsAdd(a, b) ==
    IF a.opaque \/ b.opaque THEN AbsTop
    ELSE Interval(Wrap(a.lo + b.lo), Wrap(a.hi + b.hi),
                  IF a.region # NoRegion THEN a.region ELSE b.region)

AbsShl(a, n) ==
    IF a.opaque THEN AbsTop
    ELSE Interval(Wrap(a.lo * 2^ShiftCount(n)), Wrap(a.hi * 2^ShiftCount(n)), NoRegion)

AbsAndI(mask) == IF mask = 0 THEN AbsConst(0) ELSE Interval(0, mask, NoRegion)

AbsCompute(sub, a, b, imm) ==
    CASE sub = "LI"   -> AbsConst(SignedImm(imm))
      [] sub = "ADDI" -> AbsAdd(a, AbsConst(SignedImm(imm)))
      [] sub = "ANDI" -> AbsAndI(Wrap(SignedImm(imm)))
      [] sub = "SHLI" -> AbsShl(a, imm)
      [] sub = "ADD"  -> AbsAdd(a, b)
      [] OTHER        -> AbsTop

(* _check_addr_reg: the address interval lies in its region, or, without a  *)
(* region, in any declared one.  A region is [tag, base, size].            *)
InRegion(a, r) == a.lo >= r.base /\ a.hi <= r.base + r.size
\* Mutant of AddrOK: an opaque address passes.
AddrOKOpaque(a, regions) ==
    a.opaque \/ \E r \in regions : InRegion(a, r) /\ a.region \in {NoRegion, r.tag}
AddrOK(a, regions) ==
    /\ ~a.opaque
    /\ \E r \in regions : InRegion(a, r) /\ a.region \in {NoRegion, r.tag}
-----------------------------------------------------------------------------
(***************************************************************************)
(* verify().  The state of the pass: verdict so far, step bound, loop      *)
(* frames [end, iters], register values, the copies under way and the most *)
(* there were, whether a RET was seen, and whether the pass broke off.     *)
(***************************************************************************)
Fresh(mf) ==
    [ok |-> TRUE, bound |-> 0, frames |-> <<>>,
     abs |-> [r \in Regs |-> IF r \in DOMAIN mf.arguments THEN mf.arguments[r]
                             ELSE IF r = 0 THEN AbsConst(0) ELSE AbsTop],
     now |-> 0, peak |-> 0, ret |-> FALSE, broke |-> FALSE]

(* Where instructions start: not in the second word of one.                *)
Starts(p) ==
    LET starts[a \in 0 .. Size(p)] == a = 0 \/ ~(starts[a - 1] /\ IsTwoWord(p[a - 1]))
    IN  starts

(* Frames whose body has been left are popped.                             *)
LiveFrames(frames, pc) ==
    SubSeq(frames, 1, Max({0} \cup {i \in 1 .. Len(frames) : pc < frames[i].end}))

Product(frames) == FoldLeft(LAMBDA acc, f : acc * f.iters, 1, frames)

Iterations(count, mf) ==
    Max({1, Min({mf.max_dynamic, IF count.opaque THEN mf.max_dynamic ELSE count.hi})})

(* The verdict on one instruction w at pc, s being the state before it.     *)
\* Mutant of InstructionOK: a LOOP may be nested once too deep.
InstructionOKOneDeeper(p, mf, s, pc, w) ==
    LET imm == SignedImm(w.imm)
    IN  CASE w.op = "JUMP" -> imm > 0 /\ pc + imm < Size(p)
          [] w.op = "LOOP" -> /\ imm > 0 /\ pc + 1 + imm <= Size(p)
                              /\ Len(s.frames) <= MAX_LOOP_NEST
          [] OTHER -> w.op # "BAD"
InstructionOK(p, mf, s, pc, w) ==
    LET imm == SignedImm(w.imm)
        addr(r) == AddrOK(s.abs[r], mf.regions)
    IN  CASE w.op = "JUMP" -> imm > 0 /\ pc + imm < Size(p)
          [] w.op = "LOOP" -> /\ imm > 0 /\ pc + 1 + imm <= Size(p)
                              /\ Len(s.frames) < MAX_LOOP_NEST
          [] w.op = "MEMCPY" -> /\ addr(w.rs1) /\ addr(w.rs2)
                                /\ LenFromReg(w) \/ imm \in 0 .. MAX_LENGTH
          [] w.op \in {"LOAD", "STORE", "CAS", "CAA"} -> addr(w.rs1)
          [] OTHER -> w.op # "BAD"

AbsAfter(s, w) ==
    CASE w.op \in {"LOAD", "CAS", "CAA"} -> [s.abs EXCEPT ![w.rd] = AbsTop]
      [] w.op = "COMPUTE" /\ w.rd # 0 ->
           [s.abs EXCEPT ![w.rd] = AbsCompute(w.sub, s.abs[w.rs1], s.abs[w.rs2], w.imm)]
      [] OTHER -> s.abs

InFlightAfter(s, w) ==
    CASE w.op = "WAIT"   -> Min({s.now, SignedImm(w.imm)})
      [] w.op = "MEMCPY" -> Min({MAX_INFLIGHT_PER_TASK, s.now + 1})
      [] OTHER           -> s.now

\* Mutant of BoundAfter: the frames around an instruction do not multiply.
BoundAfterFlat(s, pc) == s.bound + 1
(* An instruction counts once for every round of the loops around it.      *)
BoundAfter(s, pc) == s.bound + Product(LiveFrames(s.frames, pc))

Visit(p, mf, s0, pc) ==
    IF s0.broke THEN s0
    ELSE LET w     == p[pc]
             s     == [s0 EXCEPT !.frames = LiveFrames(@, pc), !.bound = BoundAfter(s0, pc)]
             now   == InFlightAfter(s, w)
             broke == s.bound > mf.max_dynamic
         IN  [ok     |-> s.ok /\ InstructionOK(p, mf, s, pc, w) /\ ~broke,
              bound  |-> s.bound,
              frames |-> IF w.op # "LOOP" THEN s.frames
                         ELSE Append(s.frames, [end |-> pc + 1 + SignedImm(w.imm),
                                                iters |-> Iterations(s.abs[w.rs1], mf)]),
              abs    |-> AbsAfter(s, w),
              now    |-> now,
              peak   |-> IF w.op = "MEMCPY" THEN Max({s.peak, now}) ELSE s.peak,
              ret    |-> s.ret \/ w.op = "RET",
              broke  |-> broke]

(* The states of the pass, each that before the word with its number.       *)
States(p, mf) ==
    LET starts == Starts(p)
        before[n \in 0 .. Size(p)] ==
          IF n = 0 THEN Fresh(mf)
          ELSE IF starts[n - 1] THEN Visit(p, mf, before[n - 1], n - 1)
          ELSE before[n - 1]
    IN  before

Pass(p, mf) == States(p, mf)[Size(p)]

\* Mutant of Accepts: a RET is not asked for.
AcceptsWithoutRet(p, mf) == Size(p) <= INSTR_STORE_DEPTH /\ Pass(p, mf).ok
Accepts(p, mf) ==
    LET end == Pass(p, mf)
    IN  /\ Size(p) <= INSTR_STORE_DEPTH
        /\ end.ok /\ end.ret
        /\ end.peak <= MAX_INFLIGHT_PER_TASK

StaticStepBound(p, mf) == Pass(p, mf).bound
=============================================================================
