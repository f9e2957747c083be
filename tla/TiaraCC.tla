------------------------------- MODULE TiaraCC -------------------------------
(***************************************************************************)
(* web/src/engine/cc.ts, class Compiler: from the syntax tree to assembly  *)
(* lines.  Every operator takes the state of the compiler and yields the   *)
(* next one:                                                               *)
(*   lines   what was emitted         syms    name to register and kind    *)
(*   used    scratch registers taken  labels  labels made so far           *)
(*   ok      no CompileError yet      regions names of the regions         *)
(*   vals    the registers the methods return to one another: where the    *)
(*           values computed and not used yet are, the last one last       *)
(***************************************************************************)
EXTENDS TiaraParser, TiaraAsm

CONSTANTS SCRATCH_MIN, SCRATCH_MAX,   \* registers of locals and temporaries
          MAX_ARGS,                   \* arguments a function may have (8)
          NUM_RESULTS,                \* result registers r1 .. (4)
          ELEM_SHIFT,                 \* elements of an array have 2^3 bytes
          RegionOf                    \* region a pointer's name asks for
                                      \* (name_in_<region>_<size>); others
                                      \* are a region of their own

ASSUME CompilerAssumption ==
    /\ SCRATCH_MIN \in Nat /\ SCRATCH_MAX \in SCRATCH_MIN .. NUM_REGS - 1
    /\ MAX_ARGS < SCRATCH_MIN /\ NUM_RESULTS \in 1 .. MAX_ARGS

Scratch == SCRATCH_MIN .. SCRATCH_MAX
Fresh0 == [ok |-> TRUE, lines |-> <<>>, syms |-> <<>>, used |-> {}, labels |-> 0,
           regions |-> <<>>, vals |-> <<>>]

Push(c, reg) == [c EXCEPT !.vals = Append(@, reg)]
Top(c) == Last(c.vals)
Below(c, n) == SubSeq(c.vals, Len(c.vals) - n, Len(c.vals) - 1)   \* n values under the top
Pop(c) == [c EXCEPT !.vals = Front(@)]
PopBelow(c, n) ==
    [c EXCEPT !.vals = Append(SubSeq(@, 1, Len(@) - n - 1), Last(@))]

(* CompileError: the lines that would follow do not matter any more.        *)
Refused(c) == [Push(c, 0) EXCEPT !.ok = FALSE]
Emit(c, head, operands) == [c EXCEPT !.lines = Append(@, Code(head, operands))]
EmitLabel(c, label) == [c EXCEPT !.lines = Append(@, At(label))]
Fresh(c) == [c EXCEPT !.labels = @ + 1]
Label(prefix, c) == <<prefix, c.labels>>
-----------------------------------------------------------------------------
(* SymTable: arguments from r1 up, locals the lowest free scratch register, *)
(* temporaries the highest.                                                *)
Bind(c, name, reg, isPtr) == [c EXCEPT !.syms = (name :> [reg |-> reg, isPtr |-> isPtr]) @@ @]
Unbind(c, name) == [c EXCEPT !.syms = [n \in DOMAIN @ \ {name} |-> @[n]]]
Take(c, reg) == [c EXCEPT !.used = @ \cup {reg}]
Free(c, reg) == [c EXCEPT !.used = @ \ {reg}]

addLocal(c, name) ==
    IF Scratch \subseteq c.used THEN Bind(Refused(c), name, 0, FALSE)
    ELSE LET reg == Min(Scratch \ c.used) IN Take(Bind(c, name, reg, FALSE), reg)
temp(c) ==
    IF Scratch \subseteq c.used THEN Refused(c)
    ELSE LET reg == Max(Scratch \ c.used) IN Push(Take(c, reg), reg)

\* Mutant of maybeFreeTemp: the register of a variable is freed as well.
maybeFreeTempAlways(c, reg) == Free(c, reg)
maybeFreeTemp(c, reg) ==
    IF \E n \in DOMAIN c.syms : c.syms[n].reg = reg THEN c ELSE Free(c, reg)

(* The values under the top have been used.                                *)
Spent(c, n) == PopBelow(FoldLeft(maybeFreeTemp, c, Below(c, n)), n)

(* An instruction from n values to the register on top of them, or to a     *)
(* temporary, which is then the value computed.                            *)
Into(c, head, n, more) ==
    LET source == Below(c, n)
    IN  Spent(Emit(c, head, <<RegOp(Top(c))>> \o [k \in 1 .. n |-> RegOp(source[k])] \o more), n)
Compute(c, head, n, more) == Into(temp(c), head, n, more)
(* The last value moved to a variable's or a result's register.            *)
Move(c, reg) == Pop(Into(Push(c, reg), "ADDI", 1, <<IntOp(0)>>))

(* tryConst: the number an expression stands for, if it is a literal.       *)
RECURSIVE tryConst(_)
tryConst(e) ==
    CASE e.k = "const" -> {e.v}
      [] e.k = "unop" /\ e.op = "-" -> {-v : v \in tryConst(e.e)}
      [] e.k = "cast" -> tryConst(e.e)
      [] OTHER -> {}
IsConst(e) == tryConst(e) # {}
ConstOf(e) == CHOOSE v \in tryConst(e) : TRUE
-----------------------------------------------------------------------------
ImmForm == ("+" :> "ADDI") @@ ("&" :> "ANDI") @@ ("<<" :> "SHLI") @@ (">>" :> "SHRI")
RegForm == ("+" :> "ADD") @@ ("-" :> "SUB") @@ ("*" :> "MUL") @@ ("&" :> "AND") @@ ("|" :> "OR")
           @@ ("^" :> "XOR") @@ ("<<" :> "SHL") @@ (">>" :> "SHR") @@ ("==" :> "EQ")
           @@ ("<" :> "LT") @@ (">=" :> "GE")

RECURSIVE lowerExpr(_, _)
lowerBoth(c, l, r) == lowerExpr(lowerExpr(c, l), r)

lowerBinop(c, b) ==
    IF b.op \in DOMAIN ImmForm /\ IsConst(b.r)
    THEN Compute(lowerExpr(c, b.l), ImmForm[b.op], 1, <<IntOp(ConstOf(b.r))>>)
    ELSE IF b.op \notin DOMAIN RegForm THEN Refused(c)
    ELSE Compute(lowerBoth(c, b.l, b.r), RegForm[b.op], 2, <<>>)

lowerUnop(c, u) ==          \* r0 reads 0
    CASE u.op = "-" -> Compute(lowerExpr(Push(c, 0), u.e), "SUB", 2, <<>>)
      [] u.op = "!" -> Compute(Push(lowerExpr(c, u.e), 0), "EQ", 2, <<>>)
      [] OTHER -> Refused(c)

(* addrComponents: base register and offset; or the sum of base and scaled  *)
(* index, which is not freed by anybody.                                   *)
Scaled(c) == Emit(temp(c), "SHLI", <<RegOp(Top(temp(c))), RegOp(Top(c)), IntOp(ELEM_SHIFT)>>)
Added(c, base) ==
    LET sum == temp(c)
    IN  Spent(Emit(sum, "ADD", <<RegOp(Top(sum)), RegOp(base), RegOp(Top(c))>>), 2)
Offset(ar) == IF IsConst(ar.index) THEN ConstOf(ar.index) * 2^ELEM_SHIFT ELSE 0
addrComponents(c, ar) ==
    IF \/ ar.base.k # "id" \/ ar.base.name \notin DOMAIN c.syms
       \/ ~c.syms[ar.base.name].isPtr
    THEN Refused(c)
    ELSE IF IsConst(ar.index) THEN Push(c, c.syms[ar.base.name].reg)
    ELSE Added(Scaled(lowerExpr(c, ar.index)), c.syms[ar.base.name].reg)

Loaded(c, off) ==           \* from the address on top
    PopBelow(Emit(temp(c), "LOAD", <<RegOp(Top(temp(c))), MemOp(Top(c), off)>>), 1)

(* The builtins.  A negative mask is printed as 0x-1, which is no number.    *)
MaskOp(v) == IF v < 0 THEN SymOp(Name("0x-")) ELSE IntOp(v)
Arity == [tiara_andi |-> 2, tiara_memcpy |-> 4, tiara_cas |-> 3, tiara_caa |-> 2,
          tiara_wait |-> 1, tiara_set_result |-> 2]
CallOK(name, args) ==
    /\ name \in DOMAIN Arity /\ Len(args) = Arity[name]
    /\ name = "tiara_andi" => IsConst(args[2])
    /\ name = "tiara_memcpy" => IsConst(args[3]) /\ IsConst(args[4])
    /\ name = "tiara_wait" => IsConst(args[1])
    /\ name = "tiara_set_result" => tryConst(args[1]) \cap 1 .. NUM_RESULTS # {}

lowerCall(c, call) ==
    LET n == call.name
        arg == call.args
    IN  CASE ~CallOK(n, arg) -> Refused(c)
          [] n = "tiara_andi" ->
               Compute(lowerExpr(c, arg[1]), "ANDI", 1, <<MaskOp(ConstOf(arg[2]))>>)
          [] n = "tiara_memcpy" ->
               Into(Push(lowerBoth(c, arg[1], arg[2]), 0), "MEMCPY", 2,
                    <<KeyOp("LEN", IntOp(ConstOf(arg[3])))>>
                      \o (IF ConstOf(arg[4]) # 0 THEN <<SymOp(Name("ASYNC"))>> ELSE <<>>))
          [] n = "tiara_cas" ->
               Compute(lowerExpr(lowerBoth(c, arg[1], arg[2]), arg[3]), "CAS", 3, <<>>)
          [] n = "tiara_caa" -> Compute(lowerBoth(c, arg[1], arg[2]), "CAA", 2, <<>>)
          [] n = "tiara_wait" -> Push(Emit(c, "WAIT", <<IntOp(ConstOf(arg[1]))>>), 0)
          [] n = "tiara_set_result" -> Push(Move(lowerExpr(c, arg[2]), ConstOf(arg[1])), 0)

lowerExpr(c, e) ==
    CASE ~c.ok             -> Push(c, 0)
      [] e.k = "const"     -> Compute(c, "LI", 0, <<IntOp(e.v)>>)
      [] e.k = "id"        -> IF e.name \in DOMAIN c.syms THEN Push(c, c.syms[e.name].reg)
                              ELSE Refused(c)
      [] e.k = "binop"     -> lowerBinop(c, e)
      [] e.k = "unop"      -> lowerUnop(c, e)
      [] e.k = "arrayref"  -> Loaded(addrComponents(c, e), Offset(e))
      [] e.k = "call"      -> lowerCall(c, e)
      [] e.k = "cast"      -> lowerExpr(c, e.e)

(* A condition that must fail for the branch to be taken: 1 - (l = r).      *)
NotEqual(c) ==              \* of the last two values
    LET eq  == Emit(temp(c), "EQ", <<RegOp(Top(temp(c))), RegOp(Below(temp(c), 2)[1]), RegOp(Top(c))>>)
        one == Emit(temp(eq), "LI", <<RegOp(Top(temp(eq))), IntOp(1)>>)
        neg == Emit(one, "XOR", <<RegOp(Top(eq)), RegOp(Top(eq)), RegOp(Top(one))>>)
    IN  Spent(Pop(maybeFreeTemp(neg, Top(neg))), 2)
lowerCondNegated(c, e) ==
    IF e.k = "binop" /\ e.op = "==" THEN NotEqual(lowerBoth(c, e.l, e.r))
    ELSE Compute(Push(lowerExpr(c, e), 0), "EQ", 2, <<>>)
-----------------------------------------------------------------------------
RECURSIVE lowerStmt(_, _)
lowerAll(c, body) == FoldLeft(LAMBDA s, x : lowerStmt(s, x), c, body)

lowerDecl(c, d) ==
    LET local == addLocal(c, d.name)
    IN  IF d.init = NoExpr THEN local
        ELSE Move(lowerExpr(local, d.init), local.syms[d.name].reg)

Stored(c, off) ==           \* the last value, at the address below it
    Pop(Pop(maybeFreeTemp(Emit(c, "STORE", <<MemOp(Below(c, 1)[1], off), RegOp(Top(c))>>), Top(c))))
lowerAssign(c, lhs, rhs) ==
    CASE lhs.k = "id" /\ lhs.name \in DOMAIN c.syms ->
           Move(lowerExpr(c, rhs), c.syms[lhs.name].reg)
      [] lhs.k = "arrayref" -> Stored(lowerExpr(addrComponents(c, lhs), rhs), Offset(lhs))
      [] OTHER -> Refused(c)

(* The counter is a new local, counted up at the end of the body; LOOP      *)
(* counts for itself.  The bound's register stays taken in the body.        *)
CountUp(c, reg) == Emit(c, "ADDI", <<RegOp(reg), RegOp(reg), IntOp(1)>>)
LoopDone(c, f, reg) == Unbind(Free(Pop(maybeFreeTemp(c, Top(c))), reg), f.name)
LoopBody(c, f, end) == lowerAll(Emit(c, "LOOP", <<RegOp(Top(c)), SymOp(end)>>), f.body)
\* Mutant of Loop: the end label stands before the counter's increment.
LoopEarlyEnd(c, f) ==
    LET end == Label("for_end", c)
        i   == c.syms[f.name].reg
    IN  LoopDone(CountUp(EmitLabel(LoopBody(c, f, end), end), i), f, i)
Loop(c, f) ==               \* the bound is the last value
    LET end == Label("for_end", c)
        i   == c.syms[f.name].reg
    IN  LoopDone(EmitLabel(CountUp(LoopBody(c, f, end), i), end), f, i)
lowerFor(c, f) == Loop(Fresh(lowerExpr(addLocal(c, f.name), f.bound)), f)

SkipUnless(c, body) ==      \* the negated condition is the last value
    LET skip == Label("if_skip", c)
        jump == Emit(c, "JUMP", <<RegOp(Top(c)), SymOp(skip)>>)
    IN  EmitLabel(lowerAll(Pop(maybeFreeTemp(jump, Top(c))), body), skip)
lowerIf(c, i) ==
    IF i.cond.k = "const" /\ i.cond # Const(0) THEN lowerAll(c, i.body)
    ELSE SkipUnless(Fresh(lowerCondNegated(c, i.cond)), i.body)

Returned(c) ==              \* the last value
    Pop(maybeFreeTemp(Emit(IF Top(c) = 1 THEN c ELSE Emit(c, "ADDI", <<RegOp(1), RegOp(Top(c)), IntOp(0)>>),
                           "RET", <<RegOp(1)>>), Top(c)))
lowerReturn(c, e) ==
    IF e = NoExpr THEN Emit(c, "RET", <<RegOp(0)>>) ELSE Returned(lowerExpr(c, e))

lowerIncDec(c, s) ==
    LET reg == c.syms[s.name].reg
    IN  IF s.name \notin DOMAIN c.syms THEN Refused(c)
        ELSE Emit(c, "ADDI", <<RegOp(reg), RegOp(reg), IntOp(s.delta)>>)

(* x += e is compiled as x = x + e.                                         *)
FirstChar == [op \in {"+=", "-=", "*=", "&=", "|=", "^=", "<<=", ">>="} |->
                CASE op = "+=" -> "+" [] op = "-=" -> "-" [] op = "*=" -> "*" [] op = "&=" -> "&"
                  [] op = "|=" -> "|" [] op = "^=" -> "^" [] op = "<<=" -> "<" [] op = ">>=" -> ">"]

lowerStmt(c, s) ==
    CASE ~c.ok             -> c
      [] s.k = "decl"      -> lowerDecl(c, s)
      [] s.k = "assign"    -> lowerAssign(c, s.lhs, IF s.op = "=" THEN s.rhs
                                                    ELSE Bin(s.lhs, FirstChar[s.op], s.rhs))
      [] s.k = "for"       -> lowerFor(c, s)
      [] s.k = "if"        -> lowerIf(c, s)
      [] s.k = "return"    -> lowerReturn(c, s.e)
      [] s.k = "exprcall"  -> Pop(lowerCall(c, s.call))
      [] s.k = "incdec"    -> lowerIncDec(c, s)

(* declareArg: argument reg goes to register reg; a pointer names its region. *)
declareArg(c, p, reg) ==
    LET region == IF p.name \in DOMAIN RegionOf THEN RegionOf[p.name] ELSE p.name
        added == IF ~p.isPtr \/ \E k \in DOMAIN c.regions : c.regions[k] = region THEN c.regions
                 ELSE Append(c.regions, region)
    IN  IF reg > MAX_ARGS THEN Refused(c)
        ELSE [Bind(Emit(c, ".arg", <<SymOp(Name(p.name)), RegOp(reg)>>), p.name, reg, p.isPtr)
                EXCEPT !.regions = added]

RegionLines(c) ==
    [k \in DOMAIN c.regions |-> Code(".region", <<SymOp(Name(c.regions[k])), IntOp(k - 1)>>)]

ArgsOf(fn) == FoldLeftDomain(LAMBDA c, k : declareArg(c, fn.params[k], k), Fresh0, fn.params)
WithRegions(c) == [c EXCEPT !.lines = RegionLines(c) \o @]
WithRet(c) ==
    IF c.lines # <<>> /\ Last(c.lines).head = "RET" THEN c ELSE Emit(c, "RET", <<RegOp(0)>>)
lowerFunction(fn) == WithRet(lowerAll(WithRegions(ArgsOf(fn)), fn.body))

(* compileC: the compiler's last state; its lines if it is ok.              *)
Lowered(parsed) == IF parsed.ok THEN lowerFunction(parsed.fn) ELSE Refused(Fresh0)
compileC(tokens) == Lowered(parseFunction(tokens))
=============================================================================
