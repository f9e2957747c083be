----------------------------- MODULE TiaraCMeaning -----------------------------
(***************************************************************************)
(* What a function of the restricted C means: the C standard's meaning of  *)
(* it, with unsigned words for every scalar type, against which the        *)
(* compiler is checked.  A state maps names to values; expressions are     *)
(* evaluated from left to right, as the compiler does and C allows.        *)
(* A local that is read before it is assigned has no meaning in C; no      *)
(* source this is used with does that.                                     *)
(***************************************************************************)
EXTENDS TiaraCSyntax, TiaraIsa, TLC

CONSTANTS ELEM_SHIFT, LOOP_FUEL   \* bound: iterations after which a loop is left

ElemBytes == 2^ELEM_SHIFT

(* env: variables; mem: memory; res: results, the value returned being the  *)
(* first; ret: whether the function has returned; val: the value just      *)
(* computed; def: whether C defines all that was done so far.              *)
AtCall(fn, args, mem) ==
    [env |-> [n \in {p.name : p \in Range(fn.params)} |->
                args[CHOOSE k \in DOMAIN fn.params : fn.params[k].name = n]],
     mem |-> mem, res |-> <<>>, ret |-> FALSE, val |-> 0, def |-> TRUE]

Binary(op, a, b) ==
    CASE op = "+"  -> Wrap(a + b)
      [] op = "-"  -> Wrap(a - b)
      [] op = "*"  -> Wrap(a * b)
      [] op = "&"  -> FromBits(Bits(a) \cap Bits(b))
      [] op = "|"  -> FromBits(Bits(a) \cup Bits(b))
      [] op = "^"  -> FromBits((Bits(a) \cup Bits(b)) \ (Bits(a) \cap Bits(b)))
      [] op = "<<" -> Wrap(a * 2^(b % WIDTH))
      [] op = ">>" -> a \div 2^(b % WIDTH)
      [] op = "==" -> BoolWord(a = b)
      [] op = "<"  -> BoolWord(a < b)
      [] op = ">=" -> BoolWord(a >= b)

With(s, v) == [s EXCEPT !.val = v]
Set(s, name, v) == [s EXCEPT !.env = (name :> v) @@ @]
Poke(s, a, v) == [s EXCEPT !.mem[a] = v]
ElementAt(base, i) == Wrap(base + ElemBytes * i)

CopyOf(mem, dst, src, len) ==
    LET n == (len + ElemBytes - 1) \div ElemBytes
        to(a) == {k \in 0 .. n - 1 : a = ElementAt(dst, k)}
    IN  [a \in DOMAIN mem |-> IF to(a) = {} THEN mem[a]
                              ELSE mem[ElementAt(src, CHOOSE k \in to(a) : TRUE)]]

(* What a builtin does, p being the state and the values of the arguments. *)
Builtin(p, name) ==
    LET s == p.s
        v == p.vals
    IN  CASE name = "tiara_andi"   -> With(s, Binary("&", v[1], v[2]))
          [] name = "tiara_caa"    -> With(Poke(s, v[1], Wrap(s.mem[v[1]] + v[2])), s.mem[v[1]])
          [] name = "tiara_cas"    ->
               With(IF s.mem[v[1]] = v[2] THEN Poke(s, v[1], v[3]) ELSE s, s.mem[v[1]])
          [] name = "tiara_memcpy" -> With([s EXCEPT !.mem = CopyOf(@, v[1], v[2], v[3])], 0)
          [] name = "tiara_set_result" -> With([s EXCEPT !.res = (v[1] :> v[2]) @@ @], 0)
          [] name = "tiara_wait"   -> With(s, 0)

RECURSIVE Eval(_, _), EvalArgs(_, _)
EvalArgs(s, args) ==        \* the state behind all of them, and their values
    FoldLeft(LAMBDA p, e : LET t == Eval(p.s, e) IN [s |-> t, vals |-> Append(p.vals, t.val)],
             [s |-> s, vals |-> <<>>], args)

Eval(s, e) ==
    CASE e.k = "const" -> With(s, Wrap(e.v))
      [] e.k = "id"    -> With(s, s.env[e.name])
      [] e.k = "cast"  -> Eval(s, e.e)
      [] e.k = "unop"  -> LET t == Eval(s, e.e)
                          IN  With(t, IF e.op = "-" THEN Wrap(-t.val) ELSE BoolWord(t.val = 0))
      [] e.k = "binop" -> LET l == Eval(s, e.l)
                              r == Eval(l, e.r)
                          IN  [With(r, Binary(e.op, l.val, r.val)) EXCEPT
                                 !.def = @ /\ (e.op \in {"<<", ">>"} => r.val < WIDTH)]
      [] e.k = "arrayref" -> LET i == Eval(s, e.index)
                             IN  With(i, i.mem[ElementAt(s.env[e.base.name], i.val)])
      [] e.k = "call" -> Builtin(EvalArgs(s, e.args), e.name)

OpOf == ("+=" :> "+") @@ ("-=" :> "-") @@ ("*=" :> "*") @@ ("&=" :> "&") @@ ("|=" :> "|")
        @@ ("^=" :> "^") @@ ("<<=" :> "<<") @@ (">>=" :> ">>")
Updated(op, old, v) == IF op = "=" THEN v ELSE Binary(OpOf[op], old, v)

RECURSIVE Exec(_, _), Rounds(_, _, _)
ExecAll(s, body) == FoldLeft(LAMBDA t, x : IF t.ret THEN t ELSE Exec(t, x), s, body)

Rounds(s, f, fuel) ==
    LET b == Eval(s, f.bound)
        t == ExecAll(b, f.body)
    IN  IF s.ret \/ fuel = 0 THEN s
        ELSE IF s.env[f.name] >= b.val THEN b
        ELSE IF t.ret THEN t
        ELSE Rounds(Set(t, f.name, Wrap(t.env[f.name] + 1)), f, fuel - 1)

Exec(s, x) ==
    CASE x.k = "decl" -> IF x.init = NoExpr THEN Set(s, x.name, 0)
                         ELSE LET t == Eval(s, x.init) IN Set(t, x.name, t.val)
      [] x.k = "assign" /\ x.lhs.k = "id" ->
           LET t == Eval(s, x.rhs)
               old == IF x.op = "=" THEN 0 ELSE s.env[x.lhs.name]
           IN  Set(t, x.lhs.name, Updated(x.op, old, t.val))
      [] x.k = "assign" /\ x.lhs.k = "arrayref" ->
           LET i == Eval(s, x.lhs.index)
               a == ElementAt(s.env[x.lhs.base.name], i.val)
               t == Eval(i, x.rhs)
           IN  Poke(t, a, Updated(x.op, i.mem[a], t.val))
      [] x.k = "for"    -> Rounds(Set(s, x.name, 0), x, LOOP_FUEL)
      [] x.k = "if"     -> LET t == Eval(s, x.cond) IN IF t.val # 0 THEN ExecAll(t, x.body) ELSE t
      [] x.k = "return" ->
           IF x.e = NoExpr THEN [s EXCEPT !.ret = TRUE]
           ELSE LET t == Eval(s, x.e) IN [t EXCEPT !.ret = TRUE, !.res = (1 :> t.val) @@ @]
      [] x.k = "exprcall" -> Eval(s, x.call)
      [] x.k = "incdec" -> Set(s, x.name, Wrap(s.env[x.name] + x.delta))

Meaning(fn, args, mem) == ExecAll(AtCall(fn, args, mem), fn.body)
-----------------------------------------------------------------------------
(***************************************************************************)
(* The parts of a function, and the classes of functions for which the     *)
(* compiled code means what the function means.                            *)
(***************************************************************************)
RECURSIVE SubExprs(_), AllStmts(_), HowMany(_, _)
SubExprs(e) ==
    {e} \cup CASE e.k = "binop"    -> SubExprs(e.l) \cup SubExprs(e.r)
               [] e.k \in {"unop", "cast"} -> SubExprs(e.e)
               [] e.k = "arrayref" -> SubExprs(e.base) \cup SubExprs(e.index)
               [] e.k = "call"     -> UNION {SubExprs(a) : a \in Range(e.args)}
               [] OTHER            -> {}
AllStmts(body) ==
    UNION {{x} \cup (IF x.k \in {"for", "if"} THEN AllStmts(x.body) ELSE {}) : x \in Range(body)}
HowMany(body, kind) ==      \* statements of a kind, also where they are alike
    FoldLeft(LAMBDA n, x : n + (IF x.k = kind THEN 1 ELSE 0)
                             + (IF x.k \in {"for", "if"} THEN HowMany(x.body, kind) ELSE 0), 0, body)

ExprsOf(x) ==
    UNION {SubExprs(e) : e \in CASE x.k = "decl"   -> {x.init}
                                 [] x.k = "assign" -> {x.lhs, x.rhs}
                                 [] x.k = "for"    -> {x.bound}
                                 [] x.k = "if"     -> {x.cond}
                                 [] x.k = "return" -> {x.e}
                                 [] x.k = "exprcall" -> {x.call}
                                 [] x.k = "incdec" -> {Id(x.name)}}
ExprsIn(body) == UNION {ExprsOf(x) : x \in AllStmts(body)}
NamesIn(body) == {e.name : e \in {d \in ExprsIn(body) : d.k = "id"}}
Calls(exprs, builtin) == {e \in exprs : e.k = "call" /\ e.name = builtin}
Loops(body) == {x \in AllStmts(body) : x.k = "for"}
Assigned(body) ==
    {x.name : x \in {y \in AllStmts(body) : y.k = "incdec"}}
      \cup {x.lhs.name : x \in {y \in AllStmts(body) : y.k = "assign" /\ y.lhs.k = "id"}}

(* Every number, and every offset 8 * c, is one a signed immediate holds;   *)
(* no mask is negative.                                                    *)
Literal(e) == e.k = "const" \/ (e.k = "unop" /\ e.op = "-" /\ e.e.k = "const")
NumbersFit(fn) ==
    \A e \in ExprsIn(fn.body) :
      /\ e.k = "const" => e.v < 2^(IMMW - 1)
      /\ e.k = "arrayref" /\ e.index.k = "const" => ElemBytes * e.index.v < 2^(IMMW - 1)
      /\ e.k = "binop" /\ e.op = "&" /\ Literal(e.r) => e.r.k = "const"
      /\ e.k = "call" /\ e.name = "tiara_andi" => e.args[2].k = "const"

(* No name is declared twice, but for counters of loops apart.             *)
Declared(body) == {x \in AllStmts(body) : x.k = "decl"}
DistinctNames(fn) ==
    LET params == {p.name : p \in Range(fn.params)}
        decls  == {x.name : x \in Declared(fn.body)}
    IN  /\ \A k, m \in DOMAIN fn.params : fn.params[k].name = fn.params[m].name => k = m
        /\ HowMany(fn.body, "decl") = Cardinality(decls)
        /\ params \cap decls = {}
        /\ \A f \in Loops(fn.body) :
             /\ f.name \notin params \cup decls
             /\ \A g \in Loops(f.body) : g.name # f.name

(* The body of a loop changes neither its counter nor its bound.           *)
FixedLoops(fn) ==
    \A f \in Loops(fn.body) :
      /\ \A e \in SubExprs(f.bound) : e.k \notin {"call", "arrayref"}
      /\ Assigned(f.body) \cap (NamesIn(<<Return(f.bound)>>) \cup {f.name}) = {}

(* What the index of an updated element does, it does once in C.           *)
UpdatesOnce(fn) ==
    \A x \in AllStmts(fn.body) :
      x.k = "assign" /\ x.op # "=" /\ x.lhs.k = "arrayref" =>
        \A e \in SubExprs(x.lhs.index) : e.k # "call"

(* Result slots are registers of arguments: a slot is not set while its     *)
(* argument is still read, nor the first one in a function with a value.    *)
SlotsFree(fn) ==
    \A k \in DOMAIN fn.body :
      \A c \in Calls(ExprsIn(<<fn.body[k]>>), "tiara_set_result") :
        LET slot == c.args[1].v
            later == SubSeq(fn.body, IF fn.body[k] = ExprCall(c) THEN k + 1 ELSE k, Len(fn.body))
        IN  /\ slot \in DOMAIN fn.params => fn.params[slot].name \notin NamesIn(later)
            /\ slot = 1 => \A x \in AllStmts(fn.body) : x.k = "return" => x.e = NoExpr

(* A shift-assignment is compiled as a comparison.                         *)
NoShiftAssign(fn) == \A x \in AllStmts(fn.body) : x.k = "assign" => x.op # "<<="

(* Results that are dropped and elements at variable indices.              *)
NothingDropped(fn) ==
    /\ \A e \in ExprsIn(fn.body) : e.k = "arrayref" => Literal(e.index)
    /\ \A x \in AllStmts(fn.body) :
         x.k = "exprcall" => x.call.name \in {"tiara_memcpy", "tiara_wait", "tiara_set_result"}

(* A counter is read only if its loop is the function's only one, and not   *)
(* so late that its register may have been a temporary's.                  *)
CountersFresh(fn) ==
    \A f \in Loops(fn.body) : f.name \in NamesIn(f.body) =>
      HowMany(fn.body, "for") = 1 /\ Cardinality(Declared(fn.body)) <= 2

PlainC(fn) == /\ NumbersFit(fn) /\ DistinctNames(fn) /\ FixedLoops(fn) /\ UpdatesOnce(fn)
              /\ SlotsFree(fn) /\ NoShiftAssign(fn)
=============================================================================
