----------------------------- MODULE TiaraCSyntax -----------------------------
(***************************************************************************)
(* The restricted C of web/src/engine/cc.ts: tokens and syntax trees, and  *)
(* how C writes a tree down.  Spelling, comments, literals and line        *)
(* numbers are abstracted: a token is its kind, its text and, of a number, *)
(* its value.                                                              *)
(***************************************************************************)
EXTENDS Integers, Sequences, SequencesExt

Ident(s) == [t |-> "id", s |-> s]
Punct(s) == [t |-> "punct", s |-> s]
Num(v)   == [t |-> "num", s |-> "", v |-> v]
EndOfFile == [t |-> "eof", s |-> ""]

TYPE_KEYWORDS == {"void", "int", "unsigned", "signed", "long", "char", "short",
                  "uint64_t", "int64_t", "u64", "uint32_t"}

(* Expressions (Node) and statements (Stmt).                               *)
NoExpr          == [k |-> "none"]
Const(v)        == [k |-> "const", v |-> v]
Id(name)        == [k |-> "id", name |-> name]
Bin(l, op, r)   == [k |-> "binop", op |-> op, l |-> l, r |-> r]
Un(op, e)       == [k |-> "unop", op |-> op, e |-> e]
Index(base, i)  == [k |-> "arrayref", base |-> base, index |-> i]
Call(name, args) == [k |-> "call", name |-> name, args |-> args]
Cast(e)         == [k |-> "cast", e |-> e]

Decl(name, init)     == [k |-> "decl", name |-> name, init |-> init]
Assign(lhs, op, rhs) == [k |-> "assign", op |-> op, lhs |-> lhs, rhs |-> rhs]
For(name, bound, body) == [k |-> "for", name |-> name, bound |-> bound, body |-> body]
If(cond, body)       == [k |-> "if", cond |-> cond, body |-> body]
Return(e)            == [k |-> "return", e |-> e]
ExprCall(call)       == [k |-> "exprcall", call |-> call]
IncDec(name, delta)  == [k |-> "incdec", name |-> name, delta |-> delta]

Param(name, isPtr)  == [name |-> name, isPtr |-> isPtr]
Func(params, body)  == [params |-> params, body |-> body]
NoFunc              == Func(<<>>, <<>>)
-----------------------------------------------------------------------------
(***************************************************************************)
(* Writing a tree down as C does, with no parenthesis C can do without: an  *)
(* operand is parenthesised if it binds less tightly than its place asks.   *)
(***************************************************************************)
CLevels == <<{"|"}, {"^"}, {"&"}, {"==", "!="}, {"<", ">", "<=", ">="}, {"<<", ">>"},
             {"+", "-"}, {"*", "/", "%"}>>
UnaryLevel   == Len(CLevels) + 1
PostfixLevel == Len(CLevels) + 2
LevelOf(op)  == CHOOSE n \in DOMAIN CLevels : op \in CLevels[n]
Level(e) == CASE e.k = "binop" -> LevelOf(e.op)
              [] e.k \in {"unop", "cast"} -> UnaryLevel
              [] OTHER -> PostfixLevel

Parenthesised(ts) == <<Punct("(")>> \o ts \o <<Punct(")")>>
Listed(lists) ==      \* with commas between
    FlattenSeq([n \in DOMAIN lists |->
                  IF n = 1 THEN lists[n] ELSE <<Punct(",")>> \o lists[n]])

RECURSIVE Written(_, _)
Written(e, min) ==
    LET bare ==
          CASE e.k = "const" -> <<Num(e.v)>>
            [] e.k = "id"    -> <<Ident(e.name)>>
            [] e.k = "binop" -> Written(e.l, Level(e)) \o <<Punct(e.op)>>
                                  \o Written(e.r, Level(e) + 1)
            [] e.k = "unop"  -> <<Punct(e.op)>> \o Written(e.e, UnaryLevel)
            [] e.k = "cast"  -> Parenthesised(<<Ident("uint64_t"), Punct("*")>>)
                                  \o Written(e.e, UnaryLevel)
            [] e.k = "arrayref" -> Written(e.base, PostfixLevel) \o <<Punct("[")>>
                                     \o Written(e.index, 1) \o <<Punct("]")>>
            [] e.k = "call"  -> <<Ident(e.name)>> \o
                 Parenthesised(Listed([n \in DOMAIN e.args |-> Written(e.args[n], 1)]))
    IN  IF Level(e) < min THEN Parenthesised(bare) ELSE bare
Expr(e) == Written(e, 1)

Ended(ts) == ts \o <<Punct(";")>>
Braced(ts) == <<Punct("{")>> \o ts \o <<Punct("}")>>
Typed(name) == <<Ident("uint64_t"), Ident(name)>>

RECURSIVE Statement(_)
Block(body) == Braced(FlattenSeq([n \in DOMAIN body |-> Statement(body[n])]))
Statement(s) ==
    CASE s.k = "decl"   -> Ended(Typed(s.name) \o
                                 (IF s.init = NoExpr THEN <<>> ELSE <<Punct("=")>> \o Expr(s.init)))
      [] s.k = "assign" -> Ended(Expr(s.lhs) \o <<Punct(s.op)>> \o Expr(s.rhs))
      [] s.k = "for"    -> <<Ident("for"), Punct("("), Ident("int"), Ident(s.name), Punct("="),
                             Num(0), Punct(";"), Ident(s.name), Punct("<")>>
                           \o Written(s.bound, LevelOf("<") + 1) \o
                           <<Punct(";"), Ident(s.name), Punct("++"), Punct(")")>> \o Block(s.body)
      [] s.k = "if"     -> (IF s.cond = Const(1) THEN <<>>       \* a bare block
                            ELSE <<Ident("if")>> \o Parenthesised(Expr(s.cond))) \o Block(s.body)
      [] s.k = "return" -> Ended(<<Ident("return")>> \o (IF s.e = NoExpr THEN <<>> ELSE Expr(s.e)))
      [] s.k = "exprcall" -> Ended(Expr(s.call))
      [] s.k = "incdec" -> Ended(<<Ident(s.name), Punct(IF s.delta = 1 THEN "++" ELSE "--")>>)

Parameter(p) == <<Ident("uint64_t")>> \o (IF p.isPtr THEN <<Punct("*")>> ELSE <<>>)
                  \o <<Ident(p.name)>>
Source(fn) ==
    Typed("f") \o Parenthesised(Listed([n \in DOMAIN fn.params |-> Parameter(fn.params[n])]))
      \o Block(fn.body)
=============================================================================
