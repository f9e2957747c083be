------------------------------ MODULE TiaraParser ------------------------------
(***************************************************************************)
(* web/src/engine/cc.ts, class Parser: recursive descent with precedence   *)
(* climbing.  A parser takes the tokens ts and a position and yields the    *)
(* position behind what it read and the tree.  Position 0 is an error, at   *)
(* which no token stands: whatever reads on from it stays there.           *)
(***************************************************************************)
EXTENDS TiaraCSyntax, TLC

Nowhere == [t |-> "nowhere", s |-> "nowhere"]
Peek(ts, p) == IF p = 0 THEN Nowhere ELSE IF p <= Len(ts) THEN ts[p] ELSE EndOfFile
Skip(p, n) == IF p = 0 THEN 0 ELSE p + n
Eat(ts, p, s) == IF Peek(ts, p).s = s THEN p + 1 ELSE 0
EatIdent(ts, p) == IF Peek(ts, p).t = "id" THEN p + 1 ELSE 0
Parsed(p, node) == [pos |-> p, node |-> node]
Then(ts, e, s) == Parsed(Eat(ts, e.pos, s), e.node)      \* what was read, and s behind it
AndAlso(before, e) == Parsed(e.pos, Append(before.node, e.node))

(* The first position from p on whose token is not one of S.               *)
Past(ts, p, S) ==
    CHOOSE q \in p .. p + Len(ts) :
        /\ Peek(ts, q).s \notin S
        /\ \A r \in p .. q - 1 : Peek(ts, r).s \in S

IsType(ts, p) == Peek(ts, p).t = "id" /\ Peek(ts, p).s \in TYPE_KEYWORDS
PastTypeName(ts, p) == IF IsType(ts, p) THEN Past(ts, p, TYPE_KEYWORDS) ELSE 0
parseTypeSpec(ts, p) == Past(ts, PastTypeName(ts, p), {"*"})
IsPtr(ts, p) == Peek(ts, PastTypeName(ts, p)).s = "*"
-----------------------------------------------------------------------------
PREC == [op \in {"|"} |-> 1] @@ [op \in {"^"} |-> 2] @@ [op \in {"&"} |-> 3]
        @@ [op \in {"==", "!="} |-> 4] @@ [op \in {"<", ">=", "<=", ">"} |-> 5]
        @@ [op \in {"<<", ">>"} |-> 6] @@ [op \in {"+", "-"} |-> 7]
        @@ [op \in {"*", "/", "%"} |-> 8]

RECURSIVE parseBin(_, _, _), BinRest(_, _, _), parseUnary(_, _), PostfixRest(_, _), Args(_, _)

parseExpr(ts, p) == parseBin(ts, p, 0)
parseBin(ts, p, minPrec) == BinRest(ts, parseUnary(ts, p), minPrec)

\* Mutant of BinRest: the right operand takes operators of the same level.
BinRestRight(ts, left, minPrec) ==
    LET op == Peek(ts, left.pos).s
    IN  IF op \notin DOMAIN PREC \/ PREC[op] < minPrec THEN left
        ELSE LET right == parseBin(ts, left.pos + 1, PREC[op])
             IN  BinRest(ts, Parsed(right.pos, Bin(left.node, op, right.node)), minPrec)
BinRest(ts, left, minPrec) ==
    LET op == Peek(ts, left.pos).s
    IN  IF op \notin DOMAIN PREC THEN left
        ELSE IF PREC[op] < minPrec THEN left
        ELSE LET right == parseBin(ts, left.pos + 1, PREC[op] + 1)
             IN  BinRest(ts, Parsed(right.pos, Bin(left.node, op, right.node)), minPrec)

parsePrimary(ts, p) ==
    LET t == Peek(ts, p)
    IN  CASE t.t = "num" -> Parsed(p + 1, Const(t.v))
          [] t.t = "id"  -> Parsed(p + 1, Id(t.s))
          [] t.s = "("   -> Then(ts, parseExpr(ts, p + 1), ")")
          [] OTHER       -> Parsed(0, NoExpr)

Args(ts, before) ==
    LET args == AndAlso(before, parseExpr(ts, before.pos))
    IN  IF Peek(ts, args.pos).s = "," THEN Args(ts, Parsed(args.pos + 1, args.node)) ELSE args

PostfixRest(ts, e) ==
    LET s == Peek(ts, e.pos).s
    IN  CASE s = "[" ->
               LET i == parseExpr(ts, e.pos + 1)
               IN  PostfixRest(ts, Parsed(Eat(ts, i.pos, "]"), Index(e.node, i.node)))
          [] s = "(" /\ e.node.k = "id" ->
               LET none == Parsed(e.pos + 1, <<>>)
                   args == IF Peek(ts, none.pos).s = ")" THEN none ELSE Args(ts, none)
               IN  PostfixRest(ts, Parsed(Eat(ts, args.pos, ")"), Call(e.node.name, args.node)))
          [] OTHER -> e

parseUnary(ts, p) ==
    LET s == Peek(ts, p).s
    IN  CASE s = "+" -> parseUnary(ts, p + 1)
          [] s \in {"-", "!", "~"} ->
               LET e == parseUnary(ts, p + 1) IN Parsed(e.pos, Un(s, e.node))
          [] s = "(" /\ IsType(ts, p + 1) ->
               LET e == parseUnary(ts, Eat(ts, parseTypeSpec(ts, p + 1), ")"))
               IN  Parsed(e.pos, Cast(e.node))
          [] OTHER -> PostfixRest(ts, parsePrimary(ts, p))
-----------------------------------------------------------------------------
RECURSIVE parseStmt(_, _), Stmts(_, _)

(* parseBlock reads up to a closing brace or the end of the file.          *)
Stmts(ts, before) ==
    LET t == Peek(ts, before.pos)
    IN  IF t.s \in {"}", "", "nowhere"} /\ t.t # "num" THEN before
        ELSE Stmts(ts, AndAlso(before, parseStmt(ts, before.pos)))
parseBlock(ts, p) == Then(ts, Stmts(ts, Parsed(Eat(ts, p, "{"), <<>>)), "}")
parseBracedOrSingle(ts, p) ==
    IF Peek(ts, p).s = "{" THEN parseBlock(ts, p)
    ELSE AndAlso(Parsed(p, <<>>), parseStmt(ts, p))

parseDecl(ts, p) ==
    LET name == parseTypeSpec(ts, p)
        after == EatIdent(ts, name)
        e == IF Peek(ts, after).s = "=" THEN parseExpr(ts, after + 1) ELSE Parsed(after, NoExpr)
    IN  Parsed(Eat(ts, e.pos, ";"), Decl(Peek(ts, name).s, e.node))

(* Of the iteration only its place is read: LOOP counts by ones.           *)
parseForIter(ts, p) ==
    LET second == Peek(ts, Skip(p, 1)).s
        upTo == CHOOSE q \in p .. Len(ts) + 1 :
                  /\ Peek(ts, q).s \in {")", ""} /\ Peek(ts, q).t # "num"
                  /\ \A r \in p + 1 .. q - 1 : Peek(ts, r).s # ")"
    IN  CASE Peek(ts, p).s \in {"++", "--"} -> p + 2
          [] Peek(ts, p).t = "id" -> IF second \in {"++", "--"} THEN p + 2 ELSE upTo
          [] OTHER -> p

Counts(counter, zero, cond) ==
    /\ zero = Const(0)
    /\ cond.k = "binop" /\ cond.op = "<" /\ cond.l = Id(counter)
ForOf(counter, bound, body) == Parsed(body.pos, For(counter, bound, body.node))
parseFor(ts, p) ==
    LET name == parseTypeSpec(ts, Eat(ts, p + 1, "("))
        zero == parseExpr(ts, Eat(ts, Skip(name, 1), "="))
        cond == parseExpr(ts, Eat(ts, zero.pos, ";"))
        iter == parseForIter(ts, Eat(ts, cond.pos, ";"))
        counter == Peek(ts, name).s
    IN  IF Eat(ts, iter, ")") # 0 /\ Counts(counter, zero.node, cond.node)
        THEN ForOf(counter, cond.node.r, parseBracedOrSingle(ts, Eat(ts, iter, ")")))
        ELSE Parsed(0, NoExpr)

IfOf(cond, body) == Parsed(body.pos, If(cond, body.node))
NoElse(ts, e) == IF Peek(ts, e.pos).s = "else" THEN Parsed(0, e.node) ELSE e
parseIf(ts, p) ==
    LET cond == Then(ts, parseExpr(ts, Eat(ts, p + 1, "(")), ")")
    IN  NoElse(ts, IfOf(cond.node, parseBracedOrSingle(ts, cond.pos)))

parseReturn(ts, p) ==
    LET e == IF Peek(ts, p + 1).s = ";" THEN Parsed(p + 1, NoExpr) ELSE parseExpr(ts, p + 1)
    IN  Then(ts, Parsed(e.pos, Return(e.node)), ";")

AssignOps == {"=", "+=", "-=", "*=", "&=", "|=", "^=", "<<=", ">>="}
parseSimpleStmt(ts, p) ==
    LET op  == Peek(ts, p + 1).s
        lhs == parseExpr(ts, p)
        rhs == parseExpr(ts, lhs.pos + 1)
    IN  CASE Peek(ts, p).t = "id" /\ op \in {"++", "--"} ->
               Parsed(Eat(ts, p + 2, ";"), IncDec(Peek(ts, p).s, IF op = "++" THEN 1 ELSE -1))
          [] Peek(ts, lhs.pos).s \in AssignOps ->
               Parsed(Eat(ts, rhs.pos, ";"), Assign(lhs.node, Peek(ts, lhs.pos).s, rhs.node))
          [] OTHER ->
               Parsed(IF lhs.node.k = "call" THEN Eat(ts, lhs.pos, ";") ELSE 0, ExprCall(lhs.node))

(* A block that stands by itself is read as an if (1).                     *)
parseStmt(ts, p) ==
    LET s == Peek(ts, p).s
    IN  CASE s = "for"    -> parseFor(ts, p)
          [] s = "if"     -> parseIf(ts, p)
          [] s = "return" -> parseReturn(ts, p)
          [] s = "{"      -> IfOf(Const(1), parseBlock(ts, p))
          [] IsType(ts, p) -> parseDecl(ts, p)
          [] OTHER        -> parseSimpleStmt(ts, p)

RECURSIVE Params(_, _, _)
Params(ts, p, before) ==
    LET name   == parseTypeSpec(ts, p)
        after  == EatIdent(ts, name)
        params == Append(before, Param(Peek(ts, name).s, IsPtr(ts, p)))
    IN  CASE Peek(ts, p).s = "void" /\ Peek(ts, p + 1).s = ")" -> Parsed(p + 1, before)
          [] Peek(ts, after).s = "," -> Params(ts, after + 1, params)
          [] OTHER -> Parsed(after, params)

(* parseFunction: what follows the function is not read.                   *)
parseFunction(ts) ==
    LET open == Eat(ts, EatIdent(ts, parseTypeSpec(ts, 1)), "(")
        params == IF Peek(ts, open).s = ")" THEN Parsed(open, <<>>) ELSE Params(ts, open, <<>>)
        body == parseBlock(ts, Eat(ts, params.pos, ")"))
    IN  [ok |-> body.pos # 0, fn |-> IF body.pos # 0 THEN Func(params.node, body.node) ELSE NoFunc]
=============================================================================
