------------------------------- MODULE TiaraAsm -------------------------------
(***************************************************************************)
(* web/src/engine/asm.ts: the two-pass assembler.  The text of a source    *)
(* line is abstracted to its label, its first word and its operands, each  *)
(* tagged with what it is written as.  A name is a pair: a prefix and a    *)
(* number (0 for a name written by hand).                                  *)
(***************************************************************************)
EXTENDS TiaraEncoding, TLC

CONSTANTS INSTR_STORE_DEPTH

Name(s) == <<s, 0>>
NoLabel == Name("")

RegOp(n)    == [t |-> "reg", n |-> n]                 \* r3
IntOp(v)    == [t |-> "int", n |-> v]                 \* 0x42
MemOp(r, v) == [t |-> "mem", n |-> r, off |-> v]      \* [r3 + 8]
SymOp(name) == [t |-> "sym", name |-> name]           \* done, N, ASYNC
KeyOp(k, o) == [t |-> "key", key |-> k, of |-> o]     \* LEN=8

(* A line: "label: head operands", any part of it missing.  A head starts   *)
(* with a dot if it is a directive; "" stands for none.                    *)
Line(label, head, operands) == [label |-> label, head |-> head, operands |-> operands]
Code(head, operands) == Line(NoLabel, head, operands)
At(label) == Line(label, "", <<>>)
-----------------------------------------------------------------------------
(***************************************************************************)
(* The mnemonics: the field each operand fills.                            *)
(***************************************************************************)
RegForms == {"ADD", "SUB", "AND", "OR", "XOR", "SHL", "SHR", "MUL", "EQ", "LT", "GE"}
ImmForms == {"ADDI", "ANDI", "SHLI", "SHRI"}
Mnemonics == Subs \cup (DOMAIN OpByte \ {"COMPUTE"})

Fields(head, n) ==
    CASE head \in RegForms \cup {"CAA", "MEMCPY"} -> <<"rd", "rs1", "rs2">>
      [] head \in ImmForms          -> <<"rd", "rs1", "imm">>
      [] head = "LI"                -> <<"rd", "imm">>
      [] head = "LOAD"              -> <<"rd", "mem">>
      [] head = "STORE"             -> <<"mem", "rs2">>
      [] head \in {"JUMP", "LOOP"}  -> <<"rs1", "label">>
      [] head = "WAIT"              -> <<"imm">>
      [] head = "RET"               -> IF n = 0 THEN <<>> ELSE <<"rs1">>
      [] head = "CAS"               -> <<"rd", "rs1", "rs2", "new">>
      [] head = "NOP"               -> <<>>

IsReg(o) == o.t = "reg" /\ o.n < NUM_REGS
Fits(o, field) ==
    CASE field = "imm"   -> o.t = "int"
      [] field = "mem"   -> o.t = "mem" /\ o.n < NUM_REGS
      [] field = "label" -> o.t = "sym"
      [] OTHER           -> IsReg(o)

(* What follows the registers of a MEMCPY: flags, LEN= and the registers    *)
(* of a length or stride.                                                  *)
KeyFields == [LEN_REG |-> "rd", DST_STRIDE |-> "rs1", SRC_STRIDE |-> "rs2", COUNT |-> "sub"]
KeyFlags  == [LEN_REG |-> "LEN_REG", DST_STRIDE |-> "STRIDED_SCAT",
              SRC_STRIDE |-> "STRIDED_GATHER"]
OptionOK(o) ==
    \/ o.t = "sym" /\ \E f \in DOMAIN FlagBit : o.name = Name(f)
    \/ o.t = "key" /\ (IF o.key = "LEN" THEN o.of.t = "int"
                       ELSE o.key \in DOMAIN KeyFields /\ IsReg(o.of))
FlagsOf(o) ==
    IF o.t = "sym" THEN {o.name[1]}
    ELSE IF o.key \in DOMAIN KeyFlags THEN {KeyFlags[o.key]} ELSE {}

WellFormed(head, ops) ==
    /\ head \in Mnemonics
    /\ LET fields == Fields(head, Len(ops))
       IN  /\ \/ head = "NOP"
              \/ Len(ops) = Len(fields)
              \/ head = "MEMCPY" /\ Len(ops) > 3
           /\ \A k \in 1 .. Len(fields) : Fits(ops[k], fields[k])
    /\ head = "MEMCPY" => \A k \in 4 .. Len(ops) : OptionOK(ops[k])

(* An instruction before its label is known: its fields, its second word,   *)
(* the label it refers to and its address.                                 *)
Filled(i, o, field) ==
    CASE field = "imm"   -> [i EXCEPT !.ins.imm = o.n]
      [] field = "mem"   -> [i EXCEPT !.ins.rs1 = o.n, !.ins.imm = o.off]
      [] field = "label" -> [i EXCEPT !.ref = o.name]
      [] field = "new"   -> [i EXCEPT !.extra.rd = o.n]
      [] OTHER           -> [i EXCEPT !.ins[field] = o.n]

WithOption(i, o) ==
    IF o.t = "sym" THEN i
    ELSE IF o.key = "LEN" THEN [i EXCEPT !.ins.imm = o.of.n]
    ELSE [i EXCEPT !.extra[KeyFields[o.key]] = o.of.n]

Pending(head, ops, pc) ==
    LET isSub  == head \in Subs
        fields == Fields(head, Len(ops))
        bare   == [ins |-> [Instr(IF isSub THEN "COMPUTE" ELSE head) EXCEPT
                              !.sub = IF isSub THEN SubNibble[head] ELSE 0],
                   extra |-> Instr("NOP"), ref |-> NoLabel, pc |-> pc]
        plain  == FoldLeftDomain(LAMBDA i, k : Filled(i, ops[k], fields[k]), bare, fields)
        options == IF head = "MEMCPY" THEN SubSeq(ops, 4, Len(ops)) ELSE <<>>
        flags   == UNION {FlagsOf(options[k]) : k \in DOMAIN options}
        full    == FoldLeft(WithOption, plain, options)
    IN  IF head # "MEMCPY" THEN full
        ELSE [full EXCEPT !.ins.sub = MapThenSumSet(LAMBDA f : FlagBit[f], flags)]
-----------------------------------------------------------------------------
(***************************************************************************)
(* assemble, first pass: labels and constants in the order of the lines.    *)
(* The names .arg and .region bind are read by nobody and are not kept.    *)
(***************************************************************************)
DirectiveOK(s, head, ops) ==
    /\ head \in {".arg", ".region", ".const"} /\ Len(ops) = 2 /\ ops[1].t = "sym"
    /\ IF head = ".arg" THEN IsReg(ops[2])
       ELSE \/ ops[2].t = "int"
            \/ ops[2].t = "sym" /\ ops[2].name \in DOMAIN s.consts

Directive(s, head, ops) ==
    IF ~DirectiveOK(s, head, ops) THEN [s EXCEPT !.ok = FALSE]
    ELSE IF head # ".const" THEN s
    ELSE [s EXCEPT !.consts =
            (ops[1].name :> IF ops[2].t = "int" THEN ops[2].n ELSE s.consts[ops[2].name]) @@ @]

(* A whole operand that is the name of a constant stands for its value.    *)
Subbed(s, ops) ==
    [k \in DOMAIN ops |-> IF ops[k].t = "sym" /\ ops[k].name \in DOMAIN s.consts
                          THEN IntOp(s.consts[ops[k].name]) ELSE ops[k]]

\* Mutant of Instruction: every instruction counts as one word.
InstructionOneWord(s, head, ops) ==
    IF ~WellFormed(head, Subbed(s, ops)) THEN [s EXCEPT !.ok = FALSE]
    ELSE [s EXCEPT !.pendings = Append(@, Pending(head, Subbed(s, ops), s.pc)),
                   !.pc = @ + 1]
Instruction(s, head, ops) ==
    IF ~WellFormed(head, Subbed(s, ops)) THEN [s EXCEPT !.ok = FALSE]
    ELSE LET p == Pending(head, Subbed(s, ops), s.pc)
         IN  [s EXCEPT !.pendings = Append(@, p), !.pc = @ + Width(p.ins.op)]

Directives == {".arg", ".const", ".region"}
ReadLine(s0, line) ==
    LET s == IF line.label = NoLabel THEN s0
             ELSE [s0 EXCEPT !.ok = @ /\ line.label \notin DOMAIN s0.labels,
                             !.labels = (line.label :> s0.pc) @@ @]
    IN  CASE ~s.ok                      -> s
          [] line.head = ""             -> s
          [] line.head \in Directives   -> Directive(s, line.head, line.operands)
          [] OTHER                      -> Instruction(s, line.head, line.operands)

FirstPass(source) ==
    FoldLeft(ReadLine, [ok |-> TRUE, pc |-> 0, labels |-> <<>>, consts |-> <<>>,
                        pendings |-> <<>>], source)

(* Second pass: branches and loops lead forward, immediates fit.           *)
Distance(p, labels) == labels[p.ref] - p.pc - (IF p.ins.op = "LOOP" THEN 1 ELSE 0)
Resolved(p, labels) ==
    IF p.ref = NoLabel THEN p ELSE [p EXCEPT !.ins.imm = Distance(p, labels)]
Encodable(p, labels) ==
    /\ p.ref # NoLabel => p.ref \in DOMAIN labels /\ Distance(p, labels) > 0
    /\ ImmFits(Resolved(p, labels).ins.imm)

(* The words of the program, or what is wrong with its source.             *)
Rejected == [ok |-> FALSE, words |-> <<>>]
assemble(source) ==
    LET s == FirstPass(source)
        enc(p) == LET r == Resolved(p, s.labels) IN encode(r.ins, r.extra)
    IN  IF /\ s.ok /\ s.pc <= INSTR_STORE_DEPTH
           /\ \A k \in DOMAIN s.pendings : Encodable(s.pendings[k], s.labels)
        THEN [ok |-> TRUE, words |-> FlattenSeq([k \in DOMAIN s.pendings |-> enc(s.pendings[k])])]
        ELSE Rejected
=============================================================================
