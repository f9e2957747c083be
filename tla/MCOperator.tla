------------------------------ MODULE MCOperator ------------------------------
(* TiaraOperator for TLC.  r1 is bounded by the manifest, r2 is an address.  *)
EXTENDS TiaraOperator, MCPrograms, TLC

(* An operator is its instructions: nothing is padded.                     *)
Operator(s) == LET code == FlattenSeq(s) IN [a \in 0 .. Len(code) - 1 |-> code[a + 1]]

INC2   == <<Ins("COMPUTE", 1, 1, 0, "ADDI", 2)>>
INC1   == <<Ins("COMPUTE", 1, 1, 0, "ADDI", 1)>>
LOOP3  == <<Ins("LOOP", 0, 3, 0, "ADD", 1)>>
JMPBack == <<Ins("JUMP", 0, 1, 0, "ADD", 2^IMMW - 1)>>

(* Every kind of instruction; nests of loops; loop counts that change,      *)
(* branches out of loops, missing RETs; branches backwards.                *)
PlainPool == {INC, LI, LD, ST, CAA, CAS, NOP, LOOP(1), LOOP(2), LOOP(3), JMP(2), CPYA, WAIT}
FlowPool  == {INC, LOOP(1), LOOP(2), LOOP(3), JMP(2)}
DeepNests == {<<LOOP(5), LOOP(3), LOOP(1), INC, INC, i>> : i \in {INC, JMP(1)}}
WildPool  == {INC1, LOOP(1), LOOP(2), LOOP3, JMP(2), JMP(3), CPYA, WAIT, RET, BAD}
BackPool  == {INC1, JMPBack, RET}

(* Straight code that computes, loads, stores and masks addresses in r3.    *)
LDI    == <<Ins("LOAD", 3, 3, 0, "ADD", 0)>>
STI    == <<Ins("STORE", 0, 3, 1, "ADD", 0)>>
LI15   == <<Ins("COMPUTE", 3, 0, 0, "LI", 2^IMMW - 1)>>
AND(k) == <<Ins("COMPUTE", 3, 3, 0, "ANDI", k)>>
ADD(k) == <<Ins("COMPUTE", 3, 3, 0, "ADDI", k)>>
AddressPool == {LI, LI15, LD, ST, LDI, STI, AND(3), AND(7), ADD(1), ADD(2)}

(* A count that the way around a branch makes larger than the text says.   *)
LI1    == <<Ins("COMPUTE", 3, 0, 0, "LI", 1)>>
LOOPr3(n) == <<Ins("LOOP", 0, 3, 0, "ADD", n)>>
WrittenCounts == {Operator(<<LI15, JMP(2), LI1, LOOPr3(3), LOOPr3(1), NOP, NOP, RET>>)}

TheManifest ==
    [max_dynamic |-> 60,
     regions   |-> {[tag |-> "host", base |-> 0, size |-> 8]},
     arguments |-> (1 :> [lo |-> 0, hi |-> 3, region |-> "none", opaque |-> FALSE])
                   @@ (2 :> [lo |-> 0, hi |-> 7, region |-> "host", opaque |-> FALSE])]

Candidates ==
    {Operator(s \o <<RET>>) : s \in SeqsOf(PlainPool, 3) \cup SeqsOf(FlowPool, 5)
                                      \cup SeqsOf(AddressPool, 4) \cup DeepNests}
      \cup {Operator(s) : s \in SeqsOf(WildPool, 4)} \cup WrittenCounts
Rejected ==
    {p \in {Operator(<<INC2>> \o s) : s \in SeqsOf(BackPool, 2)} : ~V!Accepts(p, TheManifest)}

Operators == {p \in Candidates : V!Accepts(p, TheManifest)} \cup Rejected

PastTheEnd == {Operator(<<LI15, AND(7), ADD(1), LDI, RET>>)}

OpArgs == {<<0, 0>>, <<1, 1>>, <<3, 5>>}
=============================================================================
