------------------------------- MODULE MCCore -------------------------------
(* TiaraCore for TLC: the programs the instruction store is loaded with.   *)
EXTENDS TiaraCore, MCPrograms

MemoryPool == {LI, INC, LD, LDPeer, ST, STPeer, CAA, CAS, JMP3(2), LOOP(2)}
LoopPool == {INC, LOOP(1), LOOP(2), LOOP(3), JMP(2)}

StructuredPrograms ==
    {p \in {Load(DEPTH, s) : s \in SeqsOf(MemoryPool, 3)
                                    \cup SeqsOf(LoopPool, 5)} : Structured(p)}

(* Memory traffic of every kind, and what ends a task.                     *)
TaskPool == {INC, LD, LDPeer, ST, STPeer, CAA, CPYA, CPYS, WAITNOP, MUL, BAD}
TaskPrograms == {Load(DEPTH, s) : s \in SeqsOf(TaskPool, 3)}

(* One program for each construct the executors treat differently.         *)
WaitProgram   == {Load(DEPTH, <<CPYA, WAIT, INC, NOP>>)}
MulProgram    == {Load(DEPTH, <<MUL>>)}
StaleProgram  == {Load(DEPTH, <<LOOP(3), INC, RET, NOP>>)}
ZeroProgram   == {Load(DEPTH, <<LOOP0(1), INC>>)}
NestedProgram == {Load(DEPTH, <<LOOP(3), INC, LOOP(1), INC>>)}
BadProgram    == {Load(DEPTH, <<BAD>>)}
AndProgram    == {Load(DEPTH, <<ANDNeg>>)}
CopyProgram   == {Load(DEPTH, <<CPYA>>)}

SomeArgs == {<<1, 0>>, <<3, 2>>}
LongArgs == {<<1, 0>>, <<4, 2>>}       \* 4: a count of as many bits as a frame has, and no more
OverArgs == {<<5, 0>>}                 \* a count of one bit more
HighArgs == {<<1, 8>>}                 \* an operand that ANDI's immediate, sign-extended, keeps more of

EvenAddresses == {0, 2, 4, 6}
=============================================================================
