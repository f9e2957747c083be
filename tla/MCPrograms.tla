----------------------------- MODULE MCPrograms -----------------------------
(***************************************************************************)
(* The instructions and programs the model-checking modules load.  A       *)
(* program is a sequence of instructions followed by RET and NOPs.  r1 and *)
(* r2 are the arguments: r1 counts loops, r2 is an address.                *)
(***************************************************************************)
EXTENDS OperatorShapes, Sequences, SequencesExt

LI      == <<Ins("COMPUTE", 3, 0, 0, "LI", 5)>>
INC     == <<Ins("COMPUTE", 3, 3, 0, "ADDI", 1)>>
NOP     == <<NopWord>>
LD      == <<Ins("LOAD", 3, 2, 0, "ADD", 0)>>
LDPeer  == <<Ins("LOAD", 3, 2, 0, "ADD", 4)>>
ST      == <<Ins("STORE", 0, 2, 3, "ADD", 0)>>
STPeer  == <<Ins("STORE", 0, 2, 1, "ADD", 4)>>
CAA     == <<Ins("CAA", 3, 2, 1, "ADD", 0), NopWord>>
CAS     == <<Ins("CAS", 3, 2, 0, "ADD", 0), Ins("NOP", 1, 0, 0, "ADD", 0)>>
MUL     == <<Ins("COMPUTE", 3, 1, 2, "MUL", 0)>>
ANDNeg  == <<Ins("COMPUTE", 3, 2, 0, "ANDI", 2^IMMW - 1)>>
JMP(n)  == <<Ins("JUMP", 0, 1, 0, "ADD", n)>>
JMP3(n) == <<Ins("JUMP", 0, 3, 0, "ADD", n)>>
LOOP(n) == <<Ins("LOOP", 0, 1, 0, "ADD", n)>>
LOOP0(n) == <<Ins("LOOP", 0, 0, 0, "ADD", n)>>
WAIT    == <<Ins("WAIT", 0, 0, 0, "ADD", 0)>>
CPYA    == <<Ins("MEMCPY", 3, 2, 1, "ASYNC", 1), NopWord>>
CPYS    == <<Ins("MEMCPY", 3, 2, 1, "SYNC", 2), NopWord>>
WAITNOP == WAIT \o NOP       \* with the instruction WAIT skips
RET     == <<Ins("RET", 0, 0, 0, "ADD", 0)>>
BAD     == <<Ins("BAD", 0, 0, 0, "ADD", 0)>>

(* The instruction store that holds the instructions of s.                 *)
Load(depth, s) ==
    LET code == FlattenSeq(s) \o RET
    IN  [a \in 0 .. depth - 1 |-> IF a < Len(code) THEN code[a + 1] ELSE NopWord]

SeqsOf(pool, n) == [1 .. n -> pool]
=============================================================================
