---------------------------- MODULE TiaraEncoding ----------------------------
(***************************************************************************)
(* web/src/engine/isa.ts: instruction words as numbers, and the            *)
(* instruction fields they are packed from and unpacked to.                *)
(***************************************************************************)
EXTENDS TiaraIsa, Sequences, SequencesExt

ASSUME EncodingAssumption == NUM_REGS <= 16      \* register fields have four bits

OpByte == [NOP |-> 0, LOAD |-> 1, STORE |-> 2, JUMP |-> 16, LOOP |-> 17, WAIT |-> 18,
           RET |-> 19, COMPUTE |-> 32, MEMCPY |-> 131, CAS |-> 132, CAA |-> 133]
SubNames == <<"ADD", "SUB", "AND", "OR", "XOR", "SHL", "SHR", "MUL", "ADDI", "ANDI",
              "SHLI", "SHRI", "LI", "EQ", "LT", "GE">>
SubNibble == [name \in Subs |-> (CHOOSE i \in 1 .. 16 : SubNames[i] = name) - 1]

(* The flag bits of a MEMCPY; no executor acts on the strided ones.         *)
FlagBit == [ASYNC |-> 1, LEN_REG |-> 2, STRIDED_GATHER |-> 4, STRIDED_SCAT |-> 8]
FlagsNamed(nibble) ==
    <<"SYNC", "ASYNC", "LEN_FROM_REG", "ASYNC_LEN_FROM_REG">>[(nibble % 4) + 1]

(* Instr: the fields before they are packed, imm any integer.              *)
Instr(op) == [op |-> op, rd |-> 0, rs1 |-> 0, rs2 |-> 0, sub |-> 0, imm |-> 0]
Width(op) == IF op \in TwoWordOps THEN 2 ELSE 1

(* checkImm40: signed and unsigned 40-bit numbers both pass.               *)
ImmFits(v) == v \in -2^(IMMW - 1) .. 2^IMMW - 1

\* Mutant of encodeWord: rs1 and rs2 in each other's field.
encodeWordSwapped(i) ==
    ((((OpByte[i.op] * 16 + i.rd) * 16 + i.rs2) * 16 + i.rs1) * 16 + i.sub) * 2^IMMW
      + (i.imm % 2^IMMW)
encodeWord(i) ==
    ((((OpByte[i.op] * 16 + i.rd) * 16 + i.rs1) * 16 + i.rs2) * 16 + i.sub) * 2^IMMW
      + (i.imm % 2^IMMW)

(* encode: an instruction of two words carries its second one in extra.    *)
encode(i, extra) ==
    <<encodeWord(i)>> \o (IF Width(i.op) = 2 THEN <<encodeWord(extra)>> ELSE <<>>)

(* decodeWord, to the decoded instruction of TiaraIsa.                     *)
Nibble(w, k) == (w \div (2^IMMW * 16^k)) % 16
OpAt(w) ==
    LET named == {o \in DOMAIN OpByte : OpByte[o] = w \div (2^IMMW * 16^4)}
    IN  IF named = {} THEN "BAD" ELSE CHOOSE o \in named : TRUE
SubAt(w) ==
    IF OpAt(w) = "MEMCPY" THEN FlagsNamed(Nibble(w, 0)) ELSE SubNames[Nibble(w, 0) + 1]

decodeWord(w) ==
    Ins(OpAt(w), Nibble(w, 3), Nibble(w, 2), Nibble(w, 1), SubAt(w), w % 2^IMMW)
=============================================================================
