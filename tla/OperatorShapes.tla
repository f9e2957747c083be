---------------------------- MODULE OperatorShapes ----------------------------
(***************************************************************************)
(* Classes of programs: the hypotheses under which the promises of the     *)
(* documents hold of the code.  A program is a function from word          *)
(* addresses to instruction words.                                         *)
(***************************************************************************)
EXTENDS TiaraIsa

Those(p, op) == {a \in DOMAIN p : p[a].op = op}
Loops(p) == Those(p, "LOOP")
EndOf(p, a) == a + 1 + p[a].imm
Inside(p, a, b) == a < b /\ b < EndOf(p, a)        \* b is in the body of loop a
Tail2(p) == {a + 1 : a \in {b \in DOMAIN p : IsTwoWord(p[b])}}
LastRet(p) == IF Those(p, "RET") = {} THEN Max(DOMAIN p) ELSE Max(Those(p, "RET"))

(* Loop bodies nest, end at distinct places and do not end with a LOOP;    *)
(* branches stay in the loop they are in; nothing lands in the middle of a *)
(* two-word instruction or past the last RET.                              *)
Structured(p) ==
    /\ LastRet(p) \notin Tail2(p)
    /\ \A a \in Loops(p) :
         /\ p[a].imm > 0
         /\ EndOf(p, a) <= LastRet(p)
         /\ EndOf(p, a) \notin Tail2(p)
         /\ EndOf(p, a) - 1 \notin Loops(p)
         /\ \A b \in Loops(p) : Inside(p, a, b) => EndOf(p, b) < EndOf(p, a)
    /\ \A j \in Those(p, "JUMP") :
         LET target == j + p[j].imm
         IN  /\ p[j].imm > 0 /\ target <= LastRet(p) /\ target \notin Tail2(p)
             /\ \A a \in Loops(p) :
                  IF Inside(p, a, j) THEN target <= EndOf(p, a)
                  ELSE ~Inside(p, a, target)

(* The second word of an instruction does nothing where it is executed as   *)
(* an instruction of its own.                                              *)
InertTails(p) == \A a \in Tail2(p) \cap DOMAIN p : p[a].op = "NOP"

(* No instruction writes a register a loop takes its count from.           *)
WritesReg(w) == w.op \in {"COMPUTE", "LOAD", "CAS", "CAA", "MEMCPY"}
FixedCounts(p) ==
    \A a \in Loops(p), b \in DOMAIN p : WritesReg(p[b]) => p[b].rd # p[a].rs1

(* As many async copies as the cap allows, and none in a loop or behind a  *)
(* branch back.                                                            *)
FewCopies(p, cap) ==
    /\ \A a \in Those(p, "JUMP") \cup Loops(p) : SignedImm(p[a].imm) > 0
    /\ Cardinality(Those(p, "MEMCPY")) <= cap
    /\ \A a \in Those(p, "MEMCPY"), b \in Loops(p) : ~Inside(p, b, a)

(* No branch and no loop, no offset in an access, no sum of two registers   *)
(* and no shift, no copy that leaves its status in a register.             *)
StraightAccesses(p) ==
    /\ Those(p, "JUMP") = {} /\ Loops(p) = {}
    /\ \A a \in Those(p, "LOAD") \cup Those(p, "STORE") : p[a].imm = 0
    /\ \A a \in Those(p, "COMPUTE") : p[a].sub \notin {"ADD", "SHLI"}
    /\ \A a \in Those(p, "MEMCPY") : p[a].rd = 0
=============================================================================
