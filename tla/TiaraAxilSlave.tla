--------------------------- MODULE TiaraAxilSlave ---------------------------
(***************************************************************************)
(* integration/corundum_app/rtl/tiara_axil_slave.sv: the registers through *)
(* which the host loads an operator, writes arguments, starts a task and   *)
(* learns that it is over.  A register of 64 bits is two accesses of 32,   *)
(* its halves "lo" and "hi".  An address is a window, an index in it and a *)
(* half.  awready, wready and bvalid are high while wstate is W_RESP, and  *)
(* arready and rvalid while rstate is R_RESP.                              *)
(***************************************************************************)
EXTENDS Naturals

CONSTANTS NUM_ARGS,
          HALF,           \* 2^32
          NoAccess,       \* no access is presented, no instruction loaded
          DEAD0000        \* what an address without a register reads as

Addresses == [win : {"ctrl", "status", "istore", "args", "result"}, idx : Nat,
              half : {"lo", "hi"}]
Words == [to : Addresses, data : Nat]         \* a write that is presented
Instruction == [addr : Nat, data : Nat]       \* what the load port carries

ASSUME SlaveAssumption ==
    /\ NUM_ARGS \in Nat \ {0}
    /\ HALF \in Nat \ {0}
    /\ NoAccess \notin Addresses /\ NoAccess \notin Words /\ NoAccess \notin Instruction

VARIABLES
    istore_lo,            \* low half of the instruction being written
    load,                 \* mp_load_en, _addr, _data
    arg_lo, arg_q,        \* low halves being written; the argument registers
    mp_inv_valid,         \* the invocation pulse
    wstate,
    done_sticky, err_sticky, clr_done_read,
    rstate, ar_q, rdata

writeVars == <<istore_lo, load, arg_lo, arg_q, mp_inv_valid, wstate>>
readVars == <<clr_done_read, rstate, ar_q, rdata>>
slaveVars == <<writeVars, readVars, done_sticky, err_sticky>>

Address(win, idx, half) == [win |-> win, idx |-> idx, half |-> half]
CTRL == Address("ctrl", 0, "lo")
STATUS == Address("status", 0, "lo")
Joined(lo, hi) == HALF * hi + lo
HalfOf(v, half) == IF half = "lo" THEN v % HALF ELSE v \div HALF
(* What is read: the bits of the status, or the word of another register.   *)
NoData == [word |-> DEAD0000, busy |-> FALSE, done |-> FALSE, err |-> FALSE]

SlaveInit ==
    /\ istore_lo = 0 /\ load = NoAccess
    /\ arg_lo = [i \in 1 .. NUM_ARGS |-> 0]
    /\ arg_q = [i \in 1 .. NUM_ARGS |-> 0]
    /\ mp_inv_valid = FALSE /\ wstate = "W_IDLE"
    /\ done_sticky = FALSE /\ err_sticky = FALSE /\ clr_done_read = FALSE
    /\ rstate = "R_IDLE" /\ ar_q = NoAccess /\ rdata = NoData
-----------------------------------------------------------------------------
(* The pulse that starts a task clears what the last one left as well.      *)
clr_done_invoke == mp_inv_valid

\* Mutant of Sticky: a clear in the cycle of the completion wins.
StickyClearFirst(mp_done) ==
    LET cleared == clr_done_invoke \/ clr_done_read
    IN  /\ done_sticky' = (~cleared /\ (mp_done.valid \/ done_sticky))
        /\ err_sticky' = (~clr_done_invoke /\ (err_sticky \/ (mp_done.valid /\ mp_done.err)))

\* Mutant of Sticky: reading does not clear, nor does a new invocation.
StickyForGood(mp_done) ==
    /\ done_sticky' = (mp_done.valid \/ done_sticky)
    /\ err_sticky' = (err_sticky \/ (mp_done.valid /\ mp_done.err))

(* The sticky bits; a completion is stronger than either clear.            *)
Sticky(mp_done) ==
    IF mp_done.valid
    THEN done_sticky' = TRUE /\ err_sticky' = (err_sticky \/ mp_done.err)
    ELSE /\ done_sticky' = (done_sticky /\ ~clr_done_invoke /\ ~clr_done_read)
         /\ err_sticky' = (err_sticky /\ ~clr_done_invoke)

NoPulses == load' = NoAccess /\ mp_inv_valid' = FALSE

(* W_IDLE: a write presented is taken and has its effect at once; a high    *)
(* half goes with the low half written before.                             *)
TakeWrite(w) ==
    LET hits(win, half) == w.to.win = win /\ w.to.half = half
        i == w.to.idx
    IN  /\ wstate = "W_IDLE" /\ w # NoAccess
        /\ istore_lo' = IF hits("istore", "lo") THEN w.data ELSE istore_lo
        /\ load' = IF hits("istore", "hi")
                   THEN [addr |-> i, data |-> Joined(istore_lo, w.data)] ELSE NoAccess
        /\ arg_lo' = IF hits("args", "lo") THEN [arg_lo EXCEPT ![i] = w.data] ELSE arg_lo
        /\ arg_q' = IF hits("args", "hi")
                    THEN [arg_q EXCEPT ![i] = Joined(arg_lo[i], w.data)] ELSE arg_q
        /\ mp_inv_valid' = (w.to = CTRL /\ w.data = 1)
        /\ wstate' = "W_RESP"

WriteRests(w) ==
    /\ wstate = "W_IDLE" /\ w = NoAccess
    /\ NoPulses /\ UNCHANGED <<istore_lo, arg_lo, arg_q, wstate>>

WriteResponds(bready) ==
    /\ wstate = "W_RESP"
    /\ wstate' = IF bready THEN "W_IDLE" ELSE "W_RESP"
    /\ NoPulses /\ UNCHANGED <<istore_lo, arg_lo, arg_q>>

(* The index of a result register is bits 4:3 of the address as it is, and  *)
(* the window begins at 0x2050: its first register is the third result.    *)
ResultAt(idx) == 1 + ((idx + 1) % 4)

(* What a register reads as in this cycle.                                 *)
ReadData(a, busy, result) ==
    CASE a = STATUS         -> [NoData EXCEPT !.busy = busy, !.done = done_sticky,
                                              !.err = err_sticky]
      [] a.win = "result"   -> [NoData EXCEPT !.word = HalfOf(result[ResultAt(a.idx)], a.half)]
      [] a.win = "args"     -> [NoData EXCEPT !.word = HalfOf(arg_q[a.idx], a.half)]
      [] OTHER              -> NoData

TakeRead(a, busy, result) ==
    /\ rstate = "R_IDLE" /\ a # NoAccess
    /\ rdata' = ReadData(a, busy, result)
    /\ ar_q' = a
    /\ rstate' = "R_RESP"
    /\ clr_done_read' = FALSE

ReadRests(a) ==
    /\ rstate = "R_IDLE" /\ a = NoAccess
    /\ clr_done_read' = FALSE
    /\ UNCHANGED <<rstate, ar_q, rdata>>

(* The status is cleared when the response has been taken.                 *)
ReadResponds(rready) ==
    /\ rstate = "R_RESP"
    /\ rstate' = IF rready THEN "R_IDLE" ELSE "R_RESP"
    /\ clr_done_read' = (rready /\ ar_q = STATUS)
    /\ UNCHANGED <<ar_q, rdata>>

(* One clock edge: a write w and the address a of a read that the host      *)
(* presents, whether it takes responses, and what comes from the MP's side. *)
SlaveStep(w, a, ready, busy, mp_done) ==
    /\ Sticky(mp_done)
    /\ TakeWrite(w) \/ WriteRests(w) \/ WriteResponds(ready)
    /\ TakeRead(a, busy, mp_done.result) \/ ReadRests(a) \/ ReadResponds(ready)
=============================================================================
