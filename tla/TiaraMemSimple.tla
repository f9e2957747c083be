---------------------------- MODULE TiaraMemSimple ----------------------------
(***************************************************************************)
(* rtl/tiara_nic/tiara_mem_simple.sv: the memory of the single-MP and      *)
(* array tops.  One request is in flight at a time; ready is high in       *)
(* M_IDLE only.  A copy has a latency and moves no data.                   *)
(*                                                                         *)
(* An address has a device id in its top bits; every device but 0 is the    *)
(* peer, whose memory has a longer latency.  Of the rest the memories look *)
(* at a few bits only (the code: two below, and whatever is above their    *)
(* depth, are dropped), so different addresses share a cell.               *)
(***************************************************************************)
EXTENDS TiaraIsa

CONSTANTS DEV_LSB,              \* lowest bit of the device id (48)
          GRAIN,                \* addresses to a cell (4)
          LOCAL_MEM_DEPTH, PEER_MEM_DEPTH,   \* cells
          LOCAL_LATENCY, RTT,   \* cycles a request waits, local and remote
          BEAT_BYTES,           \* bytes a copy moves per cycle (64)
          MAX_BEATS             \* range of a copy's count of beats (2^10)

ASSUME MemSimpleAssumption ==
    /\ DEV_LSB \in 0 .. WIDTH
    /\ GRAIN \in Nat \ {0}
    /\ LOCAL_MEM_DEPTH \in Nat \ {0} /\ PEER_MEM_DEPTH \in Nat \ {0}
    /\ LOCAL_LATENCY \in Nat /\ RTT \in Nat
    /\ BEAT_BYTES \in Nat \ {0} /\ MAX_BEATS \in Nat \ {0}

VARIABLES mstate,     \* "M_IDLE", "M_WAIT" or "M_DRIVE"
          cnt,        \* cycles left
          cur,        \* the latched request
          mem,        \* the backing memories: cell -> word
          out         \* registered outputs: sync_* and cpy_* pulses

memVars == <<mstate, cnt, cur, mem, out>>

Remote(a) == a >= 2^DEV_LSB

Cell(a) ==
    [remote |-> Remote(a),
     word |-> (a \div GRAIN) % (IF Remote(a) THEN PEER_MEM_DEPTH ELSE LOCAL_MEM_DEPTH)]
Cells == {Cell(a) : a \in Word}

NoCur == [kind |-> "none", cell |-> Cell(0), data |-> 0, swap |-> 0, async |-> FALSE]
NoPulse == [sync_valid |-> FALSE, sync_data |-> 0, sync_err |-> FALSE,
            cpy_accept |-> FALSE, cpy_done |-> FALSE, cpy_err |-> FALSE]

MemInit ==
    /\ mstate = "M_IDLE" /\ cnt = 0 /\ cur = NoCur /\ out = NoPulse
    /\ mem = [c \in Cells |-> 0]

Latency(q) ==
    IF q.kind = "CPY" THEN LOCAL_LATENCY + ((q.len \div BEAT_BYTES) % MAX_BEATS)
    ELSE IF Remote(q.addr) THEN RTT ELSE LOCAL_LATENCY

(* Pulses fall again; sync_data and sync_err keep their last value.        *)
Quiet == [out EXCEPT !.sync_valid = FALSE, !.cpy_accept = FALSE,
                     !.cpy_done = FALSE]

MemRest(q) ==
    /\ mstate = "M_IDLE" /\ q.kind = "none"
    /\ out' = Quiet
    /\ UNCHANGED <<mstate, cnt, cur, mem>>

MemTake(q) ==
    /\ mstate = "M_IDLE" /\ q.kind # "none"
    /\ cur' = [kind |-> q.kind, cell |-> Cell(q.addr), data |-> q.data, swap |-> q.swap,
               async |-> IF q.kind = "CPY" THEN q.async ELSE cur.async]
    /\ cnt' = Latency(q)
    /\ out' = [Quiet EXCEPT !.cpy_accept = (q.kind = "CPY")]
    /\ mstate' = "M_WAIT"
    /\ UNCHANGED mem

MemWaiting ==
    /\ mstate = "M_WAIT"
    /\ IF cnt > 0 THEN cnt' = cnt - 1 /\ UNCHANGED mstate
       ELSE mstate' = "M_DRIVE" /\ UNCHANGED cnt
    /\ out' = Quiet
    /\ UNCHANGED <<cur, mem>>

(* The word the request leaves in memory.                                  *)
Written(q, old) ==
    CASE q.kind = "STORE" -> q.data
      [] q.kind = "CAA"   -> Wrap(old + q.data)
      [] q.kind = "CAS"   -> IF old = q.data THEN q.swap ELSE old
      [] OTHER            -> old

MemDrive ==
    /\ mstate = "M_DRIVE"
    /\ mstate' = "M_IDLE"
    /\ mem' = [mem EXCEPT ![cur.cell] = Written(cur, @)]
    /\ out' = IF cur.kind = "CPY" /\ cur.async
              THEN [Quiet EXCEPT !.cpy_done = TRUE]
              ELSE [Quiet EXCEPT !.sync_valid = TRUE,
                      !.sync_data = IF cur.kind \in {"LOAD", "CAS", "CAA"}
                                    THEN mem[cur.cell] ELSE 0]
    /\ UNCHANGED <<cnt, cur>>

MemStep(q) == MemRest(q) \/ MemTake(q) \/ MemWaiting \/ MemDrive

MemTypeOK ==
    /\ mstate \in {"M_IDLE", "M_WAIT", "M_DRIVE"}
    /\ cnt \in Nat
    /\ cur.cell \in Cells
    /\ mem \in [Cells -> Word]
    /\ out.sync_data \in Word
=============================================================================
