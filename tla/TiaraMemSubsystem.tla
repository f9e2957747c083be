-------------------------- MODULE TiaraMemSubsystem --------------------------
(***************************************************************************)
(* rtl/tiara_nic/tiara_memory_subsystem.sv and the two engines behind it,  *)
(* tiara_pcie_dma.sv (device 0, the host's memory) and                     *)
(* tiara_rdma_engine.sv (the peers' memories).  An engine holds requests   *)
(* in a ring of slots and completes each when its countdown is over; the   *)
(* two differ in latency, in the size of ring and memory and in what they  *)
(* do with a device id.                                                    *)
(*                                                                         *)
(* Both engines are one clocked process: a signal that is assigned twice   *)
(* in a cycle takes the value of the last assignment, computed from the    *)
(* old state.                                                              *)
(***************************************************************************)
EXTENDS TiaraIsa

CONSTANTS DEV_LSB,          \* lowest bit of the device id (48)
          WORD_BYTES,       \* addresses to a word (8)
          MEM_DEPTH,        \* engine -> words of a memory
          NUM_PEERS,        \* peer memories: devices 0 .. NUM_PEERS - 1
          MAX_INFLIGHT,     \* engine -> slots (16 of the host's, 32 of the peers')
          LATENCY,          \* engine -> cycles of a request
          BEAT_BYTES        \* bytes a copy moves per cycle (64)

Engines == {"pdma", "rdma"}

ASSUME SubsystemAssumption ==
    /\ DEV_LSB \in 0 .. WIDTH
    /\ WORD_BYTES \in Nat \ {0}
    /\ MEM_DEPTH \in [Engines -> Nat \ {0}]
    /\ NUM_PEERS \in Nat \ {0}
    /\ MAX_INFLIGHT \in [Engines -> Nat \ {0}]
    /\ LATENCY \in [Engines -> Nat]
    /\ BEAT_BYTES \in Nat \ {0}

VARIABLES slots,     \* engine -> slot -> request with its countdown, or Free
          count,     \* engine -> inflight_count
          hostMem,   \* index -> word
          peerMem,   \* peer -> index -> word
          pulses     \* engine -> registered outputs

subVars == <<slots, count, hostMem, peerMem, pulses>>

(* The device id, and the word the engine picks: neither the region bits of  *)
(* the address nor those above the depth of the memory are looked at.      *)
Dev(a) == a \div 2^DEV_LSB
WordIdx(e, a) == (a \div WORD_BYTES) % MEM_DEPTH[e]
Words(e) == 0 .. MEM_DEPTH[e] - 1
Slots(e) == 0 .. MAX_INFLIGHT[e] - 1
Free == [kind |-> "free", addr |-> 0, data |-> 0, swap |-> 0, left |-> 0]
NoPulses == [rd_valid |-> FALSE, rd_data |-> 0, rd_err |-> FALSE, wr_done |-> FALSE,
             cpy_accept |-> FALSE, cpy_done |-> FALSE,
             atom_valid |-> FALSE, atom_data |-> 0]

SubInit ==
    /\ slots = [e \in Engines |-> [i \in Slots(e) |-> Free]]
    /\ count = [e \in Engines |-> 0]
    /\ hostMem = [o \in Words("pdma") |-> 0]
    /\ peerMem = [p \in 0 .. NUM_PEERS - 1 |-> [o \in Words("rdma") |-> 0]]
    /\ pulses = [e \in Engines |-> NoPulses]

\* Mutant of Routed: the RDMA engine looks at the destination only.
RoutedByDestination(e, q) ==
    /\ q.kind # "none"
    /\ IF e = "rdma" THEN Dev(q.addr) # 0
       ELSE Dev(q.addr) = 0 /\ (q.kind = "CPY" => Dev(q.data) = 0)

(* A request goes to the host engine if all its addresses are on device 0.  *)
(* (The source address of a copy is in its data field.)                    *)
Routed(e, q) ==
    /\ q.kind # "none"
    /\ LET local == Dev(q.addr) = 0 /\ (q.kind = "CPY" => Dev(q.data) = 0)
       IN  (e = "pdma") = local

\* Mutant of EngineReady: ready with a full ring.
EngineReadyWhenFull(e) == count[e] <= MAX_INFLIGHT[e]
EngineReady(e) == count[e] < MAX_INFLIGHT[e]
FreeSlots(e) == {i \in Slots(e) : slots[e][i] = Free}

(* A routed request is taken when the engine is ready and a slot is free.   *)
(* Without a free slot it is dropped: nothing tells the MP.                *)
Takes(e, q) == Routed(e, q) /\ EngineReady(e) /\ FreeSlots(e) # {}
Countdown(e, q) ==
    LATENCY[e] + (IF q.kind = "CPY" THEN (q.len + BEAT_BYTES - 1) \div BEAT_BYTES ELSE 0)

(* The slots that complete in this cycle, whatever their age.              *)
Completing(e) == {i \in Slots(e) : slots[e][i] # Free /\ slots[e][i].left = 0}
CompletingOf(e, kinds) == {i \in Completing(e) : slots[e][i].kind \in kinds}

(* The RDMA engine serves a device it does not have from peer 0.           *)
PeerOf(a) == IF Dev(a) >= NUM_PEERS THEN 0 ELSE Dev(a)
Cell(e, i) == [peer |-> IF e = "pdma" THEN 0 ELSE PeerOf(slots[e][i].addr),
               off  |-> WordIdx(e, slots[e][i].addr)]
Stored(e, c) == IF e = "pdma" THEN hostMem[c.off] ELSE peerMem[c.peer][c.off]

(* What slot i writes to its cell, if it writes.                           *)
Writes(e, i) ==
    LET s == slots[e][i]
    IN  s.kind \in {"STORE", "CAA"}
          \/ (s.kind = "CAS" /\ Stored(e, Cell(e, i)) = s.data)
NewWord(e, i) ==
    LET s == slots[e][i]
    IN  CASE s.kind = "STORE" -> s.data
          [] s.kind = "CAA"   -> Wrap(Stored(e, Cell(e, i)) + s.data)
          [] OTHER            -> s.swap

(* The word a cell has after the cycle: the highest slot writes last.      *)
After(e, c) ==
    LET W == {i \in Completing(e) : Writes(e, i) /\ Cell(e, i) = c}
    IN  IF W = {} THEN Stored(e, c) ELSE NewWord(e, Max(W))

NewSlots(e, q) ==
    [i \in Slots(e) |->
       IF Takes(e, q) /\ i = Min(FreeSlots(e))
       THEN [kind |-> q.kind, addr |-> q.addr, data |-> q.data, swap |-> q.swap,
             left |-> Countdown(e, q)]
       ELSE IF i \in Completing(e) \/ slots[e][i] = Free THEN Free
       ELSE [slots[e][i] EXCEPT !.left = @ - 1]]

\* Mutant of NewCount: a copy that ends is not counted down.
NewCountCopiesStay(e, q) ==
    IF CompletingOf(e, {"LOAD", "STORE", "CAS", "CAA"}) # {} THEN count[e] - 1
    ELSE IF Takes(e, q) THEN count[e] + 1 ELSE count[e]

(* The decrement is assigned after the increment, once for all completions. *)
NewCount(e, q) ==
    IF Completing(e) # {} THEN count[e] - 1
    ELSE IF Takes(e, q) THEN count[e] + 1 ELSE count[e]

(* rd_data, atom_data and rd_err keep their value; the rest are pulses.    *)
NewPulses(e, q) ==
    LET reads == CompletingOf(e, {"LOAD"})
        atoms == CompletingOf(e, {"CAS", "CAA"})
        word(S) == Stored(e, Cell(e, Max(S)))
    IN  [rd_valid   |-> reads # {},
         rd_data    |-> IF reads # {} THEN word(reads) ELSE pulses[e].rd_data,
         rd_err     |-> IF e = "pdma" THEN FALSE
                        ELSE IF reads # {} THEN Dev(slots[e][Max(reads)].addr) >= NUM_PEERS
                        ELSE pulses[e].rd_err,
         wr_done    |-> CompletingOf(e, {"STORE"}) # {},
         cpy_accept |-> Takes(e, q) /\ q.kind = "CPY",
         cpy_done   |-> CompletingOf(e, {"CPY"}) # {},
         atom_valid |-> atoms # {},
         atom_data  |-> IF atoms # {} THEN word(atoms) ELSE pulses[e].atom_data]

(* One clock edge of the subsystem, q being the MP's request.              *)
SubStep(q) ==
    /\ slots' = [e \in Engines |-> NewSlots(e, q)]
    /\ count' = [e \in Engines |-> NewCount(e, q)]
    /\ pulses' = [e \in Engines |-> NewPulses(e, q)]
    /\ hostMem' = [o \in Words("pdma") |-> After("pdma", [peer |-> 0, off |-> o])]
    /\ peerMem' = [p \in 0 .. NUM_PEERS - 1 |->
                     [o \in Words("rdma") |-> After("rdma", [peer |-> p, off |-> o])]]

(* The two engines' completions as the MP sees them; issuing says that the  *)
(* MP drives cpy_async in this cycle.                                      *)
Pulse(field) == \E e \in Engines : pulses[e][field]
\* Mutant of MergedPort: a copy is answered when it is accepted.
MergedPortAccept(issuing) ==
    [ready |-> \A e \in Engines : EngineReady(e),
     sync_valid |-> \/ Pulse("rd_valid") \/ Pulse("atom_valid") \/ Pulse("wr_done")
                    \/ Pulse("cpy_accept") /\ ~issuing,
     sync_data |-> 0, sync_err |-> FALSE,
     cpy_accept |-> Pulse("cpy_accept"), cpy_done |-> Pulse("cpy_done"),
     cpy_err |-> FALSE]
MergedPort(issuing) ==
    [ready |-> \A e \in Engines : EngineReady(e),
     sync_valid |-> \/ Pulse("rd_valid") \/ Pulse("atom_valid") \/ Pulse("wr_done")
                    \/ Pulse("cpy_done") /\ ~issuing,
     sync_data |-> IF pulses["pdma"].rd_valid THEN pulses["pdma"].rd_data
                   ELSE IF pulses["rdma"].rd_valid THEN pulses["rdma"].rd_data
                   ELSE IF pulses["pdma"].atom_valid THEN pulses["pdma"].atom_data
                   ELSE IF pulses["rdma"].atom_valid THEN pulses["rdma"].atom_data
                   ELSE 0,
     sync_err |-> Pulse("rd_err"),
     cpy_accept |-> Pulse("cpy_accept"), cpy_done |-> Pulse("cpy_done"),
     cpy_err |-> FALSE]

SlotTypeOK(s) ==
    /\ s.kind \in {"free", "LOAD", "STORE", "CPY", "CAS", "CAA"}
    /\ s.addr \in Word /\ s.data \in Word /\ s.swap \in Word /\ s.left \in Nat

SubTypeOK ==
    /\ \A e \in Engines : \A i \in Slots(e) : SlotTypeOK(slots[e][i])
    /\ count \in [Engines -> Int]
    /\ hostMem \in [Words("pdma") -> Word]
    /\ peerMem \in [0 .. NUM_PEERS - 1 -> [Words("rdma") -> Word]]
    /\ \A e \in Engines : pulses[e].rd_data \in Word /\ pulses[e].atom_data \in Word
=============================================================================
