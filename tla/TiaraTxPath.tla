----------------------------- MODULE TiaraTxPath -----------------------------
(***************************************************************************)
(* integration/corundum_app/rtl/tiara_tx_resp.sv, which builds a response  *)
(* frame when a task is done, and tiara_tx_arb.sv, which merges responses  *)
(* (input 0, priority) and the host's frames (input 1) onto the wire.      *)
(***************************************************************************)
EXTENDS Naturals

CONSTANTS NBEATS,       \* beats of a response
          Nobody        \* "no input is passed through in this cycle"

VARIABLES tstate,       \* "T_IDLE" or "T_DRIVE"
          pkt,          \* the response: the identity it names, the result
          beat_idx,
          astate        \* "A_IDLE", "A_S0" or "A_S1": who owns the channel

txVars == <<tstate, pkt, beat_idx, astate>>

TxInit(result) ==
    /\ tstate = "T_IDLE" /\ beat_idx = 0 /\ pkt = [id |-> 0, result |-> result]
    /\ astate = "A_IDLE"

(* Input 0 of the arbiter.                                                 *)
s0_tvalid == tstate = "T_DRIVE"
s0_tlast == beat_idx = NBEATS - 1

(* T_IDLE: mp_done is looked at here and nowhere else.                      *)
Build(mp_done, id, result) ==
    /\ tstate = "T_IDLE"
    /\ IF mp_done
       THEN tstate' = "T_DRIVE" /\ pkt' = [id |-> id, result |-> result] /\ beat_idx' = 0
       ELSE UNCHANGED <<tstate, pkt, beat_idx>>

(* T_DRIVE.                                                                *)
Drive(ready) ==
    /\ tstate = "T_DRIVE"
    /\ IF ~ready THEN UNCHANGED <<tstate, beat_idx>>
       ELSE IF s0_tlast THEN tstate' = "T_IDLE" /\ beat_idx' = 0
       ELSE beat_idx' = beat_idx + 1 /\ UNCHANGED tstate
    /\ UNCHANGED pkt

(* Whose beat the arbiter passes in this cycle.                            *)
Picked(s1_tvalid) ==
    CASE astate = "A_S0" \/ (astate = "A_IDLE" /\ s0_tvalid) -> 0
      [] astate = "A_S1" \/ (astate = "A_IDLE" /\ ~s0_tvalid /\ s1_tvalid) -> 1
      [] OTHER -> Nobody

\* Mutant of NextOwner: the channel is free again after every beat.
NextOwnerPerBeat(s1_tvalid, s1_tlast, m_tready) == "A_IDLE"

\* Mutant of NextOwner: the host keeps the channel.
NextOwnerKeeps(s1_tvalid, s1_tlast, m_tready) ==
    CASE astate = "A_IDLE" /\ s0_tvalid -> "A_S0"
      [] astate = "A_IDLE" /\ ~s0_tvalid /\ s1_tvalid -> "A_S1"
      [] astate = "A_S0" /\ s0_tvalid /\ s0_tlast /\ m_tready -> "A_IDLE"
      [] OTHER -> astate

(* An input that wins owns the channel from the next cycle on, also when    *)
(* its frame has ended with the beat just passed.                          *)
NextOwner(s1_tvalid, s1_tlast, m_tready) ==
    CASE astate = "A_IDLE" /\ s0_tvalid -> "A_S0"
      [] astate = "A_IDLE" /\ ~s0_tvalid /\ s1_tvalid -> "A_S1"
      [] astate = "A_S0" /\ s0_tvalid /\ s0_tlast /\ m_tready -> "A_IDLE"
      [] astate = "A_S1" /\ s1_tvalid /\ s1_tlast /\ m_tready -> "A_IDLE"
      [] OTHER -> astate

(* One clock edge: the core's done port, the identity the receive filter    *)
(* holds, the host's beat, and the ready of the wire.                      *)
TxStep(mp_done, id, result, s1_tvalid, s1_tlast, m_tready) ==
    /\ \/ Build(mp_done, id, result)
       \/ Drive(Picked(s1_tvalid) = 0 /\ m_tready)
    /\ astate' = NextOwner(s1_tvalid, s1_tlast, m_tready)
=============================================================================
