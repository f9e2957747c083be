---------------------------- MODULE TiaraRxFilter ----------------------------
(***************************************************************************)
(* integration/corundum_app/rtl/tiara_rx_filter.sv: the receive filter.    *)
(* Beats are collected in a frame buffer and in hold slots until one       *)
(* carries tlast; S_FIRE classifies, and either waits for the core and     *)
(* pulses an invocation or replays the held beats (S_REPLAY) and passes    *)
(* the rest of the frame on (S_DRAIN_PT).                                  *)
(*                                                                         *)
(* Data is counted in units of 32 bytes.  A unit is named by the frame it  *)
(* is from and its place in it: unit 0 of an invocation has ethertype,     *)
(* magic, kind and the requester's identity (source MAC, op_id, task_id,   *)
(* here the frame's id), units 1 and up have the arguments.                *)
(***************************************************************************)
EXTENDS Naturals, Sequences

CONSTANTS BEAT_UNITS,   \* units per AXIS beat: DATA_WIDTH / 256
          MAX_UNITS,    \* units of the frame buffer: MAX_BYTES / 32
          COUNT_MOD,    \* byte_count wraps at this many units
          NoBeat        \* "tvalid is low in this cycle"

VARIABLES rxstate, pkt_buf, byte_count,
          held,         \* hold_tdata and hold_tlast, up to beat_count
          replay_idx,
          inv           \* inv_valid, the captured identity and inv_args

rxVars == <<rxstate, pkt_buf, byte_count, held, replay_idx, inv>>

MAX_BEATS == (MAX_UNITS + BEAT_UNITS - 1) \div BEAT_UNITS

NoFrame == [id |-> 0, invoke |-> FALSE, units |-> 0]
Unit(frame, place) == [frame |-> frame, at |-> place]

(* The beats a frame [id, invoke, units] arrives in.                       *)
BeatsOf(frame) ==
    LET count == (frame.units + BEAT_UNITS - 1) \div BEAT_UNITS
        In(b) == IF b = count THEN frame.units - (b - 1) * BEAT_UNITS ELSE BEAT_UNITS
    IN  [b \in 1 .. count |->
            [units |-> [u \in 1 .. In(b) |-> Unit(frame, (b - 1) * BEAT_UNITS + u - 1)],
             last |-> b = count]]

ArgsOf(frame) == [i \in 1 .. MAX_UNITS - 1 |-> Unit(frame, i)]

RxInit ==
    /\ rxstate = "S_IDLE" /\ byte_count = 0 /\ held = <<>> /\ replay_idx = 1
    /\ pkt_buf = [i \in 0 .. MAX_UNITS - 1 |-> Unit(NoFrame, i)]
    /\ inv = [valid |-> FALSE, id |-> 0, args |-> ArgsOf(NoFrame)]

(* match_tiara_beat: the header is there and is an invocation's.           *)
Matches ==
    /\ byte_count # 0
    /\ pkt_buf[0].at = 0 /\ pkt_buf[0].frame.invoke

(* The filter's side of the two AXIS handshakes.                           *)
RxReady(mready) ==
    rxstate \in {"S_IDLE", "S_COLLECT"} \/ (rxstate = "S_DRAIN_PT" /\ mready)
RxDrives(beat) ==
    CASE rxstate = "S_REPLAY" -> held[replay_idx]
      [] rxstate = "S_DRAIN_PT" -> beat
      [] OTHER -> NoBeat

NoPulse == inv' = [inv EXCEPT !.valid = FALSE]

(* The buffer with a beat's units written from place `from` on.            *)
Written(beat, from) ==
    [i \in DOMAIN pkt_buf |->
        IF i - from \in 0 .. Len(beat.units) - 1 THEN beat.units[i - from + 1] ELSE pkt_buf[i]]

Forget == rxstate' = "S_IDLE" /\ byte_count' = 0 /\ held' = <<>>

(* S_IDLE: tlast on the first beat is not looked at.                       *)
TakeFirst(beat) ==
    /\ rxstate = "S_IDLE" /\ beat # NoBeat
    /\ pkt_buf' = Written(beat, 0)
    /\ held' = <<beat>>
    /\ byte_count' = Len(beat.units) % COUNT_MOD
    /\ rxstate' = "S_COLLECT"
    /\ NoPulse /\ UNCHANGED replay_idx

(* S_COLLECT: beats beyond the hold slots are dropped.                     *)
Collect(beat) ==
    /\ rxstate = "S_COLLECT" /\ beat # NoBeat
    /\ pkt_buf' = Written(beat, byte_count)
    /\ held' = IF Len(held) < MAX_BEATS THEN Append(held, beat) ELSE held
    /\ byte_count' = (byte_count + Len(beat.units)) % COUNT_MOD
    /\ rxstate' = IF beat.last THEN "S_FIRE" ELSE "S_COLLECT"
    /\ NoPulse /\ UNCHANGED replay_idx

\* Mutant of Fire: does not wait for the core.
FireAnyway(busy) ==
    /\ rxstate = "S_FIRE" /\ Matches
    /\ inv' = [valid |-> TRUE, id |-> pkt_buf[0].frame.id,
               args |-> [i \in 1 .. MAX_UNITS - 1 |-> pkt_buf[i]]]
    /\ Forget
    /\ UNCHANGED <<pkt_buf, replay_idx>>

(* S_FIRE, an invocation: identity and arguments are captured in every      *)
(* cycle, the pulse and the way back to S_IDLE wait until the core is free.*)
Fire(busy) ==
    /\ rxstate = "S_FIRE" /\ Matches
    /\ inv' = [valid |-> ~busy, id |-> pkt_buf[0].frame.id,
               args |-> [i \in 1 .. MAX_UNITS - 1 |-> pkt_buf[i]]]
    /\ IF busy THEN UNCHANGED <<rxstate, byte_count, held>> ELSE Forget
    /\ UNCHANGED <<pkt_buf, replay_idx>>

(* S_FIRE, any other frame.                                                *)
StartReplay ==
    /\ rxstate = "S_FIRE" /\ ~Matches
    /\ replay_idx' = 1 /\ rxstate' = "S_REPLAY"
    /\ NoPulse /\ UNCHANGED <<pkt_buf, byte_count, held>>

\* Mutant of Replay: the last beat of a frame is not recognised.
ReplayNoLast ==
    /\ rxstate = "S_REPLAY"
    /\ IF replay_idx = Len(held)
       THEN rxstate' = "S_DRAIN_PT" /\ UNCHANGED <<replay_idx, byte_count, held>>
       ELSE replay_idx' = replay_idx + 1 /\ UNCHANGED <<rxstate, byte_count, held>>
    /\ NoPulse /\ UNCHANGED pkt_buf

(* S_REPLAY, the held beat is taken.                                       *)
Replay ==
    /\ rxstate = "S_REPLAY"
    /\ CASE held[replay_idx].last -> Forget /\ UNCHANGED replay_idx
         [] ~held[replay_idx].last /\ replay_idx = Len(held) ->
              rxstate' = "S_DRAIN_PT" /\ UNCHANGED <<replay_idx, byte_count, held>>
         [] OTHER ->
              replay_idx' = replay_idx + 1 /\ UNCHANGED <<rxstate, byte_count, held>>
    /\ NoPulse /\ UNCHANGED pkt_buf

(* S_DRAIN_PT, the frame's last beat is taken.                             *)
EndDrain(beat) ==
    /\ rxstate = "S_DRAIN_PT" /\ beat # NoBeat /\ beat.last
    /\ Forget
    /\ NoPulse /\ UNCHANGED <<pkt_buf, replay_idx>>

(* Nothing to take, nobody who takes, or a beat in the middle of a drain.  *)
RxHold(beat, mready) ==
    /\ \/ rxstate \in {"S_IDLE", "S_COLLECT"} /\ beat = NoBeat
       \/ rxstate = "S_REPLAY" /\ ~mready
       \/ rxstate = "S_DRAIN_PT" /\ ~(mready /\ beat # NoBeat /\ beat.last)
    /\ NoPulse /\ UNCHANGED <<rxstate, pkt_buf, byte_count, held, replay_idx>>

(* One clock edge: the beat the wire drives, the ready of the NIC behind    *)
(* the filter, and the core's busy flag.                                   *)
RxStep(beat, mready, busy) ==
    \/ TakeFirst(beat) \/ Collect(beat)
    \/ Fire(busy) \/ StartReplay
    \/ mready /\ Replay
    \/ mready /\ EndDrain(beat)
    \/ RxHold(beat, mready)
=============================================================================
