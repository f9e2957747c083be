------------------------- MODULE TiaraAppBlock_proofs -------------------------
(***************************************************************************)
(* Theorems about the wire path: arbitration, the way of an invocation     *)
(* from the frame buffer to the done port, and frames that pass through,   *)
(* for every traffic, every beat width and every timing.                   *)
(***************************************************************************)
EXTENDS TiaraAppBlock, FiniteSetTheorems, TLAPS

-----------------------------------------------------------------------------
(***************************************************************************)
(* The wire: whose frame is open and who owns the channel.                 *)
(***************************************************************************)
(* A frame that has begun belongs to the owner of the channel.             *)
OwnerInv ==
    /\ open = 0 => astate = "A_S0"
    /\ open = 1 => astate = "A_S1"

LEMMA OwnerStep ==
    ASSUME OwnerInv,
           NEW offered, NEW mready, NEW hostInvokes, NEW finish, NEW tready \in BOOLEAN,
           NEW nextbeat, Tick(offered, mready, hostInvokes, finish, tready, nextbeat)
    PROVE  OwnerInv'
<1>1. astate' = NextOwner(hostbeat # NoBeat, hostbeat = "last", tready)
  BY DEF Tick, TxStep
<1>2. WireTakes(tready, nextbeat)
  BY DEF Tick
<1>3. CASE Passing = 0 /\ s0_tvalid /\ tready
  BY <1>1, <1>2, <1>3, AppAssumption
     DEF OwnerInv, NextOwner, WireTakes, Passing, Picked, s0_tvalid, s0_tlast
<1>4. CASE Passing = 1 /\ hostbeat # NoBeat /\ tready
  BY <1>1, <1>2, <1>4, AppAssumption
     DEF OwnerInv, NextOwner, WireTakes, Passing, Picked, s0_tvalid, s0_tlast
<1>5. CASE /\ ~(Passing = 0 /\ s0_tvalid /\ tready)
           /\ ~(Passing = 1 /\ hostbeat # NoBeat /\ tready)
  BY <1>1, <1>2, <1>5, AppAssumption
     DEF OwnerInv, NextOwner, WireTakes, Passing, Picked, s0_tvalid, s0_tlast
<1> QED BY <1>3, <1>4, <1>5

(* Beats of a response and of a host frame never alternate within a frame.  *)
THEOREM FramesStayWhole == Spec => []FramesNotInterleaved
<1>1. Init => OwnerInv
  BY AppAssumption DEF Init, OwnerInv
<1>2. OwnerInv /\ [Next]_vars => OwnerInv'
  BY OwnerStep DEF Next, vars, txVars, envVars, OwnerInv
<1>3. OwnerInv => FramesNotInterleaved
  BY AppAssumption DEF OwnerInv, FramesNotInterleaved, Passing, Picked
<1> QED BY <1>1, <1>2, <1>3, PTL DEF Spec
-----------------------------------------------------------------------------
(***************************************************************************)
(* Frames and beats.                                                       *)
(***************************************************************************)
Frames == [id : Nat, invoke : BOOLEAN, units : Nat \ {0}]

LEMMA Ceiling ==
    ASSUME NEW n \in Nat \ {0}, NEW b \in Nat \ {0}
    PROVE  LET q == (n + b - 1) \div b
           IN  q \in Nat \ {0} /\ (q - 1) * b < n /\ n <= q * b
  OBVIOUS

LEMMA BeatFacts ==
    ASSUME NEW fr \in Frames
    PROVE  /\ \E n \in Nat \ {0} : DOMAIN BeatsOf(fr) = 1 .. n
           /\ \A b \in DOMAIN BeatsOf(fr) :
                LET beat == BeatsOf(fr)[b]
                IN  /\ Len(beat.units) \in 1 .. BEAT_UNITS
                    /\ \A u \in 1 .. Len(beat.units) :
                         beat.units[u] = Unit(fr, (b - 1) * BEAT_UNITS + u - 1)
                    /\ beat.last = (b + 1 \notin DOMAIN BeatsOf(fr))
                    /\ ~beat.last => Len(beat.units) = BEAT_UNITS
                    /\ beat.last => Len(beat.units) = fr.units - (b - 1) * BEAT_UNITS
<1> DEFINE count == (fr.units + BEAT_UNITS - 1) \div BEAT_UNITS
<1>1. count \in Nat \ {0} /\ (count - 1) * BEAT_UNITS < fr.units /\ fr.units <= count * BEAT_UNITS
  BY Ceiling, AppAssumption DEF Frames
<1>2. ASSUME NEW b \in 1 .. count
      PROVE  LET in == IF b = count THEN fr.units - (b - 1) * BEAT_UNITS ELSE BEAT_UNITS
             IN  /\ in \in 1 .. BEAT_UNITS /\ (b # count => in = BEAT_UNITS)
                 /\ b = count => in = fr.units - (b - 1) * BEAT_UNITS
                 /\ BeatsOf(fr)[b] =
                      [units |-> [u \in 1 .. in |-> Unit(fr, (b - 1) * BEAT_UNITS + u - 1)],
                       last |-> b = count]
  <2>1. b = count => /\ fr.units - (b - 1) * BEAT_UNITS \in 1 .. BEAT_UNITS
    <3> HIDE DEF count
    <3>1. count * BEAT_UNITS = (count - 1) * BEAT_UNITS + BEAT_UNITS
      BY <1>1, AppAssumption
    <3>2. (count - 1) * BEAT_UNITS \in Nat
      BY <1>1, AppAssumption
    <3>3. fr.units \in Nat
      BY DEF Frames
    <3> QED BY <1>1, <3>1, <3>2, <3>3, AppAssumption
  <2>2. BEAT_UNITS \in 1 .. BEAT_UNITS
    BY AppAssumption
  <2> QED BY <2>1, <2>2 DEF BeatsOf
<1>3. DOMAIN BeatsOf(fr) = 1 .. count
  BY <1>1 DEF BeatsOf
<1> HIDE DEF count
<1>4. ASSUME NEW b \in DOMAIN BeatsOf(fr)
      PROVE  LET beat == BeatsOf(fr)[b]
             IN  /\ Len(beat.units) \in 1 .. BEAT_UNITS
                 /\ \A u \in 1 .. Len(beat.units) :
                      beat.units[u] = Unit(fr, (b - 1) * BEAT_UNITS + u - 1)
                 /\ beat.last = (b + 1 \notin DOMAIN BeatsOf(fr))
                 /\ ~beat.last => Len(beat.units) = BEAT_UNITS
                 /\ beat.last => Len(beat.units) = fr.units - (b - 1) * BEAT_UNITS
  <2>1. b \in 1 .. count
    BY <1>3
  <2>2. PICK in \in 1 .. BEAT_UNITS :
          /\ b # count => in = BEAT_UNITS
          /\ b = count => in = fr.units - (b - 1) * BEAT_UNITS
          /\ BeatsOf(fr)[b] =
               [units |-> [u \in 1 .. in |-> Unit(fr, (b - 1) * BEAT_UNITS + u - 1)],
                last |-> b = count]
    BY <1>2, <2>1
  <2>3. Len(BeatsOf(fr)[b].units) = in
    BY <2>2, AppAssumption
  <2>4. (b = count) = (b + 1 \notin 1 .. count)
    BY <2>1, <1>1
  <2>5. BeatsOf(fr)[b].last = (b + 1 \notin DOMAIN BeatsOf(fr))
    BY <2>2, <2>4, <1>3
  <2>6. \A u \in 1 .. in :
          BeatsOf(fr)[b].units[u] = Unit(fr, (b - 1) * BEAT_UNITS + u - 1)
    BY <2>2
  <2>7. /\ b + 1 \in 1 .. count => in = BEAT_UNITS
        /\ b + 1 \notin 1 .. count => in = fr.units - (b - 1) * BEAT_UNITS
    BY <2>2, <2>4
  <2>8. /\ ~BeatsOf(fr)[b].last => Len(BeatsOf(fr)[b].units) = BEAT_UNITS
        /\ BeatsOf(fr)[b].last =>
             Len(BeatsOf(fr)[b].units) = fr.units - (b - 1) * BEAT_UNITS
    BY <2>3, <2>5, <2>7, <1>3
  <2>9. Len(BeatsOf(fr)[b].units) \in 1 .. BEAT_UNITS
    BY <2>3
  <2>10. \A u \in 1 .. Len(BeatsOf(fr)[b].units) :
          BeatsOf(fr)[b].units[u] = Unit(fr, (b - 1) * BEAT_UNITS + u - 1)
    BY <2>3, <2>6
  <2> QED BY <2>5, <2>8, <2>9, <2>10
<1> QED BY <1>1, <1>3, <1>4

(* A unit in the buffer, the buffer, and what is written at its first two   *)
(* places, which is where Matches and the arguments look first.            *)
Units == [frame : [id : Nat, invoke : BOOLEAN, units : Nat], at : Nat]
Buffers == [0 .. MAX_UNITS - 1 -> Units]

LEMMA Offset ==
    ASSUME NEW b \in Nat \ {0}
    PROVE  /\ (b - 1) * BEAT_UNITS \in Nat
           /\ b = 1 => (b - 1) * BEAT_UNITS = 0
           /\ b > 1 => (b - 1) * BEAT_UNITS >= BEAT_UNITS
           /\ (b - 1) * BEAT_UNITS = 1 => b = 2 /\ BEAT_UNITS = 1
<1>1. PICK c \in Nat : b = c + 1
  <2>1. b - 1 \in Nat /\ b = (b - 1) + 1
    OBVIOUS
  <2> QED BY <2>1
<1>2. c = 0 \/ c = 1 \/ c > 1
  BY <1>1
<1>3. c > 1 => c * BEAT_UNITS > BEAT_UNITS
  BY AppAssumption
<1> QED BY <1>1, <1>2, <1>3, AppAssumption

LEMMA WrittenFacts ==
    ASSUME NEW fr \in Frames, NEW b \in DOMAIN BeatsOf(fr), NEW from \in Nat,
           pkt_buf \in Buffers
    PROVE  LET beat == BeatsOf(fr)[b]
               new == Written(beat, from)
           IN  /\ new \in Buffers
               /\ new[0] = IF from = 0 THEN Unit(fr, (b - 1) * BEAT_UNITS) ELSE pkt_buf[0]
               /\ new[1] = IF from = 1 THEN Unit(fr, (b - 1) * BEAT_UNITS)
                           ELSE IF from = 0 /\ Len(beat.units) > 1
                                THEN Unit(fr, (b - 1) * BEAT_UNITS + 1)
                                ELSE pkt_buf[1]
<1> DEFINE beat == BeatsOf(fr)[b]
           at == (b - 1) * BEAT_UNITS
<1>1. /\ Len(beat.units) \in Nat \ {0}
      /\ \A u \in 1 .. Len(beat.units) : beat.units[u] = Unit(fr, at + u - 1)
  <2>1. /\ Len(beat.units) \in 1 .. BEAT_UNITS
        /\ \A u \in 1 .. Len(beat.units) : beat.units[u] = Unit(fr, at + u - 1)
    BY BeatFacts, Zenon
  <2>2. Len(beat.units) \in Nat \ {0}
    BY <2>1
  <2> QED BY <2>1, <2>2
<1>2. at \in Nat
  BY BeatFacts, Offset
<1> HIDE DEF beat, at
<1>3. \A u \in 1 .. Len(beat.units) : beat.units[u] \in Units
  <2>1. fr \in [id : Nat, invoke : BOOLEAN, units : Nat]
    BY DEF Frames
  <2>2. \A p \in Nat : Unit(fr, p) \in Units
    BY <2>1 DEF Unit, Units
  <2>3. \A u \in 1 .. Len(beat.units) : at + u - 1 \in Nat
    BY <1>1, <1>2
  <2> QED BY <1>1, <2>2, <2>3
<1>4. \A i \in 0 .. MAX_UNITS - 1 :
        Written(beat, from)[i] = IF i - from \in 0 .. Len(beat.units) - 1
                                 THEN beat.units[i - from + 1] ELSE pkt_buf[i]
  BY DEF Written, Buffers
<1>5. Written(beat, from) \in Buffers
  <2>1. \A i \in 0 .. MAX_UNITS - 1 : Written(beat, from)[i] \in Units
    <3> SUFFICES ASSUME NEW i \in 0 .. MAX_UNITS - 1
                 PROVE  Written(beat, from)[i] \in Units
      OBVIOUS
    <3>1. pkt_buf[i] \in Units
      BY DEF Buffers
    <3>2. i - from \in 0 .. Len(beat.units) - 1 => i - from + 1 \in 1 .. Len(beat.units)
      BY <1>1, AppAssumption
    <3> QED BY <1>3, <1>4, <3>1, <3>2
  <2> QED BY <2>1 DEF Written, Buffers
<1>6. 0 \in 0 .. MAX_UNITS - 1 /\ 1 \in 0 .. MAX_UNITS - 1
  BY AppAssumption
<1>7. Written(beat, from)[0] = IF from = 0 THEN Unit(fr, at) ELSE pkt_buf[0]
  BY <1>1, <1>2, <1>4, <1>6
<1>8. Written(beat, from)[1] = IF from = 1 THEN Unit(fr, at)
                               ELSE IF from = 0 /\ Len(beat.units) > 1
                                    THEN Unit(fr, at + 1) ELSE pkt_buf[1]
  BY <1>1, <1>2, <1>4, <1>6
<1> QED BY <1>5, <1>7, <1>8 DEF beat, at
-----------------------------------------------------------------------------
(***************************************************************************)
(* The types the wire path needs, and where the wire stands.                *)
(***************************************************************************)
Places == [frame : Nat \ {0}, beat : Nat \ {0}]
Args == [1 .. MAX_UNITS - 1 -> Units]
Idents == [valid : BOOLEAN, id : Nat, args : Args]

WireInv ==
    /\ traffic \in Traffics
    /\ pos \in Places
    /\ pos.frame \in DOMAIN traffic => pos.beat \in DOMAIN BeatsOf(traffic[pos.frame])
    /\ pkt_buf \in Buffers /\ byte_count \in Nat
    /\ inv \in Idents
    /\ rxstate \in {"S_IDLE", "S_FIRE", "S_REPLAY"} => pos.beat = 1

LEMMA TrafficFacts ==
    ASSUME WireInv
    PROVE  /\ traffic \in Seq(Frames)
           /\ \A f \in DOMAIN traffic :
                /\ f \in Nat \ {0} /\ traffic[f] \in Frames /\ traffic[f].id = f
                /\ HostArgs # ArgsOf(traffic[f])
<1>1. traffic \in Traffics
  BY DEF WireInv
<1>2. traffic \in Seq(Frames)
  BY <1>1, TrafficAssumption DEF Frames
<1>3. \A f \in DOMAIN traffic : traffic[f].id = f /\ HostArgs # ArgsOf(traffic[f])
  BY <1>1, TrafficAssumption
<1> QED BY <1>2, <1>3

(* A beat that the wire offers, and where the wire stands after it.         *)
Moves(beat, mready) ==
    /\ beat = NoBeat \/ ~RxReady(mready) => pos' = pos
    /\ beat # NoBeat =>
         /\ pos.frame \in DOMAIN traffic
         /\ pos.beat \in DOMAIN BeatsOf(traffic[pos.frame])
         /\ beat = BeatsOf(traffic[pos.frame])[pos.beat]
         /\ beat.last = (pos.beat + 1 \notin DOMAIN BeatsOf(traffic[pos.frame]))
    /\ beat # NoBeat /\ RxReady(mready) /\ beat.last =>
         pos' = [frame |-> pos.frame + 1, beat |-> 1]
    /\ beat # NoBeat /\ RxReady(mready) /\ ~beat.last =>
         /\ pos' = [frame |-> pos.frame, beat |-> pos.beat + 1]
         /\ pos.beat + 1 \in DOMAIN BeatsOf(traffic[pos.frame])

LEMMA Incoming ==
    ASSUME WireInv, NEW offered, NEW mready, NEW beat, beat = WireBeat(offered),
           WireMoves(beat, mready)
    PROVE  Moves(beat, mready)
<1>1. beat = NoBeat \/ ~RxReady(mready) => pos' = pos
  BY DEF WireMoves
<1>2. ASSUME beat # NoBeat
      PROVE  /\ pos.frame \in DOMAIN traffic
             /\ pos.beat \in DOMAIN BeatsOf(traffic[pos.frame])
             /\ beat = BeatsOf(traffic[pos.frame])[pos.beat]
             /\ beat.last = (pos.beat + 1 \notin DOMAIN BeatsOf(traffic[pos.frame]))
  <2>1. pos.frame <= Len(traffic) /\ beat = BeatsOf(traffic[pos.frame])[pos.beat]
    BY <1>2 DEF WireBeat
  <2>2. pos.frame \in DOMAIN traffic
    BY <2>1, TrafficFacts DEF WireInv, Places
  <2>3. traffic[pos.frame] \in Frames /\ pos.beat \in DOMAIN BeatsOf(traffic[pos.frame])
    BY <2>2, TrafficFacts DEF WireInv
  <2> QED BY <2>1, <2>2, <2>3, BeatFacts
<1>3. pos = [frame |-> pos.frame, beat |-> pos.beat]
  BY DEF WireInv, Places
<1>4. beat # NoBeat /\ RxReady(mready) /\ beat.last =>
        pos' = [frame |-> pos.frame + 1, beat |-> 1]
  BY DEF WireMoves
<1>5. beat # NoBeat /\ RxReady(mready) /\ ~beat.last =>
        /\ pos' = [frame |-> pos.frame, beat |-> pos.beat + 1]
        /\ pos.beat + 1 \in DOMAIN BeatsOf(traffic[pos.frame])
  BY <1>2, <1>3 DEF WireMoves
<1> QED BY <1>1, <1>2, <1>4, <1>5 DEF Moves

(* The steps of the filter by name: Tick without what lies behind it.       *)
LEMMA WireStep ==
    ASSUME WireInv,
           NEW offered \in BOOLEAN, NEW mready \in BOOLEAN, NEW hostInvokes \in BOOLEAN,
           NEW finish \in BOOLEAN, NEW tready \in BOOLEAN, NEW nextbeat,
           Tick(offered, mready, hostInvokes, finish, tready, nextbeat)
    PROVE  WireInv'
<1> DEFINE beat == WireBeat(offered)
<1>1. /\ RxStep(beat, mready, inv_busy) /\ WireMoves(beat, mready) /\ traffic' = traffic
  BY DEF Tick
<1> HIDE DEF beat
<1>2. Moves(beat, mready)
  BY <1>1, Incoming DEF beat
<1> USE DEF Moves
<1>3. pos.frame \in Nat \ {0} /\ pos.beat \in Nat \ {0}
  BY DEF WireInv, Places
<1>4. pos' \in Places /\ traffic' \in Traffics
  <2>1. \A f, b \in Nat \ {0} : [frame |-> f, beat |-> b] \in Places
    BY DEF Places
  <2>2. pos.frame + 1 \in Nat \ {0} /\ pos.beat + 1 \in Nat \ {0} /\ 1 \in Nat \ {0}
    BY <1>3
  <2>3. pos \in Places /\ traffic \in Traffics
    BY DEF WireInv
  <2>4. beat # NoBeat => beat.last \in BOOLEAN
    BY <1>2
  <2> QED BY <1>1, <1>2, <1>3, <2>1, <2>2, <2>3, <2>4
<1>5. (pos.frame \in DOMAIN traffic => pos.beat \in DOMAIN BeatsOf(traffic[pos.frame]))'
  <2>1. \A f \in DOMAIN traffic : 1 \in DOMAIN BeatsOf(traffic[f])
    BY TrafficFacts, BeatFacts
  <2>2. CASE pos' = pos
    BY <1>1, <2>2 DEF WireInv
  <2>3. CASE pos' = [frame |-> pos.frame + 1, beat |-> 1]
    BY <1>1, <2>1, <2>3
  <2>4. CASE /\ pos' = [frame |-> pos.frame, beat |-> pos.beat + 1]
             /\ pos.beat + 1 \in DOMAIN BeatsOf(traffic[pos.frame])
    BY <1>1, <2>4
  <2>5. beat # NoBeat => beat.last \in BOOLEAN
    BY <1>2
  <2> QED BY <1>2, <2>2, <2>3, <2>4, <2>5
<1>6. pkt_buf' \in Buffers /\ byte_count' \in Nat /\ inv' \in Idents
      /\ (rxstate \in {"S_IDLE", "S_FIRE", "S_REPLAY"} => pos.beat = 1)'
  <2> USE DEF WireInv
  <2>1. inv \in Idents /\ pkt_buf \in Buffers /\ byte_count \in Nat
    OBVIOUS
  <2>2. NoPulse => inv' \in Idents
    BY <2>1 DEF NoPulse, Idents
  <2>3. ASSUME beat # NoBeat, NEW from \in Nat
        PROVE  Written(beat, from) \in Buffers /\ Len(beat.units) \in Nat
    BY <1>2, <2>1, <2>3, TrafficFacts, BeatFacts, WrittenFacts
  <2>4. \A n \in Nat : n % COUNT_MOD \in Nat
    BY AppAssumption
  <2>5. CASE TakeFirst(beat)
    BY <2>5, <2>2, <2>3, <2>4 DEF TakeFirst
  <2>6. CASE Collect(beat)
    BY <2>6, <1>2, <2>1, <2>2, <2>3, <2>4 DEF Collect, RxReady
  <2>7. CASE Fire(inv_busy)
    <3>1. pos' = pos
      BY <2>7, <1>2 DEF Fire, RxReady
    <3>2. \A i \in 0 .. MAX_UNITS - 1 : pkt_buf[i] \in Units
      BY DEF Buffers
    <3>3. 0 \in 0 .. MAX_UNITS - 1
          /\ (\A i \in 1 .. MAX_UNITS - 1 : i \in 0 .. MAX_UNITS - 1)
      BY AppAssumption
    <3>4. pkt_buf[0].frame.id \in Nat
      BY <3>2, <3>3 DEF Units
    <3>5. [i \in 1 .. MAX_UNITS - 1 |-> pkt_buf[i]] \in Args
      BY <3>2, <3>3 DEF Args
    <3>6. inv' \in Idents
      BY <2>7, <3>4, <3>5 DEF Fire, Idents
    <3> QED BY <2>7, <3>1, <3>6 DEF Fire, Forget
  <2>8. CASE StartReplay
    BY <2>8, <1>2, <2>1, <2>2 DEF StartReplay, RxReady
  <2>9. CASE Replay
    BY <2>9, <1>2, <2>1, <2>2 DEF Replay, RxReady, Forget
  <2>10. CASE mready /\ EndDrain(beat)
    BY <2>10, <1>2, <2>1, <2>2 DEF EndDrain, RxReady, Forget
  <2>11. CASE RxHold(beat, mready)
    BY <2>11, <1>2, <2>1, <2>2 DEF RxHold, RxReady
  <2> QED BY <1>1, <2>5, <2>6, <2>7, <2>8, <2>9, <2>10, <2>11 DEF RxStep
<1> QED BY <1>4, <1>5, <1>6 DEF WireInv
-----------------------------------------------------------------------------
(***************************************************************************)
(* From the pulse of the filter to the done port: one task at a time, and   *)
(* a pulse that finds the dispatcher idle unless the host got in between.   *)
(***************************************************************************)
HandshakeInv ==
    /\ dstate \in {"D_IDLE", "D_RUN", "D_OUT"} /\ inv_busy = (dstate # "D_IDLE")
    /\ dstate # "D_RUN" => ~start.valid /\ mp = NoTask /\ ~task_done
    /\ start.valid => mp = NoTask /\ ~task_done
    /\ task_done => mp = NoTask

PulseInv ==
    inv.valid =>
        /\ rxstate = "S_IDLE"
        /\ dstate # "D_IDLE" => start.valid /\ start.args = HostArgs

(* What is on its way to the done port, or on it.                           *)
Flight ==
    (IF start.valid THEN {start.args} ELSE {}) \cup (IF mp # NoTask THEN {mp} ELSE {})
      \cup (IF task_done THEN {task_result} ELSE {})
      \cup (IF dstate = "D_OUT" \/ done.valid THEN {done.result} ELSE {})

LEMMA FlightStep ==
    ASSUME WireInv, HandshakeInv, PulseInv,
           NEW offered \in BOOLEAN, NEW mready \in BOOLEAN, NEW hostInvokes \in BOOLEAN,
           NEW finish \in BOOLEAN, NEW tready \in BOOLEAN, NEW nextbeat,
           Tick(offered, mready, hostInvokes, finish, tready, nextbeat)
    PROVE  /\ HandshakeInv' /\ PulseInv'
           /\ Flight' \subseteq Flight \cup {HostArgs} \cup (IF inv.valid THEN {inv.args} ELSE {})
           /\ inv.valid' => Flight' \subseteq {HostArgs}
<1> DEFINE beat == WireBeat(offered)
           taken == Invocation(hostInvokes)
<1>1. /\ RxStep(beat, mready, inv_busy) /\ D!Dispatch(taken) /\ MPStep(finish)
  BY DEF Tick
<1>2. /\ taken # NoInvocation /\ inv.valid => taken = inv.args
      /\ taken # NoInvocation /\ ~inv.valid => taken = HostArgs
  BY DEF Invocation
<1> HIDE DEF beat, taken
<1> USE DEF HandshakeInv, MPStep
<1>3. inv.valid' => ~inv.valid /\ ~inv_busy /\ rxstate' = "S_IDLE"
  <2>1. inv \in Idents
    BY DEF WireInv
  <2>2. NoPulse => ~inv.valid'
    BY <2>1 DEF NoPulse, Idents
  <2>3. NoPulse \/ Fire(inv_busy)
    BY <1>1 DEF RxStep, TakeFirst, Collect, StartReplay, Replay, EndDrain, RxHold
  <2>4. Fire(inv_busy) => inv.valid' = ~inv_busy
    BY DEF Fire
  <2>5. Fire(inv_busy) /\ ~inv_busy => rxstate = "S_FIRE" /\ rxstate' = "S_IDLE"
    BY DEF Fire, Forget
  <2> QED BY <2>2, <2>3, <2>4, <2>5 DEF PulseInv
<1>4. CASE D!Invoke(taken)
  <2>1. HandshakeInv' /\ PulseInv'
    BY <1>1, <1>2, <1>3, <1>4 DEF D!Invoke, D!DonePort, PulseInv
  <2>2. Flight' \subseteq {taken}
    BY <1>1, <1>4 DEF D!Invoke, D!DonePort, Flight
  <2>3. inv.valid' => Flight' \subseteq {HostArgs}
    BY <1>2, <1>3, <1>4, <2>2 DEF D!Invoke
  <2>4. Flight' \subseteq {HostArgs} \cup (IF inv.valid THEN {inv.args} ELSE {})
    BY <1>2, <1>4, <2>2 DEF D!Invoke
  <2> QED BY <2>1, <2>3, <2>4
<1>5. CASE D!NoInvoke(taken)
  <2>1. HandshakeInv' /\ PulseInv'
    BY <1>1, <1>3, <1>5 DEF D!NoInvoke, D!NoStart, D!DonePort, PulseInv
  <2>2. Flight' = {}
    BY <1>1, <1>5 DEF D!NoInvoke, D!NoStart, D!DonePort, Flight
  <2> QED BY <2>1, <2>2
<1>6. CASE D!AwaitDone
  <2>1. HandshakeInv' /\ PulseInv'
    BY <1>1, <1>3, <1>6 DEF D!AwaitDone, D!NoStart, D!DonePort, PulseInv
  <2>2. Flight' \subseteq Flight
    <3>1. start'.valid = FALSE /\ done'.valid = FALSE
      BY <1>6 DEF D!AwaitDone, D!NoStart, D!DonePort
    <3>2. CASE start.valid
      BY <1>1, <1>6, <3>1, <3>2 DEF D!AwaitDone, Flight
    <3>3. CASE ~start.valid /\ task_done
      BY <1>1, <1>6, <3>1, <3>3 DEF D!AwaitDone, Flight
    <3>4. CASE ~start.valid /\ ~task_done
      BY <1>1, <1>6, <3>1, <3>4 DEF D!AwaitDone, Flight
    <3> QED BY <3>2, <3>3, <3>4
  <2> QED BY <1>3, <1>6, <2>1, <2>2 DEF D!AwaitDone
<1>7. CASE D!PulseDone
  <2>1. HandshakeInv' /\ PulseInv'
    BY <1>1, <1>3, <1>7 DEF D!PulseDone, D!NoStart, D!DonePort, PulseInv
  <2>2. Flight' \subseteq Flight
    BY <1>1, <1>7 DEF D!PulseDone, D!NoStart, D!DonePort, Flight
  <2> QED BY <1>3, <1>7, <2>1, <2>2 DEF D!PulseDone
<1> QED BY <1>1, <1>4, <1>5, <1>6, <1>7 DEF D!Dispatch

LEMMA InitialWire == Init => WireInv /\ HandshakeInv /\ PulseInv
<1> SUFFICES ASSUME Init PROVE WireInv /\ HandshakeInv /\ PulseInv
  OBVIOUS
<1> USE DEF Init, RxInit
<1>1. MAX_UNITS - 1 \in Nat /\ MAX_UNITS \in Nat
  BY AppAssumption
<1>2. \A i \in Nat : Unit(NoFrame, i) \in Units
  BY DEF Unit, NoFrame, Units
<1>3. pkt_buf \in Buffers
  BY <1>1, <1>2 DEF Buffers
<1>4. inv \in Idents
  BY <1>1, <1>2 DEF Idents, Args, ArgsOf
<1>5. pos \in Places
  BY DEF Places
<1>6. \A f \in DOMAIN traffic : 1 \in DOMAIN BeatsOf(traffic[f])
  <2>1. traffic \in Seq(Frames)
    BY TrafficAssumption DEF Frames
  <2> QED BY <2>1, BeatFacts
<1>7. WireInv
  BY <1>3, <1>4, <1>5, <1>6 DEF WireInv
<1> QED BY <1>7 DEF HandshakeInv, PulseInv, D!DispatchInit

(* The pulse of the filter is lost only to a host's own invocation.         *)
THEOREM OnlyTheHostGetsInBetween == Spec => []DroppedOnlyByHost
<1> DEFINE I == WireInv /\ HandshakeInv /\ PulseInv
<1>1. Init => I
  BY InitialWire
<1>2. I /\ [Next]_vars => I'
  <2> SUFFICES ASSUME I, [Next]_vars PROVE I'
    OBVIOUS
  <2>1. CASE Next
    <3>1. PICK offered \in BOOLEAN, mready \in BOOLEAN, tready \in BOOLEAN,
               hostInvokes \in MayInvoke, finish \in MayFinish, nextbeat \in MayDrive :
            Tick(offered, mready, hostInvokes, finish, tready, nextbeat)
      BY <2>1 DEF Next
    <3>2. hostInvokes \in BOOLEAN /\ finish \in BOOLEAN
      BY DEF MayInvoke, MayFinish
    <3> QED BY <3>1, <3>2, WireStep, FlightStep
  <2>2. CASE UNCHANGED vars
    BY <2>2 DEF vars, rxVars, mpVars, envVars, D!dispatchVars, WireInv, HandshakeInv, PulseInv
  <2> QED BY <2>1, <2>2
<1>3. I => DroppedOnlyByHost
  BY DEF PulseInv, DroppedOnlyByHost
<1> QED BY <1>1, <1>2, <1>3, PTL DEF Spec
-----------------------------------------------------------------------------
(***************************************************************************)
(* The frame buffer: whose header and whose first argument it has.  A frame *)
(* of one beat is followed into the buffer by the next frame (tlast on the  *)
(* first beat is not looked at), and a long frame wraps byte_count, so the  *)
(* first two places have to be followed apart.                             *)
(***************************************************************************)
Filling == rxstate \in {"S_COLLECT", "S_FIRE"}

BufferInv ==
    /\ rxstate = "S_COLLECT" /\ pos.beat = 1 => byte_count \in 1 .. BEAT_UNITS
    /\ rxstate = "S_COLLECT" /\ pos.beat = 2 /\ BEAT_UNITS = 1 =>
         \/ byte_count = 1 /\ pkt_buf[0] = Unit(traffic[pos.frame], 0)
         \/ byte_count = 2
    /\ Filling /\ pkt_buf[0].at = 0 =>
         /\ pkt_buf[0].frame.id <= pos.frame
         /\ pkt_buf[0].frame.id = pos.frame => pos.beat > 1
    /\ /\ Filling /\ pkt_buf[0].at = 0 /\ pkt_buf[1].at = 1
       /\ pkt_buf[0].frame # pkt_buf[1].frame
       => /\ rxstate = "S_COLLECT" /\ byte_count = 1
          /\ \/ pos.beat = 1
             \/ /\ pos.beat = 2 /\ BEAT_UNITS = 1
                /\ pkt_buf[0].frame = traffic[pos.frame]

(* The offset in its frame of the beat at the filter; that beat, and what   *)
(* writing it from a place on does.                                        *)
At == (pos.beat - 1) * BEAT_UNITS

Received(beat, from, fr, at) ==
    /\ pos.frame \in DOMAIN traffic /\ fr \in Frames /\ fr.id = pos.frame
    /\ Len(beat.units) \in 1 .. BEAT_UNITS
    /\ beat.last \in BOOLEAN /\ (~beat.last => Len(beat.units) = BEAT_UNITS)
    /\ Written(beat, from)[0] = IF from = 0 THEN Unit(fr, at) ELSE pkt_buf[0]
    /\ Written(beat, from)[1] = IF from = 1 THEN Unit(fr, at)
                                ELSE IF from = 0 /\ Len(beat.units) > 1
                                     THEN Unit(fr, at + 1) ELSE pkt_buf[1]

LEMMA Arrival ==
    ASSUME WireInv, NEW beat, beat # NoBeat, NEW mready, Moves(beat, mready),
           NEW from \in Nat
    PROVE  Received(beat, from, traffic[pos.frame], At)
<1> DEFINE fr == traffic[pos.frame]
<1>1. /\ pos.frame \in DOMAIN traffic /\ pos.beat \in DOMAIN BeatsOf(fr)
      /\ beat = BeatsOf(fr)[pos.beat]
  BY DEF Moves
<1>2. fr \in Frames /\ fr.id = pos.frame
  BY <1>1, TrafficFacts
<1>3. pkt_buf \in Buffers
  BY DEF WireInv
<1> HIDE DEF fr
<1>4. /\ Len(beat.units) \in 1 .. BEAT_UNITS
      /\ beat.last \in BOOLEAN /\ (~beat.last => Len(beat.units) = BEAT_UNITS)
  BY <1>1, <1>2, BeatFacts
<1>5. /\ Written(beat, from)[0] = IF from = 0 THEN Unit(fr, At) ELSE pkt_buf[0]
      /\ Written(beat, from)[1] = IF from = 1 THEN Unit(fr, At)
                                  ELSE IF from = 0 /\ Len(beat.units) > 1
                                       THEN Unit(fr, At + 1) ELSE pkt_buf[1]
  BY <1>1, <1>2, <1>3, WrittenFacts DEF At
<1> QED BY <1>1, <1>2, <1>4, <1>5 DEF Received, fr

LEMMA BufferStep ==
    ASSUME WireInv, BufferInv,
           NEW offered \in BOOLEAN, NEW mready \in BOOLEAN, NEW hostInvokes \in BOOLEAN,
           NEW finish \in BOOLEAN, NEW tready \in BOOLEAN, NEW nextbeat,
           Tick(offered, mready, hostInvokes, finish, tready, nextbeat)
    PROVE  BufferInv'
<1> DEFINE beat == WireBeat(offered)
           fr == traffic[pos.frame]
           at == At
<1>1. /\ RxStep(beat, mready, inv_busy) /\ WireMoves(beat, mready) /\ traffic' = traffic
  BY DEF Tick
<1>2. Moves(beat, mready)
  BY <1>1, Incoming
<1>3. pos.frame \in Nat \ {0} /\ pos.beat \in Nat \ {0} /\ byte_count \in Nat
  BY DEF WireInv, Places
<1>4. ASSUME beat # NoBeat, NEW from \in Nat
      PROVE  Received(beat, from, fr, at)
  BY <1>2, <1>4, Arrival
<1>5. /\ at \in Nat /\ (pos.beat = 1 => at = 0) /\ (pos.beat > 1 => at >= BEAT_UNITS)
      /\ at = 1 => pos.beat = 2 /\ BEAT_UNITS = 1
  BY <1>3, Offset DEF At
<1>6. \A f, p : Unit(f, p).frame = f /\ Unit(f, p).at = p
  BY DEF Unit
<1> USE DEF Received
<1> HIDE DEF beat, fr, at
<1>7. CASE TakeFirst(beat)
  <2>1. /\ beat # NoBeat /\ rxstate = "S_IDLE" /\ rxstate' = "S_COLLECT"
        /\ pkt_buf' = Written(beat, 0) /\ byte_count' = Len(beat.units) % COUNT_MOD
    BY <1>7 DEF TakeFirst
  <2>2. pos.beat = 1 /\ at = 0
    BY <2>1, <1>5 DEF WireInv
  <2>3. Len(beat.units) \in 1 .. BEAT_UNITS /\ byte_count' = Len(beat.units)
    <3>1. Len(beat.units) \in 1 .. BEAT_UNITS
      BY <2>1, <1>4
    <3>2. \A n \in 1 .. BEAT_UNITS : n % COUNT_MOD = n
      BY AppAssumption
    <3> QED BY <2>1, <3>1, <3>2
  <2>4. \/ beat.last /\ pos' = [frame |-> pos.frame + 1, beat |-> 1]
        \/ /\ ~beat.last /\ Len(beat.units) = BEAT_UNITS
           /\ pos' = [frame |-> pos.frame, beat |-> 2]
    BY <2>1, <2>2, <1>2, <1>4 DEF Moves, RxReady
  <2>5. pkt_buf'[0] = Unit(fr, 0) /\ fr.id = pos.frame
    BY <2>1, <2>2, <1>4
  <2>6. pkt_buf'[0].frame = fr
    BY <2>5, <1>6
  <2>7. Len(beat.units) > 1 => pkt_buf'[1].frame = fr
    BY <2>1, <2>2, <1>4, <1>6
  <2>8. (rxstate = "S_COLLECT" /\ pos.beat = 1 => byte_count \in 1 .. BEAT_UNITS)'
    BY <2>3
  <2>9. (rxstate = "S_COLLECT" /\ pos.beat = 2 /\ BEAT_UNITS = 1 =>
           byte_count = 1 /\ pkt_buf[0] = Unit(traffic[pos.frame], 0))'
    BY <2>3, <2>4, <2>5, <1>1 DEF fr, Unit
  <2>10. (Filling /\ pkt_buf[0].at = 0 =>
           /\ pkt_buf[0].frame.id <= pos.frame
           /\ pkt_buf[0].frame.id = pos.frame => pos.beat > 1)'
    BY <2>4, <2>5, <2>6, <1>3
  <2>11. pkt_buf'[0].frame # pkt_buf'[1].frame =>
           /\ rxstate' = "S_COLLECT" /\ byte_count' = 1
           /\ \/ pos'.beat = 1
              \/ /\ pos'.beat = 2 /\ BEAT_UNITS = 1
                 /\ pkt_buf'[0].frame = traffic'[pos'.frame]
    BY <2>1, <2>3, <2>4, <2>6, <2>7, <1>1 DEF fr
  <2> QED BY <2>8, <2>9, <2>10, <2>11 DEF BufferInv
<1>8. CASE Collect(beat)
  <2>1. /\ beat # NoBeat /\ rxstate = "S_COLLECT" /\ pkt_buf' = Written(beat, byte_count)
        /\ byte_count' = (byte_count + Len(beat.units)) % COUNT_MOD
        /\ rxstate' = IF beat.last THEN "S_FIRE" ELSE "S_COLLECT"
    BY <1>8 DEF Collect
  <2>2. \/ beat.last /\ pos' = [frame |-> pos.frame + 1, beat |-> 1]
        \/ /\ ~beat.last /\ Len(beat.units) = BEAT_UNITS
           /\ pos' = [frame |-> pos.frame, beat |-> pos.beat + 1]
    BY <2>1, <1>2, <1>3, <1>4 DEF Moves, RxReady
  <2>3. Filling /\ rxstate' \in {"S_COLLECT", "S_FIRE"}
    BY <2>1 DEF Filling
  <2>4. Filling' /\ pkt_buf'[0].at = 0 =>
         /\ pkt_buf'[0].frame = pkt_buf[0].frame /\ pkt_buf[0].at = 0 /\ byte_count # 0
    BY <2>1, <1>3, <1>4, <1>5, <1>6, AppAssumption DEF BufferInv
  <2>5. (Filling /\ pkt_buf[0].at = 0 =>
           /\ pkt_buf[0].frame.id <= pos.frame
           /\ pkt_buf[0].frame.id = pos.frame => pos.beat > 1)'
    <3>1. pkt_buf[0].frame.id \in Nat
      BY AppAssumption DEF WireInv, Buffers, Units
    <3> QED BY <2>2, <2>3, <2>4, <3>1, <1>3 DEF BufferInv
  <2>6. (rxstate = "S_COLLECT" /\ pos.beat = 1 => byte_count \in 1 .. BEAT_UNITS)'
    BY <2>1, <2>2, <1>3, <1>4
  <2>7. (rxstate = "S_COLLECT" /\ pos.beat = 2 /\ BEAT_UNITS = 1 => byte_count = 2)'
    <3> SUFFICES ASSUME rxstate' = "S_COLLECT", pos'.beat = 2, BEAT_UNITS = 1
                 PROVE  byte_count' = 2
      OBVIOUS
    <3>1. ~beat.last /\ pos.beat = 1 /\ Len(beat.units) = 1
      BY <2>1, <2>2, <1>3
    <3>2. byte_count = 1
      BY <2>1, <3>1, <1>3 DEF BufferInv
    <3>3. 2 % COUNT_MOD = 2
      BY AppAssumption
    <3> QED BY <2>1, <3>1, <3>2, <3>3
  <2>8. ASSUME pkt_buf'[0].at = 0, pkt_buf'[1].at = 1
        PROVE  pkt_buf'[0].frame = pkt_buf'[1].frame
    <3>1. byte_count # 0 /\ pkt_buf[0].at = 0 /\ pkt_buf'[0].frame = pkt_buf[0].frame
      BY <2>3, <2>4, <2>8 DEF Filling
    <3>2. CASE byte_count = 1
      <4>1. pkt_buf'[1] = Unit(fr, at)
        BY <2>1, <3>2, <1>4
      <4>2. pos.beat = 2 /\ BEAT_UNITS = 1
        BY <4>1, <2>8, <1>5, <1>6
      <4>3. pkt_buf[0] = Unit(fr, 0)
        BY <2>1, <3>2, <4>2 DEF BufferInv, fr
      <4> QED BY <4>1, <4>3, <3>1, <1>6
    <3>3. CASE byte_count # 1
      <4>1. pkt_buf'[1] = pkt_buf[1]
        BY <2>1, <3>1, <3>3, <1>3, <1>4
      <4> QED BY <4>1, <3>1, <3>3, <2>3, <2>8 DEF BufferInv
    <3> QED BY <3>2, <3>3
  <2> QED BY <2>5, <2>6, <2>7, <2>8 DEF BufferInv
<1>9. CASE ~TakeFirst(beat) /\ ~Collect(beat)
  <2>1. /\ pkt_buf' = pkt_buf
        /\ Filling' => /\ rxstate' = rxstate /\ byte_count' = byte_count /\ pos' = pos
    BY <1>1, <1>2, <1>9
       DEF RxStep, Fire, StartReplay, Replay, EndDrain, RxHold, Forget, Filling, Moves, RxReady
  <2> QED BY <2>1, <1>1 DEF BufferInv, Filling
<1> QED BY <1>7, <1>8, <1>9
-----------------------------------------------------------------------------
(***************************************************************************)
(* The identity beside a result.  An invocation whose arguments are at the  *)
(* filter's pulse, or on their way to the done port, is older than every    *)
(* header that comes into the buffer after it.                             *)
(***************************************************************************)
Overtaken(f) == rxstate = "S_FIRE" /\ Matches /\ inv.id > f

TagInv ==
    inv.valid =>
        /\ inv.id < pos.frame
        /\ \A f \in DOMAIN traffic : inv.args = ArgsOf(traffic[f]) => inv.id = f

EchoInv ==
    \A f \in DOMAIN traffic :
        ArgsOf(traffic[f]) \in Flight =>
            /\ f < pos.frame
            /\ inv.id = f \/ Overtaken(f)
            /\ Filling /\ pkt_buf[0].at = 0 => pkt_buf[0].frame.id > f

LEMMA TagStep ==
    ASSUME WireInv, BufferInv, TagInv,
           NEW offered \in BOOLEAN, NEW mready \in BOOLEAN, NEW hostInvokes \in BOOLEAN,
           NEW finish \in BOOLEAN, NEW tready \in BOOLEAN, NEW nextbeat,
           Tick(offered, mready, hostInvokes, finish, tready, nextbeat)
    PROVE  TagInv'
<1> SUFFICES ASSUME inv'.valid
             PROVE  /\ inv'.id < pos'.frame
                    /\ \A f \in DOMAIN traffic :
                         inv'.args = ArgsOf(traffic[f]) => inv'.id = f
  BY DEF Tick, TagInv
<1> DEFINE beat == WireBeat(offered)
<1>1. RxStep(beat, mready, inv_busy) /\ Moves(beat, mready)
  BY Incoming DEF Tick
<1>2. NoPulse => ~inv'.valid
  BY DEF NoPulse, WireInv, Idents
<1>3. Fire(inv_busy)
  BY <1>1, <1>2 DEF RxStep, TakeFirst, Collect, StartReplay, Replay, EndDrain, RxHold
<1>4. /\ rxstate = "S_FIRE" /\ pkt_buf[0].at = 0
      /\ inv'.id = pkt_buf[0].frame.id
      /\ inv'.args = [i \in 1 .. MAX_UNITS - 1 |-> pkt_buf[i]]
  BY <1>3 DEF Fire, Matches
<1>5. pos' = pos /\ pos.beat = 1
  BY <1>1, <1>4 DEF Moves, RxReady, WireInv
<1>6. inv'.id < pos'.frame
  <2>1. pkt_buf[0].frame.id \in Nat /\ pos.frame \in Nat
    BY AppAssumption DEF WireInv, Buffers, Units, Places
  <2> QED BY <2>1, <1>4, <1>5 DEF BufferInv, Filling
<1>7. ASSUME NEW f \in DOMAIN traffic, inv'.args = ArgsOf(traffic[f])
      PROVE  inv'.id = f
  <2>1. 1 \in 1 .. MAX_UNITS - 1
    BY AppAssumption
  <2>2. pkt_buf[1] = Unit(traffic[f], 1)
    BY <2>1, <1>4, <1>7 DEF ArgsOf
  <2>3. pkt_buf[0].frame = traffic[f]
    BY <2>2, <1>4 DEF BufferInv, Filling, Unit
  <2> QED BY <2>3, <1>4, TrafficFacts
<1> QED BY <1>6, <1>7

LEMMA EchoStep ==
    ASSUME WireInv, HandshakeInv, PulseInv, BufferInv, TagInv, EchoInv,
           NEW offered \in BOOLEAN, NEW mready \in BOOLEAN, NEW hostInvokes \in BOOLEAN,
           NEW finish \in BOOLEAN, NEW tready \in BOOLEAN, NEW nextbeat,
           Tick(offered, mready, hostInvokes, finish, tready, nextbeat)
    PROVE  EchoInv'
<1> DEFINE beat == WireBeat(offered)
<1>1. RxStep(beat, mready, inv_busy) /\ Moves(beat, mready) /\ traffic' = traffic
  BY Incoming DEF Tick
<1>2. SUFFICES ASSUME NEW f \in DOMAIN traffic, ArgsOf(traffic[f]) \in Flight'
               PROVE  /\ f < pos'.frame
                      /\ inv'.id = f \/ Overtaken(f)'
                      /\ (Filling /\ pkt_buf[0].at = 0 => pkt_buf[0].frame.id > f)'
  BY <1>1 DEF EchoInv
<1>3. /\ f \in Nat \ {0} /\ ArgsOf(traffic[f]) # HostArgs
      /\ pos.frame \in Nat /\ inv.id \in Nat
  BY TrafficFacts DEF WireInv, Places, Idents
<1>4. ~inv'.valid
  BY <1>2, <1>3, FlightStep
<1>5. /\ f < pos.frame
      /\ inv.id = f \/ Overtaken(f)
      /\ Filling /\ pkt_buf[0].at = 0 => pkt_buf[0].frame.id > f
  <2>1. CASE ArgsOf(traffic[f]) \in Flight
    BY <2>1 DEF EchoInv
  <2>2. CASE ArgsOf(traffic[f]) \notin Flight
    <3>1. inv.valid /\ inv.args = ArgsOf(traffic[f])
      BY <2>2, <1>2, <1>3, FlightStep
    <3> QED BY <3>1 DEF TagInv, PulseInv, Filling
  <2> QED BY <2>1, <2>2
<1> HIDE DEF beat
<1>6. f < pos'.frame
  BY <1>1, <1>3, <1>5 DEF Moves
<1>7. NoPulse => inv'.id = inv.id
  BY DEF NoPulse, WireInv, Idents
<1>8. CASE TakeFirst(beat)
  <2>1. Received(beat, 0, traffic[pos.frame], At)
    BY <1>1, <1>8, Arrival DEF TakeFirst
  <2>2. pkt_buf'[0].frame.id = pos.frame
    BY <2>1, <1>8 DEF TakeFirst, Received, Unit
  <2>3. inv'.id = f
    BY <1>5, <1>7, <1>8 DEF TakeFirst, Overtaken
  <2> QED BY <2>2, <2>3, <1>5, <1>6
<1>9. CASE Collect(beat)
  <2>1. Received(beat, byte_count, traffic[pos.frame], At) /\ byte_count \in Nat
    BY <1>1, <1>9, Arrival DEF Collect, WireInv
  <2>2. pkt_buf'[0].at = 0 => pkt_buf'[0] = pkt_buf[0]
    <3>1. CASE byte_count = 0
      <4>1. pos.beat \in Nat \ {0} /\ pos.beat # 1
        BY <3>1, <1>9, AppAssumption DEF Collect, BufferInv, WireInv, Places
      <4>2. At # 0
        BY <4>1, Offset, AppAssumption DEF At
      <4> QED BY <2>1, <3>1, <4>2, <1>9 DEF Collect, Received, Unit
    <3>2. CASE byte_count # 0
      BY <2>1, <3>2, <1>9 DEF Collect, Received
    <3> QED BY <3>1, <3>2
  <2>3. inv'.id = f
    BY <1>5, <1>7, <1>9 DEF Collect, Overtaken
  <2> QED BY <2>2, <2>3, <1>5, <1>6, <1>9 DEF Collect, Filling
<1>10. CASE Fire(inv_busy)
  <2>1. inv_busy
    BY <1>4, <1>10 DEF Fire
  <2>2. /\ inv'.id = pkt_buf[0].frame.id /\ rxstate' = "S_FIRE" /\ Matches'
        /\ pkt_buf[0].at = 0 /\ Filling /\ pkt_buf' = pkt_buf
    BY <2>1, <1>10 DEF Fire, Matches, Filling
  <2> QED BY <2>2, <1>5, <1>6 DEF Overtaken
<1>11. CASE RxHold(beat, mready)
  BY <1>1, <1>5, <1>6, <1>7, <1>11 DEF RxHold, Overtaken, Matches, Filling
<1>12. CASE StartReplay \/ Replay \/ EndDrain(beat)
  BY <1>1, <1>5, <1>6, <1>7, <1>12
     DEF StartReplay, Replay, EndDrain, Forget, Overtaken, Filling
<1> QED BY <1>1, <1>8, <1>9, <1>10, <1>11, <1>12 DEF RxStep

(* The identity a response takes is its own, unless a later invocation is   *)
(* waiting in the filter for the dispatcher.                               *)
THEOREM IdentityIsEchoed == Spec => []EchoUnlessOvertaken
<1> DEFINE I == WireInv /\ HandshakeInv /\ PulseInv /\ BufferInv /\ TagInv /\ EchoInv
<1>1. Init => I
  <2> SUFFICES ASSUME Init PROVE BufferInv /\ TagInv /\ EchoInv
    BY InitialWire
  <2>1. Flight = {}
    BY DEF Init, D!DispatchInit, Flight
  <2> QED BY <2>1 DEF Init, RxInit, BufferInv, TagInv, EchoInv, Filling
<1>2. I /\ [Next]_vars => I'
  <2> SUFFICES ASSUME I, [Next]_vars PROVE I'
    OBVIOUS
  <2>1. CASE Next
    <3>1. PICK offered \in BOOLEAN, mready \in BOOLEAN, tready \in BOOLEAN,
               hostInvokes \in MayInvoke, finish \in MayFinish, nextbeat \in MayDrive :
            Tick(offered, mready, hostInvokes, finish, tready, nextbeat)
      BY <2>1 DEF Next
    <3>2. hostInvokes \in BOOLEAN /\ finish \in BOOLEAN
      BY DEF MayInvoke, MayFinish
    <3>3. WireInv' /\ HandshakeInv' /\ PulseInv'
      BY <3>1, <3>2, WireStep, FlightStep
    <3>4. BufferInv' /\ TagInv' /\ EchoInv'
      BY <3>1, <3>2, BufferStep, TagStep, EchoStep
    <3> QED BY <3>3, <3>4
  <2>2. CASE UNCHANGED vars
    <3>1. WireInv' /\ HandshakeInv' /\ PulseInv'
      BY <2>2 DEF vars, rxVars, mpVars, envVars, D!dispatchVars, WireInv, HandshakeInv, PulseInv
    <3>2. BufferInv' /\ TagInv' /\ EchoInv'
      BY <2>2 DEF vars, rxVars, mpVars, envVars, D!dispatchVars, BufferInv, TagInv, EchoInv,
                  Flight, Filling, Overtaken, Matches
    <3> QED BY <3>1, <3>2
  <2> QED BY <2>1, <2>2
<1>3. I => EchoUnlessOvertaken
  BY DEF EchoInv, EchoUnlessOvertaken, Flight, Invocations, Overtaken
<1> QED BY <1>1, <1>2, <1>3, PTL DEF Spec
-----------------------------------------------------------------------------
(***************************************************************************)
(* Frames that pass through: how many ordinary frames come before a place   *)
(* in the traffic, and where the beats of one of them are delivered.        *)
(***************************************************************************)
Before(n) == {f \in Ordinary : f < n}

LEMMA Counting ==
    ASSUME WireInv
    PROVE  /\ OrdinaryBefore(1) = 0
           /\ \A n \in Nat : OrdinaryBefore(n) \in Nat
           /\ \A m, n \in Nat : m <= n => OrdinaryBefore(m) <= OrdinaryBefore(n)
           /\ \A n \in DOMAIN traffic :
                OrdinaryBefore(n + 1) = OrdinaryBefore(n) + (IF traffic[n].invoke THEN 0 ELSE 1)
<1>1. DOMAIN traffic = 1 .. Len(traffic) /\ Len(traffic) \in Nat
  BY TrafficFacts
<1>2. Ordinary = {f \in 1 .. Len(traffic) : ~traffic[f].invoke}
  BY <1>1 DEF Ordinary, Invocations
<1>3. IsFiniteSet(1 .. Len(traffic))
  BY <1>1, FS_Interval
<1>4. ASSUME NEW n \in Nat
      PROVE  IsFiniteSet(Before(n)) /\ OrdinaryBefore(n) = Cardinality(Before(n))
  <2>1. Before(n) \subseteq 1 .. Len(traffic)
    BY <1>2 DEF Before
  <2> QED BY <2>1, <1>3, FS_Subset DEF Before, OrdinaryBefore
<1>5. \A n \in Nat : OrdinaryBefore(n) \in Nat
  BY <1>4, FS_CardinalityType
<1>6. OrdinaryBefore(1) = 0
  <2>1. Before(1) = {}
    BY <1>2 DEF Before
  <2> QED BY <2>1, <1>4, FS_EmptySet
<1>7. ASSUME NEW m \in Nat, NEW n \in Nat, m <= n
      PROVE  OrdinaryBefore(m) <= OrdinaryBefore(n)
  <2>1. Before(m) \subseteq Before(n)
    BY <1>2, <1>7 DEF Before
  <2> QED BY <2>1, <1>4, FS_Subset
<1>8. ASSUME NEW n \in DOMAIN traffic
      PROVE  OrdinaryBefore(n + 1) = OrdinaryBefore(n) + (IF traffic[n].invoke THEN 0 ELSE 1)
  <2>1. n \in Nat /\ n + 1 \in Nat
    BY <1>1
  <2>2. CASE traffic[n].invoke
    <3>1. Before(n + 1) = Before(n)
      BY <2>1, <2>2, <1>1, <1>2 DEF Before
    <3> QED BY <3>1, <2>1, <2>2, <1>4, <1>5
  <2>3. CASE ~traffic[n].invoke
    <3>1. Before(n + 1) = Before(n) \cup {n} /\ n \notin Before(n)
      BY <2>1, <2>3, <1>1, <1>2 DEF Before
    <3> QED BY <3>1, <2>1, <2>3, <1>4, FS_AddElement
  <2> QED BY <2>2, <2>3
<1> QED BY <1>5, <1>6, <1>7, <1>8

(* Where the filter stands in a frame of two beats, what it holds of it,    *)
(* and how much has been delivered.                                        *)
Beats == UNION {{BeatsOf(fr)[b] : b \in DOMAIN BeatsOf(fr)} : fr \in Frames}
Previous == pos.frame - 1
HoldsPrevious ==
    /\ pos.beat = 1 /\ Previous \in DOMAIN traffic
    /\ Len(held) = 2
    /\ held[1] = BeatsOf(traffic[Previous])[1] /\ held[2] = BeatsOf(traffic[Previous])[2]
    /\ pkt_buf[0] = Unit(traffic[Previous], 0)

Placed ==
    \A f \in Ordinary, b \in 1 .. 2 :
        LET place == 2 * OrdinaryBefore(f) + b
        IN  place <= Len(delivered) => delivered[place] = BeatsOf(traffic[f])[b]

Stands ==
    /\ rxstate \in {"S_IDLE", "S_COLLECT", "S_FIRE", "S_REPLAY"}
    /\ rxstate = "S_IDLE" => Len(delivered) = 2 * OrdinaryBefore(pos.frame)
    /\ rxstate = "S_COLLECT" =>
         /\ pos.beat = 2 /\ pos.frame \in DOMAIN traffic
         /\ held = <<BeatsOf(traffic[pos.frame])[1]>>
         /\ pkt_buf[0] = Unit(traffic[pos.frame], 0) /\ byte_count = BEAT_UNITS
         /\ Len(delivered) = 2 * OrdinaryBefore(pos.frame)
    /\ rxstate = "S_FIRE" =>
         /\ HoldsPrevious /\ Len(delivered) = 2 * OrdinaryBefore(Previous)
         /\ traffic[Previous].invoke => byte_count # 0
    /\ rxstate = "S_REPLAY" =>
         /\ HoldsPrevious /\ ~traffic[Previous].invoke /\ replay_idx \in {1, 2}
         /\ Len(delivered) = 2 * OrdinaryBefore(Previous) + replay_idx - 1

PassInv == TwoBeatFrames /\ InvocationsFit => delivered \in Seq(Beats) /\ Placed /\ Stands

LEMMA TwoBeats ==
    ASSUME NEW fr \in Frames, DOMAIN BeatsOf(fr) = 1 .. 2
    PROVE  /\ BeatsOf(fr)[1] \in Beats /\ BeatsOf(fr)[2] \in Beats
           /\ BeatsOf(fr)[1].last = FALSE /\ BeatsOf(fr)[2].last = TRUE
           /\ Len(BeatsOf(fr)[1].units) = BEAT_UNITS
           /\ Len(BeatsOf(fr)[2].units) \in 1 .. BEAT_UNITS
           /\ BEAT_UNITS + Len(BeatsOf(fr)[2].units) = fr.units
<1>1. 1 \in 1 .. 2 /\ 2 \in 1 .. 2 /\ 3 \notin 1 .. 2
  OBVIOUS
<1>2. BeatsOf(fr)[1] \in Beats /\ BeatsOf(fr)[2] \in Beats
  <2> DEFINE own(g) == {BeatsOf(g)[b] : b \in DOMAIN BeatsOf(g)}
  <2>1. BeatsOf(fr)[1] \in own(fr) /\ BeatsOf(fr)[2] \in own(fr)
    BY <1>1
  <2>2. Beats = UNION {own(g) : g \in Frames}
    BY DEF Beats
  <2> HIDE DEF own
  <2>3. own(fr) \subseteq Beats
    BY <2>2
  <2> QED BY <2>1, <2>3
<1>3. BeatsOf(fr)[1].last = FALSE /\ BeatsOf(fr)[2].last = TRUE
  <2>1. /\ BeatsOf(fr)[1].last = (1 + 1 \notin DOMAIN BeatsOf(fr))
        /\ BeatsOf(fr)[2].last = (2 + 1 \notin DOMAIN BeatsOf(fr))
    BY <1>1, BeatFacts
  <2>2. 1 + 1 \in 1 .. 2 /\ 2 + 1 \notin 1 .. 2
    OBVIOUS
  <2> QED BY <2>1, <2>2
<1>4. Len(BeatsOf(fr)[1].units) = BEAT_UNITS
  BY <1>1, <1>3, BeatFacts
<1>5. Len(BeatsOf(fr)[2].units) = fr.units - BEAT_UNITS
  <2>1. Len(BeatsOf(fr)[2].units) = fr.units - (2 - 1) * BEAT_UNITS
    BY <1>1, <1>3, BeatFacts
  <2> QED BY <2>1, AppAssumption
<1>6. Len(BeatsOf(fr)[2].units) \in 1 .. BEAT_UNITS /\ fr.units \in Nat
  BY <1>1, BeatFacts DEF Frames
<1> QED BY <1>2, <1>3, <1>4, <1>5, <1>6, AppAssumption

LEMMA PassStep ==
    ASSUME WireInv, PassInv,
           NEW offered \in BOOLEAN, NEW mready \in BOOLEAN, NEW hostInvokes \in BOOLEAN,
           NEW finish \in BOOLEAN, NEW tready \in BOOLEAN, NEW nextbeat,
           Tick(offered, mready, hostInvokes, finish, tready, nextbeat)
    PROVE  PassInv'
<1> DEFINE beat == WireBeat(offered)
           drives == RxDrives(beat)
<1>1. /\ RxStep(beat, mready, inv_busy) /\ Moves(beat, mready) /\ traffic' = traffic
      /\ delivered' = IF mready /\ drives # NoBeat THEN Append(delivered, drives) ELSE delivered
  BY Incoming DEF Tick
<1> HIDE DEF beat
<1>2. SUFFICES ASSUME TwoBeatFrames, InvocationsFit
               PROVE  delivered' \in Seq(Beats) /\ Placed' /\ Stands'
  BY <1>1 DEF PassInv, TwoBeatFrames, InvocationsFit, Invocations
<1>3. delivered \in Seq(Beats) /\ Placed /\ Stands
  BY <1>2 DEF PassInv
<1>4. /\ pos.frame \in Nat \ {0} /\ Ordinary' = Ordinary
      /\ \A n : OrdinaryBefore(n)' = OrdinaryBefore(n)
  <2>1. Ordinary' = Ordinary
    BY <1>1 DEF Ordinary, Invocations
  <2>2. pos.frame \in Nat \ {0}
    BY DEF WireInv, Places
  <2> QED BY <2>1, <2>2 DEF OrdinaryBefore
<1>5. \A f \in DOMAIN traffic :
        /\ f \in Nat \ {0} /\ traffic[f] \in Frames /\ DOMAIN BeatsOf(traffic[f]) = 1 .. 2
        /\ BeatsOf(traffic[f])[1] \in Beats /\ BeatsOf(traffic[f])[2] \in Beats
        /\ BeatsOf(traffic[f])[1].last = FALSE /\ BeatsOf(traffic[f])[2].last = TRUE
        /\ Len(BeatsOf(traffic[f])[1].units) = BEAT_UNITS
        /\ Len(BeatsOf(traffic[f])[2].units) \in 1 .. BEAT_UNITS
        /\ BEAT_UNITS + Len(BeatsOf(traffic[f])[2].units) = traffic[f].units
  BY <1>2, TrafficFacts, TwoBeats DEF TwoBeatFrames
<1>6. ASSUME delivered' = delivered, Stands'
      PROVE  delivered' \in Seq(Beats) /\ Placed' /\ Stands'
  BY <1>1, <1>3, <1>4, <1>6 DEF Placed
<1>7. CASE TakeFirst(beat)
  <2>1. /\ beat # NoBeat /\ rxstate = "S_IDLE" /\ rxstate' = "S_COLLECT" /\ held' = <<beat>>
        /\ pkt_buf' = Written(beat, 0) /\ byte_count' = Len(beat.units) % COUNT_MOD
    BY <1>7 DEF TakeFirst
  <2>2. pos.beat = 1 /\ delivered' = delivered
    BY <2>1, <1>1 DEF WireInv, RxDrives
  <2>3. /\ pos.frame \in DOMAIN traffic /\ beat = BeatsOf(traffic[pos.frame])[1]
        /\ beat.last = FALSE /\ Len(beat.units) = BEAT_UNITS
    BY <2>1, <2>2, <1>1, <1>5 DEF Moves
  <2>4. pos' = [frame |-> pos.frame, beat |-> 2]
    BY <2>1, <2>2, <2>3, <1>1 DEF Moves, RxReady
  <2>5. pkt_buf'[0] = Unit(traffic[pos.frame], 0)
    <3>1. Received(beat, 0, traffic[pos.frame], At)
      BY <2>1, <1>1, Arrival
    <3>2. At = 0
      BY <2>2, AppAssumption DEF At
    <3> QED BY <3>1, <3>2, <2>1 DEF Received
  <2>6. byte_count' = BEAT_UNITS
    BY <2>1, <2>3, AppAssumption
  <2>7. Stands'
    BY <2>1, <2>2, <2>3, <2>4, <2>5, <2>6, <1>1, <1>3, <1>4 DEF Stands
  <2> QED BY <2>2, <2>7, <1>6
<1>8. CASE Collect(beat)
  <2>1. /\ beat # NoBeat /\ rxstate = "S_COLLECT" /\ pkt_buf' = Written(beat, byte_count)
        /\ held' = IF Len(held) < MAX_BEATS THEN Append(held, beat) ELSE held
        /\ byte_count' = (byte_count + Len(beat.units)) % COUNT_MOD
        /\ rxstate' = IF beat.last THEN "S_FIRE" ELSE "S_COLLECT"
    BY <1>8 DEF Collect
  <2>2. /\ pos.beat = 2 /\ held = <<BeatsOf(traffic[pos.frame])[1]>>
        /\ pkt_buf[0] = Unit(traffic[pos.frame], 0) /\ byte_count = BEAT_UNITS
        /\ Len(delivered) = 2 * OrdinaryBefore(pos.frame) /\ delivered' = delivered
    BY <2>1, <1>1, <1>3 DEF Stands, RxDrives
  <2>3. /\ pos.frame \in DOMAIN traffic /\ beat = BeatsOf(traffic[pos.frame])[2]
        /\ beat.last = TRUE
    BY <2>1, <2>2, <1>1, <1>5 DEF Moves
  <2>4. pos' = [frame |-> pos.frame + 1, beat |-> 1]
    BY <2>1, <2>3, <1>1 DEF Moves, RxReady
  <2>5. /\ Len(held') = 2
        /\ held'[1] = BeatsOf(traffic[pos.frame])[1]
        /\ held'[2] = BeatsOf(traffic[pos.frame])[2]
    <3>1. MAX_BEATS > 1
      BY AppAssumption, Ceiling DEF MAX_BEATS
    <3>2. MAX_BEATS \in Nat
      BY AppAssumption, Ceiling DEF MAX_BEATS
    <3>3. Len(held) = 1
      BY <2>2
    <3>4. held' = Append(held, beat)
      BY <3>1, <3>2, <3>3, <2>1
    <3>5. held \in Seq(Beats) /\ beat \in Beats
      BY <2>2, <2>3, <1>5
    <3> QED BY <3>3, <3>4, <3>5, <2>2, <2>3
  <2>6. pkt_buf'[0] = Unit(traffic[pos.frame], 0)
    <3>1. Received(beat, byte_count, traffic[pos.frame], At)
      BY <2>1, <1>1, Arrival DEF WireInv
    <3> QED BY <3>1, <2>1, <2>2, AppAssumption DEF Received
  <2>7. traffic[pos.frame].invoke => byte_count' # 0
    <3> SUFFICES ASSUME traffic[pos.frame].invoke PROVE byte_count' # 0
      OBVIOUS
    <3>1. traffic[pos.frame].units \in 1 .. MAX_UNITS
      BY <2>3, <1>2, <1>5 DEF InvocationsFit, Invocations, Frames
    <3>2. byte_count' = traffic[pos.frame].units % COUNT_MOD
      BY <2>1, <2>2, <2>3, <1>5
    <3> QED BY <3>1, <3>2, AppAssumption
  <2>8. Stands'
    <3>1. Previous' = pos.frame
      BY <2>4, <1>4 DEF Previous
    <3>2. HoldsPrevious'
      BY <2>3, <2>4, <2>5, <2>6, <3>1, <1>1 DEF HoldsPrevious
    <3> QED BY <2>1, <2>2, <2>3, <2>7, <3>1, <3>2, <1>1, <1>4 DEF Stands
  <2> QED BY <2>2, <2>8, <1>6
<1>9. CASE Fire(inv_busy)
  <2>1. /\ rxstate = "S_FIRE" /\ Matches /\ pkt_buf' = pkt_buf
        /\ IF inv_busy THEN UNCHANGED <<rxstate, byte_count, held>> ELSE rxstate' = "S_IDLE"
    BY <1>9 DEF Fire, Forget
  <2>2. pos' = pos /\ delivered' = delivered
    BY <2>1, <1>1 DEF Moves, RxReady, RxDrives
  <2>3. /\ HoldsPrevious /\ Len(delivered) = 2 * OrdinaryBefore(Previous)
        /\ traffic[Previous].invoke => byte_count # 0
    BY <2>1, <1>3 DEF Stands
  <2>4. Previous' = Previous /\ Previous \in DOMAIN traffic /\ pos.frame = Previous + 1
    BY <2>2, <2>3, <1>4 DEF Previous, HoldsPrevious
  <2>5. traffic[Previous].invoke
    BY <2>1, <2>3 DEF Matches, HoldsPrevious, Unit
  <2>6. OrdinaryBefore(pos.frame) = OrdinaryBefore(Previous)
    BY <2>4, <2>5, <1>5, Counting
  <2>7. Stands'
    BY <2>1, <2>2, <2>3, <2>4, <2>6, <1>1, <1>4 DEF Stands, HoldsPrevious
  <2> QED BY <2>2, <2>7, <1>6
<1>10. CASE StartReplay
  <2>1. /\ rxstate = "S_FIRE" /\ ~Matches /\ rxstate' = "S_REPLAY" /\ replay_idx' = 1
        /\ UNCHANGED <<pkt_buf, held>>
    BY <1>10 DEF StartReplay
  <2>2. pos' = pos /\ delivered' = delivered
    BY <2>1, <1>1 DEF Moves, RxReady, RxDrives
  <2>3. /\ HoldsPrevious /\ Len(delivered) = 2 * OrdinaryBefore(Previous)
        /\ traffic[Previous].invoke => byte_count # 0
    BY <2>1, <1>3 DEF Stands
  <2>4. ~traffic[Previous].invoke
    BY <2>1, <2>3 DEF Matches, HoldsPrevious, Unit
  <2>5. HoldsPrevious' /\ Previous' = Previous
    BY <2>1, <2>2, <2>3, <1>1 DEF HoldsPrevious, Previous
  <2>6. Stands'
    BY <2>1, <2>2, <2>3, <2>4, <2>5, <1>1, <1>4 DEF Stands
  <2> QED BY <2>2, <2>6, <1>6
<1>11. CASE mready /\ Replay
  <2>1. rxstate = "S_REPLAY" /\ mready
    BY <1>11 DEF Replay
  <2>2. /\ HoldsPrevious /\ ~traffic[Previous].invoke /\ replay_idx \in {1, 2}
        /\ Len(delivered) = 2 * OrdinaryBefore(Previous) + replay_idx - 1
    BY <2>1, <1>3 DEF Stands
  <2> DEFINE b == replay_idx
             n == OrdinaryBefore(Previous)
             out == BeatsOf(traffic[Previous])[b]
  <2>3. /\ Previous \in DOMAIN traffic /\ Previous \in Nat \ {0} /\ pos.frame = Previous + 1
        /\ pos.beat = 1
    BY <2>2, <1>4, <1>5 DEF Previous, HoldsPrevious
  <2>4. n \in Nat /\ OrdinaryBefore(pos.frame) = n + 1 /\ Previous \in Ordinary
    BY <2>2, <2>3, Counting DEF Ordinary, Invocations
  <2>5. /\ held[b] = out /\ out \in Beats /\ Len(held) = 2 /\ out # NoBeat
        /\ (b = 1 => out.last = FALSE) /\ (b = 2 => out.last = TRUE)
    <3>1. /\ Len(held) = 2 /\ (b = 1 \/ b = 2)
          /\ held[1] = BeatsOf(traffic[Previous])[1] /\ held[2] = BeatsOf(traffic[Previous])[2]
      BY <2>2 DEF HoldsPrevious
    <3>2. out # NoBeat
      BY <2>2, <2>3, <1>5, TrafficAssumption DEF WireInv
    <3>3. out \in Beats /\ (b = 1 => out.last = FALSE) /\ (b = 2 => out.last = TRUE)
      BY <3>1, <2>3, <1>5
    <3>4. held[b] = out /\ Len(held) = 2
      BY <3>1
    <3> QED BY <3>2, <3>3, <3>4
  <2>6. delivered' = Append(delivered, out)
    BY <2>1, <2>5, <1>1 DEF RxDrives
  <2>7. pos' = pos
    BY <2>1, <1>1 DEF Moves, RxReady
  <2> HIDE DEF n, out
  <2>8. /\ delivered' \in Seq(Beats) /\ Len(delivered') = 2 * n + b
        /\ delivered'[2 * n + b] = out
        /\ \A i \in 1 .. 2 * n + b - 1 : delivered'[i] = delivered[i]
    BY <2>2, <2>4, <2>5, <2>6, <1>3 DEF n
  <2>9. Stands'
    <3>1. CASE b = 1
      <4>1. rxstate' = "S_REPLAY" /\ replay_idx' = 2 /\ UNCHANGED <<pkt_buf, held>>
        <5>1. held[replay_idx].last = FALSE /\ replay_idx # Len(held)
          BY <2>5, <3>1
        <5>2. /\ replay_idx' = replay_idx + 1 /\ UNCHANGED <<rxstate, byte_count, held>>
              /\ UNCHANGED pkt_buf
          BY <5>1, <1>11 DEF Replay
        <5> QED BY <5>2, <2>1, <3>1
      <4>2. HoldsPrevious' /\ Previous' = Previous
        BY <4>1, <2>2, <2>7, <1>1 DEF HoldsPrevious, Previous
      <4> QED BY <4>1, <4>2, <2>2, <2>8, <3>1, <1>1, <1>4 DEF Stands, n
    <3>2. CASE b = 2
      <4>1. rxstate' = "S_IDLE"
        BY <2>1, <2>5, <3>2, <1>11 DEF Replay, Forget
      <4> QED BY <4>1, <2>4, <2>7, <2>8, <3>2, <1>4 DEF Stands
    <3> QED BY <3>1, <3>2, <2>2
  <2>10. Placed'
    <3> SUFFICES ASSUME NEW f \in Ordinary, NEW c \in 1 .. 2,
                        2 * OrdinaryBefore(f) + c <= Len(delivered')
                 PROVE  delivered'[2 * OrdinaryBefore(f) + c] = BeatsOf(traffic[f])[c]
      BY <1>1, <1>4 DEF Placed
    <3>1. /\ f \in DOMAIN traffic /\ ~traffic[f].invoke /\ f \in Nat /\ f + 1 \in Nat
          /\ OrdinaryBefore(f) \in Nat /\ OrdinaryBefore(f + 1) = OrdinaryBefore(f) + 1
      <4>1. f \in DOMAIN traffic /\ ~traffic[f].invoke
        BY DEF Ordinary, Invocations
      <4>2. f \in Nat /\ f + 1 \in Nat
        BY <4>1, <1>5
      <4>3. OrdinaryBefore(f) \in Nat
        BY <4>2, Counting
      <4>4. OrdinaryBefore(f + 1) = OrdinaryBefore(f) + (IF traffic[f].invoke THEN 0 ELSE 1)
        BY <4>1, Counting
      <4> QED BY <4>1, <4>2, <4>3, <4>4
    <3>2. CASE f < Previous
      <4>1. OrdinaryBefore(f) + 1 <= n
        <5>1. f + 1 <= Previous /\ f + 1 \in Nat /\ Previous \in Nat
          BY <3>1, <3>2, <2>3
        <5>2. OrdinaryBefore(f + 1) <= OrdinaryBefore(Previous)
          BY <5>1, Counting
        <5> QED BY <5>2, <3>1 DEF n
      <4>2. 2 * OrdinaryBefore(f) + c \in 1 .. 2 * n + b - 1
        BY <4>1, <3>1, <2>2, <2>4
      <4>3. 2 * OrdinaryBefore(f) + c <= Len(delivered)
        BY <4>2, <2>2, <2>4 DEF n
      <4> QED BY <4>2, <4>3, <2>8, <1>3 DEF Placed
    <3>3. CASE f = Previous
      <4>1. CASE c = b
        BY <4>1, <3>3, <2>8 DEF n, out
      <4>2. CASE c # b
        <5>1. c = 1 /\ b = 2
          BY <4>2, <3>3, <2>2, <2>4, <2>8 DEF n
        <5>2. 2 * OrdinaryBefore(f) + c \in 1 .. 2 * n + b - 1
          BY <5>1, <3>3, <2>4 DEF n
        <5>3. 2 * OrdinaryBefore(f) + c <= Len(delivered)
          BY <5>2, <2>2, <2>4 DEF n
        <5> QED BY <5>2, <5>3, <2>8, <1>3 DEF Placed
      <4> QED BY <4>1, <4>2
    <3>4. CASE f > Previous
      <4>1. n + 1 <= OrdinaryBefore(f)
        BY <3>1, <3>4, <2>3, <2>4, Counting
      <4> QED BY <4>1, <3>1, <2>2, <2>4, <2>8
    <3> QED BY <3>1, <3>2, <3>3, <3>4, <2>3
  <2> QED BY <2>8, <2>9, <2>10
<1>12. CASE EndDrain(beat)
  BY <1>3, <1>12 DEF EndDrain, Stands
<1>13. CASE RxHold(beat, mready)
  <2>1. UNCHANGED <<rxstate, pkt_buf, byte_count, held, replay_idx>>
    BY <1>13 DEF RxHold
  <2>2. pos' = pos /\ delivered' = delivered
    BY <1>1, <1>3, <1>13 DEF RxHold, Moves, RxReady, RxDrives, Stands
  <2>3. Stands'
    BY <2>1, <2>2, <1>1, <1>3, <1>4 DEF Stands, HoldsPrevious, Previous
  <2> QED BY <2>2, <2>3, <1>6
<1> QED BY <1>1, <1>7, <1>8, <1>9, <1>10, <1>11, <1>12, <1>13 DEF RxStep

(* With frames of two beats, what is not an invocation passes unchanged.    *)
THEOREM OrdinaryFramesPass == Spec => []PassthroughUnchangedForTwo
<1> DEFINE I == WireInv /\ PassInv
<1>1. Init => I
  <2> SUFFICES ASSUME Init PROVE PassInv
    BY InitialWire
  <2>1. WireInv
    BY InitialWire
  <2>2. Len(delivered) = 2 * OrdinaryBefore(pos.frame)
    BY <2>1, Counting DEF Init
  <2>3. \A f \in Ordinary : OrdinaryBefore(f) \in Nat
    BY <2>1, Counting, TrafficFacts DEF Ordinary
  <2> QED BY <2>2, <2>3 DEF PassInv, Placed, Stands, Init, RxInit
<1>2. I /\ [Next]_vars => I'
  <2> SUFFICES ASSUME I, [Next]_vars PROVE I'
    OBVIOUS
  <2>1. CASE Next
    <3>1. PICK offered \in BOOLEAN, mready \in BOOLEAN, tready \in BOOLEAN,
               hostInvokes \in MayInvoke, finish \in MayFinish, nextbeat \in MayDrive :
            Tick(offered, mready, hostInvokes, finish, tready, nextbeat)
      BY <2>1 DEF Next
    <3>2. hostInvokes \in BOOLEAN /\ finish \in BOOLEAN
      BY DEF MayInvoke, MayFinish
    <3> QED BY <3>1, <3>2, WireStep, PassStep
  <2>2. CASE UNCHANGED vars
    <3>1. WireInv'
      BY <2>2 DEF vars, rxVars, envVars, WireInv
    <3>2. PassInv'
      BY <2>2 DEF vars, rxVars, envVars, PassInv, TwoBeatFrames, InvocationsFit, Invocations,
                  Placed, Stands, Ordinary, OrdinaryBefore, HoldsPrevious, Previous
    <3> QED BY <3>1, <3>2
  <2> QED BY <2>1, <2>2
<1>3. I => PassthroughUnchangedForTwo
  <2> SUFFICES ASSUME WireInv, TwoBeatFrames, InvocationsFit, Placed, Stands
               PROVE  /\ Len(delivered) <= 2 * OrdinaryBefore(pos.frame)
                      /\ rxstate = "S_IDLE" => Len(delivered) = 2 * OrdinaryBefore(pos.frame)
    BY DEF PassInv, PassthroughUnchangedForTwo, Placed
  <2>1. OrdinaryBefore(pos.frame) \in Nat
    BY Counting DEF WireInv, Places
  <2>2. CASE rxstate \in {"S_IDLE", "S_COLLECT"}
    BY <2>1, <2>2 DEF Stands
  <2>3. CASE rxstate \in {"S_FIRE", "S_REPLAY"}
    <3>1. /\ Previous \in DOMAIN traffic /\ Previous \in Nat /\ Previous <= pos.frame
          /\ pos.frame \in Nat /\ pos.frame = Previous + 1
      BY <2>3, TrafficFacts DEF Stands, HoldsPrevious, Previous, WireInv, Places
    <3>2. OrdinaryBefore(Previous) \in Nat
          /\ OrdinaryBefore(Previous) <= OrdinaryBefore(pos.frame)
      BY <3>1, Counting
    <3>3. ~traffic[Previous].invoke => OrdinaryBefore(pos.frame) = OrdinaryBefore(Previous) + 1
      BY <3>1, <3>2, Counting
    <3> QED BY <2>1, <2>3, <3>2, <3>3 DEF Stands
  <2> QED BY <2>2, <2>3 DEF Stands
<1> QED BY <1>1, <1>2, <1>3, PTL DEF Spec
=============================================================================
