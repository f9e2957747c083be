---------------------------- MODULE TiaraAppBlock ----------------------------
(***************************************************************************)
(* integration/corundum_app/rtl/mqnic_app_block.sv: the wire path, clocked *)
(* together.  Frames come in at the receive filter; what it takes for an   *)
(* invocation goes to the single-MP dispatcher, as do the host's own       *)
(* invocations; the dispatcher's done pulse builds a response, addressed   *)
(* by the identity registers of the filter, which shares the wire with the *)
(* host's frames.  The MP is reduced to its handshake: it works on the     *)
(* arguments of a start pulse and is done at any later time; its result    *)
(* and error flag are named by those arguments.                            *)
(***************************************************************************)
EXTENDS TiaraRxFilter, TiaraTxPath, SequencesExt

CONSTANTS Traffics,     \* the frame sequences the wire may bring
          HostArgs,     \* the arguments of a host invocation
          MaxHostTasks, \* bound: host invocations per behaviour
          NoInvocation, NoTask

(* A beat has 16 or 64 bytes, the frame buffer 96, the counter 7 bits.     *)
ASSUME AppAssumption ==
    /\ BEAT_UNITS \in Nat \ {0} /\ MAX_UNITS \in Nat /\ COUNT_MOD \in Nat
    /\ BEAT_UNITS < MAX_UNITS /\ MAX_UNITS < COUNT_MOD
    /\ NBEATS \in Nat \ {0} /\ Nobody \notin {0, 1}
    /\ MaxHostTasks \in Nat

(* The frames of a traffic are named by their place in it, and have data;   *)
(* the names of other things are not theirs.                               *)
ASSUME TrafficAssumption ==
    \A t \in Traffics :
        /\ t \in Seq([id : Nat, invoke : BOOLEAN, units : Nat \ {0}])
        /\ \A f \in DOMAIN t :
             /\ t[f].id = f
             /\ HostArgs # ArgsOf(t[f])
             /\ \A b \in DOMAIN BeatsOf(t[f]) : BeatsOf(t[f])[b] # NoBeat

VARIABLES
    mp,                 \* the arguments the MP works on, or NoTask
    task_done, task_result, task_err,
    dstate, start, inv_busy, done,
    hostbeat,           \* what the host drives on input 1: NoBeat, "mid" or "last"
    hostTasks,          \* bound: host invocations so far
    traffic, pos,       \* the frames of the wire, the beat it drives next
    delivered,          \* the beats the NIC behind the filter has taken
    open,               \* the input whose frame has begun on the wire and not ended
    answered            \* the responses sent, in order

D == INSTANCE TiaraDispatcher WITH NUM_ARGS <- MAX_UNITS - 1

mpVars == <<mp, task_done, task_result, task_err>>
envVars == <<hostbeat, hostTasks, traffic, pos, delivered, open, answered>>
vars == <<rxVars, txVars, mpVars, D!dispatchVars, envVars>>

Init ==
    /\ RxInit /\ D!DispatchInit /\ TxInit(done.result)
    /\ mp = NoTask /\ task_done = FALSE /\ task_err = FALSE
    /\ task_result = done.result
    /\ hostbeat = NoBeat /\ hostTasks = 0
    /\ traffic \in Traffics /\ pos = [frame |-> 1, beat |-> 1]
    /\ delivered = <<>> /\ open = Nobody /\ answered = <<>>

(* tiara_inv_valid and tiara_inv_args: the wire has priority.              *)
Invocation(hostInvokes) ==
    IF inv.valid THEN inv.args ELSE IF hostInvokes THEN HostArgs ELSE NoInvocation

(* The MP's task handshake.                                                *)
MPStep(finish) ==
    LET ends == mp # NoTask /\ finish
    IN  /\ mp' = IF start.valid /\ mp = NoTask THEN start.args
                 ELSE IF ends THEN NoTask ELSE mp
        /\ task_done' = ends
        /\ task_result' = IF ends THEN mp ELSE task_result
        /\ UNCHANGED task_err

(* The wire's beat, if it drives one, moves on when the filter takes it.   *)
WireBeat(offered) ==
    IF offered /\ pos.frame <= Len(traffic) THEN BeatsOf(traffic[pos.frame])[pos.beat] ELSE NoBeat
WireMoves(beat, mready) ==
    pos' = IF beat = NoBeat \/ ~RxReady(mready) THEN pos
           ELSE IF beat.last THEN [frame |-> pos.frame + 1, beat |-> 1]
           ELSE [pos EXCEPT !.beat = @ + 1]

(* The beat the arbiter passes: a response's, the host's, or none.         *)
Passing == Picked(hostbeat # NoBeat)
WireTakes(tready, nextbeat) ==
    LET taken0 == Passing = 0 /\ s0_tvalid /\ tready
        taken1 == Passing = 1 /\ hostbeat # NoBeat /\ tready
    IN  /\ open' = IF taken0 THEN IF s0_tlast THEN Nobody ELSE 0
                   ELSE IF taken1 THEN IF hostbeat = "last" THEN Nobody ELSE 1
                   ELSE open
        /\ answered' = IF taken0 /\ s0_tlast THEN Append(answered, pkt) ELSE answered
        /\ hostbeat' = IF hostbeat = NoBeat \/ taken1 THEN nextbeat ELSE hostbeat

(* One clock edge.                                                         *)
Tick(offered, mready, hostInvokes, finish, tready, nextbeat) ==
    LET beat == WireBeat(offered)
        drives == RxDrives(beat)
    IN  /\ RxStep(beat, mready, inv_busy)
        /\ D!Dispatch(Invocation(hostInvokes))
        /\ MPStep(finish)
        /\ TxStep(done.valid, inv.id, done.result,
                  hostbeat # NoBeat, hostbeat = "last", tready)
        /\ WireMoves(beat, mready)
        /\ delivered' = IF mready /\ drives # NoBeat THEN Append(delivered, drives) ELSE delivered
        /\ WireTakes(tready, nextbeat)
        /\ hostTasks' = IF hostInvokes THEN hostTasks + 1 ELSE hostTasks
        /\ UNCHANGED traffic

(* The inputs of a cycle; those that nobody looks at have one value.       *)
MayInvoke == IF hostTasks < MaxHostTasks THEN BOOLEAN ELSE {FALSE}
MayFinish == IF mp # NoTask THEN BOOLEAN ELSE {FALSE}
MayDrive == IF hostbeat = NoBeat \/ Passing = 1 THEN {NoBeat, "mid", "last"} ELSE {NoBeat}

Next ==
    \E offered, mready, tready \in BOOLEAN,
       hostInvokes \in MayInvoke, finish \in MayFinish, nextbeat \in MayDrive :
        Tick(offered, mready, hostInvokes, finish, tready, nextbeat)

(* Nobody holds anything back.                                             *)
Forthcoming ==
    Tick(TRUE, TRUE, FALSE, TRUE, TRUE, IF open = 1 \/ hostbeat = "mid" THEN "last" ELSE NoBeat)

Spec == Init /\ [][Next]_vars
FairSpec == Spec /\ WF_vars(Forthcoming)
-----------------------------------------------------------------------------
Invocations == {f \in DOMAIN traffic : traffic[f].invoke}
Ordinary == DOMAIN traffic \ Invocations
OrdinaryBefore(n) == Cardinality({f \in Ordinary : f < n})
Arrived == {f \in DOMAIN traffic : f < pos.frame \/ (f = pos.frame /\ pos.beat > 1)}
FrameIds == UNION {DOMAIN t : t \in Traffics}
AnsweredRight(f) ==
    \E i \in DOMAIN answered : answered[i].id = f /\ answered[i].result = ArgsOf(traffic[f])
AnsweredIds == {answered[i].id : i \in DOMAIN answered}

(* Circumstances the properties name.                                      *)
TwoBeatFrames == \A f \in DOMAIN traffic : DOMAIN BeatsOf(traffic[f]) = 1 .. 2
InvocationsFit == \A f \in Invocations : traffic[f].units <= MAX_UNITS
OneRequestAtATime == Cardinality((Invocations \cap Arrived) \ AnsweredIds) <= 1
HostIsQuiet == hostTasks = 0
LongHostFrames == hostbeat = "last" => open = 1

TypeOK ==
    /\ rxstate \in {"S_IDLE", "S_COLLECT", "S_FIRE", "S_REPLAY", "S_DRAIN_PT"}
    /\ byte_count \in 0 .. COUNT_MOD - 1 /\ Len(held) \in 0 .. MAX_BEATS
    /\ replay_idx \in 1 .. MAX_BEATS
    /\ tstate \in {"T_IDLE", "T_DRIVE"} /\ beat_idx \in 0 .. NBEATS - 1
    /\ astate \in {"A_IDLE", "A_S0", "A_S1"} /\ open \in {0, 1, Nobody}
    /\ inv.valid \in BOOLEAN /\ inv.id \in 0 .. Len(traffic)
    /\ dstate \in {"D_IDLE", "D_RUN", "D_OUT"}

(* Frames that are not invocations go through the filter in order, whole    *)
(* and unchanged, as long as every frame has two beats and no invocation is *)
(* longer than the buffer: what has been delivered are the beats of the     *)
(* ordinary frames, each at its place, and when the filter is idle none is  *)
(* missing (tiara_rx_filter.sv 5-9, 178-286).                              *)
PassthroughUnchangedForTwo ==
    TwoBeatFrames /\ InvocationsFit =>
        /\ \A f \in Ordinary, b \in 1 .. 2 :
             LET place == 2 * OrdinaryBefore(f) + b
             IN  place <= Len(delivered) => delivered[place] = BeatsOf(traffic[f])[b]
        /\ Len(delivered) <= 2 * OrdinaryBefore(pos.frame)
        /\ rxstate = "S_IDLE" => Len(delivered) = 2 * OrdinaryBefore(pos.frame)

(* Frames that are not invocations pass the filter unchanged, whatever      *)
(* their length (docs/WIRE_PROTOCOL.md:88): what is delivered is made of   *)
(* ordinary frames, in order.                                              *)
PassthroughUnchanged ==
    LET ordinary == SelectSeq(traffic, LAMBDA f : ~f.invoke)
    IN  IsPrefix(delivered, FlattenSeq([i \in DOMAIN ordinary |-> BeatsOf(ordinary[i])]))

(* When a wire task is done, the identity its response takes is its own,    *)
(* unless a later invocation waits in the filter and has overwritten it    *)
(* (tiara_rx_filter.sv 231-254, tiara_tx_resp.sv 74-107).                  *)
EchoUnlessOvertaken ==
    done.valid =>
        \A f \in Invocations :
            done.result = ArgsOf(traffic[f]) =>
                inv.id = f \/ (rxstate = "S_FIRE" /\ Matches /\ inv.id > f)

(* A response names the request it answers: its task_id is echoed           *)
(* (docs/WIRE_PROTOCOL.md:25, 44).                                         *)
ResponseEchoes ==
    s0_tvalid => \A f \in Invocations : pkt.result = ArgsOf(traffic[f]) => pkt.id = f

(* The filter looked at busy a cycle before its pulse; the pulse finds the  *)
(* dispatcher taken only when the host got in between                      *)
(* (tiara_rx_filter.sv 248-249, mqnic_app_block.sv 932-942).               *)
DroppedOnlyByHost ==
    inv.valid /\ dstate # "D_IDLE" => start.valid /\ start.args = HostArgs

(* Per-frame arbitration: no beat of one input between the beats of a frame *)
(* of the other (tiara_tx_arb.sv 4-5, 58-90).                              *)
FramesNotInterleaved ==
    /\ Passing = 0 /\ s0_tvalid => open # 1
    /\ Passing = 1 /\ hostbeat # NoBeat => open # 0

(* A client that waits for each answer gets, for every request, a response  *)
(* with that request's identity and result, provided the host invokes      *)
(* nothing, sends no frame of one beat (after one the arbiter stays with   *)
(* the host), and the frames received have two beats.                      *)
ClientsAreAnswered ==
    TwoBeatFrames /\ [](OneRequestAtATime /\ HostIsQuiet /\ LongHostFrames)
        => \A f \in FrameIds : f \in Invocations /\ f < pos.frame ~> AnsweredRight(f)
=============================================================================
