----------------------------- MODULE MCAppBlock -----------------------------
(* TiaraAppBlock for TLC: the 512-bit build, where a beat is two units.     *)
EXTENDS TiaraAppBlock

(* Invocations, and other frames of one, two and three beats.               *)
Invocation3 == [invoke |-> TRUE, units |-> 3]
OtherFrame(u) == [invoke |-> FALSE, units |-> u]
Numbered(shapes) ==
    [i \in DOMAIN shapes |-> [id |-> i, invoke |-> shapes[i].invoke, units |-> shapes[i].units]]

(* Two frames of any length, or an invocation and two frames of two beats.  *)
WireTraffics ==
    {Numbered(s) : s \in [1 .. 2 -> {Invocation3} \cup {OtherFrame(u) : u \in {2, 4, 6}}]
                    \cup {<<Invocation3>> \o t : t \in [1 .. 2 -> {Invocation3, OtherFrame(4)}]}}
=============================================================================
