------------------------------- MODULE MCTask -------------------------------
(* TiaraTask for TLC: the dispatcher and the MP on an arbitrary memory.     *)
EXTENDS TiaraTask, MCPrograms

(* r1 is the only argument; addresses and counts are r1.                    *)
Pool == {<<Ins("LOAD", 2, 1, 0, "ADD", 0)>>, <<Ins("STORE", 0, 1, 2, "ADD", 1)>>,
         <<Ins("CAA", 2, 1, 1, "ADD", 0), NopWord>>,
         <<Ins("MEMCPY", 2, 1, 1, "ASYNC", 1), NopWord>>,
         <<Ins("COMPUTE", 1, 1, 1, "MUL", 0)>>,
         LOOP(2), JMP(2), WAITNOP, BAD, RET}
OpenPrograms == {Load(DEPTH, s) : s \in SeqsOf(Pool, 2)}
OpenArgs == {<<0>>, <<2>>}

Port(pulses, data, err) ==
    [ready |-> "ready" \in pulses, sync_valid |-> "sync" \in pulses,
     sync_data |-> data, sync_err |-> err, cpy_accept |-> "accept" \in pulses,
     cpy_done |-> "done" \in pulses, cpy_err |-> err]
OpenPorts ==
    {Port(p, 0, FALSE) : p \in {{}, {"ready"}, {"accept"}, {"accept", "done"}}}
      \cup {Port({"ready", "sync", "done"}, 3, e) : e \in BOOLEAN}
=============================================================================
