-------------------------------- MODULE MCTop --------------------------------
(* TiaraTop for TLC.  Device 0 is the host, device 1 a peer.                *)
EXTENDS TiaraTop, MCPrograms

LDBad  == <<Ins("LOAD", 3, 2, 0, "ADD", 12)>>         \* device 3: there is none
CPY(n) == <<Ins("MEMCPY", 3, 2, 1, "ASYNC", n), NopWord>>

(* Every request waited for: loads, atomics, blocking copies.              *)
SyncPool == {INC, LD, LDPeer, CAA, CAS, CPYS, LOOP(2), JMP(2), MUL, WAITNOP}

(* Requests under way together: posted stores, async copies, what is        *)
(* waited for, to both engines.                                            *)
AsyncPool == {ST, STPeer, LD, CAA, CPY(1), CPY(7), WAITNOP}

TaskPrograms ==
    {p \in {Load(DEPTH, s) : s \in SeqsOf(SyncPool, 3)} : Structured(p)}
      \cup {Load(DEPTH, s) : s \in SeqsOf(AsyncPool, 4)}

(* One program for each way in which the requests under way disturb.       *)
StoreLoad    == {Load(DEPTH, <<ST, LD>>)}
TwoStores    == {Load(DEPTH, <<ST, ST>>)}
FullRing     == {Load(DEPTH, <<ST, ST, CPY(7), ST, ST>>)}
PeerStores   == {Load(DEPTH, <<STPeer, STPeer, CAA>>)}
CopyWait     == {Load(DEPTH, <<CPY(7), CPY(1), WAIT, NOP>>)}
LongShort    == {Load(DEPTH, <<CPY(7), ST>>)}
BadThenCopy  == {Load(DEPTH, <<LDBad, CPYS>>)}

SomeArgs == {<<1, 0>>, <<2, 1>>}
OneArg == {<<2, 0>>}
TwoWords == [e \in Engines |-> 2]
TwoSlots == [e \in Engines |-> 2]
SmallRings == [e \in Engines |-> IF e = "pdma" THEN 2 ELSE 1]
EvenLatency == [e \in Engines |-> 2]
MixedLatency == [e \in Engines |-> IF e = "pdma" THEN 4 ELSE 9]
SlowLatency == [e \in Engines |-> IF e = "pdma" THEN 8 ELSE 14]
=============================================================================
